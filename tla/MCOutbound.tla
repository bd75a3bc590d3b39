---------------------------- MODULE MCOutbound ----------------------------
(* Small instances of Outbound: mailboxes of two organizations that share *)
(* one idempotency key; which calls race is left to the initial states.   *)
EXTENDS Outbound, TLC

CONSTANTS Foreign, ours, theirs   \* Foreign: the mailboxes of the organization theirs

MCOrgs == {ours, theirs}
MCOrgOf == [m \in Mailboxes |-> IF m \in Foreign THEN theirs ELSE ours]

Symmetry == Permutations(Calls) \cup Permutations(Processes)
=============================================================================
