--------------------------- MODULE MCMessageWatch ---------------------------
(* Two messages of one mailbox and one of another. *)
EXTENDS MessageWatch, TLC

CONSTANTS first, second, third, sales, office

MCMailboxOf == [m \in {first, second, third} |-> IF m = third THEN office ELSE sales]

Alike == Permutations({first, second}) \cup Permutations(Imports)
=============================================================================
