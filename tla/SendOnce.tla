------------------------------ MODULE SendOnce ------------------------------
(***************************************************************************)
(* What claiming a send by its idempotency key promises, with no process,  *)
(* table or transaction in sight.  A slot is a mailbox and a key under it. *)
(* Whatever is repeated, interrupted or restarted, at most one copy of a   *)
(* slot's mail is ever taken by the provider, and a slot that says "sent"  *)
(* or "failed" says so for good and on evidence.                           *)
(***************************************************************************)
EXTENDS FiniteSets

CONSTANTS Slots,     \* a mailbox and an idempotency key
          Attempts   \* the requests that may hand a copy to the provider

VARIABLES state,     \* what is recorded of the slot
          copies     \* the attempts whose copy the provider took

vars == <<state, copies>>

States == {"free", "open", "unknown", "sent", "failed", "erased"}

Init == /\ state = [s \in Slots |-> "free"]
        /\ copies = [s \in Slots |-> {}]

Claim(s) == /\ state[s] = "free"
            /\ state' = [state EXCEPT ![s] = "open"]
            /\ UNCHANGED copies

\* The provider takes one copy of some slots' mail: each was claimed and is
\* not settled, and none had a copy before.
Deliver == /\ UNCHANGED state
           /\ copies' \in [Slots -> SUBSET Attempts]
           /\ \A s \in Slots :
                copies'[s] # copies[s] =>
                  /\ state[s] \in {"open", "unknown", "erased"}
                  /\ copies[s] = {}
                  /\ \E a \in Attempts : copies'[s] = {a}

\* The evidence of some open sends is given up.
Interrupt == /\ \E S \in SUBSET {s \in Slots : state[s] = "open"} :
                  state' = [s \in Slots |-> IF s \in S THEN "unknown" ELSE state[s]]
             /\ UNCHANGED copies

Settle(s) == /\ state[s] \in {"open", "unknown"}
             /\ \/ /\ copies[s] # {}
                   /\ state' = [state EXCEPT ![s] = "sent"]
                \/ /\ copies[s] = {}
                   /\ state' = [state EXCEPT ![s] = "failed"]
             /\ UNCHANGED copies

\* A deleted mailbox takes the records of its slots with it.
Erase == /\ \E S \in SUBSET Slots :
              state' = [s \in Slots |-> IF s \in S THEN "erased" ELSE state[s]]
         /\ UNCHANGED copies

Next == Deliver \/ Interrupt \/ Erase \/ \E s \in Slots : Claim(s) \/ Settle(s)

Spec == Init /\ [][Next]_vars
=============================================================================
