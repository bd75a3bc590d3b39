------------------------------ MODULE MCDrafts ------------------------------
(* The drafts of an instance differ in nothing, so one of them may be taken *)
(* as written already.                                                      *)
EXTENDS Drafts

MCInit == Init /\ life[CHOOSE d \in DraftIds : TRUE] = "kept"
MCSpec == MCInit /\ [][Next]_vars /\ Fairness
=============================================================================
