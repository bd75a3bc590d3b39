------------------------------- MODULE MCGmail -------------------------------
(* Requests, the tokens Google issues and the clients differ in nothing. *)
EXTENDS Gmail, TLC

MCGmailSymmetry == Permutations(Workers) \cup Permutations(Grants)
=============================================================================
