-------------------------- MODULE MCMessageActions --------------------------
(* Messages differ in nothing. *)
EXTENDS MessageActions, TLC

MCActionSymmetry == Permutations(Messages)
=============================================================================
