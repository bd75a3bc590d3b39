--------------------------- MODULE MCMailboxImport ---------------------------
(* Small instances of MailboxImport: two workers on one mailbox row and, when *)
(* MaxRows is 2, on the row that replaces it.                                *)
EXTENDS MailboxImport, TLC

Symmetry == Permutations(Workers)
=============================================================================
