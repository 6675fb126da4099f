-------------------------- MODULE MCDocumentEditing --------------------------
(* Instances of DocumentEditing for TLC.                                   *)
EXTENDS DocumentEditing, TLC

EditSymmetry == Permutations(Requests) \cup Permutations(Texts)

=============================================================================
