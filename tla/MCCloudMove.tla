----------------------------- MODULE MCCloudMove -----------------------------
(* Instances of CloudMove for TLC.                                         *)
EXTENDS CloudMove, TLC

MoveSymmetry == Permutations(Dirs) \cup Permutations(Names) \cup Permutations(Requests)

=============================================================================
