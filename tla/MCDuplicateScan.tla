--------------------------- MODULE MCDuplicateScan ---------------------------
(* Instances of DuplicateScan for TLC.                                     *)
EXTENDS DuplicateScan

\* Bound: no two cancel requests at the same time.
Cancelling == {s \in Scans : cancelPc[s] \notin {"idle", "over"}}

MCScanSpec ==
    /\ ScanInit /\ [][ScanNext /\ Cardinality(Cancelling') <= 1]_scanVars
    /\ ScanFairness

=============================================================================
