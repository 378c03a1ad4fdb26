--------------------------- MODULE MCSyncRoutine ----------------------------
(***************************************************************************)
(* Instances of SyncRoutine for TLC.                                       *)
(***************************************************************************)
EXTENDS SyncRoutine, TLC

CONSTANTS a1, a2, c1, c2, c3

\* Names that behave alike may be exchanged in runs without liveness.
Interchangeable == Permutations({a1, a2}) \cup Permutations({c1, c2, c3})
=============================================================================
