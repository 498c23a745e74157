------------------------------- MODULE MCScan -------------------------------
(* Model values and bounds for the runs of ScanLifecycle. *)
EXTENDS ScanLifecycle, TLC

CONSTANTS s1, s2, s3

Symmetry == Permutations(Scans)
=============================================================================
