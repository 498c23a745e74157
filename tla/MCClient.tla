------------------------------ MODULE MCClient ------------------------------
(* Model values and bounds for the runs of ScanClient. *)
EXTENDS ScanClient, TLC

CONSTANTS s1, s2

Symmetry == Permutations(Scans)
=============================================================================
