---------------------------- MODULE ScanService ----------------------------
(***************************************************************************)
(* What the trigger endpoint promises its users of a single scan: it is    *)
(* worked on once at most, and what is over stays over.  That scans do not *)
(* overlap is not part of it: the lock cannot promise it.                  *)
(***************************************************************************)
CONSTANT Scans

VARIABLE phase

TypeOK == phase \in [Scans -> {"waiting", "working", "over"}]

Init == phase = [s \in Scans |-> "waiting"]

Begin(s) ==
  /\ phase[s] = "waiting"
  /\ phase' = [phase EXCEPT ![s] = "working"]

End(s) ==
  /\ phase[s] = "working"
  /\ phase' = [phase EXCEPT ![s] = "over"]

(* A scan that never gets to its pipeline. *)
Drop(s) ==
  /\ phase[s] = "waiting"
  /\ phase' = [phase EXCEPT ![s] = "over"]

Next == \E s \in Scans : Begin(s) \/ End(s) \/ Drop(s)

Spec == Init /\ [][Next]_phase
=============================================================================
