SPECIFICATION Spec
CONSTANTS
  s1 = s1
  s2 = s2
  s3 = s3
  Scans = {s1, s2}
  MaxRuns = 1
  Batches = 1
  TTL = 1
  Env = {"worker"}
CHECK_DEADLOCK FALSE
INVARIANT OneScanAtATime
