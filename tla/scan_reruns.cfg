SPECIFICATION FairSpec
CONSTANTS
  s1 = s1
  s2 = s2
  s3 = s3
  Scans = {s1}
  MaxRuns = 2
  Batches = 1
  TTL = 2
  Env = {"worker", "scheduled", "stop", "expiry", "redis", "lookup", "errors", "outage", "crash", "rerun"}
CHECK_DEADLOCK FALSE
INVARIANTS TypeOK CompleteIsFinal
PROPERTIES NeverBackToPending EveryScanFinishes LockIsFreed
