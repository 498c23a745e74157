SPECIFICATION Spec
CONSTANTS
  s1 = s1
  s2 = s2
  s3 = s3
  Scans = {s1, s2}
  MaxRuns = 1
  Batches = 0
  TTL = 2
  Env = {"worker", "stop", "expiry", "errors", "crash"}
CHECK_DEADLOCK FALSE
INVARIANTS NoSilentEnd CancelledIsStopped
PROPERTIES  SerialWhileUndisturbed
