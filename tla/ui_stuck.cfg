SPECIFICATION FairSpec
CONSTANTS
  s1 = s1
  s2 = s2
  Scans = {s1}
  NoScan = NoScan
  Batches = 1
  MaxWire = 2
  Env = {"stop"}
CHECK_DEADLOCK FALSE
PROPERTY UIExits
