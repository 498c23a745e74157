SPECIFICATION Spec
CONSTANTS
  s1 = s1
  s2 = s2
  Scans = {s1, s2}
  NoScan = NoScan
  Batches = 1
  MaxWire = 1
  Env = {"others", "conflict", "errors", "drop"}
CHECK_DEADLOCK FALSE
SYMMETRY Symmetry
INVARIANTS ShowsItsScan
PROPERTY KeepsShowing
