SPECIFICATION Spec
CONSTANTS
  nA = nA
  bA = bA
  bB = bB
  u1 = u1
  u2 = u2
  beat = beat
  Nse = {nA}
  Bse = {}
  Isin <- MCIsin
  Lists <- MCLists
  Members <- MCMembers
  Syncs = {u1, u2}
  Beat = beat
  UserPhases <- MCUserPhases
  BatchSize = 1
  Workers = 2
  MaxFaults = 0
  MaxAges = 0
PROPERTY MissingFileKeepsFlags
