SPECIFICATION MCSpec
CONSTANTS
  nA = nA
  bA = bA
  bB = bB
  u1 = u1
  u2 = u2
  beat = beat
  Nse = {nA}
  Bse = {bA, bB}
  Isin <- MCIsin
  Lists <- MCLists
  Members <- MCMembers
  Syncs = {u1, u2}
  Beat = beat
  UserPhases <- MCUserPhases
  BatchSize = 1
  Workers = 2
  MaxFaults = 1
  MaxAges = 1
  cA = cA  cB = cB  cC = cC  code = code
  Companies = {cA, cB, cC}
  Movers = {cB}
  BseListed = {cA, cB, cC}
  BseSymbol <- mc_BseSymbol
  Static = {cA}
  Restricted = {cA}
  Master <- mc_Master
  MasterEnough = 2
  NseEnough = 2
  BseEnough = 2
  x1 = x1  x2 = x2
  Scans = {x1, x2}
  Pooled = {x1}
  ListTTL = 2
  r1 = r1  r2 = r2
  Readers = {r1, r2}
  Requests <- mc_Requests
  Intraday = {"60m"}
  IntradayTTL = 1
  DailyTTL = 3
  DayHours = 3
  ClosingHour = 2
  MaxHours = 8
  p1 = p1  p2 = p2
  Polls = {p1, p2}
  Timeout <- mc_Timeout
  PriceTTL = 2
  Threads = 1
INVARIANTS
  MCTypeOK FnoStands ListingsArrive OneFeed BarsKeepUp PriceIsRecent
PROPERTIES QueueDrains StatusSettles
CHECK_DEADLOCK FALSE
