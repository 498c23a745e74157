SPECIFICATION MCSpec
CONSTANTS
  Bars <- mc_Bars
  Windows <- mc_Windows
  Contexts <- mc_Contexts
  MinDuration = 2
  Freshness = 2
  MaxDays = 6
  ExpiryBars = 3
  MinPrice = 20
  MaxFailures = 0
  EngineBars <- mc_EngineBars
  EngineDays = 6
  Lengths <- mc_Lengths
INVARIANTS
  MCTypeOK SignalIsTradable LevelTestsAgree SignalIsListed
  BetterChartsRankHigher ShutGateContracts
PROPERTIES RepeatedSignalsRise PastStays
CHECK_DEADLOCK FALSE
