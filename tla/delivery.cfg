SPECIFICATION FairSpec
CONSTANTS
  s1 = s1  s2 = s2
  c1 = c1  c2 = c2
  r1 = r1  r2 = r2
  Symbols = {s1, s2}
  Clients = {c1, c2}
  Readers = {r1, r2}
  Setups <- MCSetups
  MaxLate = 1
  MaxDeaf = 1
CHECK_DEADLOCK FALSE
INVARIANTS TypeOK FoundIsStored StopIsPrompt EventsInOrder
           NothingSkipped BustLeavesNothing AnswersAgree
PROPERTIES QuietAfterEnd TaskEnds EveryoneHears FreshForGood
