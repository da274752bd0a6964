\* Both services, from the poll to the outcome, with one failure of either,
\* under fairness of every goroutine.
SPECIFICATION FairSystem
CONSTANTS
  j1 = j1 s1 = s1 h1 = h1 h2 = h2 h3 = h3
  even = even Null = Null
  Job = {j1}
  Schedule = {s1}
  History = {h1, h2, h3}
  Cron = {even}
  Client = {}
  Parsable = {even}
  NextFire <- MCNextFire
  StreamMaxLen = 1
  MaxClock = 2
  MaxFaults = 1
  MaxConcurrentTasks = 1
INVARIANTS SystemTypeOK SlotRunsOnce RunningIsInHand
PROPERTIES DueIsServed RunningEnds
CHECK_DEADLOCK FALSE
