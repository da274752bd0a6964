\* The poller against the API, the clock, a failure and a crash, with three tasks
\* on a stream of two.
SPECIFICATION Spec
CONSTANTS
  j1 = j1 s1 = s1 s2 = s2 h1 = h1 h2 = h2 h3 = h3 c1 = c1
  even = even twice = twice six = six Null = Null
  Job = {j1}
  Schedule = {s1, s2}
  History = {h1, h2, h3}
  Cron = {twice}
  Client = {c1}
  Parsable <- MCParsable
  NextFire <- MCNextFire
  StreamMaxLen = 2
  MaxClock = 4
  MaxFaults = 1
SYMMETRY Symmetry
INVARIANTS OneTaskPerSlot RunningHasTask Referential
CHECK_DEADLOCK FALSE
