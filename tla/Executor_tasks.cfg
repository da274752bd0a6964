\* Crashes, stops and failures with more tasks than slots, and jobs and schedules
\* that are edited meanwhile.
SPECIFICATION FairSpec
CONSTANTS
  j1 = j1 s1 = s1 s2 = s2 h1 = h1 h2 = h2 h3 = h3
  even = even Null = Null
  Job = {j1}
  Schedule = {s1}
  History = {h1, h2}
  Cron = {even}
  StreamMaxLen = 0
  MaxConcurrentTasks = 1
  MaxMishaps = 3
INVARIANTS SlotsAccounted EndedIsRecorded Referential
PROPERTIES FinalIsFinal PoolSpec TaskSettles
CHECK_DEADLOCK FALSE
