\* A task that runs past the timeout of its job.
SPECIFICATION Spec
CONSTANTS
  j1 = j1 s1 = s1 s2 = s2 h1 = h1 h2 = h2 h3 = h3
  even = even Null = Null
  Job = {j1}
  Schedule = {s1}
  History = {h1, h2}
  Cron = {even}
  StreamMaxLen = 0
  MaxConcurrentTasks = 1
  MaxMishaps = 0
INVARIANT TimeoutIsMarked
CHECK_DEADLOCK FALSE
