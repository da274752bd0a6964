\* A PUT or DELETE request while the poller publishes the schedule.
SPECIFICATION Spec
CONSTANTS
  j1 = j1 s1 = s1 s2 = s2 h1 = h1 h2 = h2 h3 = h3 h4 = h4 h5 = h5 c1 = c1
  even = even twice = twice six = six Null = Null
  Job = {j1}
  Schedule = {s1}
  History = {h1, h2}
  Cron = {even}
  Client = {c1}
  Parsable <- MCParsable
  NextFire <- MCNextFire
  StreamMaxLen = 2
  MaxClock = 2
  MaxFaults = 0
PROPERTY PublishKeepsEdits
CHECK_DEADLOCK FALSE
