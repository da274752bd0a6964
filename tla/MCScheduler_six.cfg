\* The six-field expression of the README's example.
SPECIFICATION Spec
CONSTANTS
  j1 = j1 s1 = s1 s2 = s2 h1 = h1 h2 = h2 h3 = h3 h4 = h4 h5 = h5 c1 = c1
  even = even twice = twice six = six Null = Null
  Job = {j1}
  Schedule = {s1}
  History = {h1, h2}
  Cron = {six}
  Client = {}
  Parsable <- MCParsable
  NextFire <- MCNextFire
  StreamMaxLen = 2
  MaxClock = 2
  MaxFaults = 0
INVARIANT OncePerHour
CHECK_DEADLOCK FALSE
