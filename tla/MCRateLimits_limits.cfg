\* Two goroutines, prompts smaller and larger than the budget, two refill periods.
SPECIFICATION FairSpec
CONSTANTS
  c1 = c1 c2 = c2
  Caller = {c1, c2}
  Uses <- MCUses
  Capacity = 2
  MaxNeed = 3
  Period = 2
  Gap = 1
  Timeout = 3
  MaxClock = 4
INVARIANTS TypeOK TwicePerPeriod WithinRate
PROPERTIES OnlyCrowdedOut CallEnds
CHECK_DEADLOCK FALSE
