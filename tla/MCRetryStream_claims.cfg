\* Reader, retrier and time, with as many malformed entries before the last one as
\* leave it a tick, under fairness of both goroutines.
SPECIFICATION FairSpec
CONSTANTS
  MaxEntries = 4
  Malformed <- Middle
  Notified <- First
  Timeout = 1
  MaxIdle = 3
  Interval = 1
  MaxRetry = 4
  MaxMishaps = 1
INVARIANTS TypeOK SharedOnlyLate NothingLost OneOutcome RetriesBounded
PROPERTIES QueueSpec EntrySettles
CHECK_DEADLOCK FALSE
