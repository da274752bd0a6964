\* Reader and retrier on one position, which its user may close, change or delete.
SPECIFICATION FairSpec
CONSTANTS
  p1 = p1 u1 = u1 Null = Null
  Position = {p1}
  User = {u1}
  OwnerOf <- MCOwnerOf
  Portfolio <- MCPortfolio
  MaxPrice = 3
  MaxEntries = 2
  MaxRetry = 3
  MaxMishaps = 1
INVARIANTS TypeOK OneRow TriggeredIsSent
PROPERTIES QueueSpec EntrySettles
CHECK_DEADLOCK FALSE
