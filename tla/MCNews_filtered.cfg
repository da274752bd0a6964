\* The same feed in a second task.
SPECIFICATION Spec
CONSTANTS
  a = a b = b c = c d = d e = e q1 = q1 q2 = q2 q3 = q3 u = u t1 = t1 t2 = t2
  Item = {a, e}
  Stock = {u}
  Mentioned <- MCMentioned
  MinNews = 1
  MaxEach = 1
  Query = {q1}
  Feed <- MCFeed
  Nature <- MCNature
  Rank <- MCRank
  MaxNews = 2
  MaxConcurrent = 1
  MaxScrapes = 2
  MaxMishaps = 1
  Task = {t1}
  MaxSummaries = 1
PROPERTY FilteredAreNew
CHECK_DEADLOCK FALSE
