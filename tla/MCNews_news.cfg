\* Three queries, two with an item in common, two overlapping summaries of one stock.
SPECIFICATION FairSpec
CONSTANTS
  a = a b = b c = c d = d e = e q1 = q1 q2 = q2 q3 = q3 u = u t1 = t1 t2 = t2
  Item = {a, b, c, d, e}
  Stock = {u}
  Mentioned <- MCMentioned
  MinNews = 1
  MaxEach = 2
  Query = {q1, q2, q3}
  Feed <- MCFeed
  Nature <- MCNature
  Rank <- MCRank
  MaxNews = 1
  MaxConcurrent = 2
  MaxScrapes = 2
  MaxMishaps = 1
  Task = {t1, t2}
  MaxSummaries = 2
INVARIANTS TypeOK SemaphoreExact MentionsOnce QueriesAnswered SummarisedOnce
PROPERTY ScrapeEnds
CHECK_DEADLOCK FALSE
