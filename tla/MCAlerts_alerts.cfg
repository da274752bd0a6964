\* Two overlapping tasks, two positions of one stock, a key that expires.
SPECIFICATION Spec
CONSTANTS
  p1 = p1 p2 = p2 s = s u1 = u1 u2 = u2 Null = Null t1 = t1 t2 = t2
  Position = {p1, p2}
  Portfolio <- MCPortfolio
  MaxPrice = 4
  User = {u1, u2}
  OwnerOf <- MCOwnerOf
  Stock = {s}
  StockOf <- MCStockOf
  Run = {t1, t2}
  Quotes <- MCQuotes
  Threshold = 100
  MaxRuns = 2
  MaxEvents = 1
INVARIANTS TypeOK AlertsSpaced EditsStick
CHECK_DEADLOCK FALSE
