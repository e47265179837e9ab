SPECIFICATION TxSpec
CONSTANTS
  o1 = o1  o2 = o2  i1 = i1  i2 = i2  apple = apple  pear = pear  plum = plum
  Order = {o1, o2}
  Cart <- TwoCarts
  Product = {apple, pear}
  StockLevel <- TwoUnits
  Session = {i1, i2}
  NoSession = NoSession
  MaxReserves = 1
  MaxReleases = 1
  Overlapping = {}
  Failing = FALSE
  Asked <- Asks
  Width = 4
CHECK_DEADLOCK FALSE
PROPERTY ReleaseGivesBack
