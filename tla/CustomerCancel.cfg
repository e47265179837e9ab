SPECIFICATION FairSpec
CONSTANTS
  o1 = o1  o2 = o2  s1 = s1  s2 = s2  r1 = r1
  i1 = i1  i2 = i2  w1 = w1  w2 = w2  apple = apple
  Order = {o1, o2}
  Cart <- FewCarts
  Product = {apple}
  StockLevel <- OneUnit
  Partition = {1, 2}
  PartitionOf <- ByOrder
  FaultKind = {}
  MaxFaults = 0
  SagaWorker = {s1, s2}
  Request = {r1}
  Cancelling = {o1}
  InvWorker = {i1}
  PayWorker = {w1}
  DeclineOver = 50
INVARIANT CancelledHoldsNoStock
PROPERTIES ConfirmedUndoneOnlyByCustomer EveryOrderSettles CancelReleasesStock
