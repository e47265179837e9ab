SPECIFICATION FairSpec
CONSTANTS
  o1 = o1  o2 = o2  s1 = s1  s2 = s2  r1 = r1
  i1 = i1  i2 = i2  w1 = w1  w2 = w2  apple = apple
  Order = {o1, o2}
  Cart <- LineCarts
  Product = {apple}
  StockLevel <- TwoUnits
  Partition = {1}
  PartitionOf <- OnePartition
  FaultKind = {"stop", "dberror"}
  MaxFaults = 1
  SagaWorker = {s1, s2}
  Request = {r1}
  Cancelling = {}
  InvWorker = {i1, i2}
  PayWorker = {w1, w2}
  DeclineOver = 50
INVARIANTS TypeOK SagaAtomicity OutcomeAnnounced NoDoubleCharge ChargeHasRow
PROPERTIES ImplementsLifecycle NoneStopsHalfWay
