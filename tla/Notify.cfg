SPECIFICATION ReadersSpec
CONSTANTS
  o1 = o1  s1 = s1  r1 = r1  i1 = i1  w1 = w1  n1 = n1  n2 = n2
  apple = apple  pear = pear
  Order = {o1}
  Cart <- AllCarts
  Product = {apple}
  StockLevel <- OneUnit
  Partition = {1, 2}
  PartitionOf <- OnePartition
  FaultKind = {"stop", "duplicate", "dberror"}
  MaxFaults = 1
  SagaWorker = {s1}
  Request = {r1}
  Cancelling = {}
  InvWorker = {i1}
  PayWorker = {w1}
  DeclineOver = 50
  Notifier = {n1, n2}
INVARIANTS NotificationTypeOK ToldIsSo ToldOncePerEvent StoryIsTold
PROPERTIES ReceiptIsAhead OutcomeIsHeard
