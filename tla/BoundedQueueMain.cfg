\* main() as written: the producers are joined before close().
CONSTANTS
  p1 = p1
  p2 = p2
  c1 = c1
  c2 = c2
  Producers <- TwoProducers
  Consumers <- TwoConsumers
  Capacity = 2
  NumItems = 3
  JoinProducers = TRUE
  NoItem = NoItem
SPECIFICATION Spec
INVARIANT NothingRefused
PROPERTY ImplementsChannel
CHECK_DEADLOCK FALSE
