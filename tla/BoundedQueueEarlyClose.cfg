\* The owner closes the queue at any moment, also while producers and
\* consumers are blocked: with one slot for four items both wait sets fill.
CONSTANTS
  p1 = p1
  p2 = p2
  c1 = c1
  c2 = c2
  Producers <- TwoProducers
  Consumers <- TwoConsumers
  Capacity = 1
  NumItems = 2
  JoinProducers = FALSE
  NoItem = NoItem
SPECIFICATION Spec
INVARIANT TypeOK
INVARIANT NoLostWakeup
INVARIANT CloseWakesEveryone
INVARIANT ProcessedAtExit
PROPERTY ImplementsChannel
PROPERTY MainEventuallyReturns
CHECK_DEADLOCK FALSE
