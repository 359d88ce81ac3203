\* Two sources as in main(); three messages through pipes that hold two, so
\* that writers wait for room and the hangup meets data still in the pipe.
CONSTANTS
  NumSources = 2
  NumEvents = 3
  PipeCapacity = 4
SPECIFICATION Spec
INVARIANT TypeOK
INVARIANT NeverBlocksInRead
INVARIANT DeliveredInOrder
INVARIANT RetiredWhenDrained
PROPERTY MainEventuallyReturns
CHECK_DEADLOCK FALSE
