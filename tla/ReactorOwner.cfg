\* Who closes the read ends?
CONSTANTS
  NumSources = 2
  NumEvents = 1
  PipeCapacity = 4
SPECIFICATION Spec
INVARIANT OwnerHoldsOpenFd
CHECK_DEADLOCK FALSE
