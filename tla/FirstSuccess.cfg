\* Three lookups, one more than the example starts, so that neither the first
\* nor the last failure is the only one the winner can meet.
CONSTANTS
  l1 = l1
  l2 = l2
  l3 = l3
  Lookups <- ThreeLookups
  Unset = Unset
SPECIFICATION Spec
INVARIANT TypeOK
INVARIANT OneClaim
INVARIANT ErrorMeansAllFailed
INVARIANT SettledWhenAllReturned
PROPERTY ImplementsRace
CHECK_DEADLOCK FALSE
