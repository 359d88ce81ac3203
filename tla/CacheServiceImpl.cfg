SPECIFICATION Spec
CONSTANTS
  KeyLengths = {0, 1, 256, 257}
  ValueLengths = {0, 1048576, 1048577}
  NotStored = NotStored
  MaxCalls = 4
INVARIANTS OnlyValidStored
CHECK_DEADLOCK FALSE
