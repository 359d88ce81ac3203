SPECIFICATION Spec
CONSTANTS
  MaxEvents = 4
  MaxTokens = 2
  Cmds = {1, 2, 3}
  MaxAttempts = 3
  MaxApplied = 5
  N = 3
  NextMod = 8
  MaxWork = 3
  Requests = 9
  Chars = {97, 98}
  MaxLength = 2
  IntBytes = {0, 97}
  IntSize = 1
  MaxParts = 2
INVARIANTS TypeOK StateFollowsSocket Balanced Unambiguous
PROPERTIES QueuedUntilApplied RetryAppliesOnce
CHECK_DEADLOCK FALSE
