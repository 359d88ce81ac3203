SPECIFICATION Spec
CONSTANTS
  ProfileIds = {7, 8, 42, 99}
  CachedIds = {7}
  RowIds = {7, 8, 42}
  Nothing = Nothing
  MaxBatch = 3
  MaxAsked = 6
  MaxUsers = 4
INVARIANTS TypeOK AnswersAligned RolesShared
PROPERTIES EachIdCountedOnce ReadThroughCaches
CHECK_DEADLOCK FALSE
