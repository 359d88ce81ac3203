\* main() as written: every future is read before the pool is destroyed.
CONSTANTS
  w1 = w1
  w2 = w2
  w3 = w3
  Workers <- TwoWorkers
  NumJobs = 3
  Spawning <- SpawningFirst
  AwaitResults = TRUE
  NoJob = NoJob
SPECIFICATION Spec
INVARIANT NothingRefused
PROPERTY AcceptedJobsComplete
CHECK_DEADLOCK FALSE
