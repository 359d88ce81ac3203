\* The pool is destroyed while jobs are queued or running, two of which submit
\* jobs of their own and may be refused.
CONSTANTS
  w1 = w1
  w2 = w2
  w3 = w3
  Workers <- ThreeWorkers
  NumJobs = 2
  Spawning <- SpawningTwo
  AwaitResults = FALSE
  NoJob = NoJob
SPECIFICATION Spec
INVARIANT TypeOK
INVARIANT NoLostWakeup
INVARIANT StopWakesEveryone
INVARIANT AcceptedOnce
INVARIANT DrainedAtExit
PROPERTY DestructorReturns
CHECK_DEADLOCK FALSE
