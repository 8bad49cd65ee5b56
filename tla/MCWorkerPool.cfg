CONSTANTS
  w1 = w1
  w2 = w2
  j1 = j1
  j2 = j2
  j3 = j3
  Idle = Idle
  Exited = Exited
  Workers <- MCWorkers
  Job <- MCJob
  Batches <- MCBatches
SPECIFICATION FairSpec
INVARIANTS
  TypeOK
  WaitGroupExact
  WaitIsBarrier
  WaitReturnsErrors
PROPERTIES StopReleasesWait PoolIsBarrier
CHECK_DEADLOCK FALSE
