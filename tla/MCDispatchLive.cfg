\* One worker with a queue of two, weakly fair threads: progress and the abstract service.
SPECIFICATION FairSpec
CONSTANTS
  c1 = c1
  c2 = c2
  c3 = c3
  c4 = c4
  c5 = c5
  Conns <- FourConns
  NoJob = NoJob
  NumWorkers = 1
  MaxDepth = 2
  PipeCap = 2
  CounterMod = 4
  AcceptMax = 9
  AllocFails = FALSE
CHECK_DEADLOCK FALSE
PROPERTIES
  ServedOrClosed
  ImplementsService
