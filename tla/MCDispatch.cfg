\* Two workers, queues of one and a wrapping round-robin counter; calloc may fail.
SPECIFICATION Spec
CONSTANTS
  c1 = c1
  c2 = c2
  c3 = c3
  c4 = c4
  c5 = c5
  Conns <- FiveConns
  NoJob = NoJob
  NumWorkers = 2
  MaxDepth = 1
  PipeCap = 2
  CounterMod = 4
  AcceptMax = 3
  AllocFails = TRUE
SYMMETRY ConnSymmetry
CHECK_DEADLOCK FALSE
INVARIANTS
  TypeOK
  NoLostWakeup
  NoMissedSignal
  QueueBounded
  OneOwner
  HandlingCountExact
  WaitCountCovers
PROPERTIES
  StaleOnlyByFlush
  RoundRobin
