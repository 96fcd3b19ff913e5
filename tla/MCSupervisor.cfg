\* Two accept threads at a time, two attempts, three bases.
SPECIFICATION FairSpec
CONSTANTS
  Threads = {t1, t2}
  Monitor = monitor
  NumBases = 3
  Retries = 2
  MaxFaults = 2
CHECK_DEADLOCK FALSE
INVARIANTS
  PortKept
  MonitorSeesTruth
PROPERTY ServesOrExits
