\* Two uploads of one device, every fault, threads that go on.
SPECIFICATION FairSpec
CONSTANTS
  s1 = s1
  s2 = s2
  Savers <- TwoSavers
  Nobody = Nobody
  DirOf <- SameDevice
  Blocks = 2
  MaxTries = 2
  LastDay = 2
  Faults = {"mkdir", "create", "clear", "open", "calloc", "write", "record"}
CHECK_DEADLOCK FALSE
INVARIANTS
  TypeOK
  MkdirUncontended
  SavedIsWhole
  RecordedOnceInItsDay
  DescriptorsReturned
PROPERTY SaveEnds
