\* Three threads and four works: one more than there are threads for.
SPECIFICATION FairSpec
CONSTANTS
  NumThreads = 3
  NumWorks = 4
  NoWork = NoWork
CHECK_DEADLOCK FALSE
INVARIANTS
  EachWorkOnce
  NoSleepOverWork
PROPERTY StartsOrExits
