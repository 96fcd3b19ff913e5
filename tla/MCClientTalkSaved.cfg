\* The result of skylog_save against the answer.
SPECIFICATION Spec
CONSTANTS
  Requests <- SampleRequests
  HeaderCap = 3
  Timeout = 4
  Period = 2
CHECK_DEADLOCK FALSE
INVARIANT SuccessMeansSaved
