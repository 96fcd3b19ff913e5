\* A header buffer of three units, a timeout of two timer periods.
SPECIFICATION FairSpec
CONSTANTS
  Requests <- SampleRequests
  HeaderCap = 3
  Timeout = 4
  Period = 2
CHECK_DEADLOCK FALSE
INVARIANTS
  BuffersNotOverrun
  AnswerFitsRequest
  ResponseNotDropped
  IdleBounded
PROPERTIES
  TimeoutNotEarly
  ClientReleased
  WholeRequestAnswered
