\* Two connections, two workers, an accept thread, and three numbers, so that they run out and are given out again.
SPECIFICATION Spec
CONSTANTS
  NumFds = 3
  Conns = {c1, c2}
  Workers = {w1, w2}
  Record = Record
  Listener = Listener
  Monitor = Monitor
  Acceptors = {a1}
  MaxFaults = 2
  Closed = Closed
SYMMETRY Symmetry
CHECK_DEADLOCK FALSE
PROPERTY OnlyFailuresLose
PROPERTY OnlySecondClosesHurt
