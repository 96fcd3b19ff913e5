\* Three connections, one worker that releases and one that saves; nothing fails.
SPECIFICATION Spec
CONSTANTS
  NumFds = 4
  Conns = {c1, c2, c3}
  Workers = {w1, w2}
  Record = Record
  Listener = Listener
  Monitor = Monitor
  Acceptors = {a1}
  MaxFaults = 0
  Closed = Closed
SYMMETRY Symmetry
CHECK_DEADLOCK FALSE
INVARIANT HeldIsOwn
