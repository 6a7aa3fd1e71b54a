SPECIFICATION Spec
CONSTANTS
  w1 = w1
  w2 = w2
  r1 = r1
  None = None
  Writers = {w1, w2}
  Readers = {r1}
  Threads = {w1, w2, r1}
  Timed = {w1, r1}
  Capacity = 2
  MaxWrite = 2
  MaxSent = 2
INVARIANTS
  TypeOK
  AcceptedExactly
PROPERTY RefinesFifo
PROPERTY CloseReleases
PROPERTY ReaderServed
CHECK_DEADLOCK FALSE
