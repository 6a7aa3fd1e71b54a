SPECIFICATION Spec
CONSTANTS
  t1 = t1
  t2 = t2
  t3 = t3
  None = None
  Threads = {t1, t2, t3}
  Permits = 1
  Timed = {t1}
  Waiters = {t1, t2}
  MaxDepth = 2
  b1 = b1
  Bits = {b1}
  Signallers = {t3}
INVARIANTS
  TypeOK
  LinkedOnce
  RwExclusion
  PermitsConserved
  HolderOwns
PROPERTY WriterPreferred
PROPERTY TimedWaitReturns
PROPERTY SleepersWoken
CHECK_DEADLOCK FALSE
