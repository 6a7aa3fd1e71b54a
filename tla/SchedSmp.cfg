SPECIFICATION Spec
CONSTANTS
  t1 = t1
  t2 = t2
  t3 = t3
  t4 = t4
  c1 = c1
  c2 = c2
  c3 = c3
  Threads = {t1, t2, t3, t4}
  Cpus = {c1, c2, c3}
  Ops = {"yield", "start", "exit"}
  Idle = Idle
  None = None
SYMMETRY Symmetry
INVARIANTS
  StackExclusive
  QueueSound
  NoneForgotten
PROPERTY OnlyReadyResumed
