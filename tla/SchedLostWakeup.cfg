SPECIFICATION Spec
CONSTANTS
  t1 = t1
  t2 = t2
  c1 = c1
  Threads = {t1, t2}
  Cpus = {c1}
  Ops = {"wait", "wake"}
  Idle = Idle
  None = None
SYMMETRY Symmetry
INVARIANTS
  NoLostWakeup
