SPECIFICATION Spec
CONSTANTS
  t1 = t1
  t2 = t2
  t3 = t3
  c1 = c1
  Threads = {t1, t2, t3}
  Cpus = {c1}
  Ops = {"yield", "wait", "wake", "wakeall", "sleep", "nopreempt", "setclass", "start", "exit"}
  Idle = Idle
  None = None
SYMMETRY Symmetry
INVARIANTS
  IInv
