SPECIFICATION Spec
CONSTANTS
  task1 = task1
  task2 = task2
  ep = ep
  None = None
  Tasks = {task1, task2}
  NSlots = 2
  Files = {ep}
  Replies = {}
  MayTime = {}
  Lifetimes = {1}
  MaxTime = 0
  MaxGen = 2
  Writable = {}
  Endpoints = {ep}
  Masks = {{"use", "write"}}
INVARIANTS
  RevokedStaysDead
CHECK_DEADLOCK FALSE
