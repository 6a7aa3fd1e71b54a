SPECIFICATION Spec
CONSTANTS
  task1 = task1
  task2 = task2
  ep = ep
  reply = reply
  None = None
  Tasks = {task1, task2}
  NSlots = 2
  Files = {ep}
  Replies = {reply}
  MayTime = {task1}
  Lifetimes = {1}
  MaxTime = 1
  MaxGen = 2
  Writable = {}
  Endpoints = {ep}
  Masks = {{"use", "write"}}
INVARIANTS
  TypeOK
  WaitedAmplifiesNothing
  ObjectAlive
  RefsCounted
  SingleUse
CHECK_DEADLOCK FALSE
