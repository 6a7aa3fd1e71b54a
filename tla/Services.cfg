SPECIFICATION Spec
CONSTANTS
  None = None
  Units = {"endpoint", "infer", "advice", "timer", "irq", "graph", "ring", "memfab", "kaalka", "log", "device",
           "policy", "smp"}
INVARIANTS AnswersMatch EventsExact StoreTrue CoresShared
PROPERTIES ServedNext Answered
CHECK_DEADLOCK FALSE
