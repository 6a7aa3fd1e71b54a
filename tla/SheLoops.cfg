SPECIFICATION Spec
CONSTANTS
  Units = {"she"}
  Suite = "left loops"
INVARIANT RunsAsWritten
CHECK_DEADLOCK FALSE
