SPECIFICATION Spec
CONSTANTS
  MaxWords = 2
INVARIANTS
  StdinIsSent
CHECK_DEADLOCK FALSE
