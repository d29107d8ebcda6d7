SPECIFICATION Spec
CONSTANTS
  MaxWords = 4
INVARIANTS
  EveryWordOnItsWay
PROPERTIES
  WordsAnswered
  EndsAfterInput
CHECK_DEADLOCK FALSE
