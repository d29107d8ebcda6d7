SPECIFICATION Spec
CONSTANTS
  Levels = 3
  Characters <- MCCharacters
  Delimiters <- MCDelimiters
  Backspace = "backspace"
  EndOfStream = "end"
  MaxTyped = 7
  top_word_number = 2
INVARIANTS
  LearnsTheText
  PredictsTheMostFrequent
  SummaryNamesTheTop
CHECK_DEADLOCK FALSE
