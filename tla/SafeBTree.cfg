SPECIFICATION Spec
CONSTANTS
  Trees = {a, b}
  Iterators = {i, j}
  Keys <- MCKeys
  End = End
  Gone = Gone
  MaxGeneration = 3
INVARIANTS
  NeverDangling
PROPERTIES
  ImplementsSafeMap
