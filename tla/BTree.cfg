SPECIFICATION MCSpec
CONSTANTS
  kNodeValues = 4
  Uses <- MCUses
INVARIANTS
  Verified
  NothingLeaks
  WalksBothWays
  SearchesAgree
PROPERTIES
  ImplementsOrderedMap
