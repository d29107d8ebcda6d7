SPECIFICATION LossSpec
CONSTANTS
  a = a
  b = b
  c = c
  interface_token = interface_token
  MaxContexts = 3
  MaxDegree = 2
  Bound = 3
  Chars <- MCChars
  InterfaceToken <- MCInterfaceToken
  UninitIds <- MCUninitIds
  CallerIds <- MCCallerIds
  MaxString = 1
  MaxMistakes = 4
  MaxLoss = 0
PROPERTIES
  FirstPassIsNoMistake
