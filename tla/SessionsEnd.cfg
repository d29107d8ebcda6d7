SPECIFICATION FairSpec
CONSTANTS
  c1 = c1
  c2 = c2
  Clients <- MCClients
  Requests <- MCRequests
  MaxBody = 1
  MaxParts = 2
  MaxRequests = 2
CHECK_DEADLOCK FALSE
PROPERTIES
  SessionsEnd
