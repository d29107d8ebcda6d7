SPECIFICATION NodeSpec
CONSTANTS
  c1 = c1
  c2 = c2
  Clients <- MCClients
  Requests <- AdaptorRequests
  Asks <- MCAsks
  Junk <- MCJunk
  MaxBody = 103
  MaxParts = 2
  MaxRequests = 2
CHECK_DEADLOCK FALSE

  
PROPERTIES
  EveryClientIsServed
  RequestsAreAnswered
  ShortRequestsAreTold
