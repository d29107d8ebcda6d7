SPECIFICATION Spec
CONSTANTS
  c1 = c1
  c2 = c2
  Clients <- MCClients
  Requests <- MCRequests
  MaxBody = 1
  MaxParts = 2
  MaxRequests = 3
SYMMETRY ClientSymmetry
CHECK_DEADLOCK FALSE
INVARIANTS
  TypeOK
  OneWriteAtFront
  RepliesInOrder
  RequestsInOrder
