CONSTANTS
  u1 = u1
  u2 = u2
  u3 = u3
  User = {u1, u2, u3}
  NoUser = NoUser
  MaxRoomID = 2
  Capacity = {2, 3}
  ClientsStayPut = FALSE
  ClientsKeepState = TRUE
  DBFaults = FALSE
SPECIFICATION Spec
SYMMETRY Symmetry
INVARIANTS
  OneRoomPerUser
