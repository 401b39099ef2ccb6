CONSTANTS
  u1 = u1
  u2 = u2
  u3 = u3
  User = {u1, u2, u3}
  NoUser = NoUser
  MaxRoomID = 2
  Capacity = {2, 3}
  ClientsStayPut = TRUE
  ClientsKeepState = FALSE
  DBFaults = FALSE
SPECIFICATION ViewsSpec
SYMMETRY Symmetry
INVARIANTS
  LobbySeesStates
