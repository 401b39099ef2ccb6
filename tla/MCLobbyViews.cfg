CONSTANTS
  u1 = u1
  u2 = u2
  u3 = u3
  User = {u1, u2, u3}
  NoUser = NoUser
  MaxRoomID = 2
  Capacity = {1, 2}
  ClientsStayPut = TRUE
  ClientsKeepState = TRUE
  DBFaults = TRUE
SPECIFICATION ViewsSpec
SYMMETRY Symmetry
INVARIANTS
  ViewsTypeOK
  RoomsHaveRows
  LobbySeesUsers
  LobbySeesRooms
  MembersSeeRoom
