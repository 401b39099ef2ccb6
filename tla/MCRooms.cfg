CONSTANTS
  u1 = u1
  u2 = u2
  u3 = u3
  u4 = u4
  User = {u1, u2, u3, u4}
  NoUser = NoUser
  MaxRoomID = 2
  Capacity = {2, 3}
  ClientsStayPut = TRUE
  ClientsKeepState = TRUE
  DBFaults = FALSE
SPECIFICATION Spec
SYMMETRY Symmetry
INVARIANTS
  TypeOK
  RoomMembership
  RoomStatus
  HostIsMember
  PlayersAreMembers
  MatchIsPlaying
  RowsMirrorRooms
PROPERTIES
  MatchEndsForItsPlayers
  HostHandover
