------------------------ MODULE RowsAndMatches_proofs ------------------------
(***************************************************************************)
(* Proofs about module Rooms: the table rooms follows the rooms; how       *)
(* matches begin and end, and who hosts them.                              *)
(***************************************************************************)
EXTENDS Rooms_proofs

-----------------------------------------------------------------------------
(* The table rooms.                                                        *)

\* The facts of Inv that the proofs below use.
LEMMA Shapes ==
  ASSUME Inv
  PROVE  /\ dbRooms \in [RoomID -> Row \union {NoRow}]
         /\ rooms \in SUBSET RoomID /\ matches \in SUBSET rooms
         /\ maxPlayers \in [RoomID -> 0 .. 255]
         /\ roomState \in [RoomID -> RoomState]
         /\ roomUsers \in [RoomID -> Seq(User)]
BY DEF Inv, TypeOK

LEMMA RowIsNoNoRow ==
  ASSUME NEW players \in Nat, NEW max \in Nat
  PROVE  [players |-> players, max |-> max] # NoRow
<1>1. players # -1
  OBVIOUS
<1> QED BY <1>1 DEF NoRow

LEMMA ByteIsNat == 0 .. 255 \subseteq Nat
OBVIOUS

\* What UpdateRoomSettings may make of maxPlayers.
LEMMA CapacityIsByte ==
  ASSUME Inv, NEW r \in RoomID
  PROVE  Capacity \union {maxPlayers[r]} \subseteq 0 .. 255
<1>1. maxPlayers[r] \in 0 .. 255
  BY Shapes, Zenon
<1>2. Capacity \subseteq 0 .. 255
  BY RoomsAssumption, Zenon
<1> QED BY <1>1, <1>2, Zenon

\* An update keeps the rows that are there, and a deletion those of others.
LEMMA UpdateKeepsRows ==
  ASSUME Inv, RoomsHaveRows, NEW r \in RoomID, NEW players \in Nat, NEW max \in 0 .. 255,
         dbRooms' \in UpdateRow(r, players, max), rooms' = rooms
  PROVE  RoomsHaveRows'
<1> DEFINE row == [players |-> players, max |-> max]
<1>1. row # NoRow
  BY RowIsNoNoRow, ByteIsNat
<1>2. dbRooms' = dbRooms \/ dbRooms' = [dbRooms EXCEPT ![r] = row]
  BY DEF UpdateRow, Wrote
<1> HIDE DEF row
<1> QED BY <1>1, <1>2, Shapes DEF RoomsHaveRows

LEMMA DeleteKeepsRows ==
  ASSUME Inv, RoomsHaveRows, NEW r \in RoomID, dbRooms' \in DeleteRow(r), rooms' = rooms \ {r}
  PROVE  RoomsHaveRows'
<1>1. dbRooms' = dbRooms \/ dbRooms' = [dbRooms EXCEPT ![r] = NoRow]
  BY DEF DeleteRow, Wrote
<1> QED BY <1>1, Shapes DEF RoomsHaveRows

-----------------------------------------------------------------------------
(* RoomsHaveRows.                                                          *)

LEMMA RemoveRoomUserRows ==
  ASSUME Inv, RoomsHaveRows, NEW u \in User, NEW r \in rooms, NEW left, RemoveRoomUser(r, u, left)
  PROVE  RoomsHaveRows'
<1> USE Shapes
<1> DEFINE rest == RemoveFirst(roomUsers[r], u)
<1>1. r \in RoomID /\ rest \in Seq(User)
  BY RemoveFirstProperties DEF Inv, RoomMembership
<1>2. Len(rest) \in Nat /\ maxPlayers[r] \in 0 .. 255
  BY <1>1, LenProperties
<1>3. CASE rooms' = rooms \ {r} /\ dbRooms' \in DeleteRow(r)
  BY <1>1, <1>3, DeleteKeepsRows
<1>4. CASE rooms' = rooms /\ dbRooms' \in UpdateRow(r, Len(rest), maxPlayers[r])
  BY <1>1, <1>2, <1>4, UpdateKeepsRows
<1> QED BY <1>3, <1>4 DEF RemoveRoomUser

LEMMA SettingsRows ==
  ASSUME Inv, RoomsHaveRows, NEW u \in User, UpdateRoomSettings(u)
  PROVE  RoomsHaveRows'
<1> USE Shapes
<1>1. currentRoom[u] \in RoomID /\ rooms' = rooms
  BY DEF UpdateRoomSettings
<1>2. Len(roomUsers[currentRoom[u]]) \in Nat
  BY <1>1, LenProperties
<1>3. Capacity \union {maxPlayers[currentRoom[u]]} \subseteq 0 .. 255
  BY <1>1, CapacityIsByte
<1>4. PICK max \in Capacity \union {maxPlayers[currentRoom[u]]} :
        dbRooms' \in UpdateRow(currentRoom[u], Len(roomUsers[currentRoom[u]]), max)
  BY DEF UpdateRoomSettings
<1> QED BY <1>1, <1>2, <1>3, <1>4, UpdateKeepsRows

LEMMA CreateRoomRows ==
  ASSUME Inv, RoomsHaveRows, NEW u \in User, CreateRoom(u)
  PROVE  RoomsHaveRows'
<1> USE Shapes
<1>1. CASE rooms' = rooms /\ dbRooms' = dbRooms
  BY <1>1 DEF RoomsHaveRows
<1>2. ASSUME NEW r \in RoomID, NEW max \in Capacity, rooms' = rooms \union {r},
             dbRooms' = [dbRooms EXCEPT ![r] = [players |-> 1, max |-> max]]
      PROVE  RoomsHaveRows'
  <2>1. max \in Nat
    BY RoomsAssumption, ByteIsNat
  <2>2. [players |-> 1, max |-> max] # NoRow
    BY <2>1, RowIsNoNoRow
  <2> QED BY <1>2, <2>2 DEF RoomsHaveRows
<1> QED BY <1>1, <1>2 DEF CreateRoom, roomVars

LEMMA JoinRoomRows ==
  ASSUME Inv, RoomsHaveRows, NEW u \in User, NEW r \in RoomID, JoinRoom(u, r)
  PROVE  RoomsHaveRows'
<1>1. Len(roomUsers[r]) + 1 \in Nat /\ maxPlayers[r] \in 0 .. 255
  BY Shapes, LenProperties
<1> QED BY <1>1, UpdateKeepsRows DEF JoinRoom

LEMMA RestoreRowsRows ==
  ASSUME Inv, RestoreRows
  PROVE  RoomsHaveRows'
<1> USE Shapes
<1>1. PICK kept \in Wrote([r \in RoomID |-> NoRow]), gone \in SUBSET rooms, stale \in SUBSET rooms :
        RestoreWith(kept, gone, stale)
  BY DEF RestoreRows
<1>2. rooms' = rooms \ gone
  BY <1>1 DEF RestoreWith, DestroyRooms
<1>3. ASSUME NEW r \in rooms \ gone PROVE dbRooms'[r] # NoRow
  <2>1. Len(roomUsers[r]) \in Nat /\ maxPlayers[r] \in Nat
    BY LenProperties, ByteIsNat
  <2>2. dbRooms'[r] = [players |-> Len(roomUsers[r]), max |-> maxPlayers[r]]
    BY <1>1 DEF RestoreWith
  <2> QED BY <2>1, <2>2, RowIsNoNoRow
<1> QED BY <1>2, <1>3 DEF RoomsHaveRows

LEMMA RowsNext == Inv /\ RoomsHaveRows /\ [Next]_vars => RoomsHaveRows'
<1> SUFFICES ASSUME Inv, RoomsHaveRows, [Next]_vars PROVE RoomsHaveRows'
  OBVIOUS
<1>1. CASE rooms' = rooms /\ dbRooms' = dbRooms
  BY <1>1 DEF RoomsHaveRows
<1>2. ASSUME NEW u \in User, Disconnect(u) \/ LeaveRoom(u) PROVE RoomsHaveRows'
  BY <1>1, <1>2, RemoveRoomUserRows DEF Disconnect, LeaveRoom, roomVars
<1>3. CASE RemoveAllRooms
  BY <1>3 DEF RemoveAllRooms, DestroyRooms, RoomsHaveRows
<1>4. ASSUME NEW u \in User,
             LogIn(u) \/ CreateCharacter(u) \/ RequestServerList(u) \/ EnterLobby(u) \/ ReturnToRoom(u)
      PROVE  RoomsHaveRows'
  BY <1>1, <1>4 DEF LogIn, CreateCharacter, RequestServerList, EnterLobby, ReturnToRoom, roomVars
<1>5. ASSUME NEW u \in User, NEW r \in RoomID,
             \/ ServerIsActivated(u, r) \/ SaveData(u, r) \/ EndGame(u, r)
             \/ \E v \in User : SendUserStatus(u, r, v)
      PROVE  RoomsHaveRows'
  BY <1>1, <1>5 DEF ServerIsActivated, SaveData, EndGame, SendUserStatus, roomVars
<1>6. CASE UNCHANGED vars
  BY <1>1, <1>6 DEF vars, roomVars
<1> QED BY <1>2, <1>3, <1>4, <1>5, <1>6, SettingsRows, CreateRoomRows, JoinRoomRows,
           RestoreRowsRows DEF Next

\* Whatever queries fail, and in every order of what users, the console and
\* the recovery from a stall do, a room of the channel has a row, so that
\* RemoveRoom and the updates of its number of players find it.
THEOREM RowsCorrect == ClientsStayPut => (Spec => []RoomsHaveRows)
<1> SUFFICES ASSUME ClientsStayPut PROVE Spec => []RoomsHaveRows
  OBVIOUS
<1>1. Init => RoomsHaveRows
  BY DEF Init, RoomsHaveRows
<1>2. Spec => []Inv
  BY Consistency
<1>3. Inv /\ RoomsHaveRows /\ [Next]_vars => RoomsHaveRows'
  BY RowsNext
<1> QED BY <1>1, <1>2, <1>3, PTL DEF Spec

-----------------------------------------------------------------------------
(* RowsMirrorRooms.                                                        *)

RowOf(r) == [players |-> Len(roomUsers[r]), max |-> maxPlayers[r]]
Mirror == \A r \in RoomID : dbRooms[r] = IF r \in rooms THEN RowOf(r) ELSE NoRow

LEMMA MirrorRow ==
  ASSUME Inv, NEW r \in RoomID
  PROVE  RowOf(r) # NoRow
<1>1. Len(roomUsers[r]) \in Nat /\ maxPlayers[r] \in Nat
  BY Shapes, LenProperties, ByteIsNat
<1> QED BY <1>1, RowIsNoNoRow DEF RowOf

\* The query of a step that changes one room.
LEMMA UpdateMirrors ==
  ASSUME Inv, Mirror, ~ DBFaults, NEW r \in rooms, NEW players \in Nat, NEW max \in 0 .. 255,
         dbRooms' \in UpdateRow(r, players, max), rooms' = rooms,
         Len(roomUsers'[r]) = players, maxPlayers'[r] = max,
         \A q \in RoomID : q # r => roomUsers'[q] = roomUsers[q] /\ maxPlayers'[q] = maxPlayers[q]
  PROVE  Mirror'
<1>1. r \in RoomID /\ dbRooms[r] # NoRow
  BY Shapes, MirrorRow DEF Mirror
<1>2. dbRooms' = [dbRooms EXCEPT ![r] = RowOf(r)']
  BY <1>1 DEF UpdateRow, Wrote, RowOf
<1>3. dbRooms'[r] = RowOf(r)'
  BY <1>1, <1>2, Shapes
<1>4. ASSUME NEW q \in RoomID, q # r PROVE dbRooms'[q] = dbRooms[q] /\ RowOf(q)' = RowOf(q)
  BY <1>2, <1>4, Shapes DEF RowOf
<1> QED BY <1>1, <1>3, <1>4 DEF Mirror

LEMMA MirrorStays ==
  ASSUME Mirror, UNCHANGED <<rooms, roomUsers, maxPlayers, dbRooms>>
  PROVE  Mirror'
BY DEF Mirror, RowOf

LEMMA RemoveRoomUserMirrors ==
  ASSUME Inv, Mirror, ~ DBFaults, NEW u \in User, NEW r \in rooms, NEW left,
         RemoveRoomUser(r, u, left)
  PROVE  Mirror'
<1> USE Shapes
<1> DEFINE rest == RemoveFirst(roomUsers[r], u)
<1>1. r \in RoomID /\ rest \in Seq(User)
  BY RemoveFirstProperties DEF Inv, RoomMembership
<1>2. Len(rest) \in Nat /\ maxPlayers[r] \in 0 .. 255
  BY <1>1, LenProperties
<1>3. CASE /\ rooms' = rooms \ {r}
           /\ roomUsers' = [roomUsers EXCEPT ![r] = <<>>]
           /\ maxPlayers' = [maxPlayers EXCEPT ![r] = 0]
           /\ dbRooms' \in DeleteRow(r)
  <2>1. dbRooms' = [dbRooms EXCEPT ![r] = NoRow]
    BY <1>3 DEF DeleteRow, Wrote
  <2> QED BY <1>1, <1>3, <2>1 DEF Mirror, RowOf
<1>4. CASE /\ rooms' = rooms /\ maxPlayers' = maxPlayers
           /\ roomUsers' = [roomUsers EXCEPT ![r] = rest]
           /\ dbRooms' \in UpdateRow(r, Len(rest), maxPlayers[r])
  <2>1. roomUsers'[r] = rest /\ \A q \in RoomID : q # r => roomUsers'[q] = roomUsers[q]
    BY <1>1, <1>4
  <2> QED BY <1>2, <1>4, <2>1, UpdateMirrors
<1> QED BY <1>3, <1>4 DEF RemoveRoomUser

LEMMA SettingsMirror ==
  ASSUME Inv, Mirror, ~ DBFaults, NEW u \in User, UpdateRoomSettings(u)
  PROVE  Mirror'
<1> USE Shapes
<1> DEFINE r == currentRoom[u]
<1>1. r \in rooms /\ rooms' = rooms /\ roomUsers' = roomUsers
  BY DEF UpdateRoomSettings
<1>2. Len(roomUsers[r]) \in Nat
  BY <1>1, LenProperties
<1>3. Capacity \union {maxPlayers[r]} \subseteq 0 .. 255
  BY <1>1, CapacityIsByte
<1>4. PICK max \in Capacity \union {maxPlayers[r]} :
        /\ maxPlayers' = [maxPlayers EXCEPT ![r] = max]
        /\ dbRooms' \in UpdateRow(r, Len(roomUsers[r]), max)
  BY DEF UpdateRoomSettings
<1>5. maxPlayers'[r] = max /\ \A q \in RoomID : q # r => maxPlayers'[q] = maxPlayers[q]
  BY <1>1, <1>4
<1> HIDE DEF r
<1> QED BY <1>1, <1>2, <1>3, <1>4, <1>5, UpdateMirrors

LEMMA CreateRoomMirrors ==
  ASSUME Inv, Mirror, ~ DBFaults, NEW u \in User, CreateRoom(u)
  PROVE  Mirror'
<1> USE Shapes
<1>1. CASE UNCHANGED <<roomVars, dbRooms>>
  BY <1>1, MirrorStays DEF roomVars
<1>2. ASSUME NEW r \in RoomID, NEW max \in Capacity, rooms' = rooms \union {r},
             roomUsers' = [roomUsers EXCEPT ![r] = <<u>>],
             maxPlayers' = [maxPlayers EXCEPT ![r] = max],
             dbRooms' = [dbRooms EXCEPT ![r] = [players |-> 1, max |-> max]]
      PROVE  Mirror'
  <2>1. RowOf(r)' = [players |-> 1, max |-> max]
    BY <1>2 DEF RowOf
  <2>2. \A q \in RoomID : q # r => RowOf(q)' = RowOf(q)
    BY <1>2 DEF RowOf
  <2> QED BY <1>2, <2>1, <2>2 DEF Mirror
<1> QED BY <1>1, <1>2 DEF CreateRoom

LEMMA JoinRoomMirrors ==
  ASSUME Inv, Mirror, ~ DBFaults, NEW u \in User, NEW r \in RoomID, JoinRoom(u, r)
  PROVE  Mirror'
<1> USE Shapes
<1>1. /\ r \in rooms /\ rooms' = rooms /\ maxPlayers' = maxPlayers
      /\ roomUsers' = [roomUsers EXCEPT ![r] = Append(@, u)]
      /\ dbRooms' \in UpdateRow(r, Len(roomUsers[r]) + 1, maxPlayers[r])
  BY DEF JoinRoom
<1>2. Len(roomUsers[r]) + 1 \in Nat /\ Len(roomUsers'[r]) = Len(roomUsers[r]) + 1
  BY <1>1, LenProperties, AppendProperties
<1>3. \A q \in RoomID : q # r => roomUsers'[q] = roomUsers[q]
  BY <1>1
<1> QED BY <1>1, <1>2, <1>3, UpdateMirrors

\* Rooms are destroyed, or their rows are inserted again.
LEMMA RestoreMirrors ==
  ASSUME Inv, Mirror, ~ DBFaults, RemoveAllRooms \/ RestoreRows
  PROVE  Mirror'
<1> USE Shapes
<1>1. CASE RemoveAllRooms
  BY <1>1 DEF RemoveAllRooms, DestroyRooms, Wrote, Mirror
<1>2. CASE RestoreRows
  <2>1. PICK stale \in SUBSET rooms : RestoreWith([r \in RoomID |-> NoRow], {}, stale)
    BY <1>2 DEF RestoreRows, RestoreWith, Wrote
  <2>2. rooms' = rooms /\ \A r \in RoomID : RowOf(r)' = RowOf(r)
    BY <2>1 DEF RestoreWith, DestroyRooms, RowOf
  <2>3. \A r \in RoomID : dbRooms'[r] = IF r \in rooms THEN RowOf(r) ELSE NoRow
    BY <2>1 DEF RestoreWith, RowOf
  <2> QED BY <2>2, <2>3 DEF Mirror
<1> QED BY <1>1, <1>2

LEMMA MirrorNext == ~ DBFaults /\ Inv /\ Mirror /\ [Next]_vars => Mirror'
<1> SUFFICES ASSUME ~ DBFaults, Inv, Mirror, [Next]_vars PROVE Mirror'
  OBVIOUS
<1>1. ASSUME NEW u \in User, Disconnect(u) \/ LeaveRoom(u) PROVE Mirror'
  BY <1>1, MirrorStays, RemoveRoomUserMirrors DEF Disconnect, LeaveRoom, roomVars
<1>2. ASSUME NEW u \in User,
             LogIn(u) \/ CreateCharacter(u) \/ RequestServerList(u) \/ EnterLobby(u) \/ ReturnToRoom(u)
      PROVE  Mirror'
  BY <1>2, MirrorStays DEF LogIn, CreateCharacter, RequestServerList, EnterLobby, ReturnToRoom, roomVars
<1>3. ASSUME NEW u \in User, NEW r \in RoomID,
             \/ ServerIsActivated(u, r) \/ SaveData(u, r) \/ EndGame(u, r)
             \/ \E v \in User : SendUserStatus(u, r, v)
      PROVE  Mirror'
  BY <1>3, MirrorStays DEF ServerIsActivated, SaveData, EndGame, SendUserStatus, roomVars
<1>4. CASE UNCHANGED vars
  BY <1>4, MirrorStays DEF vars, roomVars
<1> QED BY <1>1, <1>2, <1>3, <1>4, SettingsMirror, CreateRoomMirrors, JoinRoomMirrors,
           RestoreMirrors DEF Next

\* While no query fails, the table from which the other channels answer
\* SearchRoom holds exactly the rooms of the channel, with their numbers of
\* users, across evictions, removals of all rooms and recoveries.
THEOREM MirrorCorrect == ClientsStayPut => (Spec => []RowsMirrorRooms)
<1> SUFFICES ASSUME ClientsStayPut PROVE Spec => []RowsMirrorRooms
  OBVIOUS
<1>1. CASE DBFaults
  <2>1. RowsMirrorRooms
    BY <1>1 DEF RowsMirrorRooms
  <2> QED BY <2>1, PTL
<1>2. CASE ~ DBFaults
  <2>1. Init => Mirror
    BY DEF Init, Mirror
  <2>2. Spec => []Inv
    BY Consistency
  <2>3. Inv /\ Mirror /\ [Next]_vars => Mirror'
    BY <1>2, MirrorNext
  <2>4. Mirror => RowsMirrorRooms
    BY DEF Mirror, RowOf, RowsMirrorRooms
  <2> QED BY <2>1, <2>2, <2>3, <2>4, PTL DEF Spec
<1> QED BY <1>1, <1>2

-----------------------------------------------------------------------------
(* MatchIsPlaying.                                                         *)

\* A step that gives up a match may leave its room Waiting.
LEMMA PlayingStep ==
  ASSUME Inv, ClientsKeepState, MatchIsPlaying,
         \A r \in matches' : r \in matches /\ roomState'[r] = roomState[r]
  PROVE  MatchIsPlaying'
BY DEF MatchIsPlaying

LEMMA RemoveRoomUserPlaying ==
  ASSUME Inv, ClientsKeepState, MatchIsPlaying, NEW u \in User, NEW r \in rooms, NEW left,
         RemoveRoomUser(r, u, left)
  PROVE  MatchIsPlaying'
<1> USE Shapes
<1>1. CASE matches' = matches \ {r} /\ roomState' = [roomState EXCEPT ![r] = "Waiting"]
  BY <1>1, PlayingStep
<1>2. CASE /\ matches' = IF MatchGone(r, u) THEN matches \ {r} ELSE matches
           /\ roomState' = [roomState EXCEPT ![r] = IF MatchEnds(r, u) THEN "Waiting" ELSE @]
  <2>1. ASSUME NEW q \in matches' PROVE q \in matches /\ roomState'[q] = roomState[q]
    BY <1>2, <2>1 DEF MatchGone
  <2> QED BY <2>1, PlayingStep
<1> QED BY <1>1, <1>2 DEF RemoveRoomUser

LEMMA ReturnPlaying ==
  ASSUME Inv, ClientsKeepState, MatchIsPlaying, NEW u \in User, ReturnToRoom(u)
  PROVE  MatchIsPlaying'
<1> DEFINE r == currentRoom[u]
<1>1. /\ matches' = IF MatchGone(r, u) THEN matches \ {r} ELSE matches
      /\ roomState' = [roomState EXCEPT ![r] = IF MatchEnds(r, u) THEN "Waiting" ELSE @]
  BY DEF ReturnToRoom
<1> HIDE DEF r
<1>2. ASSUME NEW q \in matches' PROVE q \in matches /\ roomState'[q] = roomState[q]
  BY <1>1, <1>2, Shapes DEF MatchGone
<1> QED BY <1>2, PlayingStep

LEMMA PlayingNext == ClientsKeepState /\ Inv /\ MatchIsPlaying /\ [Next]_vars => MatchIsPlaying'
<1> SUFFICES ASSUME ClientsKeepState, Inv, MatchIsPlaying, [Next]_vars PROVE MatchIsPlaying'
  OBVIOUS
<1> USE Shapes
<1>1. CASE matches' = matches /\ roomState' = roomState
  BY <1>1, PlayingStep
<1>2. ASSUME NEW u \in User, Disconnect(u) \/ LeaveRoom(u) PROVE MatchIsPlaying'
  BY <1>1, <1>2, RemoveRoomUserPlaying DEF Disconnect, LeaveRoom, roomVars, matchVars
<1>3. ASSUME NEW u \in User, UpdateRoomSettings(u) PROVE MatchIsPlaying'
  <2>1. roomState' = [roomState EXCEPT ![currentRoom[u]] = roomState[currentRoom[u]]]
    BY <1>3 DEF UpdateRoomSettings
  <2>2. matches' = matches /\ roomState' = roomState
    BY <1>3, <2>1 DEF UpdateRoomSettings, matchVars
  <2> QED BY <1>1, <2>2
<1>4. ASSUME NEW u \in User,
             \/ LogIn(u) \/ CreateCharacter(u) \/ RequestServerList(u) \/ EnterLobby(u)
             \/ CreateRoom(u)
      PROVE  MatchIsPlaying'
  BY <1>1, <1>4 DEF LogIn, CreateCharacter, RequestServerList, EnterLobby, CreateRoom,
     roomVars, matchVars
<1>5. ASSUME NEW u \in User, NEW r \in RoomID,
             JoinRoom(u, r) \/ SaveData(u, r) \/ \E v \in User : SendUserStatus(u, r, v)
      PROVE  MatchIsPlaying'
  BY <1>1, <1>5 DEF JoinRoom, SaveData, SendUserStatus, roomVars, matchVars
<1>6. ASSUME NEW u \in User, NEW r \in RoomID, ServerIsActivated(u, r) PROVE MatchIsPlaying'
  BY <1>6 DEF ServerIsActivated, MatchIsPlaying
<1>7. ASSUME NEW u \in User, NEW r \in RoomID, EndGame(u, r) PROVE MatchIsPlaying'
  BY <1>7, PlayingStep DEF EndGame
<1>8. CASE RemoveAllRooms \/ RestoreRows
  <2>1. PICK gone \in SUBSET rooms : DestroyRooms(gone)
    BY <1>8 DEF RemoveAllRooms, RestoreRows, RestoreWith
  <2>2. ASSUME NEW q \in matches' PROVE q \in matches /\ roomState'[q] = roomState[q]
    BY <2>1, <2>2 DEF DestroyRooms
  <2> QED BY <2>2, PlayingStep
<1>9. CASE UNCHANGED vars
  BY <1>1, <1>9 DEF vars, roomVars, matchVars
<1> QED BY <1>2, <1>3, <1>4, <1>5, <1>6, <1>7, <1>8, <1>9, ReturnPlaying DEF Next

\* As long as hosts do not set ROOMSTATE themselves, a room with a match is
\* shown as Playing, whichever of EndGame, ReturnToRoom, RemoveRoomUser and
\* ~Room ended the matches before.
THEOREM PlayingCorrect == ClientsStayPut => (Spec => []MatchIsPlaying)
<1> SUFFICES ASSUME ClientsStayPut PROVE Spec => []MatchIsPlaying
  OBVIOUS
<1>1. CASE ~ ClientsKeepState
  <2>1. MatchIsPlaying
    BY <1>1 DEF MatchIsPlaying
  <2> QED BY <2>1, PTL
<1>2. CASE ClientsKeepState
  <2>1. Init => MatchIsPlaying
    BY DEF Init, MatchIsPlaying
  <2>2. Spec => []Inv
    BY Consistency
  <2>3. Inv /\ MatchIsPlaying /\ [Next]_vars => MatchIsPlaying'
    BY <1>2, PlayingNext
  <2> QED BY <2>1, <2>2, <2>3, PTL DEF Spec
<1> QED BY <1>1, <1>2

-----------------------------------------------------------------------------
(* MatchEndsForItsPlayers.                                                 *)

LEMMA PlayersOfRoom ==
  ASSUME Inv, NEW r \in matches, NEW u \in Players(r)
  PROVE  u \in User /\ u \in Members(r) /\ r \in rooms /\ r \in RoomID
<1>1. matchUsers[r] \in Seq(User) /\ r \in RoomID /\ r \in rooms
  BY Shapes DEF Inv, TypeOK
<1>2. u \in User
  BY <1>1 DEF Players, ToSet
<1>3. currentRoom[u] = r
  BY <1>1 DEF Inv, PlayersAreMembers
<1> QED BY <1>1, <1>2, <1>3 DEF Inv, RoomMembership

\* Who is left when nobody plays on.
LEMMA LastPlayer ==
  ASSUME Inv, NEW r \in matches, NEW u, PlayersWithout(r, u) = <<>>, NEW v \in Players(r)
  PROVE  v = u
<1>1. matchUsers[r] \in Seq(User) /\ IsInjective(matchUsers[r])
  BY Shapes DEF Inv, TypeOK, PlayersAreMembers
<1>2. ToSet(RemoveFirst(matchUsers[r], u)) = ToSet(matchUsers[r]) \ {u}
  BY <1>1, RemoveFirstProperties
<1>3. ToSet(<<>>) = {}
  BY EmptyProperties
<1> QED BY <1>2, <1>3 DEF PlayersWithout, Players

EndsForPlayers == \A r \in saved \ matches' : \A u \in Players(r) : status'[u] # "InGame"

LEMMA RemoveRoomUserEnds ==
  ASSUME Inv, NEW u \in User, NEW r \in rooms, NEW left \in {"InLobby", "Offline"},
         RemoveRoomUser(r, u, left)
  PROVE  EndsForPlayers
<1> SUFFICES ASSUME NEW q \in saved \ matches', NEW v \in Players(q)
             PROVE  status'[v] # "InGame"
  BY DEF EndsForPlayers
<1>1. q \in matches /\ q \in saved
  BY DEF Inv, TypeOK
<1>2. status' = [status EXCEPT ![u] = left]
  BY DEF RemoveRoomUser
<1>3. v \in User /\ v \in Members(q) /\ status \in [User -> Status]
  BY <1>1, PlayersOfRoom DEF Inv, TypeOK
<1>4. v = u
  <2>1. CASE RemoveFirst(roomUsers[r], u) = <<>> /\ matches' = matches \ {r}
    <3>1. q = r
      BY <1>1, <2>1
    <3>2. roomUsers[r] \in Seq(User) /\ IsInjective(roomUsers[r])
      BY Shapes DEF Inv, RoomMembership
    <3>3. ToSet(<<>>) = ToSet(roomUsers[r]) \ {u}
      BY <2>1, <3>2, RemoveFirstProperties
    <3> QED BY <1>3, <3>1, <3>3, EmptyProperties DEF Members
  <2>2. CASE matches' = IF MatchGone(r, u) THEN matches \ {r} ELSE matches
    <3>1. q = r /\ MatchGone(r, u)
      BY <1>1, <2>2
    <3>2. PlayersWithout(r, u) = <<>>
      BY <1>1, <3>1 DEF MatchGone, MatchEnds, MatchLost
    <3> QED BY <1>1, <3>1, <3>2, LastPlayer
  <2> QED BY <2>1, <2>2 DEF RemoveRoomUser
<1> QED BY <1>2, <1>3, <1>4

LEMMA ReturnEnds ==
  ASSUME Inv, NEW u \in User, ReturnToRoom(u)
  PROVE  EndsForPlayers
<1> DEFINE r == currentRoom[u]
<1> SUFFICES ASSUME NEW q \in saved \ matches', NEW v \in Players(q)
             PROVE  status'[v] # "InGame"
  BY DEF EndsForPlayers
<1>1. q \in matches /\ q \in saved
  BY DEF Inv, TypeOK
<1>2. /\ status' = [status EXCEPT ![u] = "InRoom"]
      /\ matches' = IF MatchGone(r, u) THEN matches \ {r} ELSE matches
  BY DEF ReturnToRoom
<1>3. v \in User /\ status \in [User -> Status]
  BY <1>1, PlayersOfRoom DEF Inv, TypeOK
<1> HIDE DEF r
<1>4. q = r /\ MatchGone(r, u)
  BY <1>1, <1>2
<1>5. PlayersWithout(r, u) = <<>>
  BY <1>1, <1>4 DEF MatchGone, MatchEnds, MatchLost
<1>6. v = u
  BY <1>1, <1>4, <1>5, LastPlayer
<1> QED BY <1>2, <1>3, <1>6

LEMMA DestroyEnds ==
  ASSUME Inv, NEW gone \in SUBSET rooms, DestroyRooms(gone)
  PROVE  EndsForPlayers
<1> SUFFICES ASSUME NEW q \in saved \ matches', NEW v \in Players(q)
             PROVE  status'[v] # "InGame"
  BY DEF EndsForPlayers
<1>1. q \in matches /\ q \in gone
  BY DEF Inv, TypeOK, DestroyRooms
<1>2. v \in User /\ v \in Members(q)
  BY <1>1, PlayersOfRoom
<1>3. v \in UNION {Members(r) : r \in gone}
  BY <1>1, <1>2
<1>4. status'[v] = "InLobby"
  BY <1>2, <1>3 DEF DestroyRooms
<1> QED BY <1>4

LEMMA EndsNext == Inv /\ [Next]_vars => EndsForPlayers
<1> SUFFICES ASSUME Inv, [Next]_vars PROVE EndsForPlayers
  OBVIOUS
<1>1. CASE matches \subseteq matches'
  BY <1>1 DEF EndsForPlayers, Inv, TypeOK
<1>2. ASSUME NEW u \in User, Disconnect(u) \/ LeaveRoom(u) PROVE EndsForPlayers
  BY <1>1, <1>2, RemoveRoomUserEnds DEF Disconnect, LeaveRoom, matchVars
<1>3. ASSUME NEW u \in User,
             \/ LogIn(u) \/ CreateCharacter(u) \/ RequestServerList(u) \/ EnterLobby(u)
             \/ CreateRoom(u) \/ UpdateRoomSettings(u)
      PROVE  EndsForPlayers
  BY <1>1, <1>3 DEF LogIn, CreateCharacter, RequestServerList, EnterLobby, CreateRoom,
     UpdateRoomSettings, matchVars
<1>4. ASSUME NEW u \in User, NEW r \in RoomID,
             \/ JoinRoom(u, r) \/ ServerIsActivated(u, r) \/ SaveData(u, r)
             \/ \E v \in User : SendUserStatus(u, r, v)
      PROVE  EndsForPlayers
  BY <1>1, <1>4 DEF JoinRoom, ServerIsActivated, SaveData, SendUserStatus, matchVars
<1>5. ASSUME NEW u \in User, NEW r \in RoomID, EndGame(u, r) PROVE EndsForPlayers
  <2> SUFFICES ASSUME NEW q \in saved \ matches', NEW v \in Players(q)
               PROVE  status'[v] # "InGame"
    BY DEF EndsForPlayers
  <2>1. q \in matches /\ q = r
    BY <1>5 DEF EndGame, Inv, TypeOK
  <2>2. v \in User
    BY <2>1, PlayersOfRoom
  <2>3. status'[v] = "InRoom"
    BY <1>5, <2>1, <2>2 DEF EndGame
  <2> QED BY <2>3
<1>6. CASE RemoveAllRooms \/ RestoreRows
  BY <1>6, DestroyEnds DEF RemoveAllRooms, RestoreRows, RestoreWith
<1>7. CASE UNCHANGED vars
  BY <1>1, <1>7 DEF vars, matchVars
<1> QED BY <1>2, <1>3, <1>4, <1>5, <1>6, <1>7, ReturnEnds DEF Next

\* A match with save data never disappears from under a player: whichever of
\* EndGame, ReturnToRoom, RemoveRoomUser and ~Room ends it, its players are
\* out of the game.
THEOREM MatchEndsCorrect == ClientsStayPut => (Spec => MatchEndsForItsPlayers)
<1> SUFFICES ASSUME ClientsStayPut PROVE Spec => MatchEndsForItsPlayers
  OBVIOUS
<1>1. Spec => []Inv
  BY Consistency
<1>2. Inv /\ [Next]_vars => [\A r \in saved \ matches' : \A u \in Players(r) : status'[u] # "InGame"]_vars
  BY EndsNext DEF EndsForPlayers
<1> QED BY <1>1, <1>2, PTL DEF Spec, MatchEndsForItsPlayers

-----------------------------------------------------------------------------
(* HostHandover.                                                           *)

Handover(r) ==
  LET old == roomHost[r]
      players == RemoveFirst(matchUsers[r], old)
      heirs == IF players # <<>> THEN players ELSE RemoveFirst(roomUsers[r], old)
  IN roomHost'[r] # old =>
       /\ currentRoom'[old] = r => status'[old] = "InRoom" /\ players # <<>>
       /\ roomHost'[r] = Head(heirs)

Handovers == \A r \in rooms \intersect rooms' : Handover(r)

\* A step that gives rooms that live on no other host.
LEMMA HostStays ==
  ASSUME \A r \in rooms \intersect rooms' : roomHost'[r] = roomHost[r]
  PROVE  Handovers
BY DEF Handovers, Handover

LEMMA EmptySeqOfNothing == ASSUME NEW s \in Seq({}) PROVE s = <<>>
<1>1. s # <<>> => Head(s) \in {}
  BY HeadIsElement
<1> QED BY <1>1

\* Nobody plays in a room without a match.
LEMMA NoMatchNoPlayers ==
  ASSUME Inv, NEW r \in rooms, r \notin matches, NEW u
  PROVE  RemoveFirst(matchUsers[r], u) = <<>>
<1>1. matchUsers[r] = <<>>
  BY Shapes DEF Inv, PlayersAreMembers
<1>2. <<>> \in Seq({}) /\ IsInjective(<<>>)
  BY EmptyProperties
<1>3. RemoveFirst(<<>>, u) \in Seq({})
  BY <1>2, RemoveFirstProperties
<1>4. RemoveFirst(<<>>, u) = <<>>
  BY <1>3, EmptySeqOfNothing
<1> QED BY <1>1, <1>4

LEMMA RemoveRoomUserHands ==
  ASSUME Inv, NEW u \in User, NEW r \in rooms, NEW left, RemoveRoomUser(r, u, left)
  PROVE  Handovers
<1> USE Shapes
<1> DEFINE users   == RemoveFirst(roomUsers[r], u)
           players == PlayersWithout(r, u)
           heir    == IF r \in matches /\ players # <<>> THEN Head(players) ELSE Head(users)
<1>1. r \in RoomID /\ roomHost \in [RoomID -> User \union {NoUser}] /\ r # NoRoom
  BY DEF Inv, TypeOK, RoomID, NoRoom
<1>2. currentRoom' = [currentRoom EXCEPT ![u] = NoRoom] /\ currentRoom \in [User -> RoomID \union {NoRoom}]
  BY DEF RemoveRoomUser, Inv, TypeOK
<1>3. CASE rooms' = rooms \ {r} /\ roomHost' = [roomHost EXCEPT ![r] = NoUser]
  BY <1>1, <1>3, HostStays
<1>4. CASE rooms' = rooms /\ roomHost' = [roomHost EXCEPT ![r] = IF @ = u THEN heir ELSE @]
  <2>1. ASSUME NEW q \in rooms, q # r \/ roomHost[r] # u PROVE Handover(q)
    BY <1>1, <1>4, <2>1 DEF Handover
  <2>2. ASSUME roomHost[r] = u PROVE Handover(r)
    <3>1. roomHost'[r] = heir /\ currentRoom'[u] # r
      BY <1>1, <1>2, <1>4, <2>2
    <3>2. heir = IF players # <<>> THEN Head(players) ELSE Head(users)
      BY NoMatchNoPlayers DEF PlayersWithout
    <3> QED BY <2>2, <3>1, <3>2 DEF Handover, PlayersWithout
  <2> QED BY <1>4, <2>1, <2>2 DEF Handovers
<1> QED BY <1>3, <1>4 DEF RemoveRoomUser

LEMMA ReturnHands ==
  ASSUME Inv, NEW u \in User, ReturnToRoom(u)
  PROVE  Handovers
<1> USE Shapes
<1> DEFINE r == currentRoom[u]
           players == PlayersWithout(r, u)
<1>1. /\ rooms' = rooms
      /\ roomHost' = [roomHost EXCEPT ![r] = IF @ = u /\ players # <<>> THEN Head(players) ELSE @]
      /\ status' = [status EXCEPT ![u] = "InRoom"]
  BY DEF ReturnToRoom
<1>2. roomHost \in [RoomID -> User \union {NoUser}] /\ status \in [User -> Status]
  BY DEF Inv, TypeOK
<1> HIDE DEF r
<1>3. ASSUME NEW q \in rooms PROVE Handover(q)
  <2>1. CASE q = r /\ roomHost[r] = u /\ players # <<>>
    <3>1. roomHost'[q] = Head(players) /\ status'[u] = "InRoom"
      BY <1>1, <1>2, <2>1
    <3> QED BY <2>1, <3>1 DEF Handover, PlayersWithout
  <2>2. CASE ~ (q = r /\ roomHost[r] = u /\ players # <<>>)
    <3>1. roomHost'[q] = roomHost[q]
      BY <1>1, <1>2, <2>2
    <3> QED BY <3>1 DEF Handover
  <2> QED BY <2>1, <2>2
<1> QED BY <1>1, <1>3 DEF Handovers

LEMMA HandsNext == Inv /\ [Next]_vars => Handovers
<1> SUFFICES ASSUME Inv, [Next]_vars PROVE Handovers
  OBVIOUS
<1> USE Shapes
<1>1. CASE roomHost' = roomHost
  BY <1>1, HostStays
<1>2. ASSUME NEW u \in User, Disconnect(u) \/ LeaveRoom(u) PROVE Handovers
  BY <1>1, <1>2, RemoveRoomUserHands DEF Disconnect, LeaveRoom, roomVars
<1>3. ASSUME NEW u \in User, CreateRoom(u) PROVE Handovers
  <2>1. ASSUME NEW r \in RoomID, r \notin rooms, roomHost' = [roomHost EXCEPT ![r] = u]
        PROVE  \A q \in rooms \intersect rooms' : roomHost'[q] = roomHost[q]
    BY <2>1 DEF Inv, TypeOK
  <2> QED BY <1>1, <1>3, <2>1, HostStays DEF CreateRoom, IsFreeRoomID, roomVars
<1>4. ASSUME NEW u \in User,
             \/ LogIn(u) \/ CreateCharacter(u) \/ RequestServerList(u) \/ EnterLobby(u)
             \/ UpdateRoomSettings(u)
      PROVE  Handovers
  BY <1>1, <1>4 DEF LogIn, CreateCharacter, RequestServerList, EnterLobby, UpdateRoomSettings, roomVars
<1>5. ASSUME NEW u \in User, NEW r \in RoomID,
             \/ JoinRoom(u, r) \/ ServerIsActivated(u, r) \/ SaveData(u, r) \/ EndGame(u, r)
             \/ \E v \in User : SendUserStatus(u, r, v)
      PROVE  Handovers
  BY <1>1, <1>5 DEF JoinRoom, ServerIsActivated, SaveData, EndGame, SendUserStatus, roomVars
<1>6. CASE RemoveAllRooms \/ RestoreRows
  <2>1. PICK gone \in SUBSET rooms : DestroyRooms(gone)
    BY <1>6 DEF RemoveAllRooms, RestoreRows, RestoreWith
  <2>2. \A q \in rooms \intersect rooms' : roomHost'[q] = roomHost[q]
    BY <2>1 DEF DestroyRooms
  <2> QED BY <2>2, HostStays
<1>7. CASE UNCHANGED vars
  BY <1>1, <1>7 DEF vars, roomVars
<1> QED BY <1>2, <1>3, <1>4, <1>5, <1>6, <1>7, ReturnHands DEF Next

\* A room changes hands only when its host leaves the room or the match, and
\* to the first player left, or the first user: what RemoveRoomUser and
\* ReturnToRoom decide in different places.
THEOREM HandoverCorrect == ClientsStayPut => (Spec => HostHandover)
<1> SUFFICES ASSUME ClientsStayPut PROVE Spec => HostHandover
  OBVIOUS
<1>1. Spec => []Inv
  BY Consistency
<1>2. Inv /\ [Next]_vars =>
        [\A r \in rooms \intersect rooms' :
           LET old == roomHost[r]
               players == RemoveFirst(matchUsers[r], old)
               heirs == IF players # <<>> THEN players ELSE RemoveFirst(roomUsers[r], old)
           IN roomHost'[r] # old =>
                /\ currentRoom'[old] = r => status'[old] = "InRoom" /\ players # <<>>
                /\ roomHost'[r] = Head(heirs)]_vars
  BY HandsNext DEF Handovers, Handover
<1> QED BY <1>1, <1>2, PTL DEF Spec, HostHandover
=============================================================================
