----------------------------- MODULE LobbyViews -----------------------------
(***************************************************************************)
(* What the clients of a channel have been told: module Rooms with the     *)
(* packets its handlers send.  A client in the lobby holds a list of the   *)
(* users in the lobby and a list of the rooms; a client in a room holds    *)
(* the users, the host and the settings of its room.  No client is told    *)
(* the state again after it has entered: it depends on every handler       *)
(* telling the right clients, and no others, what it changed.              *)
(*                                                                         *)
(* A list is the outcome of the packets sent to the client, in order: the  *)
(* TCP thread queues them in the order of the calls, which module          *)
(* PacketWriter shows to be the order of delivery.  Whom a handler tells   *)
(* depends on the status users have when it sends, not when it returns.    *)
(* A list is empty while its client is elsewhere: a full list awaits it    *)
(* when it comes back.                                                     *)
(*                                                                         *)
(* The queries that may fail are those on the table rooms.  The SELECT of  *)
(* the character that a list or packet shows is taken to succeed.          *)
(***************************************************************************)
EXTENDS Rooms

VARIABLES
  userList,  \* FullUserList, AddUser and RemoveUser of Packet_Lobby
  roomList,  \* FullRoomList, AddRoom, RemoveRoom and UpdateRoom of Packet_RoomList
  roomView   \* ReplyCreateAndJoin, UserJoin, UserLeave, ReplyUpdateRoomSettings of
             \* Packet_Room and UpdateRoom with ROOMLIST_FLAG_ROOMHOST

viewVars == <<userList, roomList, roomView>>
allVars  == <<vars, viewVars>>

Entry == [id : RoomID, players : Nat, max : 0 .. 255, state : RoomState]
RoomView == [members : SUBSET User, host : User \union {NoUser}, max : 0 .. 255, state : RoomState]
Outside == [members |-> {}, host |-> NoUser, max |-> 0, state |-> "Waiting"]

ViewsTypeOK ==
  /\ TypeOK
  /\ userList \in [User -> SUBSET User]
  /\ roomList \in [User -> SUBSET Entry]
  /\ roomView \in [User -> RoomView]

ViewsInit ==
  /\ Init
  /\ userList = [v \in User |-> {}]
  /\ roomList = [v \in User |-> {}]
  /\ roomView = [v \in User |-> Outside]

-----------------------------------------------------------------------------
(* Packets.                                                                *)

Lobby(st) == {v \in User : st[v] = "InLobby"}

\* buildRoomInfo: what a room list shows of room r.  The host it shows is
\* left out, see the README.
BugRoomInfoFromZero(r) ==
  [id |-> r - 1, players |-> Len(roomUsers[r]), max |-> maxPlayers[r], state |-> roomState[r]]
RoomInfo(r) ==
  [id |-> r, players |-> Len(roomUsers[r]), max |-> maxPlayers[r], state |-> roomState[r]]
RoomInfos == {RoomInfo(r) : r \in rooms}

\* buildRoomSettings and buildRoomUserInfo, and the host.
InsideInfo(r) ==
  [members |-> Members(r), host |-> roomHost[r], max |-> maxPlayers[r], state |-> roomState[r]]

\* The packets that turn a list into Change(list) are sent to the audience.
Tell(lists, audience, Change(_)) ==
  [v \in User |-> IF v \in audience THEN Change(lists[v]) ELSE lists[v]]

\* SendAddUserPacketToAll and SendRemoveUserPacketToAll; u itself is left out.
BugTellArrivalInside(lists, st, u) ==
  Tell(lists, {v \in User : st[v] = "InRoom"}, LAMBDA list : list \union {u})
TellArrival(lists, st, u) == Tell(lists, Lobby(st) \ {u}, LAMBDA list : list \union {u})
TellDeparture(lists, st, u) == Tell(lists, Lobby(st) \ {u}, LAMBDA list : list \ {u})

\* SendRemoveRoomPacketToAll and SendUpdateRoomPacketToAll.
BugTellNobodyRoomGone(lists, st, r) == lists
TellRoomGone(lists, st, r) ==
  Tell(lists, Lobby(st), LAMBDA list : {e \in list : e.id # r})
TellRoomChange(lists, st, r, Change(_)) ==
  Tell(lists, Lobby(st), LAMBDA list : {IF e.id = r THEN Change(e) ELSE e : e \in list})

TellPlayers(lists, st, r, n) ==
  TellRoomChange(lists, st, r, LAMBDA e : [e EXCEPT !.players = n])
TellState(lists, st, r, state) ==
  TellRoomChange(lists, st, r, LAMBDA e : [e EXCEPT !.state = state])

-----------------------------------------------------------------------------
(* The handlers of Rooms with what they send.                              *)

\* SendLoginPackets of a transferred user, and RequestTransfer to this channel.
ShowLobby(u) ==
  /\ userList' = [TellArrival(userList, status', u) EXCEPT ![u] = Lobby(status')]
  /\ roomList' = [roomList EXCEPT ![u] = RoomInfos]
  /\ UNCHANGED roomView

ViewLogIn(u) ==
  /\ LogIn(u)
  /\ IF status'[u] = "InLobby" THEN ShowLobby(u) ELSE UNCHANGED viewVars

ViewCreateCharacter(u) == CreateCharacter(u) /\ UNCHANGED viewVars

ViewEnterLobby(u) == EnterLobby(u) /\ ShowLobby(u)

ViewRequestServerList(u) ==
  /\ RequestServerList(u)
  /\ userList' = [TellDeparture(userList, status', u) EXCEPT ![u] = {}]
  /\ roomList' = [roomList EXCEPT ![u] = {}]
  /\ UNCHANGED roomView

\* RemoveRoomUser: the lobby hears of one user less, and then that the room
\* is gone or that it waits; the users that stay hear who left and, if it was
\* the host, who is the host and whether the match is over.
ShowLeaving(r, u) ==
  LET counted == TellPlayers(roomList, status, r, Len(roomUsers[r]) - 1)
  IN /\ roomList' =
          [IF r \notin rooms' THEN TellRoomGone(counted, status, r)
           ELSE IF MatchEnds(r, u) THEN TellState(counted, status, r, "Waiting")
           ELSE counted
           EXCEPT ![u] = IF status'[u] = "InLobby" THEN RoomInfos' ELSE {}]
     /\ roomView' =
          [Tell(roomView, ToSet(roomUsers'[r]),
                LAMBDA view :
                  [view EXCEPT !.members = @ \ {u},
                               !.host = IF roomHost[r] = u THEN roomHost'[r] ELSE @,
                               !.state = IF MatchEnds(r, u) THEN "Waiting" ELSE @])
           EXCEPT ![u] = Outside]

ViewLeaveRoom(u) ==
  /\ LeaveRoom(u)
  /\ ShowLeaving(currentRoom[u], u)
  /\ userList' = [TellArrival(userList, status', u) EXCEPT ![u] = Lobby(status')]

ViewDisconnect(u) ==
  /\ Disconnect(u)
  /\ IF currentRoom[u] \in rooms
     THEN ShowLeaving(currentRoom[u], u) /\ UNCHANGED userList
     ELSE /\ userList' = [IF status[u] = "InLobby"
                          THEN TellDeparture(userList, status, u)
                          ELSE userList EXCEPT ![u] = {}]
          /\ roomList' = [roomList EXCEPT ![u] = {}]
          /\ UNCHANGED roomView

\* A room that could not be added sends its user back to the lobby, twice
\* announced: by CreateRoom and by ~Room.
ViewCreateRoom(u) ==
  /\ CreateRoom(u)
  /\ LET absent == TellDeparture(userList, [status EXCEPT ![u] = "InRoom"], u)
     IN \/ \E r \in RoomID :
             /\ rooms' = rooms \union {r}
             /\ r \notin rooms
             /\ userList' = [absent EXCEPT ![u] = {}]
             /\ roomList' = [Tell(roomList, Lobby(status'), LAMBDA list : list \union {RoomInfo(r)'})
                             EXCEPT ![u] = {}]
             /\ roomView' = [roomView EXCEPT ![u] = InsideInfo(r)']
        \/ /\ rooms' = rooms
           /\ userList' = [TellArrival(TellArrival(absent, status', u), status', u)
                           EXCEPT ![u] = Lobby(status')]
           /\ roomList' = [roomList EXCEPT ![u] = RoomInfos]
           /\ UNCHANGED roomView

ViewJoinRoom(u, r) ==
  /\ JoinRoom(u, r)
  /\ userList' = [TellDeparture(userList, status', u) EXCEPT ![u] = {}]
  /\ roomList' = [TellPlayers(roomList, status', r, Len(roomUsers'[r])) EXCEPT ![u] = {}]
  /\ roomView' = [Tell(roomView, Members(r),
                       LAMBDA view : [view EXCEPT !.members = @ \union {u}])
                  EXCEPT ![u] = InsideInfo(r)']

\* roomListFlag is an unsigned char: of the ROOMLIST flags only those below
\* 0x100 reach the lobby.
RoomListFlag == [max |-> 128, state |-> 16384]
Announced(field) == RoomListFlag[field] % 256 # 0

ViewUpdateRoomSettings(u) ==
  LET r == currentRoom[u] IN
  /\ UpdateRoomSettings(u)
  /\ roomList' =
       TellRoomChange(roomList, status, r,
         LAMBDA e : [e EXCEPT !.max = IF Announced("max") THEN maxPlayers'[r] ELSE @,
                              !.state = IF Announced("state") THEN roomState'[r] ELSE @])
  /\ roomView' = Tell(roomView, Members(r),
                      LAMBDA view : [view EXCEPT !.max = maxPlayers'[r], !.state = roomState'[r]])
  /\ UNCHANGED userList

\* The end of ServerIsActivated, EndGame and ReturnToRoom: the new roomState
\* goes to the lobby and to the users of the room.
BugShowStateOutside(r, state) ==
  /\ roomList' = TellState(roomList, status', r, state)
  /\ UNCHANGED <<userList, roomView>>

ShowState(r, state) ==
  /\ roomList' = TellState(roomList, status', r, state)
  /\ roomView' = Tell(roomView, Members(r), LAMBDA view : [view EXCEPT !.state = state])
  /\ UNCHANGED userList

ViewReturnToRoom(u) ==
  LET r == currentRoom[u] IN
  /\ ReturnToRoom(u)
  /\ CASE MatchEnds(r, u) -> ShowState(r, "Waiting")
       [] roomHost[r] = u /\ ~ MatchEnds(r, u) ->
            /\ roomView' = Tell(roomView, Members(r),
                                LAMBDA view : [view EXCEPT !.host = roomHost'[r]])
            /\ UNCHANGED <<userList, roomList>>
       [] OTHER -> UNCHANGED viewVars

ViewServerIsActivated(u, r) == ServerIsActivated(u, r) /\ ShowState(r, "Playing")
ViewEndGame(u, r) == EndGame(u, r) /\ ShowState(r, "Waiting")
ViewSaveData(u, r) == SaveData(u, r) /\ UNCHANGED viewVars
ViewSendUserStatus(u, r, v) == SendUserStatus(u, r, v) /\ UNCHANGED viewVars

-----------------------------------------------------------------------------
(* Rooms destroyed one after the other, in the order of _rooms: the users  *)
(* of each go to the lobby one by one and hear of the rooms that come      *)
(* after.  Of the rooms in listed, the full room list shows those that are *)
(* not gone yet.                                                           *)

Channel == [st |-> status, users |-> userList, lists |-> roomList, gone |-> {}]

EvictUser(c, u, listed) ==
  LET st == [c.st EXCEPT ![u] = "InLobby"]
  IN [c EXCEPT !.st = st,
               !.users = [TellArrival(c.users, st, u) EXCEPT ![u] = Lobby(st)],
               !.lists = [@ EXCEPT ![u] = {RoomInfo(r) : r \in listed \ c.gone}]]

EvictUsers(c, users, listed) ==
  LET after[i \in 0 .. Len(users)] ==
        IF i = 0 THEN c ELSE EvictUser(after[i - 1], users[i], listed)
  IN after[Len(users)]

DestroyRoom(c, r, listed) ==
  LET told == [c EXCEPT !.lists = TellRoomGone(@, c.st, r), !.gone = @ \union {r}]
  IN EvictUsers(told, roomUsers[r], listed)

Destruction(order, listed) ==
  LET after[i \in 0 .. Len(order)] ==
        IF i = 0 THEN Channel ELSE DestroyRoom(after[i - 1], order[i], listed)
  IN after[Len(order)]

ShowDestruction(order, listed) ==
  LET c == Destruction(order, listed)
  IN /\ userList' = c.users
     /\ roomList' = c.lists
     /\ roomView' = [u \in User |-> IF c.st[u] = "InLobby" THEN Outside ELSE roomView[u]]

\* RemoveAllRooms empties _rooms before it destroys the first room.
ViewRemoveAllRooms ==
  /\ RemoveAllRooms
  /\ \E order \in SetToSeqs(rooms) : ShowDestruction(order, {})

ViewRestoreRows ==
  /\ RestoreRows
  /\ \E order \in SetToSeqs(rooms \ rooms') : ShowDestruction(order, rooms)

ViewsNext ==
  \/ \E u \in User :
       \/ ViewLogIn(u) \/ ViewCreateCharacter(u) \/ ViewRequestServerList(u) \/ ViewEnterLobby(u)
       \/ ViewDisconnect(u)
       \/ ViewCreateRoom(u) \/ ViewLeaveRoom(u) \/ ViewUpdateRoomSettings(u) \/ ViewReturnToRoom(u)
  \/ \E u \in User, r \in RoomID :
       \/ ViewJoinRoom(u, r)
       \/ ViewServerIsActivated(u, r) \/ ViewSaveData(u, r) \/ ViewEndGame(u, r)
  \/ \E u, v \in User, r \in RoomID : ViewSendUserStatus(u, r, v)
  \/ ViewRemoveAllRooms
  \/ ViewRestoreRows

ViewsSpec == ViewsInit /\ [][ViewsNext]_allVars

-----------------------------------------------------------------------------
(* What clients see is what there is.                                      *)

\* Every client in the lobby lists exactly the users in the lobby: each of
\* the handlers by which users come and go sent AddUser or RemoveUser while
\* the statuses selected the right audience.
LobbySeesUsers == \A v \in Lobby(status) : userList[v] = Lobby(status)

\* Every client in the lobby lists exactly the rooms of the channel, with
\* their number of users, capacity and state, although rooms change, appear
\* and go while it only receives differences.
LobbySeesRooms == \A v \in Lobby(status) : roomList[v] = RoomInfos

\* Every client in a room knows its users, host, capacity and state.
MembersSeeRoom == \A v \in User : InARoom(v) => roomView[v] = InsideInfo(currentRoom[v])

\* UpdateRoomSettings adds ROOMLIST_FLAG_ROOMSTATE to the flags of the update
\* it sends to the lobby: the lobby shows the state of each room.
LobbySeesStates ==
  \A v \in Lobby(status) : \A e \in roomList[v] : e.id \in rooms => e.state = roomState[e.id]
=============================================================================
