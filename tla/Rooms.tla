------------------------------- MODULE Rooms -------------------------------
(***************************************************************************)
(* Users, rooms and matches of one channel process: UserManager,           *)
(* RoomManager, Room and GameMatch, driven by the packet handlers that the *)
(* TCP thread runs one at a time, by the console command removeallrooms    *)
(* and by the room part of the stall recovery of UDPServer::OnSecondTick.  *)
(*                                                                         *)
(* One action is one handler from its guards to its last state change.  A  *)
(* handler that refuses leaves the state alone and is not an action.       *)
(*                                                                         *)
(* Simplifications.                                                        *)
(*  - A user is a User object bound to one connection; who may log in is   *)
(*    decided by module Sessions.  The character of a logged-in user can   *)
(*    be read.                                                             *)
(*  - Of the room settings only maxPlayers and roomState are kept; of the  *)
(*    password only that it may make JoinRoom refuse, and of the save data *)
(*    only whether it is empty.                                            *)
(*  - The definitions named Bug... are faulty variants of the definition    *)
(*    that follows them: the properties must tell the two apart.           *)
(*  - The handlers of the console and tick threads are atomic here; where  *)
(*    they interleave with the TCP thread is the subject of other modules. *)
(***************************************************************************)
EXTENDS Integers, SequencesExt

CONSTANTS
  User,              \* users that may be connected to this channel
  NoUser,            \* no user: the value of a cleared pointer
  MaxRoomID,         \* UINT16_MAX - 1 in GetFreeRoomID; bounds the rooms
  Capacity,          \* values a client may give maxPlayers
  ClientsStayPut,    \* clients do not create or join a room during a game
  ClientsKeepState,  \* hosts do not set ROOMSTATE by UpdateRoomSettings
  DBFaults           \* queries on the table rooms may fail

ASSUME RoomsAssumption ==
  /\ NoUser \notin User
  /\ MaxRoomID \in Nat
  /\ Capacity \subseteq 0 .. 255
  /\ ClientsStayPut \in BOOLEAN
  /\ ClientsKeepState \in BOOLEAN
  /\ DBFaults \in BOOLEAN

RoomID == 1 .. MaxRoomID
NoRoom == 0                       \* roomID 0, for which GetRoomByRoomID is NULL

Status == {"Offline", "InLogin", "InServerList", "InLobby", "InRoom", "InGame"}
RoomState == {"Waiting", "Playing"}

NoRow == [players |-> -1, max |-> -1]
Row == [players : Nat, max : Nat]

VARIABLES
  status,       \* UserStatus of each user; "Offline" if not in _users
  currentRoom,  \* _currentRoomID of each user
  rooms,        \* identifiers of the rooms in _rooms
  roomUsers,    \* _roomUsers of each room, in order of arrival
  roomHost,     \* _roomHostUser of each room
  roomState,    \* _roomSettings.roomState of each room
  maxPlayers,   \* _roomSettings.maxPlayers of each room
  matches,      \* the rooms with a _gameMatch
  matchUsers,   \* _gameMatchUsers of each match
  saved,        \* the rooms whose match has save data
  dbRooms       \* rows of the table rooms that belong to this channel

userVars  == <<status, currentRoom>>
matchVars == <<matches, matchUsers, saved>>
roomVars  == <<rooms, roomUsers, roomHost, roomState, maxPlayers>>
vars      == <<userVars, roomVars, matchVars, dbRooms>>

TypeOK ==
  /\ status \in [User -> Status]
  /\ currentRoom \in [User -> RoomID \union {NoRoom}]
  /\ rooms \in SUBSET RoomID
  /\ roomUsers \in [RoomID -> Seq(User)]
  /\ roomHost \in [RoomID -> User \union {NoUser}]
  /\ roomState \in [RoomID -> RoomState]
  /\ maxPlayers \in [RoomID -> 0 .. 255]
  /\ matches \in SUBSET rooms
  /\ matchUsers \in [RoomID -> Seq(User)]
  /\ saved \in SUBSET matches
  /\ dbRooms \in [RoomID -> Row \union {NoRow}]

Members(r) == ToSet(roomUsers[r])
Players(r) == ToSet(matchUsers[r])

InARoom(u) == status[u] \in {"InRoom", "InGame"}

Init ==
  /\ status = [u \in User |-> "Offline"]
  /\ currentRoom = [u \in User |-> NoRoom]
  /\ rooms = {}
  /\ roomUsers = [r \in RoomID |-> <<>>]
  /\ roomHost = [r \in RoomID |-> NoUser]
  /\ roomState = [r \in RoomID |-> "Waiting"]
  /\ maxPlayers = [r \in RoomID |-> 0]
  /\ matches = {}
  /\ matchUsers = [r \in RoomID |-> <<>>]
  /\ saved = {}
  /\ dbRooms = [r \in RoomID |-> NoRow]

-----------------------------------------------------------------------------
(* Entering and leaving the channel.                                       *)

\* Login, or TransferLogin, of a user the session table accepts.  A user
\* without a character stays InLogin; the others reach the server list or,
\* coming from another channel, the lobby.
LogIn(u) ==
  /\ status[u] = "Offline"
  /\ status' \in {[status EXCEPT ![u] = s] : s \in {"InLogin", "InServerList", "InLobby"}}
  /\ UNCHANGED <<currentRoom, roomVars, matchVars, dbRooms>>

CreateCharacter(u) ==
  /\ status[u] = "InLogin"
  /\ status' = [status EXCEPT ![u] = "InServerList"]
  /\ UNCHANGED <<currentRoom, roomVars, matchVars, dbRooms>>

RequestServerList(u) ==
  /\ status[u] = "InLobby"
  /\ status' = [status EXCEPT ![u] = "InServerList"]
  /\ UNCHANGED <<currentRoom, roomVars, matchVars, dbRooms>>

BugEnterLobbyFromAnywhere(u) ==
  /\ status[u] \notin {"Offline", "InLogin"}
  /\ status' = [status EXCEPT ![u] = "InLobby"]
  /\ UNCHANGED <<currentRoom, roomVars, matchVars, dbRooms>>

\* RequestTransfer to the channel the user is already connected to.
EnterLobby(u) ==
  /\ status[u] = "InServerList"
  /\ status' = [status EXCEPT ![u] = "InLobby"]
  /\ UNCHANGED <<currentRoom, roomVars, matchVars, dbRooms>>

-----------------------------------------------------------------------------
(* The table rooms.  Each operator is the set of tables a query may leave. *)

Wrote(table) == IF DBFaults THEN {table, dbRooms} ELSE {table}

BugUpdateRowPlayers(r, players, max) ==
  Wrote(IF dbRooms[r] = NoRow THEN dbRooms ELSE [dbRooms EXCEPT ![r].players = players])

UpdateRow(r, players, max) ==
  Wrote(IF dbRooms[r] = NoRow
        THEN dbRooms
        ELSE [dbRooms EXCEPT ![r] = [players |-> players, max |-> max]])

BugDeleteChannelRows(r) == Wrote([q \in RoomID |-> NoRow])

DeleteRow(r) == Wrote([dbRooms EXCEPT ![r] = NoRow])

-----------------------------------------------------------------------------
(* Room::~Room for the rooms in gone: its users go back to the lobby.      *)

DestroyRooms(gone) ==
  LET evicted == UNION {Members(r) : r \in gone}
      Cleared(f, value) == [r \in RoomID |-> IF r \in gone THEN value ELSE f[r]]
  IN /\ status' = [u \in User |-> IF u \in evicted THEN "InLobby" ELSE status[u]]
     /\ currentRoom' = [u \in User |-> IF u \in evicted THEN NoRoom ELSE currentRoom[u]]
     /\ rooms' = rooms \ gone
     /\ roomUsers' = Cleared(roomUsers, <<>>)
     /\ roomHost' = Cleared(roomHost, NoUser)
     /\ roomState' = Cleared(roomState, "Waiting")
     /\ maxPlayers' = Cleared(maxPlayers, 0)
     /\ matches' = matches \ gone
     /\ matchUsers' = Cleared(matchUsers, <<>>)
     /\ saved' = saved \ gone

\* User u goes out of the game of room r.  A host that does so ends the match
\* when nobody plays on; otherwise the match restarts on a new host, and is
\* dropped if it has no save data to restart from.
BugPlayersStillWith(r, u) == matchUsers[r]
BugPlayersLastFirst(r, u) == Reverse(RemoveFirst(matchUsers[r], u))
PlayersWithout(r, u) == RemoveFirst(matchUsers[r], u)
MatchEnds(r, u) == roomHost[r] = u /\ r \in matches /\ PlayersWithout(r, u) = <<>>
BugMatchLostSaved(r, u) == roomHost[r] = u /\ r \in matches
MatchLost(r, u) == roomHost[r] = u /\ r \in matches /\ r \notin saved
BugMatchGoneLost(r, u) == MatchLost(r, u)
MatchGone(r, u) == MatchEnds(r, u) \/ MatchLost(r, u)

\* Room::RemoveRoomUser, which leaves its user with status left: "InLobby",
\* or "Offline" when the caller deletes the user.  The last user takes the
\* room along.  A host that leaves hands the room to the first player of the
\* match or, when nobody plays, to the first user.  The players of a dropped
\* match stay InGame.
RemoveRoomUser(r, u, left) ==
  LET users   == RemoveFirst(roomUsers[r], u)
      players == PlayersWithout(r, u)
      heir    == IF r \in matches /\ players # <<>> THEN Head(players) ELSE Head(users)
  IN /\ status' = [status EXCEPT ![u] = left]
     /\ currentRoom' = [currentRoom EXCEPT ![u] = NoRoom]
     /\ \/ /\ users = <<>>
           /\ rooms' = rooms \ {r}
           /\ roomUsers' = [roomUsers EXCEPT ![r] = <<>>]
           /\ roomHost' = [roomHost EXCEPT ![r] = NoUser]
           /\ roomState' = [roomState EXCEPT ![r] = "Waiting"]
           /\ maxPlayers' = [maxPlayers EXCEPT ![r] = 0]
           /\ matches' = matches \ {r}
           /\ matchUsers' = [matchUsers EXCEPT ![r] = <<>>]
           /\ saved' = saved \ {r}
           /\ dbRooms' \in DeleteRow(r)
        \/ /\ users # <<>>
           /\ roomUsers' = [roomUsers EXCEPT ![r] = users]
           /\ roomHost' = [roomHost EXCEPT ![r] = IF @ = u THEN heir ELSE @]
           /\ roomState' = [roomState EXCEPT ![r] = IF MatchEnds(r, u) THEN "Waiting" ELSE @]
           /\ matches' = IF MatchGone(r, u) THEN matches \ {r} ELSE matches
           /\ matchUsers' = [matchUsers EXCEPT ![r] = IF MatchGone(r, u) THEN <<>> ELSE players]
           /\ saved' = IF MatchGone(r, u) THEN saved \ {r} ELSE saved
           /\ dbRooms' \in UpdateRow(r, Len(users), maxPlayers[r])
           /\ UNCHANGED <<rooms, maxPlayers>>

\* UserManager::RemoveUser, when the connection of u is gone.
Disconnect(u) ==
  /\ status[u] # "Offline"
  /\ \/ /\ currentRoom[u] \in rooms
        /\ RemoveRoomUser(currentRoom[u], u, "Offline")
     \/ /\ currentRoom[u] \notin rooms
        /\ status' = [status EXCEPT ![u] = "Offline"]
        /\ currentRoom' = [currentRoom EXCEPT ![u] = NoRoom]
        /\ UNCHANGED <<roomVars, matchVars, dbRooms>>

-----------------------------------------------------------------------------
(* Packet_Room.                                                            *)

LoggedIn(u) == status[u] \notin {"Offline", "InLogin"}

BugMayEnterSecondRoom(u) == LoggedIn(u)

\* The guard of CreateRoom and JoinRoom only turns away users InRoom.
MayEnterRoom(u) ==
  /\ LoggedIn(u)
  /\ status[u] # "InRoom"
  /\ ClientsStayPut => status[u] # "InGame"

\* GetFreeRoomID: the lowest identifier that is not taken.
IsFreeRoomID(r) == r \notin rooms /\ 1 .. r - 1 \subseteq rooms

\* The room is published only when its row was inserted; a failed insert
\* sends the user back to the lobby and deletes the room.
CreateRoom(u) ==
  /\ MayEnterRoom(u)
  /\ \E r \in RoomID, max \in Capacity :
       /\ IsFreeRoomID(r)
       /\ \/ /\ dbRooms[r] = NoRow
             /\ rooms' = rooms \union {r}
             /\ roomUsers' = [roomUsers EXCEPT ![r] = <<u>>]
             /\ roomHost' = [roomHost EXCEPT ![r] = u]
             /\ maxPlayers' = [maxPlayers EXCEPT ![r] = max]
             /\ status' = [status EXCEPT ![u] = "InRoom"]
             /\ currentRoom' = [currentRoom EXCEPT ![u] = r]
             /\ dbRooms' = [dbRooms EXCEPT ![r] = [players |-> 1, max |-> max]]
             /\ UNCHANGED <<roomState, matchVars>>
          \/ /\ DBFaults \/ dbRooms[r] # NoRow
             /\ status' = [status EXCEPT ![u] = "InLobby"]
             /\ currentRoom' = [currentRoom EXCEPT ![u] = NoRoom]
             /\ UNCHANGED <<roomVars, matchVars, dbRooms>>

JoinRoom(u, r) ==
  /\ MayEnterRoom(u)
  /\ r \in rooms
  /\ Len(roomUsers[r]) < maxPlayers[r]
  /\ u \notin Members(r)
  /\ roomUsers' = [roomUsers EXCEPT ![r] = Append(@, u)]
  /\ status' = [status EXCEPT ![u] = "InRoom"]
  /\ currentRoom' = [currentRoom EXCEPT ![u] = r]
  /\ dbRooms' \in UpdateRow(r, Len(roomUsers[r]) + 1, maxPlayers[r])
  /\ UNCHANGED <<rooms, roomHost, roomState, maxPlayers, matchVars>>

LeaveRoom(u) ==
  /\ InARoom(u)
  /\ currentRoom[u] \in rooms
  /\ RemoveRoomUser(currentRoom[u], u, "InLobby")

\* The host changes the settings; those of interest are the capacity and,
\* for a client that sends ROOMSTATE, the state.
UpdateRoomSettings(u) ==
  LET r == currentRoom[u] IN
  /\ status[u] = "InRoom"
  /\ r \in rooms
  /\ roomHost[r] = u
  /\ \E max \in Capacity \union {maxPlayers[r]}, state \in RoomState :
       /\ ClientsKeepState => state = roomState[r]
       /\ maxPlayers' = [maxPlayers EXCEPT ![r] = max]
       /\ roomState' = [roomState EXCEPT ![r] = state]
       /\ dbRooms' \in UpdateRow(r, Len(roomUsers[r]), max)
  /\ UNCHANGED <<userVars, rooms, roomUsers, roomHost, matchVars>>

\* A player goes back from the game to the room.  A host does so by handing
\* the room to the first player left, or by ending the match.
ReturnToRoom(u) ==
  LET r       == currentRoom[u]
      players == PlayersWithout(r, u)
  IN /\ InARoom(u)
     /\ r \in matches
     /\ status' = [status EXCEPT ![u] = "InRoom"]
     /\ roomHost' = [roomHost EXCEPT ![r] =
                       IF @ = u /\ players # <<>> THEN Head(players) ELSE @]
     /\ roomState' = [roomState EXCEPT ![r] = IF MatchEnds(r, u) THEN "Waiting" ELSE @]
     /\ matches' = IF MatchGone(r, u) THEN matches \ {r} ELSE matches
     /\ matchUsers' = [matchUsers EXCEPT ![r] = IF MatchGone(r, u) THEN <<>> ELSE players]
     /\ saved' = IF MatchGone(r, u) THEN saved \ {r} ELSE saved
     /\ UNCHANGED <<currentRoom, rooms, roomUsers, maxPlayers, dbRooms>>

-----------------------------------------------------------------------------
(* Packet_Host: what the game server of the host reports.                  *)

Hosts(u, r) == currentRoom[u] = r /\ r \in rooms /\ roomHost[r] = u

ServerIsActivated(u, r) ==
  /\ InARoom(u)
  /\ Hosts(u, r)
  /\ r \notin matches
  /\ matches' = matches \union {r}
  /\ roomState' = [roomState EXCEPT ![r] = "Playing"]
  /\ UNCHANGED <<userVars, rooms, roomUsers, roomHost, maxPlayers, matchUsers, saved, dbRooms>>

\* The host reports that user v has entered its game server.
SendUserStatus(u, r, v) ==
  /\ InARoom(u)
  /\ Hosts(u, r)
  /\ r \in matches
  /\ InARoom(v)
  /\ currentRoom[v] = r
  /\ v \notin Players(r)
  /\ matchUsers' = [matchUsers EXCEPT ![r] = Append(@, v)]
  /\ status' = [status EXCEPT ![v] = "InGame"]
  /\ UNCHANGED <<currentRoom, roomVars, matches, saved, dbRooms>>

BugSaveDataNoMatch(u, r) ==
  /\ status[u] = "InGame"
  /\ Hosts(u, r)
  /\ saved' = saved \union {r}
  /\ UNCHANGED <<userVars, roomVars, matches, matchUsers, dbRooms>>

SaveData(u, r) ==
  /\ status[u] = "InGame"
  /\ Hosts(u, r)
  /\ r \in matches
  /\ saved' = saved \union {r}
  /\ UNCHANGED <<userVars, roomVars, matches, matchUsers, dbRooms>>

EndGame(u, r) ==
  /\ status[u] = "InGame"
  /\ Hosts(u, r)
  /\ r \in matches
  /\ status' = [v \in User |-> IF v \in Players(r) THEN "InRoom" ELSE status[v]]
  /\ roomState' = [roomState EXCEPT ![r] = "Waiting"]
  /\ matches' = matches \ {r}
  /\ matchUsers' = [matchUsers EXCEPT ![r] = <<>>]
  /\ saved' = saved \ {r}
  /\ UNCHANGED <<currentRoom, rooms, roomUsers, roomHost, maxPlayers, dbRooms>>

-----------------------------------------------------------------------------
(* Other threads.                                                          *)

\* Console command removeallrooms, also the first half of
\* disconnectallclients.
RemoveAllRooms ==
  /\ rooms # {}
  /\ DestroyRooms(rooms)
  /\ dbRooms' \in Wrote([r \in RoomID |-> NoRow])

\* After a stall OnSecondTick deletes the rows of this channel and inserts
\* one per room again; a room whose row is refused, as each is that still has
\* one, is removed, and its row with it unless that query fails too.
RestoreWith(kept, gone, stale) ==
  /\ {r \in rooms : kept[r] # NoRow} \subseteq gone
  /\ stale \subseteq gone
  /\ DBFaults \/ gone = {}
  /\ DestroyRooms(gone)
  /\ dbRooms' = [r \in RoomID |->
                   IF r \in rooms \ gone
                   THEN [players |-> Len(roomUsers[r]), max |-> maxPlayers[r]]
                   ELSE IF r \in gone \ stale THEN NoRow ELSE kept[r]]

RestoreRows ==
  \E kept \in Wrote([r \in RoomID |-> NoRow]), gone, stale \in SUBSET rooms :
    RestoreWith(kept, gone, stale)

Next ==
  \/ \E u \in User :
       \/ LogIn(u) \/ CreateCharacter(u) \/ RequestServerList(u) \/ EnterLobby(u)
       \/ Disconnect(u)
       \/ CreateRoom(u) \/ LeaveRoom(u) \/ UpdateRoomSettings(u) \/ ReturnToRoom(u)
  \/ \E u \in User, r \in RoomID :
       \/ JoinRoom(u, r)
       \/ ServerIsActivated(u, r) \/ SaveData(u, r) \/ EndGame(u, r)
  \/ \E u, v \in User, r \in RoomID : SendUserStatus(u, r, v)
  \/ RemoveAllRooms
  \/ RestoreRows

Spec == Init /\ [][Next]_vars

-----------------------------------------------------------------------------
(* Safety.                                                                 *)

\* A user is listed once, by the room its _currentRoomID names, and by no
\* other room: RemoveRoomUser and ~Room clear both sides of the link that
\* AddRoomUser makes.
RoomMembership ==
  \A r \in RoomID :
    /\ IsInjective(roomUsers[r])
    /\ \A u \in User : u \in Members(r) <=> r \in rooms /\ currentRoom[u] = r

\* A user names a room exactly while its status says InRoom or InGame, so
\* that every handler guarded by one of them finds the room.
RoomStatus ==
  \A u \in User : IF InARoom(u) THEN currentRoom[u] \in rooms ELSE currentRoom[u] = NoRoom

\* The host of a room is one of its users, across every way in which a host
\* may leave the room or its match; no room is left empty.
HostIsMember == \A r \in rooms : roomHost[r] \in Members(r)

\* The players of a match are users of its room that are InGame, listed once:
\* a user that leaves the room, or disconnects, leaves the match.
PlayersAreMembers ==
  \A r \in RoomID :
    /\ IsInjective(matchUsers[r])
    /\ r \notin matches => matchUsers[r] = <<>>
    /\ \A u \in Players(r) : currentRoom[u] = r /\ status[u] = "InGame"

\* A room with a match is shown as Playing, whoever ended or left the match.
MatchIsPlaying == ClientsKeepState => \A r \in matches : roomState[r] = "Playing"

\* While no query fails, the table rooms, from which the other channels
\* answer SearchRoom, holds one row per room, with its number of users.
RowsMirrorRooms ==
  ~ DBFaults =>
    \A r \in RoomID :
      dbRooms[r] = IF r \in rooms
                   THEN [players |-> Len(roomUsers[r]), max |-> maxPlayers[r]]
                   ELSE NoRow

\* Whatever queries fail, a room of this channel has a row.
RoomsHaveRows == \A r \in rooms : dbRooms[r] # NoRow

\* What the handlers of CreateRoom and JoinRoom report when they refuse a
\* user, "it's already in a room!", holds of every user in a room: none is
\* added to a second one.
OneRoomPerUser == \A q, r \in RoomID : q # r => Members(q) \intersect Members(r) = {}

\* A match that disappears leaves players InGame only when it had no save
\* data to restart from; otherwise EndGame, ReturnToRoom and RemoveRoomUser
\* end a match only after its last player is out of the game.
MatchEndsForItsPlayers ==
  [][\A r \in saved \ matches' : \A u \in Players(r) : status'[u] # "InGame"]_vars

\* The host of a room that lives on is replaced only when it leaves the room
\* or its match, and by the first player left, or by the first user left if
\* nobody plays.
HostHandover ==
  [][\A r \in rooms \intersect rooms' :
       LET old == roomHost[r]
           players == RemoveFirst(matchUsers[r], old)
           heirs == IF players # <<>> THEN players ELSE RemoveFirst(roomUsers[r], old)
       IN roomHost'[r] # old =>
            /\ currentRoom'[old] = r => status'[old] = "InRoom" /\ players # <<>>
            /\ roomHost'[r] = Head(heirs)]_vars
=============================================================================
