# cso-master-server in TLA+

A verification development of the master server of Counter-Strike Online: what its channels, rooms,
matches and connections must keep true, which parts of that TLC checks on small instances, and
which parts TLAPS proves for every instance. Everything is translated from the C++ sources under
`src/`; paths below are relative to it. `PROJECT.json` maps every definition to the lines it models.

## 1. The system

A *server* has several *channels*; each channel is one process of this program. All processes share
one MySQL database and tell each other over UDP that they are alive. A game client connects to a
channel by TCP, logs in, sees the lobby, creates or joins a room and plays; one client of the room,
its host, runs the game server and reports to the channel. A process has these threads:

- the **TCP thread** (`TCPServer::run`): every packet handler, every read and write completion;
- the **UDP thread** (`UDPServer::run`): datagrams of other channels and of game clients;
- the **tick thread** (`ServerConsole::run`): `onSecondTick`, with `UDPServer::OnSecondTick`, and
  once a minute the removal of old transfers;
- the **main thread** (`ServerConsole::StartRead`): console commands; a Ctrl handler shuts down.

Only the queues of packets are protected by mutexes.

| component | state | operations | hard because | must keep |
|---|---|---|---|---|
| users (`managers/usermanager.cpp`, `user/`) | `_users`; status, current room | log in, enter the lobby, go back to the server list, disconnect | a user is deleted while rooms and matches hold pointers to it | status, room and lists agree |
| rooms (`room/room.cpp`, `managers/roommanager.cpp`, `managers/packet_roommanager.cpp`) | `_rooms`; users, host, settings, match | create, join, leave, change settings, return from the game | hosts leave at any moment; a room that cannot be registered is undone | host is a member; each user in one room |
| matches (`room/gamematch.cpp`, `managers/packet_hostmanager.cpp`) | players, save data | start, enter, save, end, migrate to another host | a match ends in four handlers | players are members; a match that could go on is not lost |
| lobby and room packets (same files) | what each client was told | full list once, then differences | the audience depends on statuses at the time of sending | clients see what is |
| table `rooms` (`managers/databasemanager.cpp`) | rows by server, channel, room | insert, update, delete, restore after a stall | any query may fail | one row per room |
| outgoing packets (`networking/tcp_connection.cpp`) | queue, sequence number, cipher | `WritePacket`, `asyncWrite`, `onWrite` | several threads push, one must write | FIFO, contiguous, encrypted from the right packet on |
| incoming packets (`networking/tcp_connection.cpp`, `managers/packetmanager.cpp`) | stream buffer, expected sequence | read header, body, dispatch, version handshake | partial reads, disconnection in a handler | |
| connections (`networking/tcp_server.cpp`) | `_connections` | accept, disconnect, shut down | errors reported twice or never | every dead connection is erased |
| sessions (`managers/databasemanager.cpp`, login and transfer handlers) | table `user_sessions` | add, check, remove | statements of different channels interleave; crashes | a user is on one channel |
| transfers (`managers/packet_transfermanager.cpp`) | table `user_transfers` | request, redeem, expire | redeemed while the old channel still holds the session | redeemed once |
| server list mesh (`networking/udp_server.cpp`) | status, players, last heartbeat of every channel | hello, heartbeat, players, goodbye, timeout | datagrams are lost and reordered; the process stalls | dead channels are shown offline, live ones online |
| UDP of clients (`networking/udp_server.cpp`, `managers/packet_udpmanager.cpp`) | endpoints, heartbeats, ping requests | register, keep alive, relay | expiry | |
| character creation, options, favourites, items | rows of one user | insert, update | creation fails half way | |
| chat, shop, report, client check, update info | none | format and forward | | |

The full list of hazards, each at its line and with the properties that cover it, is in
`PROJECT.json`.

## 2. Modules

| module | models | uses |
|---|---|---|
| `Rooms` | users, rooms, matches and the table `rooms` of one channel | |
| `Rooms_proofs`, `RowsAndMatches_proofs` | theorems about `Rooms`: consistency; the table and matches | `Rooms`, each the one before |
| `LobbyViews` | `Rooms` with the packets each handler sends: what every client believes | `Rooms` |
| `LobbyViews_proofs` | theorems about `LobbyViews`, and that it implements `Rooms` | `LobbyViews`, `RowsAndMatches_proofs` |
| `PacketStream` | abstract: an ordered, reliable stream of packets | |
| `PacketWriter` | the outgoing side of a `TCPConnection` between threads | `PacketStream` |
| `PacketWriter_proofs` | theorems about `PacketWriter`, and that it implements `PacketStream` | `PacketWriter` |
| `Connections` | connections, their reading side, and who closes and removes users | |
| `Connections_proofs` | theorems about `Connections` | `Connections` |
| `Presence` | abstract: a user is on one channel | |
| `Sessions` | the users of several channels over the tables `user_sessions` and `user_transfers` | `Presence` |
| `Sessions_proofs` | theorems about `Sessions`, that it implements `Presence`, and about transfers | `Sessions` |
| `ServerMesh` | what the channels believe of one another, over UDP | |
| `ServerMesh_proofs` | theorems about `ServerMesh` | `ServerMesh` |
| `Characters` | creation of characters over the tables of a user | |
| `Characters_proofs` | theorems about `Characters` | `Characters` |
| `MCRooms`, `MCLobbyViews`, `MCPacketWriter`, `MCSessions`, `MCServerMesh`, `MCCharacters`, `MCConnections` | values of the constants for TLC | |

Definitions named `Bug...` are faulty variants of the definition that follows them. They belong to
no specification; substituting one for its neighbour must make a property fail, which shows that
the property depends on the code (`PROJECT.json`, `mutants`).

### Rooms

A user is a `User` object, `status` its `_userStatus` ("Offline" when it is not in `_users`) and
`currentRoom` its `_currentRoomID`. `rooms` is `_rooms`; `roomUsers`, `roomHost`, `roomState` and
`maxPlayers` are fields of `Room`, `matches` the rooms with a `_gameMatch`, `matchUsers` its
`_gameMatchUsers` in order and `saved` the matches with save data. `dbRooms` holds the rows of this
channel. Each action is one handler from its guards to its last assignment, named like the handler;
handlers run one after the other on the TCP thread, and a handler that refuses changes nothing and
is no action. `RemoveRoomUser` is shared by `LeaveRoom` and `Disconnect`, `DestroyRooms` (`~Room`)
by `RemoveAllRooms` and `RestoreRows`, as in the code.

Queries are nondeterministic: when `DBFaults` holds, a query may leave the table alone, and the code
after it goes on as the code does.

Two constants describe clients, since the server trusts them: `ClientsStayPut`, a client that is
in a game does not create or join a room, and `ClientsKeepState`, a host does not set the room state
by UpdateRoomSettings but lets the game do it. The findings below are what happens otherwise.

### LobbyViews

Every client has the list of users and of rooms that it was sent while in the lobby, and the view of
its room. `View...` is the action of `Rooms` with the effect of the packets the handler sends, in
order and with the audience it computes from the statuses at that moment: `RemoveRoomUser` sends the
number of players before the leaving user is back in the lobby, `~Room` sends its users to the lobby
one at a time while the rooms after it still stand. The loops of `~Room` and of those who destroy
several rooms are the functions `EvictUsers` and `Destruction`; `listed` is what `_rooms` held when the loop
began: all rooms for `RestoreRows`, which erases each as it goes, none for `RemoveAllRooms`, which has
emptied `_rooms` before. The host shown in the room list is left
out: `UpdateRoomHostUser` never tells the lobby (`room/room.cpp:169`), and nothing says that it should. The queries that may fail are those on the table `rooms`. The SELECT of a
character, which the code runs for every user it lists or announces, is taken to succeed: when it fails,
`SendFullUserListPacket` and `JoinRoom` leave the user out of the list they send and
`SendAddUserPacketToAll` announces nobody (`managers/usermanager.cpp:219`, `:233`,
`managers/packet_roommanager.cpp:461`), so that a client does miss a user until its next full list.

### PacketWriter

`queue`, `outSeq` and `encrypt` are `_outgoingPackets`, `_outgoingSequence` and `_encrypt`. A thread
in "call" is about to run `asyncWrite`, one in "send" has copied the front of the queue under the
lock and not yet begun the write. `WritePacket`, `TakeFront`, `BeginWrite` and `OnWrite` are
the code between two points where another thread can come in; completions run on the TCP thread,
which is one of the threads that push. `wire` is what the client has received. `PacketStream` is
what handlers may assume, and the refinement maps the accepted packets to what was delivered
followed by what is queued.

### Sessions

`sessions` and `transfers` are the two tables, `users[c]` is `_users` and `online[c]` the flags
`isOnline` of the process of channel c. One action is one SQL statement with the code up to the next
one. `work[c]["tcp"]` is the login the TCP thread is in the middle of: `SelectSession`,
`DeleteStaleSession`, `InsertSession` or `InsertRefused` are `AddUserSession`, the push into `_users`
belongs to `InsertSession`, and `RemoveUserTransfer` ends `AddUser`. `work[c]["tick"]` is the same
function called by the recovery after a stall (`Stall`, `IsUserSessionAdded`) for the users in
`recheck[c]`. `RemoveUser` has one statement and is one action; it also follows a DisconnectUser,
which only closes the socket. `Crash` is any end of a process, orderly ones too: what
the orderly end does to rows is RemoveUser, before. `redeemed` is a history variable.

What channels believe of one another is nondeterministic (`Greet`, `Suspect`) and two constants say
how well it fits: `MeshIsAccurate`, no running channel is ever believed offline, and `Stalls`, a
channel may miss more than three seconds. `Crashes` and `OneClient` say whether processes end and
whether a user logs in at one place at a time.

`Presence` has one variable, the channels each user is on; a user enters a channel only when it
is on none. The refinement maps it to the sets `users[c]` that contain the user.

### Connections

A connection is one `TCPConnection`: `connections` is `_connections` of the server, `open` the sockets
this side has not closed. `io[k]` is the operation of its reading side, `stage[k]` which one it
is (SERVERCONNECTED, the TLS handshake, a header, a body), `out[k]` the write at the front of its
queue. An operation is pending, or completed with one of three outcomes that the code tells apart:
success, an error, and `bad_descriptor`, the error of an operation that was begun on a closed
socket, for which `DisconnectClient` does nothing. `users[u].conn` is `_connection` of a `User`.
`HeaderRead`, `Packet`, `ReadFailed`, `Rejected`, `OnWrite` are completion handlers, on the TCP thread;
`Tick` and `DisconnectUser` come from other threads, and so do `Copy`, `Look`, `DisconnectClient`, the
loop of the command disconnectallclients, between whose steps everything else may happen. Only
the completion handlers remove users. When `remote_endpoint()` throws, `serving` ends: `TCPServer::run`
returns and nobody starts it again.

### ServerMesh

`online[c]`, `age[c]` and `ready[c]` are `isOnline`, `_currentTime - lastHeartbeat` and `status` in
`serverConfig.serverList` of channel c. Time is a sequence of seconds: every running channel ticks
once in each, in any order, and datagrams are received, in any order, before it ends. The
departures from this are counted: datagrams that are lost (`Lose`), that come at any later time or
twice (`Stray`), and ticks that do not come (`Pause`). `Tick` is `OnSecondTick` as far as the mesh
is concerned, including the recovery after more than `Timeout` missed seconds, and `Start`,
`Crash`, `Shutdown` are the ends of a process. What the code does about it has corners that the model shows:
one loss or missed tick is tolerated, two are not; a heartbeat does not bring back a channel that has
timed out; HELLO is sent only at a start or after a stall, so that two channels that have lost each
other stay apart until then. A channel that misses exactly three seconds does not count as stalled
for itself, but may have timed out for the others.

### Characters

`work[c]` is the statement the TCP thread of channel c is at, inside ParsePacket_Login or
ParsePacket_RecvCharacter; one action is one statement with the code up to the next. `rows[u][t]` counts
the sets of default rows of user u in each of three tables, `nick[u]` is its row of
`user_characters` and `author[u]`, a history variable, the channel that inserted it. A statement may fail
anywhere (`Fails`), a channel may crash between two statements and lists nobody afterwards.

## 3. Runs

| run | shows | bounds |
|---|---|---|
| `rooms` | consistency of users, rooms, hosts, matches and rows | 4 users, 2 rooms |
| `rooms_second_room` | *violated*: a user in a game enters a second room | 3 users, 2 rooms |
| `views` | lobby lists and room views equal the state; they and the rows survive failing queries on the table `rooms`, refused and removed rooms | 3 users, 2 rooms |
| `views_states` | *violated*: the lobby is not told a state set by the host | 3 users, 2 rooms |
| `writer` | one writer, no lost wakeup, sequence, length, encryption, the stream | 2 threads, 4 packets, sequence modulo 3 |
| `connections` | a user is never left without a read that will remove it, and leaves | 2 connections, 1 user, SSL |
| `sessions` | a user enters a channel only when it is on none; channels own the rows of their users and keep no others | 3 channels, 2 users, 1 player each, 3 tokens |
| `sessions_rivals` | concurrent logins of one user, crashes, stalls, wrong beliefs: a token is redeemed once | 2 channels, 1 user, 3 tokens |
| `sessions_takeover` | *violated*: a fresh channel takes sessions of running ones over | 3 channels, 1 user |
| `sessions_recheck` | *violated*: a session inserted for a user that leaves | 3 channels, 1 user |
| `mesh` | one fault separates nobody, in the end channels agree, without faults all are known | 2 channels on 2 servers, 4 starts, 3 losses or missed ticks, 2 stray datagrams, timeout 3 |
| `characters` | complete characters, unique nicknames per channel, retries succeed | 2 channels, 2 users, 2 nicknames, 2 faults |

Bounds. Four users make a room with two players left when the host goes, beside a second room
(the order of heirs matters from two on); three suffice where only differences to lists
matter. Two rooms are the fewest that tell a roomID taken from a free one and let one room be
refused while another is kept; they also exhaust GetFreeRoomID. Capacities 2 and 3 let
UpdateRoomSettings go below the number of users. Users are interchangeable, hence the symmetry. Four
packets of six kinds go around the sequence number, modulo 3 instead of 256, and around the switch
to encryption; the payload sizes are the real limits: one that just fits, one over the buffer and one
over the 16-bit length.

Three channels are one that ended and two that compete for its sessions. Failing queries on sessions are left to the theorems, which allow
them. Users meet only in the
capacity of a channel, in its single TCP thread and when it crashes, so two are enough; the runs
about one row or one token have one user. Three tokens are one that is redeemed, one requested after it and one
that replaces that.

The status of a server and the beliefs of channels are pairwise, so two channels, each the only one of
its server, show every exchange; the theorems have any number of channels on a server. Four starts let both restart,
three losses or missed ticks are one more than a timeout of three seconds tolerates, and a
stray datagram may come after a restart of either side. Two connections are one that ends while the
user is already back on another; SSL adds a stage between the two that the run without it would have. Two
faults break a creation at two places of its statements, the second during the retry.

Fairness. In `writer`, threads keep running, and a write on an open socket completes. The second is an
assumption on the client, the code has no timeout; without it nothing is promised. In
`connections`, `io_context::run` calls the handler of every operation that has completed
(`WF(OnRead(k))`), and the tick comes every second (`WF(Tick(u))`); nothing is assumed of clients or
of the network. In `mesh`, the tick thread runs, a datagram that is neither lost nor late
arrives, and time passes; starts, ends and faults are never required. In `characters`, a channel
that is down is started again and goes on with its statements (weak fairness), and a client
keeps logging in and sending each nickname whenever it can (strong fairness, because its
connection may come and go): GetsCharacter is about a client that tries again.

The runs of the writer and of the connections do not check for deadlock: a closed connection stops, and so
do the writer at its bound on packets and a server whose TCP thread has ended. The other runs do check.

## 4. Findings

- *Second room* (`rooms_second_room`). CreateRoom and JoinRoom turn away users that are `InRoom`
  (`managers/packet_roommanager.cpp:303`, `:406`, "it's already in a room!") but not users that are
  `InGame`. Such a user is then listed by two rooms; its `_currentRoomID` names the second, so the
  first keeps a pointer to it when it is deleted.
- *Lost flag* (`views_states`). `roomListFlag` is an `unsigned char`
  (`managers/packet_roommanager.cpp:577`), so that `ROOMLIST_FLAG_ROOMSTATE` (0x4000) and
  `ROOMLIST_FLAG_WEAPONLIMIT` (0x100) vanish when they are added to it.
- *Takeover of a running channel* (`sessions_takeover`). Channels start believing that all others
  are offline (`serverconfig.cpp:178`) and accept connections before the first HELLO
  (`main.cpp:77`, `networking/udp_server.cpp:198`): `AddUserSession`
  (`managers/databasemanager.cpp:393`) takes the session of a user that plays elsewhere over.
- *Session of a user that left* (`sessions_recheck`). The tick thread adds a session
  (`networking/udp_server.cpp:125`) for a user the TCP thread removes: nobody will remove that row.

## 5. Proofs

`Rooms_proofs` and `RowsAndMatches_proofs` prove, for any set of users, any number of rooms, any
capacities and with failing queries on the table `rooms`, under the assumption `ClientsStayPut`:

- `TypeCorrect`: `TypeOK`;
- `MembershipCorrect`, `RoomStatusCorrect`: `RoomMembership` and `RoomStatus`;
- `HostCorrect`: `HostIsMember`;
- `PlayersCorrect`: `PlayersAreMembers`;
- `RowsCorrect`, `MirrorCorrect`: `RoomsHaveRows` and `RowsMirrorRooms`;
- `PlayingCorrect`, `MatchEndsCorrect`, `HandoverCorrect`: `MatchIsPlaying`, `MatchEndsForItsPlayers`
  and `HostHandover`.

The first five follow from `Consistency`: `Inv`, the conjunction of these invariants, is inductive. None
is inductive alone. That the host is a member after a host left needs the heir to be a member: the
first player, a member by `PlayersAreMembers`, or the first user, who exists since the room is not
empty. That a user that leaves disappears from the room needs it to be listed once, by this room
alone (`RoomMembership`), and that JoinRoom does not list a user twice needs the status to say where
the user is (`RoomStatus`), which is where `ClientsStayPut` comes in. The proof has one lemma per
action (`JoinRoomInv`, `LeaveRoomInv`, ...) over lemmas on vectors (`RemoveFirstProperties`,
`PushBackProperties`); `NextInv` puts them together. The others use `Inv` on both sides of a step: the row of a room counts its
users exactly because a user is listed once, and who inherits a room is the first of a vector from
which one occurrence was removed.

`LobbyViews_proofs` proves that a channel with its packets implements `Rooms` (`ViewsImplementRooms`), so that
everything above holds of it (`ViewsRowsCorrect` is one case), and under `ClientsStayPut`, for any users, any
rooms and failing queries on the table `rooms`:

- `ViewsTypeCorrect`: `ViewsTypeOK`;
- `LobbySeesUsersCorrect`, `MembersSeeRoomCorrect`: `LobbySeesUsers` and `MembersSeeRoom`;
- `LobbySeesRoomsCorrect`: `LobbySeesRooms`, if also `ClientsKeepState`, since the lobby is not told a state
  that a host sets by UpdateRoomSettings (the finding *Lost flag*).

`Told`, the consistency `Inv` of the channel with the shape of the lists, `LobbySeesUsers` and `MembersSeeRoom`, is
inductive (`AllAreTold`), and `LobbySeesRooms` is relative to it. `Inv` is needed: what a client of a room is
told of its departures and heirs is right only because the room lists it once, and a user that is
not in a room has no view to update. There is one lemma per handler (`JoinRoomTold`, `LeaveRoomTold`, ...), over lemmas on
what one packet does to the lists of its audience: a user arrives or goes (`UserArrives`, `UserGoes`), one
room changes or is gone (`PlayersShown`, `StateShown`, `GoneShown`). A handler sends several packets, some of them
before it changes the state they are about, so a list is described by the function from rooms to
entries that it shows (`Shows`), which is compared with the rooms only when the handler
returns (`ListsAfter`).

Two handlers destroy any number of rooms with any number of users, with packets in between. Their effect is proved
by induction over these loops: `UpTo` is induction up to a number, stated of the set of numbers of which a
fact holds and derived from the well-foundedness of the naturals, and `RunExists` gives the
function that the recursive definition of a loop defines. With them `EvictUsersEffect`,
`DestroyRoomEffect` and `DestructionEffect` say what is left after each loop: all users of the rooms are in
the lobby, whoever is there knows them all, and lists the rooms that were not destroyed. Those
evicted first receive a full list that still has the rooms destroyed after theirs, and lose them
from it one by one.

`PacketWriter_proofs` proves, for any threads, packets, payload sizes and modulus of the sequence number:
`WriterTypeCorrect`, `OneWriterCorrect`, `ServedCorrect`, `FramesCorrect`, `EncryptionCorrect`
(`WriterTypeOK`, `OneWriter`, `QueueIsServed`, `FramesExact`, `EncryptedAfterKey`), and
`StreamImplemented`: the writer implements `PacketStream`. Only the one assumption on sizes is needed, that
the packet with the key fits. The invariant adds that who writes, writes the front (`WritesFront`), so that
`onWrite` pops what was sent; how the numbers in the queue continue those on the wire (`Numbered`), from
which the wrap-around follows by `SuccessorModulo`; that the key of the client is queued behind that
of the server (`KeysInOrder`), since either switches encryption on; and that the switch is on when
the key is on the wire or in flight (`SwitchedOn`). The last is claimed only of a queue that is served: after
a failed write nobody writes any more. Liveness (`DeliversStream`) is left to TLC.

`Sessions_proofs` proves, for any number of channels, users and tokens:

- `SessionsTypeCorrect`: `TypeOK`;
- `SessionsOwned`, `OneChannelCorrect`: `SessionOfListed` and `OneChannel`;
- `PresenceImplemented`: `Spec` implements `Presence`;
- `SessionsUsed`: `RowIsUsed`, if there are no stalls and queries succeed (with stalls, `sessions_recheck` refutes it).

The second and third assume `SoundTakeover`: `MeshIsAccurate`, and `OneClient` or not `Crashes`; queries
may fail. Neither half can be dropped: the first is
the finding above; without the second (`OneClient = FALSE` in `MCSessions.cfg`) TLC finds two logins that
select the session of an ended channel, of which the slower deletes, by userID alone
(`managers/databasemanager.cpp:397`), the session that the faster has inserted. The invariant `Inv` adds to
`SessionOfListed` what a takeover needs: the DELETE removes whatever row there is by then, so from
the SELECT on the user must be on no channel (`StaleIsStale`). At the SELECT this follows from
`MeshKnows` (the channel of the row does not run) and `SessionOfListed`; afterwards nobody else
can log the user in (`OneLogin`). Without crashes there is no such row at all (`RowsOfRunning`), and
the primary key decides between rivals. `NextInv` also shows that every step is a step of
`Presence` (`WhereStep`), from which the refinement follows. `RowIsUsed` has an invariant of its own,
which needs no such assumption: whoever inserts a row lists the user in the same step.

The second half of `Sessions_proofs` proves `RedeemedOnceCorrect`, for any number of channels, users and tokens, with crashes,
stalls and wrong beliefs, if queries succeed. A token that was redeemed may stay in the table for a while:
`RedeemedExpires` says that it is about to be deleted by the login that used it, or that its target is
down and deletes it when it starts, and `OneHolder` that nobody else holds it meanwhile.

`ServerMesh_proofs` proves, for any channels on any servers and any timeout of at least 2:
`MeshTypeCorrect` (`TypeOK`), `StatusCorrect` (`StatusAgrees`) and `TrustCorrect` (`Trust`). The
invariant behind the last bounds the age of a heartbeat by the number of losses and missed ticks
so far, with one second more while this second's heartbeat is still to come, and says
where the next heartbeat is: sent, or to be sent by a tick that is still due.

`Characters_proofs` proves `CharactersTypeCorrect`, `CompleteCorrect`, `AnsweredCorrect` and `NicknameCorrect`
(`TypeOK`, `CharacterIsComplete`, `NobodyIsIgnored`, `NicknamePerChannel`), for any number of
channels, users and faults. A channel that is past the inserts of table t has the rows of all tables up
to t, and only the channel that lists a user inserts for it.

`Connections_proofs` proves `ConnectionsTypeCorrect` and `ReadCorrect` (`TypeOK`, `ReadIsOutstanding`), for any
number of connections and users, with and without SSL. The invariant adds that users are only behind
connections that read packets, and that `bad_descriptor` only comes from closed sockets, which is why the code
may ignore it.

Every invariant and every action property that the runs check is proved, each for all values of the
constants that satisfy its hypotheses. Only liveness (`UsersLeave`, `Converges`, `AllKnown`, `GetsCharacter`,
`DeliversStream`) is only model-checked: these provers have neither fairness nor ENABLED.

## 6. Plan

1. `Rooms`, `LobbyViews`, `PacketStream`, `PacketWriter`, `Sessions`, `Presence`, `ServerMesh`, `Characters`,
   `Connections` and the theorems above: done.
2. `StallRecovery`: the tick thread of the recovery between steps of the TCP thread, statement by statement
   (`networking/udp_server.cpp:131`).
3. A second login on one connection in `Connections` (`managers/packet_loginmanager.cpp:27`).

## 7. Not modelled

- Vendored code (`thirdparty/`: JSON, bcrypt, the headers of MySQL and OpenSSL), by far the largest part of the files under
  `src/`; what the program uses of it appears as external definitions (queries that fail, errors of
  completion handlers, datagrams). The web registration page and the configuration loader.
- Handlers that keep no state: chat, shop, report, client check, update info, relaying of UDP, ping requests.
- One query per packet on rows of the user itself: favourites, items, options, quick start; and SearchRoom, which only reads.
- Data no other component reads: scores, kills and teams of a match, room settings other than capacity and state,
  `numPlayers` of other channels, endpoints of clients, the form of nicknames.
- Reads of deleted objects and unlocked containers when the tick or the console thread meets the TCP thread
  (`networking/udp_server.cpp:93`, `networking/tcp_server.cpp:116`), and several threads on one MYSQL connection
  (`managers/databasemanager.cpp:15`): their outcomes cannot be enumerated. In `ServerMesh` a tick and the
  reception of a datagram are atomic.
- In `Connections`, a client logs in once per connection; a second login while it is InLogin leaves a user behind that
  GetUserByConnection never finds. Packet_Version and the failure of a cipher are left out too.
- Nicknames across channels: the code does not keep them unique (`managers/databasemanager.cpp:97`), and the
  property is stated per channel.
