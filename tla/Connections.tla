----------------------------- MODULE Connections -----------------------------
(***************************************************************************)
(* The connections of a channel and the users behind them.  A User is      *)
(* removed only by the completion handlers of its connection, on the TCP   *)
(* thread: whoever else wants it out, the tick, the console or a handler,  *)
(* closes the socket and leaves the rest to the read that is outstanding.  *)
(* One action is one completion handler, or what another thread does to    *)
(* one connection.                                                         *)
(* The definitions named Bug... are faulty variants of the one that        *)
(* follows.                                                                *)
(*                                                                         *)
(* Simplifications: a client logs in once on a connection, and not again   *)
(* while it creates its character; Packet_Version is left out; what        *)
(* handlers send is WritePacket, at any time; what is queued behind a      *)
(* write is left to PacketWriter; sessions are those of Sessions.          *)
(***************************************************************************)
EXTENDS Naturals

CONSTANTS
  Conn,
  User,
  None,
  Ssl     \* serverConfig.ssl

ASSUME ConnectionsAssumption == None \notin Conn /\ Ssl \in BOOLEAN

VARIABLES
  serving,      \* the TCP thread runs
  connections,  \* _connections
  open,         \* connections whose socket is open on this side
  stage,        \* what the operation in io is: the writing of
                \* SERVERCONNECTED, the handshake, a header or a body
  io,           \* its outcome
  out,          \* the outcome of the write of a packet
  users,        \* _users
  console       \* disconnectallclients: connections left, and the one that
                \* was found without a user

vars == <<serving, connections, open, stage, io, out, users, console>>
sockets == <<open, io, out>>

Port == {"guest", "host"}

\* An operation completes successfully, on a socket that fails or is closed,
\* or, begun on a closed socket, with bad_descriptor.  "dead": the packet
\* that failed stays in front of _outgoingPackets, and nothing is sent again.
Completed == {"ok", "failed", "bad"}
Outcome == {"none", "pending"} \cup Completed

\* _userStatus is not InLogin; networkSet; the ports whose last heartbeat is
\* older than UDP_CLIENT_HEARTBEAT_TIMEOUT.
Object == [conn : Conn, loggedIn : BOOLEAN, net : SUBSET Port, late : SUBSET Port]
NoUser == [conn |-> None, loggedIn |-> FALSE, net |-> {}, late |-> {}]

TypeOK ==
  /\ serving \in BOOLEAN
  /\ connections \subseteq Conn
  /\ open \subseteq Conn
  /\ stage \in [Conn -> {"hello", "handshake", "header", "body"}]
  /\ io \in [Conn -> Outcome]
  /\ out \in [Conn -> {"none", "pending", "failed", "bad", "dead"}]
  /\ users \in [User -> Object \cup {NoUser}]
  /\ console \in [left : SUBSET Conn, doomed : Conn \cup {None}]

Init ==
  /\ serving = TRUE
  /\ connections = {}
  /\ open = {}
  /\ stage = [k \in Conn |-> "hello"]
  /\ io = [k \in Conn |-> "none"]
  /\ out = [k \in Conn |-> "none"]
  /\ users = [u \in User |-> NoUser]
  /\ console = [left |-> {}, doomed |-> None]

HasUser(k) == \E u \in User : users[u].conn = k

-----------------------------------------------------------------------------
\* Sockets.

\* Begin an operation.
Begun(k) == IF k \in open THEN "pending" ELSE "bad"

\* Closing a socket ends what is outstanding on it.
Cut(outcome) == IF outcome = "pending" THEN "failed" ELSE outcome

\* close() by a thread that is in no handler of k.
Close(k) ==
  /\ open' = open \ {k}
  /\ io' = [io EXCEPT ![k] = Cut(@)]
  /\ out' = [out EXCEPT ![k] = Cut(@)]

\* What is read arrives, or SERVERCONNECTED is sent.
Arrive(k) ==
  /\ io[k] = "pending"
  /\ io' = [io EXCEPT ![k] = "ok"]
  /\ UNCHANGED <<serving, connections, open, stage, out, users, console>>

\* A client leaves, or its connection is lost.
ClientLeaves(k) ==
  /\ io[k] = "pending"
  /\ io' = [io EXCEPT ![k] = "failed"]
  /\ out' = [out EXCEPT ![k] = Cut(@)]
  /\ UNCHANGED <<serving, connections, open, stage, users, console>>

-----------------------------------------------------------------------------
\* TCPServer.

\* k names no TCPConnection: its pointer is in no container, handler or user.
Unused(k) ==
  /\ k \notin connections \cup console.left
  /\ io[k] = "none"
  /\ out[k] \in {"none", "dead"}
  /\ ~ HasUser(k)

Accept(k) ==
  /\ serving
  /\ Unused(k)
  /\ connections' = connections \cup {k}
  /\ open' = open \cup {k}
  /\ stage' = [stage EXCEPT ![k] = "hello"]
  /\ io' = [io EXCEPT ![k] = "pending"]
  /\ out' = [out EXCEPT ![k] = "none"]
  /\ UNCHANGED <<serving, users, console>>

\* remote_endpoint() throws for a client that is gone already; run() logs the
\* exception and returns.
AcceptThrows ==
  /\ serving
  /\ \E k \in Conn : Unused(k)
  /\ serving' = FALSE
  /\ UNCHANGED <<connections, sockets, stage, users, console>>

Shutdown ==
  /\ serving' = FALSE
  /\ connections' = {}
  /\ open' = open \ connections
  /\ io' = [k \in Conn |-> IF k \in connections THEN Cut(io[k]) ELSE io[k]]
  /\ out' = [k \in Conn |-> IF k \in connections THEN Cut(out[k]) ELSE out[k]]
  /\ UNCHANGED <<stage, users, console>>

-----------------------------------------------------------------------------
\* Leaving.

BugRemoveUserOf(k) ==
  users' = [u \in User |-> IF users[u].conn = k THEN [users[u] EXCEPT !.conn = None] ELSE users[u]]
RemoveUserOf(k) == users' = [u \in User |-> IF users[u].conn = k THEN NoUser ELSE users[u]]

\* The error handler with eraseConnection set, after the socket is closed.
Erase(k) ==
  /\ connections' = connections \ {k}
  /\ open' = open \ {k}

\* DisconnectUserByConnection with the error of a read or a write.  One that
\* was begun on a socket closed by another thread leaves the connection in
\* _connections.
BugFailed(k, outcome) ==
  IF outcome = "bad" THEN UNCHANGED <<users, connections, open>> ELSE RemoveUserOf(k) /\ Erase(k)
Failed(k, outcome) ==
  /\ RemoveUserOf(k)
  /\ IF outcome = "bad" THEN UNCHANGED <<connections, open>> ELSE Erase(k)

ReadFailed(k) ==
  /\ stage[k] \in {"header", "body"}
  /\ io[k] \in {"failed", "bad"}
  /\ Failed(k, io[k])
  /\ io' = [io EXCEPT ![k] = "none"]
  /\ out' = [out EXCEPT ![k] = Cut(@)]
  /\ UNCHANGED <<serving, stage, console>>

\* DisconnectUserByConnection without an error: a signature, a sequence
\* number or a length is wrong, or what came cannot be decrypted.  No read is
\* outstanding, and the connection stays in _connections.
Rejected(k) ==
  /\ stage[k] \in {"header", "body"}
  /\ io[k] = "ok"
  /\ RemoveUserOf(k)
  /\ open' = open \ {k}
  /\ io' = [io EXCEPT ![k] = "none"]
  /\ out' = [out EXCEPT ![k] = Cut(@)]
  /\ UNCHANGED <<serving, connections, stage, console>>

\* UserManager::DisconnectUser, on another thread.
DisconnectUser(u) ==
  /\ users[u].conn \in open
  /\ Close(users[u].conn)
  /\ UNCHANGED <<serving, connections, stage, users, console>>

-----------------------------------------------------------------------------
\* Reading.

\* SERVERCONNECTED is written, or the handshake is over.
StartFailed(k) ==
  /\ stage[k] \in {"hello", "handshake"}
  /\ io[k] \in {"failed", "bad"}
  /\ IF io[k] = "bad" THEN UNCHANGED <<connections, open>> ELSE Erase(k)
  /\ io' = [io EXCEPT ![k] = "none"]
  /\ UNCHANGED <<serving, stage, out, users, console>>

Started(k) ==
  /\ stage[k] \in {"hello", "handshake"}
  /\ io[k] = "ok"
  /\ stage' = [stage EXCEPT ![k] = IF @ = "hello" /\ Ssl THEN "handshake" ELSE "header"]
  /\ io' = [io EXCEPT ![k] = Begun(k)]
  /\ UNCHANGED <<serving, connections, open, out, users, console>>

HeaderRead(k) ==
  /\ stage[k] = "header"
  /\ io[k] = "ok"
  /\ stage' = [stage EXCEPT ![k] = "body"]
  /\ io' = [io EXCEPT ![k] = Begun(k)]
  /\ UNCHANGED <<serving, connections, open, out, users, console>>

\* onReadBody begins to read the next header before it handles the packet.
PacketRead(k) ==
  /\ stage[k] = "body"
  /\ io[k] = "ok"
  /\ stage' = [stage EXCEPT ![k] = "header"]
  /\ UNCHANGED <<serving, connections, console>>

\* The handler leaves the sockets alone.
GoesOn(k) ==
  /\ io' = [io EXCEPT ![k] = Begun(k)]
  /\ UNCHANGED <<open, out>>

\* The handler calls DisconnectUser; the next header may have come before.
HandlerCloses(k) ==
  /\ open' = open \ {k}
  /\ \/ io' = [io EXCEPT ![k] = Cut(Begun(k))]
     \/ Begun(k) = "pending" /\ io' = [io EXCEPT ![k] = "ok"]
  /\ out' = [out EXCEPT ![k] = Cut(@)]

\* A packet that does nothing here, a login that is refused included.
Handled(k) == PacketRead(k) /\ GoesOn(k) /\ UNCHANGED users

\* Login and TransferLogin.  A user without a character is not logged in yet;
\* one whose character cannot be read is disconnected.
Login(k, u) ==
  /\ PacketRead(k)
  /\ ~ HasUser(k)
  /\ users[u] = NoUser
  /\ \E loggedIn \in BOOLEAN :
       /\ users' = [users EXCEPT ![u] = [NoUser EXCEPT !.conn = k, !.loggedIn = loggedIn]]
       /\ GoesOn(k) \/ (~ loggedIn /\ HandlerCloses(k))

\* The user creates its character.
RecvCharacter(k, u) ==
  /\ PacketRead(k)
  /\ users[u].conn = k
  /\ ~ users[u].loggedIn
  /\ \/ users' = [users EXCEPT ![u].loggedIn = TRUE] /\ GoesOn(k)
     \/ HandlerCloses(k) /\ UNCHANGED users

\* The client reports that its UDP packets do not come through.
NetworkFailure(k, u) ==
  /\ PacketRead(k)
  /\ users[u].conn = k
  /\ users[u].loggedIn
  /\ HandlerCloses(k)
  /\ UNCHANGED users

Packet(k) ==
  \/ Handled(k)
  \/ \E u \in User : Login(k, u) \/ RecvCharacter(k, u) \/ NetworkFailure(k, u)

OnRead(k) ==
  /\ serving
  /\ StartFailed(k) \/ Started(k) \/ HeaderRead(k) \/ Packet(k) \/ ReadFailed(k) \/ Rejected(k)

-----------------------------------------------------------------------------
\* Writing.

\* Any thread sends the first packet of a queue.  It may have looked at the
\* socket before another thread closed it.
WritePacket(k) ==
  /\ stage[k] \in {"header", "body"}
  /\ out[k] = "none"
  /\ out' = [out EXCEPT ![k] = Begun(k)]
  /\ UNCHANGED <<serving, connections, open, stage, io, users, console>>

OnWrite(k) ==
  /\ serving
  /\ \/ /\ out[k] = "pending"
        /\ out' = [out EXCEPT ![k] = "none"]
        /\ UNCHANGED <<connections, open, io, users>>
     \/ /\ out[k] \in {"failed", "bad"}
        /\ Failed(k, out[k])
        /\ out' = [out EXCEPT ![k] = "dead"]
        /\ io' = [io EXCEPT ![k] = Cut(@)]
  /\ UNCHANGED <<serving, stage, console>>

-----------------------------------------------------------------------------
\* Timeouts of game clients.

\* UDP packets of user u from port p.
SocketInfo(u, p) ==
  /\ users[u].loggedIn
  /\ users' = [users EXCEPT ![u].net = @ \cup {p}, ![u].late = @ \ {p}]
  /\ UNCHANGED <<serving, connections, sockets, stage, console>>

Heartbeat(u, p) ==
  /\ p \in users[u].late
  /\ users' = [users EXCEPT ![u].late = @ \ {p}]
  /\ UNCHANGED <<serving, connections, sockets, stage, console>>

Silence(u, p) ==
  /\ p \in users[u].net
  /\ users' = [users EXCEPT ![u].late = @ \cup {p}]
  /\ UNCHANGED <<serving, connections, sockets, stage, console>>

\* The tick disconnects a user that was heard on both ports once and is not
\* heard on one of them any more.
BugTimedOut(u) == users[u].net = Port /\ users[u].late = Port
TimedOut(u) == users[u].net = Port /\ users[u].late # {}

Tick(u) == TimedOut(u) /\ DisconnectUser(u)

-----------------------------------------------------------------------------
\* disconnectallclients.  The console thread closes the connections that it
\* finds without a user, and then disconnects the users.

Copy ==
  /\ console.left = {}
  /\ console' = [console EXCEPT !.left = connections]
  /\ UNCHANGED <<serving, connections, sockets, stage, users>>

Look(k) ==
  /\ console.doomed = None
  /\ k \in console.left
  /\ console' = IF HasUser(k) THEN [console EXCEPT !.left = @ \ {k}]
                              ELSE [console EXCEPT !.doomed = k]
  /\ UNCHANGED <<serving, connections, sockets, stage, users>>

DisconnectClient(k) ==
  /\ console.doomed = k
  /\ Close(k)
  /\ connections' = connections \ {k}
  /\ console' = [left |-> console.left \ {k}, doomed |-> None]
  /\ UNCHANGED <<serving, stage, users>>

-----------------------------------------------------------------------------
Next ==
  \/ AcceptThrows
  \/ Shutdown
  \/ Copy
  \/ \E k \in Conn :
       \/ Accept(k)
       \/ Arrive(k)
       \/ ClientLeaves(k)
       \/ OnRead(k)
       \/ OnWrite(k)
       \/ WritePacket(k)
       \/ Look(k)
       \/ DisconnectClient(k)
  \/ \E u \in User :
       \/ DisconnectUser(u)
       \/ Tick(u)
       \/ \E p \in Port : SocketInfo(u, p) \/ Heartbeat(u, p) \/ Silence(u, p)

Spec == Init /\ [][Next]_vars

\* io_context::run calls the handler of every operation that is completed,
\* and the tick comes every second.
FairSpec ==
  /\ Spec
  /\ \A k \in Conn : WF_vars(OnRead(k))
  /\ \A u \in User : WF_vars(Tick(u))

-----------------------------------------------------------------------------
(* Properties.                                                             *)

\* A socket that is open, and that of a user in _users even when somebody
\* has closed it, has an operation of the reading side outstanding or
\* completed: its handler is the only code that will remove the user.  An
\* open socket can be found in _connections.
ReadIsOutstanding ==
  serving =>
    /\ open \subseteq connections
    /\ \A k \in open : io[k] # "none"
    /\ \A u \in User : users[u] # NoUser => io[users[u].conn] # "none"

Listed(u, k) == users[u].conn = k

\* A user whose socket was closed, by any thread at any moment, and a user
\* that is silent for UDP_CLIENT_HEARTBEAT_TIMEOUT on a port, leave _users,
\* as long as the TCP thread runs.
UsersLeave ==
  \A u \in User :
    /\ \A k \in Conn :
         Listed(u, k) /\ k \notin open ~> ~ Listed(u, k) \/ ~ serving
    /\ users[u].net = Port /\ users[u].late # {} ~> users[u].late = {} \/ ~ serving
=============================================================================
