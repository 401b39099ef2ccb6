------------------------- MODULE Connections_proofs -------------------------
(***************************************************************************)
(* Proofs about module Connections, for any number of connections and      *)
(* users, with and without SSL.                                            *)
(***************************************************************************)
EXTENDS Connections, TLAPS

\* The connection of a user has begun to read packets.
UsersRead == \A u \in User : users[u] # NoUser => stage[users[u].conn] \in {"header", "body"}

\* bad_descriptor is the outcome on closed sockets only.
BadIsClosed == \A k \in open : io[k] # "bad"

Inv == TypeOK /\ ReadIsOutstanding /\ UsersRead /\ BadIsClosed

LEMMA InitInv == Init => Inv
BY ConnectionsAssumption
DEF Init, Inv, TypeOK, Outcome, Completed, ReadIsOutstanding, UsersRead, BadIsClosed, NoUser

-----------------------------------------------------------------------------
(* Parts of actions.                                                       *)

\* NoUser is the only value of users without a connection.
LEMMA ListedHasConn ==
  ASSUME TypeOK, NEW u \in User
  PROVE  /\ users[u] = NoUser <=> users[u].conn \notin Conn
         /\ users[u] # NoUser => users[u] \in Object
BY ConnectionsAssumption DEF TypeOK, Object, NoUser

LEMMA RemoveUserOfType ==
  ASSUME TypeOK, NEW k \in Conn, RemoveUserOf(k)
  PROVE  /\ users' \in [User -> Object \cup {NoUser}]
         /\ \A u \in User : users'[u] # NoUser => users'[u] = users[u] /\ users[u].conn # k
BY DEF TypeOK, RemoveUserOf

LEMMA CutType == ASSUME NEW x PROVE Cut(x) \in {x, "failed"} /\ Cut(x) # "pending"
                                    /\ (x \in Outcome => Cut(x) \in Outcome)
                                    /\ (x # "none" => Cut(x) # "none")
                                    /\ (x # "bad" => Cut(x) # "bad")
                                    /\ (x \in {"none", "pending", "failed", "bad", "dead"} =>
                                          Cut(x) \in {"none", "pending", "failed", "bad", "dead"})
BY DEF Cut, Outcome, Completed

\* A step that closes no more than it reads on keeps Inv: what every step of
\* connection k that leaves users alone or removes the user of k does.
LEMMA StepInv ==
  ASSUME Inv, NEW k \in Conn,
         serving' = serving,
         connections' \in SUBSET Conn, open' \in SUBSET Conn,
         console' = console,
         stage' \in [Conn -> {"hello", "handshake", "header", "body"}],
         io' \in [Conn -> Outcome],
         out' \in [Conn -> {"none", "pending", "failed", "bad", "dead"}],
         open' \in {open, open \ {k}},
         connections' \in {connections, connections \ {k}},
         k \in open' => open' = open /\ connections' = connections,
         \A j \in Conn : j # k => io'[j] = io[j] /\ stage'[j] = stage[j],
         k \in open' => io'[k] # "none" /\ io'[k] # "bad",
         k \in connections' \/ k \notin open',
         stage[k] \in {"header", "body"} => stage'[k] \in {"header", "body"},
         (users' = users /\ io'[k] # "none") \/ RemoveUserOf(k)
  PROVE  Inv'
<1> USE DEF Inv
<1>1. /\ users' \in [User -> Object \cup {NoUser}]
      /\ \A u \in User : users'[u] # NoUser =>
            users'[u] = users[u] /\ (users[u].conn # k \/ (io'[k] # "none" /\ users' = users))
  <2>1. CASE users' = users /\ io'[k] # "none"
    BY <2>1 DEF TypeOK
  <2>2. CASE RemoveUserOf(k)
    BY <2>2, RemoveUserOfType
  <2> QED BY <2>1, <2>2
<1>2. TypeOK'
  BY <1>1 DEF TypeOK
<1>3. BadIsClosed'
  BY DEF BadIsClosed, TypeOK
<1>4. UsersRead'
  BY <1>1, ListedHasConn, RemoveUserOfType DEF UsersRead, Object
<1>5. ReadIsOutstanding'
  <2> SUFFICES ASSUME serving
               PROVE  /\ open' \subseteq connections'
                      /\ \A j \in open' : io'[j] # "none"
                      /\ \A u \in User : users'[u] # NoUser => io'[users'[u].conn] # "none"
    BY DEF ReadIsOutstanding
  <2>1. open' \subseteq connections' /\ \A j \in open' : io'[j] # "none"
    BY DEF ReadIsOutstanding, TypeOK
  <2>2. ASSUME NEW u \in User, users'[u] # NoUser PROVE io'[users'[u].conn] # "none"
    BY <2>2, <1>1, ListedHasConn DEF ReadIsOutstanding, Object
  <2> QED BY <2>1, <2>2
<1> QED BY <1>2, <1>3, <1>4, <1>5

-----------------------------------------------------------------------------
(* The completion handlers.                                                *)

LEMMA StartFailedInv == ASSUME Inv, NEW k \in Conn, serving, StartFailed(k) PROVE Inv'
<1> USE DEF StartFailed, Erase
<1>1. ~ HasUser(k)
  BY ListedHasConn DEF Inv, UsersRead, HasUser, Object, NoUser
<1>2. RemoveUserOf(k)
  BY <1>1 DEF RemoveUserOf, HasUser, Inv, TypeOK
<1>3. k \notin open'
  BY DEF Inv, BadIsClosed
<1> QED BY <1>2, <1>3, StepInv DEF Inv, TypeOK, Outcome

LEMMA BegunType ==
  ASSUME NEW k
  PROVE  /\ Begun(k) \in Outcome \ {"none"}
         /\ Begun(k) \in {"none", "pending", "failed", "bad", "dead"}
         /\ k \in open => Begun(k) # "bad"
BY DEF Begun, Outcome, Completed

LEMMA ReadsOnInv == ASSUME Inv, NEW k \in Conn, serving, Started(k) \/ HeaderRead(k) PROVE Inv'
<1>1. k \in open => k \in connections
  BY DEF Inv, ReadIsOutstanding
<1>2. /\ io' = [io EXCEPT ![k] = Begun(k)]
      /\ stage'[k] \in {"handshake", "header", "body"}
      /\ stage[k] \in {"header", "body"} => stage'[k] = "body"
      /\ stage' \in [Conn -> {"hello", "handshake", "header", "body"}]
      /\ \A j \in Conn : j # k => stage'[j] = stage[j]
      /\ UNCHANGED <<serving, connections, open, out, users, console>>
  BY DEF Started, HeaderRead, Inv, TypeOK
<1> QED BY <1>1, <1>2, BegunType, StepInv DEF Inv, TypeOK

LEMMA ReadFailedInv == ASSUME Inv, NEW k \in Conn, serving, ReadFailed(k) PROVE Inv'
<1> USE DEF ReadFailed, Failed, Erase
<1>1. RemoveUserOf(k) /\ k \notin open'
  BY DEF Inv, BadIsClosed
<1>2. out' \in [Conn -> {"none", "pending", "failed", "bad", "dead"}]
  BY CutType DEF Inv, TypeOK
<1> QED BY <1>1, <1>2, StepInv DEF Inv, TypeOK, Outcome

LEMMA RejectedInv == ASSUME Inv, NEW k \in Conn, serving, Rejected(k) PROVE Inv'
<1> USE DEF Rejected
<1>1. out' \in [Conn -> {"none", "pending", "failed", "bad", "dead"}]
  BY CutType DEF Inv, TypeOK
<1> QED BY <1>1, StepInv DEF Inv, TypeOK, Outcome

\* What the handler of a packet does to the sockets.
LEMMA PacketSockets ==
  ASSUME Inv, NEW k \in Conn, PacketRead(k), GoesOn(k) \/ HandlerCloses(k)
  PROVE  /\ io' \in [Conn -> Outcome]
         /\ out' \in [Conn -> {"none", "pending", "failed", "bad", "dead"}]
         /\ open' \in SUBSET Conn
         /\ open' \in {open, open \ {k}}
         /\ io'[k] # "none"
         /\ k \in open' => io'[k] # "bad" /\ open' = open
         /\ \A j \in Conn : j # k => io'[j] = io[j] /\ stage'[j] = stage[j]
         /\ stage'[k] = "header"
         /\ stage' \in [Conn -> {"hello", "handshake", "header", "body"}]
<1>1. CASE GoesOn(k)
  BY <1>1, BegunType DEF GoesOn, PacketRead, Inv, TypeOK
<1>2. CASE HandlerCloses(k)
  <2>1. Cut(Begun(k)) \in Outcome \ {"none"}
    BY BegunType, CutType
  <2>2. out' \in [Conn -> {"none", "pending", "failed", "bad", "dead"}]
    BY <1>2, CutType DEF HandlerCloses, Inv, TypeOK
  <2> QED BY <1>2, <2>1, <2>2 DEF HandlerCloses, PacketRead, Inv, TypeOK, Outcome, Completed
<1> QED BY <1>1, <1>2

LEMMA PacketStep ==
  ASSUME Inv, NEW k \in Conn, serving, PacketRead(k), GoesOn(k) \/ HandlerCloses(k),
         users' \in [User -> Object \cup {NoUser}],
         \A u \in User : users'[u] # NoUser => users'[u] = users[u] \/ users'[u].conn = k
  PROVE  Inv'
<1> USE DEF Inv
<1>1. /\ io' \in [Conn -> Outcome]
      /\ out' \in [Conn -> {"none", "pending", "failed", "bad", "dead"}]
      /\ open' \in SUBSET Conn
      /\ stage' \in [Conn -> {"hello", "handshake", "header", "body"}]
  BY PacketSockets
<1>2. /\ open' \subseteq open
      /\ io'[k] # "none"
      /\ k \in open' => io'[k] # "bad"
      /\ \A j \in Conn : j # k => io'[j] = io[j] /\ stage'[j] = stage[j]
      /\ stage'[k] = "header"
  BY PacketSockets
<1>3. UNCHANGED <<serving, connections, console>>
  BY DEF PacketRead
<1>4. TypeOK'
  BY <1>1, <1>3 DEF TypeOK
<1>5. BadIsClosed'
  BY <1>1, <1>2 DEF BadIsClosed, TypeOK
<1>6. ASSUME NEW u \in User, users'[u] # NoUser
      PROVE  \/ users'[u].conn = k
             \/ /\ users[u] # NoUser
                /\ io'[users'[u].conn] = io[users[u].conn]
                /\ stage'[users'[u].conn] = stage[users[u].conn]
  BY <1>2, <1>6, ListedHasConn DEF Object
<1>7. UsersRead'
  BY <1>2, <1>6 DEF UsersRead
<1>8. ReadIsOutstanding'
  <2>1. open' \subseteq connections' /\ \A j \in open' : io'[j] # "none"
    BY <1>1, <1>2, <1>3 DEF ReadIsOutstanding, TypeOK
  <2>2. \A u \in User : users'[u] # NoUser => io'[users'[u].conn] # "none"
    BY <1>2, <1>6 DEF ReadIsOutstanding
  <2> QED BY <2>1, <2>2 DEF ReadIsOutstanding
<1> QED BY <1>4, <1>5, <1>7, <1>8

LEMMA PacketInv == ASSUME Inv, NEW k \in Conn, serving, Packet(k) PROVE Inv'
<1>1. CASE Handled(k)
  BY <1>1, PacketStep DEF Handled, Inv, TypeOK
<1>2. ASSUME NEW u \in User, Login(k, u) PROVE Inv'
  <2>1. PICK loggedIn \in BOOLEAN :
          users' = [users EXCEPT ![u] = [NoUser EXCEPT !.conn = k, !.loggedIn = loggedIn]]
    BY <1>2 DEF Login
  <2>2. [NoUser EXCEPT !.conn = k, !.loggedIn = loggedIn] \in [conn : {k}, loggedIn : BOOLEAN,
                                                              net : {{}}, late : {{}}]
    BY DEF NoUser
  <2>3. /\ users' \in [User -> Object \cup {NoUser}]
        /\ \A v \in User : users'[v] # NoUser => users'[v] = users[v] \/ users'[v].conn = k
    BY <2>1, <2>2 DEF Inv, TypeOK, Object
  <2> QED BY <1>2, <2>3, PacketStep DEF Login
<1>3. ASSUME NEW u \in User, RecvCharacter(k, u) PROVE Inv'
  <2>1. users[u] \in Object
    BY <1>3, ListedHasConn DEF RecvCharacter, Inv
  <2>2. CASE users' = [users EXCEPT ![u].loggedIn = TRUE] /\ GoesOn(k)
    BY <1>3, <2>1, <2>2, PacketStep DEF RecvCharacter, Inv, TypeOK, Object
  <2>3. CASE HandlerCloses(k) /\ UNCHANGED users
    BY <1>3, <2>3, PacketStep DEF RecvCharacter, Inv, TypeOK
  <2> QED BY <1>3, <2>2, <2>3 DEF RecvCharacter
<1>4. ASSUME NEW u \in User, NetworkFailure(k, u) PROVE Inv'
  BY <1>4, PacketStep DEF NetworkFailure, Inv, TypeOK
<1> QED BY <1>1, <1>2, <1>3, <1>4 DEF Packet

LEMMA OnReadInv == ASSUME Inv, NEW k \in Conn, OnRead(k) PROVE Inv'
BY StartFailedInv, ReadsOnInv, ReadFailedInv, RejectedInv, PacketInv DEF OnRead

LEMMA OnWriteInv == ASSUME Inv, NEW k \in Conn, OnWrite(k) PROVE Inv'
<1> USE DEF Inv
<1>1. CASE out[k] = "pending" /\ UNCHANGED <<connections, open, io, users>>
  <2>1. TypeOK'
    BY <1>1 DEF OnWrite, TypeOK
  <2> QED BY <1>1, <2>1 DEF OnWrite, ReadIsOutstanding, UsersRead, BadIsClosed
<1>2. CASE out[k] \in {"failed", "bad"}
  <2>1. /\ RemoveUserOf(k)
        /\ io' = [io EXCEPT ![k] = Cut(@)]
        /\ out' \in [Conn -> {"none", "pending", "failed", "bad", "dead"}]
    BY <1>2 DEF OnWrite, Failed, TypeOK
  <2>2. io' \in [Conn -> Outcome]
    BY <2>1, CutType DEF TypeOK
  <2>3. k \in open => io'[k] # "none" /\ io'[k] # "bad" /\ k \in connections
    BY <2>1, CutType DEF OnWrite, BadIsClosed, ReadIsOutstanding, TypeOK
  <2> QED BY <1>2, <2>1, <2>2, <2>3, StepInv DEF OnWrite, Failed, Erase, TypeOK
<1> QED BY <1>1, <1>2 DEF OnWrite

-----------------------------------------------------------------------------
(* The client, other threads and the TCP server.                           *)

\* Closing from another thread.
LEMMA CloseInv ==
  ASSUME Inv, NEW k \in Conn, Close(k), UNCHANGED <<serving, stage, users>>,
         connections' \in {connections, connections \ {k}},
         console' \in [left : SUBSET Conn, doomed : Conn \cup {None}]
  PROVE  Inv'
<1> USE DEF Inv, Close
<1>1. io' \in [Conn -> Outcome] /\ out' \in [Conn -> {"none", "pending", "failed", "bad", "dead"}]
  BY CutType DEF TypeOK
<1>2. TypeOK'
  BY <1>1 DEF TypeOK
<1>3. \A j \in Conn : io[j] # "none" => io'[j] # "none"
  BY CutType DEF TypeOK
<1>4. BadIsClosed'
  BY DEF BadIsClosed, TypeOK
<1>5. ReadIsOutstanding'
  BY <1>3, ListedHasConn DEF ReadIsOutstanding, TypeOK, Object
<1> QED BY <1>2, <1>4, <1>5 DEF UsersRead

LEMMA ArriveInv ==
  ASSUME Inv, NEW k \in Conn, Arrive(k) \/ ClientLeaves(k) \/ WritePacket(k)
  PROVE  Inv'
<1> USE DEF Inv
<1>1. /\ io' \in [Conn -> Outcome]
      /\ \A j \in Conn : io[j] # "none" => io'[j] # "none"
      /\ \A j \in Conn : io'[j] = "bad" => io[j] = "bad"
      /\ UNCHANGED <<serving, connections, open, stage, users, console>>
  BY DEF Arrive, ClientLeaves, WritePacket, TypeOK, Outcome, Completed
<1>2. out' \in [Conn -> {"none", "pending", "failed", "bad", "dead"}]
  BY CutType, BegunType DEF Arrive, ClientLeaves, WritePacket, TypeOK
<1>3. TypeOK'
  BY <1>1, <1>2 DEF TypeOK
<1>4. ReadIsOutstanding'
  BY <1>1, ListedHasConn DEF ReadIsOutstanding, TypeOK, Object
<1> QED BY <1>1, <1>3, <1>4 DEF UsersRead, BadIsClosed, TypeOK

LEMMA PortInv ==
  ASSUME Inv, NEW u \in User, NEW p \in Port,
         SocketInfo(u, p) \/ Heartbeat(u, p) \/ Silence(u, p)
  PROVE  Inv'
<1> USE DEF Inv
<1>1. users[u] \in Object
  BY ListedHasConn DEF SocketInfo, Heartbeat, Silence, NoUser
<1>2. /\ users' \in [User -> Object \cup {NoUser}]
      /\ \A v \in User : users'[v].conn = users[v].conn /\ (users'[v] # NoUser => users[v] # NoUser)
      /\ UNCHANGED <<serving, connections, open, io, out, stage, console>>
  BY <1>1, ListedHasConn DEF SocketInfo, Heartbeat, Silence, TypeOK, Object, sockets
<1>3. TypeOK'
  BY <1>2 DEF TypeOK
<1> QED BY <1>2, <1>3 DEF ReadIsOutstanding, UsersRead, BadIsClosed

LEMMA ServerInv ==
  ASSUME Inv, AcceptThrows \/ Shutdown \/ Copy \/ \E k \in Conn : Look(k)
  PROVE  Inv'
<1> USE DEF Inv
<1>1. ASSUME Copy \/ \E k \in Conn : Look(k) PROVE Inv'
  <2>1. TypeOK' /\ UNCHANGED <<serving, connections, open, io, stage, users>>
    BY <1>1 DEF Copy, Look, TypeOK, sockets
  <2> QED BY <2>1 DEF ReadIsOutstanding, UsersRead, BadIsClosed
<1>2. CASE AcceptThrows
  BY <1>2 DEF AcceptThrows, sockets, TypeOK, ReadIsOutstanding, UsersRead, BadIsClosed
<1>3. CASE Shutdown
  <2>1. \A k \in Conn : /\ io'[k] \in Outcome /\ (io'[k] = "bad" => io[k] = "bad")
                         /\ out'[k] \in {"none", "pending", "failed", "bad", "dead"}
    BY <1>3, CutType DEF Shutdown, TypeOK
  <2>2. TypeOK'
    BY <1>3, <2>1 DEF Shutdown, TypeOK
  <2> QED BY <1>3, <2>1, <2>2 DEF Shutdown, ReadIsOutstanding, UsersRead, BadIsClosed, TypeOK
<1> QED BY <1>1, <1>2, <1>3

LEMMA AcceptInv == ASSUME Inv, NEW k \in Conn, Accept(k) PROVE Inv'
<1> USE DEF Inv, Accept
<1>1. TypeOK'
  BY DEF TypeOK, Outcome
<1>2. \A u \in User : users[u].conn # k
  BY DEF Unused, HasUser
<1> QED BY <1>1, <1>2, ListedHasConn DEF ReadIsOutstanding, UsersRead, BadIsClosed, TypeOK, Object

LEMMA NextInv == Inv /\ [Next]_vars => Inv'
<1> SUFFICES ASSUME Inv, [Next]_vars PROVE Inv'
  OBVIOUS
<1>1. CASE UNCHANGED vars
  BY <1>1 DEF vars, Inv, TypeOK, ReadIsOutstanding, UsersRead, BadIsClosed
<1>2. ASSUME NEW k \in Conn, DisconnectClient(k) PROVE Inv'
  BY <1>2, CloseInv DEF DisconnectClient, Inv, TypeOK
<1>3. ASSUME NEW u \in User, DisconnectUser(u) PROVE Inv'
  BY <1>3, CloseInv DEF DisconnectUser, Inv, TypeOK
<1> QED BY <1>1, <1>2, <1>3, ServerInv, AcceptInv, ArriveInv, OnReadInv, OnWriteInv, PortInv DEF Next, Tick

\* Every variable keeps its type: what the handlers, the tick and the console
\* do to a connection keeps to the states its operations can be in.
THEOREM ConnectionsTypeCorrect == Spec => []TypeOK
<1>1. Init => Inv
  BY InitInv
<1>2. Inv /\ [Next]_vars => Inv'
  BY NextInv
<1>3. Inv => TypeOK
  BY DEF Inv
<1> QED BY <1>1, <1>2, <1>3, PTL DEF Spec

\* Whoever closes the socket of a user, and whenever, a read is outstanding
\* whose handler will remove the user (DisconnectUserByConnection): none is
\* left in _users behind a socket that nobody reads.
THEOREM ReadCorrect == Spec => []ReadIsOutstanding
<1>1. Init => Inv
  BY InitInv
<1>2. Inv /\ [Next]_vars => Inv'
  BY NextInv
<1>3. Inv => ReadIsOutstanding
  BY DEF Inv
<1> QED BY <1>1, <1>2, <1>3, PTL DEF Spec
=============================================================================
