---------------------------- MODULE Rooms_proofs ----------------------------
(***************************************************************************)
(* Proofs about module Rooms.                                              *)
(***************************************************************************)
EXTENDS Rooms, SequenceTheorems, TLAPS

-----------------------------------------------------------------------------
(* What the vectors _roomUsers and _gameMatchUsers keep when an element is *)
(* erased from them or pushed back.                                        *)

\* The index SelectInSeq finds is the only one where e occurs.
LEMMA FirstIndex ==
  ASSUME NEW S, NEW s \in Seq(S), NEW e, IsInjective(s),
         NEW k \in 1 .. Len(s), s[k] = e
  PROVE  RemoveFirst(s, e) = RemoveAt(s, k)
<1>1. {i \in 1 .. Len(s) : s[i] = e} = {k}
  BY DEF IsInjective
<1>2. (CHOOSE x \in {k} : \A y \in {k} : x =< y) = k
  OBVIOUS
<1>3. SelectInSeq(s, LAMBDA v : v = e) = k
  BY <1>1, <1>2 DEF SelectInSeq, Min
<1> QED
  BY <1>3 DEF RemoveFirst

LEMMA RemoveAtElements ==
  ASSUME NEW S, NEW s \in Seq(S), NEW k \in 1 .. Len(s)
  PROVE  /\ RemoveAt(s, k) \in Seq(S)
         /\ Len(RemoveAt(s, k)) = Len(s) - 1
         /\ \A i \in 1 .. Len(s) - 1 :
              RemoveAt(s, k)[i] = IF i < k THEN s[i] ELSE s[i + 1]
<1> DEFINE a == SubSeq(s, 1, k - 1)
           b == SubSeq(s, k + 1, Len(s))
<1>1. /\ a \in Seq(S)
      /\ Len(a) = k - 1
      /\ \A i \in 1 .. k - 1 : a[i] = s[i]
  <2>1. \A i \in 1 .. k - 1 : s[i] \in S
    OBVIOUS
  <2> QED BY <2>1, SubSeqProperties
<1>2. /\ b \in Seq(S)
      /\ Len(b) = Len(s) - k
      /\ \A i \in 1 .. Len(s) - k : b[i] = s[k + i]
  <2>1. \A i \in k + 1 .. Len(s) : s[i] \in S
    OBVIOUS
  <2> QED BY <2>1, SubSeqProperties
<1>3. RemoveAt(s, k) = a \o b
  BY DEF RemoveAt
<1> HIDE DEF a, b
<1>4. /\ a \o b \in Seq(S)
      /\ Len(a \o b) = Len(a) + Len(b)
      /\ \A i \in 1 .. Len(a) + Len(b) :
           (a \o b)[i] = IF i <= Len(a) THEN a[i] ELSE b[i - Len(a)]
  BY <1>1, <1>2, ConcatProperties
<1> QED BY <1>1, <1>2, <1>3, <1>4

LEMMA RemoveFirstProperties ==
  ASSUME NEW S, NEW s \in Seq(S), NEW e, IsInjective(s)
  PROVE  /\ RemoveFirst(s, e) \in Seq(S)
         /\ IsInjective(RemoveFirst(s, e))
         /\ ToSet(RemoveFirst(s, e)) = ToSet(s) \ {e}
<1>1. CASE e \in ToSet(s)
  <2>1. PICK k \in 1 .. Len(s) : s[k] = e
    BY <1>1 DEF ToSet
  <2> DEFINE t == RemoveAt(s, k)
  <2>2. RemoveFirst(s, e) = t
    BY <2>1, FirstIndex
  <2>3. /\ t \in Seq(S)
        /\ Len(t) = Len(s) - 1
        /\ \A i \in 1 .. Len(s) - 1 : t[i] = IF i < k THEN s[i] ELSE s[i + 1]
    BY RemoveAtElements
  <2> HIDE DEF t
  <2>4. IsInjective(t)
    <3>1. DOMAIN t = 1 .. Len(s) - 1
      BY <2>3
    <3>2. ASSUME NEW i \in 1 .. Len(s) - 1, NEW j \in 1 .. Len(s) - 1, t[i] = t[j]
          PROVE  i = j
      <4> DEFINE a == IF i < k THEN i ELSE i + 1
                 b == IF j < k THEN j ELSE j + 1
      <4>1. a \in DOMAIN s /\ b \in DOMAIN s
        OBVIOUS
      <4>2. s[a] = s[b]
        BY <2>3, <3>2
      <4>3. a = b
        BY <4>1, <4>2 DEF IsInjective
      <4> QED BY <4>3
    <3> QED BY <3>1, <3>2 DEF IsInjective
  <2>5. ASSUME NEW x \in ToSet(s), x # e
        PROVE  x \in ToSet(t)
    <3>1. PICK j \in 1 .. Len(s) : s[j] = x
      BY DEF ToSet
    <3>2. CASE j < k
      <4>1. j \in DOMAIN t /\ t[j] = x
        BY <2>3, <3>1, <3>2
      <4> QED BY <4>1 DEF ToSet
    <3>3. CASE j > k
      <4>1. j - 1 \in DOMAIN t /\ t[j - 1] = x
        BY <2>3, <3>1, <3>3
      <4> QED BY <4>1 DEF ToSet
    <3> QED BY <2>1, <2>5, <3>1, <3>2, <3>3
  <2>6. ASSUME NEW x \in ToSet(t)
        PROVE  x \in ToSet(s) \ {e}
    <3>1. PICK i \in 1 .. Len(s) - 1 : t[i] = x
      BY <2>3 DEF ToSet
    <3>2. PICK j \in 1 .. Len(s) : s[j] = x /\ j # k
      BY <2>3, <3>1
    <3> QED BY <2>1, <3>2 DEF ToSet, IsInjective
  <2> QED BY <2>2, <2>3, <2>4, <2>5, <2>6
<1>2. CASE e \notin ToSet(s)
  <2>1. ~ \E i \in 1 .. Len(s) : s[i] = e
    BY <1>2 DEF ToSet
  <2>2. RemoveFirst(s, e) = s
    BY <2>1 DEF RemoveFirst
  <2> QED BY <1>2, <2>2
<1> QED BY <1>1, <1>2

LEMMA PushBackProperties ==
  ASSUME NEW S, NEW s \in Seq(S), NEW e \in S, IsInjective(s), e \notin ToSet(s)
  PROVE  /\ Append(s, e) \in Seq(S)
         /\ IsInjective(Append(s, e))
         /\ ToSet(Append(s, e)) = ToSet(s) \union {e}
<1>1. PICK t : t = Append(s, e)
  OBVIOUS
<1>2. /\ t \in Seq(S)
      /\ Len(t) = Len(s) + 1
      /\ \A i \in 1 .. Len(s) : t[i] = s[i]
      /\ t[Len(s) + 1] = e
  BY <1>1
<1>3. IsInjective(t)
  BY <1>2 DEF IsInjective, ToSet
<1>4. ToSet(t) = ToSet(s) \union {e}
  <2>1. \A x \in ToSet(t) : x \in ToSet(s) \/ x = e
    BY <1>2 DEF ToSet
  <2>2. \A i \in 1 .. Len(s) + 1 : t[i] \in ToSet(t)
    BY <1>2 DEF ToSet
  <2>3. e \in ToSet(t)
    BY <1>2, <2>2
  <2>4. \A x \in ToSet(s) : x \in ToSet(t)
    BY <1>2, <2>2 DEF ToSet
  <2> QED BY <2>1, <2>3, <2>4
<1> QED BY <1>1, <1>2, <1>3, <1>4

\* front() of a vector that is not empty is one of its elements.
LEMMA HeadIsElement ==
  ASSUME NEW S, NEW s \in Seq(S), s # <<>>
  PROVE  Head(s) \in ToSet(s) /\ Head(s) \in S
BY DEF ToSet

LEMMA EmptyProperties ==
  /\ IsInjective(<<>>)
  /\ ToSet(<<>>) = {}
BY DEF IsInjective, ToSet

LEMMA SingletonProperties ==
  ASSUME NEW e
  PROVE  /\ IsInjective(<<e>>)
         /\ ToSet(<<e>>) = {e}
BY DEF IsInjective, ToSet
-----------------------------------------------------------------------------
(* The inductive invariant.  None of its parts is inductive alone: that the *)
(* host or a player is one of the users of its room rests on both sides of *)
(* the link between a user and its room, which rests on the status the     *)
(* handlers test.                                                          *)

Inv ==
  /\ TypeOK
  /\ RoomMembership
  /\ RoomStatus
  /\ HostIsMember
  /\ PlayersAreMembers

LEMMA InitInv == Init => Inv
<1> SUFFICES ASSUME Init PROVE Inv
  OBVIOUS
<1> USE DEF Init
<1>1. TypeOK
  BY RoomsAssumption DEF TypeOK, RoomID, NoRoom, Status, RoomState
<1>2. RoomMembership
  BY EmptyProperties DEF RoomMembership, Members
<1>3. RoomStatus
  BY DEF RoomStatus, InARoom
<1>4. HostIsMember
  BY DEF HostIsMember
<1>5. PlayersAreMembers
  BY EmptyProperties DEF PlayersAreMembers, Players
<1> QED BY <1>1, <1>2, <1>3, <1>4, <1>5 DEF Inv

\* Whatever a query on the table rooms does, the table keeps its shape.
LEMMA QueryTypes ==
  ASSUME TypeOK, NEW r \in RoomID, NEW players \in Nat, NEW max \in 0 .. 255
  PROVE  /\ UpdateRow(r, players, max) \subseteq [RoomID -> Row \union {NoRow}]
         /\ DeleteRow(r) \subseteq [RoomID -> Row \union {NoRow}]
<1> DEFINE Tables == [RoomID -> Row \union {NoRow}]
<1>1. dbRooms \in Tables
  BY DEF TypeOK
<1>2. \A table \in Tables : Wrote(table) \subseteq Tables
  BY <1>1 DEF Wrote
<1>3. [players |-> players, max |-> max] \in Row
  BY DEF Row
<1>4. [dbRooms EXCEPT ![r] = [players |-> players, max |-> max]] \in Tables
  BY <1>1, <1>3
<1>5. [dbRooms EXCEPT ![r] = NoRow] \in Tables
  BY <1>1
<1> QED BY <1>1, <1>2, <1>4, <1>5 DEF UpdateRow, DeleteRow

\* A step that changes only the status of users outside of any room.
LEMMA StatusStepInv ==
  ASSUME Inv, NEW u \in User, NEW s \in {"Offline", "InLogin", "InServerList", "InLobby"},
         status' = [status EXCEPT ![u] = s], ~ InARoom(u),
         UNCHANGED <<currentRoom, roomVars, matchVars>>,
         dbRooms' \in [RoomID -> Row \union {NoRow}]
  PROVE  Inv'
<1> USE DEF Inv, roomVars, matchVars
<1>1. TypeOK'
  BY DEF TypeOK, Status
<1>2. RoomMembership'
  BY DEF RoomMembership, Members
<1>3. RoomStatus'
  BY DEF TypeOK, RoomStatus, InARoom
<1>4. HostIsMember'
  BY DEF HostIsMember, Members
<1>5. PlayersAreMembers'
  BY DEF TypeOK, PlayersAreMembers, Players, InARoom
<1> QED BY <1>1, <1>2, <1>3, <1>4, <1>5

LEMMA EnterChannelInv ==
  ASSUME Inv, NEW u \in User,
         LogIn(u) \/ CreateCharacter(u) \/ RequestServerList(u) \/ EnterLobby(u)
  PROVE  Inv'
<1>1. PICK s \in {"InLogin", "InServerList", "InLobby"} :
        status' = [status EXCEPT ![u] = s]
  BY DEF LogIn, CreateCharacter, RequestServerList, EnterLobby
<1>2. /\ ~ InARoom(u)
      /\ UNCHANGED <<currentRoom, roomVars, matchVars, dbRooms>>
  BY DEF LogIn, CreateCharacter, RequestServerList, EnterLobby, InARoom
<1>3. dbRooms' \in [RoomID -> Row \union {NoRow}]
  BY <1>2 DEF Inv, TypeOK
<1> QED BY <1>1, <1>2, <1>3, StatusStepInv

-----------------------------------------------------------------------------
(* Leaving a room.                                                         *)

LEMMA RemoveRoomUserInv ==
  ASSUME Inv, NEW u \in User, NEW r \in rooms, currentRoom[u] = r,
         NEW left \in {"InLobby", "Offline"},
         RemoveRoomUser(r, u, left)
  PROVE  Inv'
<1> DEFINE users   == RemoveFirst(roomUsers[r], u)
           players == PlayersWithout(r, u)
           heir    == IF r \in matches /\ players # <<>> THEN Head(players) ELSE Head(users)
           LastUserLeaves ==
             /\ users = <<>>
             /\ rooms' = rooms \ {r}
             /\ roomUsers' = [roomUsers EXCEPT ![r] = <<>>]
             /\ roomHost' = [roomHost EXCEPT ![r] = NoUser]
             /\ roomState' = [roomState EXCEPT ![r] = "Waiting"]
             /\ maxPlayers' = [maxPlayers EXCEPT ![r] = 0]
             /\ matches' = matches \ {r}
             /\ matchUsers' = [matchUsers EXCEPT ![r] = <<>>]
             /\ saved' = saved \ {r}
             /\ dbRooms' \in DeleteRow(r)
           OtherUsersStay ==
             /\ users # <<>>
             /\ roomUsers' = [roomUsers EXCEPT ![r] = users]
             /\ roomHost' = [roomHost EXCEPT ![r] = IF @ = u THEN heir ELSE @]
             /\ roomState' = [roomState EXCEPT ![r] = IF MatchEnds(r, u) THEN "Waiting" ELSE @]
             /\ matches' = IF MatchGone(r, u) THEN matches \ {r} ELSE matches
             /\ matchUsers' = [matchUsers EXCEPT ![r] =
                                 IF MatchGone(r, u) THEN <<>> ELSE players]
             /\ saved' = IF MatchGone(r, u) THEN saved \ {r} ELSE saved
             /\ dbRooms' \in UpdateRow(r, Len(users), maxPlayers[r])
             /\ UNCHANGED <<rooms, maxPlayers>>
<1>1. /\ status' = [status EXCEPT ![u] = left]
      /\ currentRoom' = [currentRoom EXCEPT ![u] = NoRoom]
      /\ LastUserLeaves \/ OtherUsersStay
  BY DEF RemoveRoomUser
<1>2. r \in RoomID /\ r # NoRoom
  BY DEF Inv, TypeOK, RoomID, NoRoom
<1>3. users \in Seq(User) /\ IsInjective(users) /\ ToSet(users) = Members(r) \ {u}
  BY <1>2, RemoveFirstProperties DEF Inv, TypeOK, RoomMembership, Members
<1>4. players \in Seq(User) /\ IsInjective(players) /\ ToSet(players) = Players(r) \ {u}
  BY <1>2, RemoveFirstProperties DEF Inv, TypeOK, PlayersAreMembers, Players, PlayersWithout
<1>5. \A v \in User : v \in Members(r) <=> currentRoom[v] = r
  BY <1>2 DEF Inv, RoomMembership
<1>6. \A v \in Players(r) : currentRoom[v] = r /\ status[v] = "InGame"
  BY <1>2 DEF Inv, PlayersAreMembers
<1>7. Players(r) \subseteq User
  BY <1>2 DEF Inv, TypeOK, Players, ToSet
<1>8. users # <<>> => heir \in User /\ heir \in ToSet(users)
  <2>1. players # <<>> => Head(players) \in ToSet(players) /\ Head(players) \in User
    BY <1>4, HeadIsElement
  <2>2. ToSet(players) \subseteq ToSet(users)
    BY <1>3, <1>4, <1>5, <1>6, <1>7
  <2>3. users # <<>> => Head(users) \in ToSet(users) /\ Head(users) \in User
    BY <1>3, HeadIsElement
  <2> QED BY <2>1, <2>2, <2>3
<1>9. <<>> \in Seq(User) /\ Len(users) \in Nat /\ maxPlayers[r] \in 0 .. 255
  BY <1>2, <1>3 DEF Inv, TypeOK
<1>10. dbRooms' \in [RoomID -> Row \union {NoRow}]
  BY <1>1, <1>2, <1>9, QueryTypes DEF Inv
<1> HIDE DEF users, players, heir
<1>11. TypeOK'
  <2>1. status' \in [User -> Status]
    BY <1>1 DEF Inv, TypeOK, Status
  <2>2. currentRoom' \in [User -> RoomID \union {NoRoom}]
    BY <1>1 DEF Inv, TypeOK
  <2>3. /\ rooms' \in SUBSET RoomID
        /\ matches' \in SUBSET rooms'
        /\ saved' \in SUBSET matches'
    BY <1>1, <1>2 DEF Inv, TypeOK
  <2>4. roomUsers' \in [RoomID -> Seq(User)]
    <3>1. roomUsers \in [RoomID -> Seq(User)]
      BY DEF Inv, TypeOK
    <3>2. CASE LastUserLeaves
      BY <1>9, <3>1, <3>2
    <3>3. CASE OtherUsersStay
      BY <1>3, <1>9, <3>1, <3>3
    <3> QED BY <1>1, <3>2, <3>3
  <2>5. roomHost' \in [RoomID -> User \union {NoUser}]
    <3>1. roomHost \in [RoomID -> User \union {NoUser}]
      BY DEF Inv, TypeOK
    <3>2. CASE LastUserLeaves
      BY <3>1, <3>2
    <3>3. CASE OtherUsersStay
      BY <1>2, <1>8, <3>1, <3>3
    <3> QED BY <1>1, <3>2, <3>3
  <2>6. roomState' \in [RoomID -> RoomState]
    BY <1>1, <1>2 DEF Inv, TypeOK, RoomState
  <2>7. maxPlayers' \in [RoomID -> 0 .. 255]
    <3>1. maxPlayers \in [RoomID -> 0 .. 255]
      BY DEF Inv, TypeOK
    <3>2. maxPlayers' = maxPlayers \/ maxPlayers' = [maxPlayers EXCEPT ![r] = 0]
      BY <1>1
    <3>3. 0 \in 0 .. 255
      OBVIOUS
    <3> QED BY <3>1, <3>2, <3>3
  <2>8. matchUsers' \in [RoomID -> Seq(User)]
    <3>1. matchUsers \in [RoomID -> Seq(User)]
      BY DEF Inv, TypeOK
    <3>2. CASE LastUserLeaves
      BY <1>9, <3>1, <3>2
    <3>3. CASE OtherUsersStay
      BY <1>4, <1>9, <3>1, <3>3
    <3> QED BY <1>1, <3>2, <3>3
  <2> QED BY <1>10, <2>1, <2>2, <2>3, <2>4, <2>5, <2>6, <2>7, <2>8 DEF TypeOK
<1>12. RoomMembership'
  <2>1. /\ roomUsers'[r] = users
        /\ r \in rooms' <=> users # <<>>
        /\ \A q \in RoomID \ {r} : roomUsers'[q] = roomUsers[q] /\ (q \in rooms' <=> q \in rooms)
    BY <1>1, <1>2, <1>3 DEF Inv, TypeOK
  <2>2. \A v \in User : currentRoom'[v] = IF v = u THEN NoRoom ELSE currentRoom[v]
    BY <1>1 DEF Inv, TypeOK
  <2>3. users # <<>> <=> ToSet(users) # {}
    BY <1>3, HeadIsElement, EmptyProperties
  <2> SUFFICES ASSUME NEW q \in RoomID, NEW v \in User
      PROVE  /\ IsInjective(roomUsers'[q])
             /\ v \in ToSet(roomUsers'[q]) <=> q \in rooms' /\ currentRoom'[v] = q
    BY DEF RoomMembership, Members
  <2>4. CASE q = r
    BY <1>2, <1>3, <1>5, <2>1, <2>2, <2>3, <2>4
  <2>5. CASE q # r
    <3>1. /\ IsInjective(roomUsers[q])
          /\ v \in ToSet(roomUsers[q]) <=> q \in rooms /\ currentRoom[v] = q
      BY DEF Inv, RoomMembership, Members
    <3>2. q # NoRoom
      BY DEF RoomID, NoRoom
    <3> QED BY <2>1, <2>2, <2>5, <3>1, <3>2
  <2> QED BY <2>4, <2>5
<1>13. RoomStatus'
  <2>1. \A v \in User \ {u} : currentRoom[v] = r => users # <<>>
    BY <1>3, <1>5, EmptyProperties
  <2>2. \A v \in User \ {u} : currentRoom[v] \in rooms => currentRoom[v] \in rooms'
    BY <1>1, <2>1
  <2> QED BY <1>1, <2>2 DEF Inv, TypeOK, RoomStatus, InARoom
<1>14. HostIsMember'
  <2>1. ASSUME users # <<>>
        PROVE  roomHost'[r] \in ToSet(roomUsers'[r])
    BY <1>1, <1>2, <1>3, <1>8, <2>1 DEF Inv, TypeOK, HostIsMember, Members
  <2>2. ASSUME NEW q \in rooms', q # r
        PROVE  roomHost'[q] \in ToSet(roomUsers'[q])
    BY <1>1, <2>2 DEF Inv, TypeOK, HostIsMember, Members
  <2> QED BY <1>1, <2>1, <2>2 DEF HostIsMember, Members
<1>15. PlayersAreMembers'
  <2>1. /\ matchUsers'[r] \in {<<>>, players}
        /\ r \notin matches' => matchUsers'[r] = <<>> \/ (players = matchUsers'[r] /\ r \notin matches)
        /\ \A q \in RoomID \ {r} : matchUsers'[q] = matchUsers[q] /\ (q \in matches' <=> q \in matches)
    <3>1. matchUsers \in [RoomID -> Seq(User)]
      BY DEF Inv, TypeOK
    <3>2. CASE LastUserLeaves
      <4>1. /\ matchUsers' = [matchUsers EXCEPT ![r] = <<>>]
            /\ matches' = matches \ {r}
        BY <3>2
      <4> QED BY <1>2, <3>1, <4>1
    <3>3. CASE OtherUsersStay /\ MatchGone(r, u)
      <4>1. /\ matchUsers' = [matchUsers EXCEPT ![r] = <<>>]
            /\ matches' = matches \ {r}
        BY <3>3
      <4> QED BY <1>2, <3>1, <4>1
    <3>4. CASE OtherUsersStay /\ ~ MatchGone(r, u)
      <4>1. /\ matchUsers' = [matchUsers EXCEPT ![r] = players]
            /\ matches' = matches
        BY <3>4
      <4> QED BY <1>2, <3>1, <4>1
    <3> QED BY <1>1, <3>2, <3>3, <3>4
  <2>2. r \notin matches => players = <<>>
    <3>1. r \notin matches => ToSet(players) = {}
      BY <1>2, <1>4, EmptyProperties DEF Inv, PlayersAreMembers, Players
    <3> QED BY <1>4, <3>1, HeadIsElement
  <2> SUFFICES ASSUME NEW q \in RoomID
      PROVE  /\ IsInjective(matchUsers'[q])
             /\ q \notin matches' => matchUsers'[q] = <<>>
             /\ \A v \in ToSet(matchUsers'[q]) : currentRoom'[v] = q /\ status'[v] = "InGame"
    BY DEF PlayersAreMembers, Players
  <2>3. CASE q = r
    BY <1>1, <1>4, <1>6, <1>7, <2>1, <2>2, <2>3, EmptyProperties DEF Inv, TypeOK
  <2>4. CASE q # r
    <3>1. /\ IsInjective(matchUsers[q])
          /\ q \notin matches => matchUsers[q] = <<>>
          /\ \A v \in ToSet(matchUsers[q]) : currentRoom[v] = q /\ status[v] = "InGame"
      BY DEF Inv, PlayersAreMembers, Players
    <3>2. ToSet(matchUsers[q]) \subseteq User
      BY DEF Inv, TypeOK, ToSet
    <3> QED BY <1>1, <2>1, <2>4, <3>1, <3>2 DEF Inv, TypeOK
  <2> QED BY <2>3, <2>4
<1> QED BY <1>11, <1>12, <1>13, <1>14, <1>15 DEF Inv

LEMMA LeaveRoomInv ==
  ASSUME Inv, NEW u \in User, LeaveRoom(u)
  PROVE  Inv'
BY RemoveRoomUserInv DEF LeaveRoom

LEMMA DisconnectInv ==
  ASSUME Inv, NEW u \in User, Disconnect(u)
  PROVE  Inv'
<1>1. CASE currentRoom[u] \in rooms
  BY <1>1, RemoveRoomUserInv DEF Disconnect
<1>2. CASE currentRoom[u] \notin rooms
  <2>1. /\ status' = [status EXCEPT ![u] = "Offline"]
        /\ currentRoom' = [currentRoom EXCEPT ![u] = NoRoom]
        /\ UNCHANGED <<roomVars, matchVars, dbRooms>>
    BY <1>2 DEF Disconnect
  <2>2. ~ InARoom(u) /\ currentRoom[u] = NoRoom
    BY <1>2 DEF Inv, RoomStatus
  <2>3. currentRoom' = currentRoom
    BY <2>1, <2>2 DEF Inv, TypeOK
  <2>4. dbRooms' \in [RoomID -> Row \union {NoRow}]
    BY <2>1 DEF Inv, TypeOK
  <2> QED BY <2>1, <2>2, <2>3, <2>4, StatusStepInv
<1> QED BY <1>1, <1>2

\* ~Room for a set of rooms.
LEMMA DestroyRoomsInv ==
  ASSUME Inv, NEW gone \in SUBSET rooms, DestroyRooms(gone),
         dbRooms' \in [RoomID -> Row \union {NoRow}]
  PROVE  Inv'
<1> DEFINE evicted == UNION {Members(r) : r \in gone}
<1>1. /\ status' = [u \in User |-> IF u \in evicted THEN "InLobby" ELSE status[u]]
      /\ currentRoom' = [u \in User |-> IF u \in evicted THEN NoRoom ELSE currentRoom[u]]
      /\ rooms' = rooms \ gone
      /\ roomUsers' = [r \in RoomID |-> IF r \in gone THEN <<>> ELSE roomUsers[r]]
      /\ roomHost' = [r \in RoomID |-> IF r \in gone THEN NoUser ELSE roomHost[r]]
      /\ roomState' = [r \in RoomID |-> IF r \in gone THEN "Waiting" ELSE roomState[r]]
      /\ maxPlayers' = [r \in RoomID |-> IF r \in gone THEN 0 ELSE maxPlayers[r]]
      /\ matches' = matches \ gone
      /\ matchUsers' = [r \in RoomID |-> IF r \in gone THEN <<>> ELSE matchUsers[r]]
      /\ saved' = saved \ gone
  BY DEF DestroyRooms
<1>2. \A u \in User : u \in evicted <=> currentRoom[u] \in gone
  <2>1. \A r \in gone : \A u \in User : u \in Members(r) <=> currentRoom[u] = r
    BY DEF Inv, TypeOK, RoomMembership
  <2> QED BY <2>1
<1>3. NoRoom \notin RoomID
  BY DEF RoomID, NoRoom
<1> HIDE DEF evicted
<1>4. TypeOK'
  <2>1. /\ status' \in [User -> Status]
        /\ currentRoom' \in [User -> RoomID \union {NoRoom}]
    BY <1>1 DEF Inv, TypeOK, Status
  <2>2. /\ rooms' \in SUBSET RoomID
        /\ matches' \in SUBSET rooms'
        /\ saved' \in SUBSET matches'
    BY <1>1 DEF Inv, TypeOK
  <2>3. /\ roomUsers' \in [RoomID -> Seq(User)]
        /\ matchUsers' \in [RoomID -> Seq(User)]
    BY <1>1 DEF Inv, TypeOK
  <2>4. /\ roomHost' \in [RoomID -> User \union {NoUser}]
        /\ roomState' \in [RoomID -> RoomState]
    BY <1>1 DEF Inv, TypeOK, RoomState
  <2>5. maxPlayers' \in [RoomID -> 0 .. 255]
    BY <1>1 DEF Inv, TypeOK
  <2> QED BY <2>1, <2>2, <2>3, <2>4, <2>5 DEF TypeOK
<1>5. RoomMembership'
  <2> SUFFICES ASSUME NEW r \in RoomID
      PROVE  /\ IsInjective(roomUsers'[r])
             /\ \A u \in User : u \in ToSet(roomUsers'[r]) <=> r \in rooms' /\ currentRoom'[u] = r
    BY DEF RoomMembership, Members
  <2>1. CASE r \in gone
    <3>1. roomUsers'[r] = <<>> /\ r \notin rooms'
      BY <1>1, <2>1
    <3> QED BY <3>1, EmptyProperties
  <2>2. CASE r \notin gone
    <3>1. roomUsers'[r] = roomUsers[r] /\ (r \in rooms' <=> r \in rooms)
      BY <1>1, <2>2
    <3>2. \A u \in User : currentRoom'[u] = r <=> currentRoom[u] = r
      BY <1>1, <1>2, <1>3, <2>2
    <3> QED BY <3>1, <3>2 DEF Inv, RoomMembership, Members
  <2> QED BY <2>1, <2>2
<1>6. RoomStatus'
  BY <1>1, <1>2 DEF Inv, TypeOK, RoomStatus, InARoom
<1>7. HostIsMember'
  BY <1>1 DEF Inv, TypeOK, HostIsMember, Members
<1>8. PlayersAreMembers'
  <2> SUFFICES ASSUME NEW r \in RoomID
      PROVE  /\ IsInjective(matchUsers'[r])
             /\ r \notin matches' => matchUsers'[r] = <<>>
             /\ \A u \in ToSet(matchUsers'[r]) : currentRoom'[u] = r /\ status'[u] = "InGame"
    BY DEF PlayersAreMembers, Players
  <2>1. CASE r \in gone
    <3>1. matchUsers'[r] = <<>>
      BY <1>1, <2>1
    <3> QED BY <3>1, EmptyProperties
  <2>2. CASE r \notin gone
    <3>1. matchUsers'[r] = matchUsers[r] /\ (r \in matches' <=> r \in matches)
      BY <1>1, <2>2
    <3>2. \A u \in ToSet(matchUsers[r]) : u \in User /\ currentRoom[u] = r /\ status[u] = "InGame"
      BY DEF Inv, TypeOK, PlayersAreMembers, Players, ToSet
    <3>3. \A u \in ToSet(matchUsers[r]) : currentRoom'[u] = r /\ status'[u] = "InGame"
      BY <1>1, <1>2, <2>2, <3>2
    <3> QED BY <3>1, <3>3 DEF Inv, PlayersAreMembers, Players
  <2> QED BY <2>1, <2>2
<1> QED BY <1>4, <1>5, <1>6, <1>7, <1>8 DEF Inv

LEMMA RemoveAllRoomsInv ==
  ASSUME Inv, RemoveAllRooms
  PROVE  Inv'
<1>1. dbRooms' \in [RoomID -> Row \union {NoRow}]
  BY DEF Inv, TypeOK, RemoveAllRooms, Wrote
<1> QED BY <1>1, DestroyRoomsInv DEF RemoveAllRooms

LEMMA RestoreRowsInv ==
  ASSUME Inv, RestoreRows
  PROVE  Inv'
<1>1. PICK kept \in Wrote([r \in RoomID |-> NoRow]), gone \in SUBSET rooms, stale \in SUBSET rooms :
        RestoreWith(kept, gone, stale)
  BY DEF RestoreRows
<1>2. kept \in [RoomID -> Row \union {NoRow}]
  BY DEF Inv, TypeOK, Wrote
<1>3. ASSUME NEW r \in RoomID
      PROVE  [players |-> Len(roomUsers[r]), max |-> maxPlayers[r]] \in Row
  <2>1. roomUsers[r] \in Seq(User)
    BY DEF Inv, TypeOK
  <2>2. Len(roomUsers[r]) \in Nat
    BY <2>1, LenProperties
  <2>3. maxPlayers[r] \in Nat
    <3>1. maxPlayers[r] \in 0 .. 255
      BY DEF Inv, TypeOK
    <3>2. \A n \in 0 .. 255 : n \in Nat
      OBVIOUS
    <3> QED BY <3>1, <3>2, Zenon
  <2> QED BY <2>2, <2>3 DEF Row
<1>4. /\ DestroyRooms(gone)
      /\ dbRooms' = [r \in RoomID |->
                       IF r \in rooms \ gone
                       THEN [players |-> Len(roomUsers[r]), max |-> maxPlayers[r]]
                       ELSE IF r \in gone \ stale THEN NoRow ELSE kept[r]]
  BY <1>1 DEF RestoreWith
<1>5. dbRooms' \in [RoomID -> Row \union {NoRow}]
  BY <1>2, <1>3, <1>4
<1> QED BY <1>1, <1>4, <1>5, DestroyRoomsInv

-----------------------------------------------------------------------------
(* Entering a room.                                                        *)

\* What AddRoomUser does to a room r of which u is not a user, when u is in
\* no room; for CreateRoom, r is the new room.
LEMMA EnterRoomInv ==
  ASSUME Inv, NEW u \in User, ~ InARoom(u), NEW r \in RoomID,
         status' = [status EXCEPT ![u] = "InRoom"],
         currentRoom' = [currentRoom EXCEPT ![u] = r],
         rooms' = rooms \union {r},
         roomUsers' = [roomUsers EXCEPT ![r] = Append(@, u)],
         roomHost' \in [RoomID -> User \union {NoUser}],
         roomHost' = IF r \in rooms THEN roomHost ELSE [roomHost EXCEPT ![r] = u],
         maxPlayers' \in [RoomID -> 0 .. 255],
         UNCHANGED <<roomState, matchVars>>,
         dbRooms' \in [RoomID -> Row \union {NoRow}]
  PROVE  Inv'
<1>1. currentRoom[u] = NoRoom
  BY DEF Inv, RoomStatus
<1>2. NoRoom \notin RoomID
  BY DEF RoomID, NoRoom
<1>3. u \notin Members(r)
  BY <1>1, <1>2 DEF Inv, RoomMembership
<1>4. /\ roomUsers'[r] \in Seq(User)
      /\ IsInjective(roomUsers'[r])
      /\ ToSet(roomUsers'[r]) = Members(r) \union {u}
  <2>1. roomUsers'[r] = Append(roomUsers[r], u)
    BY DEF Inv, TypeOK
  <2>2. roomUsers[r] \in Seq(User) /\ IsInjective(roomUsers[r])
    BY DEF Inv, TypeOK, RoomMembership
  <2> QED BY <1>3, <2>1, <2>2, PushBackProperties DEF Members
<1>5. \A q \in RoomID \ {r} : roomUsers'[q] = roomUsers[q]
  BY DEF Inv, TypeOK
<1>6. TypeOK'
  <2>1. /\ status' \in [User -> Status]
        /\ currentRoom' \in [User -> RoomID \union {NoRoom}]
    BY DEF Inv, TypeOK, Status
  <2>2. roomUsers' \in [RoomID -> Seq(User)]
    BY <1>4 DEF Inv, TypeOK
  <2> QED BY <2>1, <2>2 DEF Inv, TypeOK, matchVars
<1>7. RoomMembership'
  <2> SUFFICES ASSUME NEW q \in RoomID
      PROVE  /\ IsInjective(roomUsers'[q])
             /\ \A v \in User : v \in ToSet(roomUsers'[q]) <=> q \in rooms' /\ currentRoom'[v] = q
    BY DEF RoomMembership, Members
  <2>1. CASE q = r
    <3>1. \A v \in User \ {u} : v \in Members(r) <=> currentRoom[v] = r
      BY <1>2 DEF Inv, TypeOK, RoomMembership, RoomStatus, InARoom
    <3> QED BY <1>4, <2>1, <3>1 DEF Inv, TypeOK
  <2>2. CASE q # r
    <3>1. \A v \in User : currentRoom'[v] = q <=> currentRoom[v] = q
      BY <1>1, <1>2, <2>2 DEF Inv, TypeOK
    <3> QED BY <1>5, <2>2, <3>1 DEF Inv, RoomMembership, Members
  <2> QED BY <2>1, <2>2
<1>8. RoomStatus'
  BY DEF Inv, TypeOK, RoomStatus, InARoom
<1>9. HostIsMember'
  <2>1. ASSUME NEW q \in rooms', q # r
        PROVE  roomHost'[q] \in ToSet(roomUsers'[q])
    BY <1>5, <2>1 DEF Inv, TypeOK, HostIsMember, Members
  <2>2. roomHost'[r] \in ToSet(roomUsers'[r])
    BY <1>4 DEF Inv, TypeOK, HostIsMember, Members
  <2> QED BY <2>1, <2>2 DEF HostIsMember, Members
<1>10. PlayersAreMembers'
  <2>1. \A q \in RoomID : \A v \in Players(q) : v \in User /\ v # u
    BY DEF Inv, TypeOK, PlayersAreMembers, Players, ToSet, InARoom
  <2> QED BY <2>1 DEF Inv, TypeOK, PlayersAreMembers, Players, matchVars
<1> QED BY <1>6, <1>7, <1>8, <1>9, <1>10 DEF Inv

LEMMA JoinRoomInv ==
  ASSUME Inv, ClientsStayPut, NEW u \in User, NEW r \in RoomID, JoinRoom(u, r)
  PROVE  Inv'
<1>1. ~ InARoom(u)
  BY DEF JoinRoom, MayEnterRoom, InARoom
<1>2. roomHost' = roomHost /\ roomHost \in [RoomID -> User \union {NoUser}]
  BY DEF JoinRoom, Inv, TypeOK
<1>3. maxPlayers' = maxPlayers /\ maxPlayers \in [RoomID -> 0 .. 255]
  BY DEF JoinRoom, Inv, TypeOK
<1>4. dbRooms' \in [RoomID -> Row \union {NoRow}]
  <2>1. roomUsers[r] \in Seq(User) /\ maxPlayers[r] \in 0 .. 255
    BY <1>3 DEF Inv, TypeOK
  <2>2. Len(roomUsers[r]) + 1 \in Nat
    BY <2>1, LenProperties
  <2> QED BY <2>1, <2>2, QueryTypes DEF JoinRoom, Inv
<1>5. rooms' = rooms \union {r} /\ r \in rooms
  BY DEF JoinRoom
<1>6. UNCHANGED <<roomState, matchVars>>
  BY DEF JoinRoom
<1>7. /\ status' = [status EXCEPT ![u] = "InRoom"]
      /\ currentRoom' = [currentRoom EXCEPT ![u] = r]
      /\ roomUsers' = [roomUsers EXCEPT ![r] = Append(@, u)]
  BY DEF JoinRoom
<1> QED BY <1>1, <1>2, <1>3, <1>4, <1>5, <1>6, <1>7, EnterRoomInv

LEMMA CreateRoomInv ==
  ASSUME Inv, ClientsStayPut, NEW u \in User, CreateRoom(u)
  PROVE  Inv'
<1>1. ~ InARoom(u)
  BY DEF CreateRoom, MayEnterRoom, InARoom
<1>2. PICK r \in RoomID, max \in Capacity :
        /\ IsFreeRoomID(r)
        /\ \/ /\ dbRooms[r] = NoRow
              /\ rooms' = rooms \union {r}
              /\ roomUsers' = [roomUsers EXCEPT ![r] = <<u>>]
              /\ roomHost' = [roomHost EXCEPT ![r] = u]
              /\ maxPlayers' = [maxPlayers EXCEPT ![r] = max]
              /\ status' = [status EXCEPT ![u] = "InRoom"]
              /\ currentRoom' = [currentRoom EXCEPT ![u] = r]
              /\ dbRooms' = [dbRooms EXCEPT ![r] = [players |-> 1, max |-> max]]
              /\ UNCHANGED <<roomState, matchVars>>
           \/ /\ DBFaults \/ dbRooms[r] # NoRow
              /\ status' = [status EXCEPT ![u] = "InLobby"]
              /\ currentRoom' = [currentRoom EXCEPT ![u] = NoRoom]
              /\ UNCHANGED <<roomVars, matchVars, dbRooms>>
  BY DEF CreateRoom
<1>3. r \notin rooms /\ max \in 0 .. 255
  BY <1>2, RoomsAssumption DEF IsFreeRoomID
<1>4. CASE status' = [status EXCEPT ![u] = "InRoom"]
  <2>0. <<u>> = Append(roomUsers[r], u)
    <3>1. roomUsers[r] \in Seq(User) /\ Members(r) = {}
      BY <1>3 DEF Inv, TypeOK, RoomMembership, Members, ToSet
    <3>2. roomUsers[r] = <<>>
      BY <3>1, HeadIsElement DEF Members
    <3> QED BY <3>2
  <2>1. status[u] # "InRoom" /\ status \in [User -> Status]
    BY <1>1 DEF InARoom, Inv, TypeOK
  <2>2. /\ rooms' = rooms \union {r}
        /\ roomUsers' = [roomUsers EXCEPT ![r] = Append(@, u)]
        /\ roomHost' = [roomHost EXCEPT ![r] = u]
        /\ maxPlayers' = [maxPlayers EXCEPT ![r] = max]
        /\ currentRoom' = [currentRoom EXCEPT ![u] = r]
        /\ dbRooms' = [dbRooms EXCEPT ![r] = [players |-> 1, max |-> max]]
        /\ UNCHANGED <<roomState, matchVars>>
    <3>1. [status EXCEPT ![u] = "InRoom"] # [status EXCEPT ![u] = "InLobby"]
      BY <2>1
    <3> QED BY <1>2, <1>4, <2>0, <3>1
  <2>3. roomHost' \in [RoomID -> User \union {NoUser}]
    BY <2>2 DEF Inv, TypeOK
  <2>4. maxPlayers' \in [RoomID -> 0 .. 255]
    BY <1>3, <2>2 DEF Inv, TypeOK
  <2>5. dbRooms' \in [RoomID -> Row \union {NoRow}]
    <3>1. [players |-> 1, max |-> max] \in Row
      BY <1>3 DEF Row
    <3> QED BY <2>2, <3>1 DEF Inv, TypeOK
  <2>6. roomHost' = IF r \in rooms THEN roomHost ELSE [roomHost EXCEPT ![r] = u]
    BY <1>3, <2>2
  <2> QED BY <1>1, <1>4, <2>2, <2>3, <2>4, <2>5, <2>6, EnterRoomInv
<1>5. CASE /\ status' = [status EXCEPT ![u] = "InLobby"]
           /\ currentRoom' = [currentRoom EXCEPT ![u] = NoRoom]
           /\ UNCHANGED <<roomVars, matchVars, dbRooms>>
  <2>1. currentRoom' = currentRoom
    BY <1>1, <1>5 DEF Inv, TypeOK, RoomStatus
  <2>2. dbRooms' \in [RoomID -> Row \union {NoRow}]
    BY <1>5 DEF Inv, TypeOK
  <2> QED BY <1>1, <1>5, <2>1, <2>2, StatusStepInv
<1> QED BY <1>2, <1>4, <1>5

-----------------------------------------------------------------------------
(* Settings and matches.                                                   *)

LEMMA UpdateRoomSettingsInv ==
  ASSUME Inv, NEW u \in User, UpdateRoomSettings(u)
  PROVE  Inv'
<1> DEFINE r == currentRoom[u]
<1>1. PICK max \in Capacity \union {maxPlayers[r]}, state \in RoomState :
        /\ maxPlayers' = [maxPlayers EXCEPT ![r] = max]
        /\ roomState' = [roomState EXCEPT ![r] = state]
        /\ dbRooms' \in UpdateRow(r, Len(roomUsers[r]), max)
  BY DEF UpdateRoomSettings
<1>2. r \in RoomID
  BY DEF UpdateRoomSettings, Inv, TypeOK
<1>3. max \in 0 .. 255
  <2>1. maxPlayers[r] \in 0 .. 255
    BY <1>2 DEF Inv, TypeOK
  <2> QED BY <2>1, RoomsAssumption
<1>4. UNCHANGED <<userVars, rooms, roomUsers, roomHost, matchVars>>
  BY DEF UpdateRoomSettings
<1> USE <1>4 DEF userVars, matchVars
<1>5. TypeOK'
  <2>1. dbRooms' \in [RoomID -> Row \union {NoRow}]
    <3>1. roomUsers[r] \in Seq(User)
      BY <1>2 DEF Inv, TypeOK
    <3>2. Len(roomUsers[r]) \in Nat
      BY <3>1, LenProperties
    <3> QED BY <1>1, <1>2, <1>3, <3>2, QueryTypes DEF Inv
  <2>2. maxPlayers' \in [RoomID -> 0 .. 255]
    BY <1>1, <1>3 DEF Inv, TypeOK
  <2>3. roomState' \in [RoomID -> RoomState]
    BY <1>1 DEF Inv, TypeOK
  <2> QED BY <2>1, <2>2, <2>3 DEF Inv, TypeOK
<1>6. RoomMembership' /\ RoomStatus'
  BY DEF Inv, RoomMembership, RoomStatus, Members, InARoom
<1>7. HostIsMember' /\ PlayersAreMembers'
  BY DEF Inv, HostIsMember, PlayersAreMembers, Members, Players
<1> QED BY <1>5, <1>6, <1>7 DEF Inv

\* A step of a match in room r: its users and host stay in the room, users
\* in the room only move between InRoom and InGame, and the vector of its
\* players ends up as players, all of them InGame users of the room.
LEMMA MatchStepInv ==
  ASSUME Inv, NEW r \in rooms, NEW players \in Seq(User),
         UNCHANGED <<currentRoom, rooms, roomUsers, maxPlayers, dbRooms>>,
         status' \in [User -> Status],
         \A u \in User : status'[u] # status[u] =>
           currentRoom[u] = r /\ InARoom(u) /\ status'[u] \in {"InRoom", "InGame"},
         roomHost' \in [RoomID -> User \union {NoUser}],
         roomHost'[r] \in Members(r),
         \A q \in RoomID \ {r} : roomHost'[q] = roomHost[q],
         roomState' \in [RoomID -> RoomState],
         matches' \in {matches \ {r}, matches \union {r}},
         matchUsers' = [matchUsers EXCEPT ![r] = players],
         saved' \in SUBSET matches',
         IsInjective(players),
         r \notin matches' => players = <<>>,
         \A u \in ToSet(players) : currentRoom[u] = r /\ status'[u] = "InGame"
  PROVE  Inv'
<1>1. r \in RoomID
  BY DEF Inv, TypeOK
<1>2. \A u \in User : (status'[u] \in {"InRoom", "InGame"}) <=> InARoom(u)
  BY DEF InARoom
<1>3. TypeOK'
  <2>1. matchUsers' \in [RoomID -> Seq(User)]
    BY DEF Inv, TypeOK
  <2>2. matches' \in SUBSET rooms
    BY DEF Inv, TypeOK
  <2> QED BY <2>1, <2>2 DEF Inv, TypeOK
<1>4. RoomMembership'
  BY DEF Inv, RoomMembership, Members
<1>5. RoomStatus'
  BY <1>2 DEF Inv, RoomStatus, InARoom
<1>6. HostIsMember'
  BY DEF Inv, TypeOK, HostIsMember, Members
<1>7. PlayersAreMembers'
  <2> SUFFICES ASSUME NEW q \in RoomID
      PROVE  /\ IsInjective(matchUsers'[q])
             /\ q \notin matches' => matchUsers'[q] = <<>>
             /\ \A u \in ToSet(matchUsers'[q]) : currentRoom'[u] = q /\ status'[u] = "InGame"
    BY DEF PlayersAreMembers, Players
  <2>1. CASE q = r
    <3>1. matchUsers'[q] = players
      BY <1>1, <2>1 DEF Inv, TypeOK
    <3> QED BY <2>1, <3>1
  <2>2. CASE q # r
    <3>1. matchUsers'[q] = matchUsers[q] /\ (q \in matches' <=> q \in matches)
      BY <2>2 DEF Inv, TypeOK
    <3>2. \A u \in ToSet(matchUsers[q]) : u \in User /\ currentRoom[u] = q /\ status[u] = "InGame"
      BY DEF Inv, TypeOK, PlayersAreMembers, Players, ToSet
    <3>3. \A u \in ToSet(matchUsers[q]) : status'[u] = status[u]
      BY <2>2, <3>2
    <3> QED BY <3>1, <3>2, <3>3 DEF Inv, PlayersAreMembers, Players
  <2> QED BY <2>1, <2>2
<1> QED BY <1>3, <1>4, <1>5, <1>6, <1>7 DEF Inv

\* What Inv says of a room in which a match may be.
LEMMA RoomFacts ==
  ASSUME Inv, NEW r \in rooms
  PROVE  /\ r \in RoomID
         /\ roomHost \in [RoomID -> User \union {NoUser}]
         /\ roomHost[r] \in Members(r)
         /\ matchUsers[r] \in Seq(User)
         /\ IsInjective(matchUsers[r])
         /\ Players(r) \subseteq User
         /\ \A u \in Players(r) : currentRoom[u] = r /\ status[u] = "InGame"
         /\ \A u \in User : u \in Members(r) <=> currentRoom[u] = r
<1>1. r \in RoomID /\ matchUsers[r] \in Seq(User)
  BY DEF Inv, TypeOK
<1>2. Players(r) \subseteq User
  BY <1>1 DEF Players, ToSet
<1> QED BY <1>1, <1>2 DEF Inv, TypeOK, RoomMembership, HostIsMember, PlayersAreMembers

LEMMA ReturnToRoomInv ==
  ASSUME Inv, NEW u \in User, ReturnToRoom(u)
  PROVE  Inv'
<1> DEFINE r         == currentRoom[u]
           players   == PlayersWithout(r, u)
           left      == IF MatchGone(r, u) THEN <<>> ELSE players
<1>1. /\ InARoom(u)
      /\ r \in matches
      /\ status' = [status EXCEPT ![u] = "InRoom"]
      /\ roomHost' = [roomHost EXCEPT ![r] =
                        IF @ = u /\ players # <<>> THEN Head(players) ELSE @]
      /\ roomState' = [roomState EXCEPT ![r] = IF MatchEnds(r, u) THEN "Waiting" ELSE @]
      /\ matches' = IF MatchGone(r, u) THEN matches \ {r} ELSE matches
      /\ matchUsers' = [matchUsers EXCEPT ![r] = left]
      /\ saved' = IF MatchGone(r, u) THEN saved \ {r} ELSE saved
      /\ UNCHANGED <<currentRoom, rooms, roomUsers, maxPlayers, dbRooms>>
  BY DEF ReturnToRoom
<1>2. r \in rooms
  BY <1>1 DEF Inv, TypeOK
<1>3. players \in Seq(User) /\ IsInjective(players) /\ ToSet(players) = Players(r) \ {u}
  BY <1>2, RoomFacts, RemoveFirstProperties DEF Players, PlayersWithout
<1>4. players # <<>> => Head(players) \in User /\ Head(players) \in Members(r)
  BY <1>2, <1>3, HeadIsElement, RoomFacts
<1> HIDE DEF players
<1>5. left \in Seq(User) /\ IsInjective(left) /\ ToSet(left) \subseteq Players(r) \ {u}
  BY <1>3, EmptyProperties
<1>6. status' \in [User -> Status]
  BY <1>1 DEF Inv, TypeOK, Status
<1>7. \A v \in User : status'[v] # status[v] =>
        currentRoom[v] = r /\ InARoom(v) /\ status'[v] \in {"InRoom", "InGame"}
  BY <1>1 DEF Inv, TypeOK
<1>8. /\ roomHost' \in [RoomID -> User \union {NoUser}]
      /\ roomHost'[r] \in Members(r)
      /\ \A q \in RoomID \ {r} : roomHost'[q] = roomHost[q]
  BY <1>1, <1>2, <1>4, RoomFacts
<1>9. roomState' \in [RoomID -> RoomState]
  BY <1>1 DEF Inv, TypeOK, RoomState
<1>10. /\ matches' \in {matches \ {r}, matches \union {r}}
       /\ saved' \in SUBSET matches'
       /\ r \notin matches' => left = <<>>
  BY <1>1 DEF Inv, TypeOK
<1>11. \A v \in ToSet(left) : currentRoom[v] = r /\ status'[v] = "InGame"
  BY <1>1, <1>2, <1>5, RoomFacts DEF Inv, TypeOK
<1> HIDE DEF left
<1> QED BY <1>1, <1>2, <1>5, <1>6, <1>7, <1>8, <1>9, <1>10, <1>11, MatchStepInv

LEMMA ServerIsActivatedInv ==
  ASSUME Inv, NEW u \in User, NEW r \in RoomID, ServerIsActivated(u, r)
  PROVE  Inv'
<1>1. /\ r \in rooms
      /\ r \notin matches
      /\ matches' = matches \union {r}
      /\ roomState' = [roomState EXCEPT ![r] = "Playing"]
      /\ UNCHANGED <<userVars, rooms, roomUsers, roomHost, maxPlayers, matchUsers, saved, dbRooms>>
  BY DEF ServerIsActivated, Hosts
<1>2. TypeOK'
  <2>1. roomState' \in [RoomID -> RoomState]
    BY <1>1 DEF Inv, TypeOK, RoomState
  <2> QED BY <1>1, <2>1 DEF Inv, TypeOK, userVars
<1>3. RoomMembership' /\ RoomStatus'
  BY <1>1 DEF Inv, RoomMembership, RoomStatus, Members, InARoom, userVars
<1>4. HostIsMember' /\ PlayersAreMembers'
  BY <1>1 DEF Inv, HostIsMember, PlayersAreMembers, Members, Players, userVars
<1> QED BY <1>2, <1>3, <1>4 DEF Inv

LEMMA SendUserStatusInv ==
  ASSUME Inv, NEW u \in User, NEW v \in User, NEW r \in RoomID, SendUserStatus(u, r, v)
  PROVE  Inv'
<1> DEFINE players == Append(matchUsers[r], v)
<1>1. /\ r \in rooms
      /\ r \in matches
      /\ InARoom(v)
      /\ currentRoom[v] = r
      /\ v \notin Players(r)
      /\ matchUsers' = [matchUsers EXCEPT ![r] = players]
      /\ status' = [status EXCEPT ![v] = "InGame"]
      /\ UNCHANGED <<currentRoom, roomVars, matches, saved, dbRooms>>
  BY DEF SendUserStatus, Hosts
<1>2. players \in Seq(User) /\ IsInjective(players) /\ ToSet(players) = Players(r) \union {v}
  BY <1>1, RoomFacts, PushBackProperties DEF Players
<1> HIDE DEF players
<1>3. status' \in [User -> Status]
  BY <1>1 DEF Inv, TypeOK, Status
<1>4. \A w \in User : status'[w] # status[w] =>
        currentRoom[w] = r /\ InARoom(w) /\ status'[w] \in {"InRoom", "InGame"}
  BY <1>1 DEF Inv, TypeOK
<1>5. /\ roomHost' \in [RoomID -> User \union {NoUser}]
      /\ roomHost'[r] \in Members(r)
      /\ \A q \in RoomID \ {r} : roomHost'[q] = roomHost[q]
      /\ UNCHANGED <<currentRoom, rooms, roomUsers, maxPlayers, dbRooms>>
  BY <1>1, RoomFacts DEF roomVars
<1>6. roomState' \in [RoomID -> RoomState]
  BY <1>1 DEF Inv, TypeOK, roomVars
<1>7. /\ matches' \in {matches \ {r}, matches \union {r}}
      /\ saved' \in SUBSET matches'
      /\ r \in matches'
  BY <1>1 DEF Inv, TypeOK
<1>8. \A w \in ToSet(players) : currentRoom[w] = r /\ status'[w] = "InGame"
  BY <1>1, <1>2, RoomFacts DEF Inv, TypeOK
<1> QED BY <1>1, <1>2, <1>3, <1>4, <1>5, <1>6, <1>7, <1>8, MatchStepInv

LEMMA SaveDataInv ==
  ASSUME Inv, NEW u \in User, NEW r \in RoomID, SaveData(u, r)
  PROVE  Inv'
<1>1. /\ r \in matches
      /\ saved' = saved \union {r}
      /\ UNCHANGED <<userVars, roomVars, matches, matchUsers, dbRooms>>
  BY DEF SaveData
<1>2. TypeOK'
  BY <1>1 DEF Inv, TypeOK, userVars, roomVars
<1>3. RoomMembership' /\ RoomStatus'
  BY <1>1 DEF Inv, RoomMembership, RoomStatus, Members, InARoom, userVars, roomVars
<1>4. HostIsMember' /\ PlayersAreMembers'
  BY <1>1 DEF Inv, HostIsMember, PlayersAreMembers, Members, Players, userVars, roomVars
<1> QED BY <1>2, <1>3, <1>4 DEF Inv

LEMMA EndGameInv ==
  ASSUME Inv, NEW u \in User, NEW r \in RoomID, EndGame(u, r)
  PROVE  Inv'
<1>1. /\ r \in rooms
      /\ r \in matches
      /\ status' = [v \in User |-> IF v \in Players(r) THEN "InRoom" ELSE status[v]]
      /\ roomState' = [roomState EXCEPT ![r] = "Waiting"]
      /\ matches' = matches \ {r}
      /\ matchUsers' = [matchUsers EXCEPT ![r] = <<>>]
      /\ saved' = saved \ {r}
      /\ UNCHANGED <<currentRoom, rooms, roomUsers, roomHost, maxPlayers, dbRooms>>
  BY DEF EndGame, Hosts
<1>2. status' \in [User -> Status]
  BY <1>1 DEF Inv, TypeOK, Status
<1>3. \A v \in User : status'[v] # status[v] =>
        currentRoom[v] = r /\ InARoom(v) /\ status'[v] \in {"InRoom", "InGame"}
  BY <1>1, RoomFacts DEF InARoom
<1>4. /\ roomHost' \in [RoomID -> User \union {NoUser}]
      /\ roomHost'[r] \in Members(r)
      /\ \A q \in RoomID \ {r} : roomHost'[q] = roomHost[q]
  BY <1>1, RoomFacts
<1>5. roomState' \in [RoomID -> RoomState]
  BY <1>1 DEF Inv, TypeOK, RoomState
<1>6. /\ matches' \in {matches \ {r}, matches \union {r}}
      /\ saved' \in SUBSET matches'
  BY <1>1 DEF Inv, TypeOK
<1>7. <<>> \in Seq(User) /\ IsInjective(<<>>) /\ ToSet(<<>>) = {}
  BY EmptyProperties
<1> QED BY <1>1, <1>2, <1>3, <1>4, <1>5, <1>6, <1>7, MatchStepInv

-----------------------------------------------------------------------------
(* The theorems.                                                           *)

LEMMA NextInv == ClientsStayPut /\ Inv /\ [Next]_vars => Inv'
<1> SUFFICES ASSUME ClientsStayPut, Inv, [Next]_vars
    PROVE  Inv'
  OBVIOUS
<1>1. ASSUME NEW u \in User,
             \/ LogIn(u) \/ CreateCharacter(u) \/ RequestServerList(u) \/ EnterLobby(u)
             \/ Disconnect(u)
             \/ CreateRoom(u) \/ LeaveRoom(u) \/ UpdateRoomSettings(u) \/ ReturnToRoom(u)
      PROVE  Inv'
  BY <1>1, EnterChannelInv, DisconnectInv, CreateRoomInv, LeaveRoomInv,
     UpdateRoomSettingsInv, ReturnToRoomInv
<1>2. ASSUME NEW u \in User, NEW r \in RoomID,
             \/ JoinRoom(u, r)
             \/ ServerIsActivated(u, r) \/ SaveData(u, r) \/ EndGame(u, r)
      PROVE  Inv'
  BY <1>2, JoinRoomInv, ServerIsActivatedInv, SaveDataInv, EndGameInv
<1>3. ASSUME NEW u \in User, NEW v \in User, NEW r \in RoomID, SendUserStatus(u, r, v)
      PROVE  Inv'
  BY <1>3, SendUserStatusInv
<1>4. CASE RemoveAllRooms
  BY <1>4, RemoveAllRoomsInv
<1>5. CASE RestoreRows
  BY <1>5, RestoreRowsInv
<1>6. CASE UNCHANGED vars
  BY <1>6 DEF vars, userVars, roomVars, matchVars, Inv, TypeOK, RoomMembership, RoomStatus,
     HostIsMember, PlayersAreMembers, Members, Players, InARoom
<1> QED BY <1>1, <1>2, <1>3, <1>4, <1>5, <1>6 DEF Next

\* As long as clients do not create or join a room during a game, the users,
\* rooms and matches of the channel stay consistent, whatever queries fail.
THEOREM Consistency == ClientsStayPut => (Spec => []Inv)
<1> SUFFICES ASSUME ClientsStayPut PROVE Spec => []Inv
  OBVIOUS
<1>1. Inv /\ [Next]_vars => Inv'
  BY NextInv
<1> QED BY <1>1, InitInv, PTL DEF Spec

\* The state of the channel keeps its shape.
THEOREM TypeCorrect == ClientsStayPut => (Spec => []TypeOK)
<1>1. Inv => TypeOK
  BY DEF Inv
<1> QED BY <1>1, Consistency, PTL

\* The two sides of the link between users and rooms agree.
THEOREM MembershipCorrect == ClientsStayPut => (Spec => []RoomMembership)
<1>1. Inv => RoomMembership
  BY DEF Inv
<1> QED BY <1>1, Consistency, PTL

\* The status of a user says whether it is in a room.
THEOREM RoomStatusCorrect == ClientsStayPut => (Spec => []RoomStatus)
<1>1. Inv => RoomStatus
  BY DEF Inv
<1> QED BY <1>1, Consistency, PTL

\* The host of a room is one of its users.
THEOREM HostCorrect == ClientsStayPut => (Spec => []HostIsMember)
<1>1. Inv => HostIsMember
  BY DEF Inv
<1> QED BY <1>1, Consistency, PTL

\* The players of a match are InGame users of its room.
THEOREM PlayersCorrect == ClientsStayPut => (Spec => []PlayersAreMembers)
<1>1. Inv => PlayersAreMembers
  BY DEF Inv
<1> QED BY <1>1, Consistency, PTL

=============================================================================
