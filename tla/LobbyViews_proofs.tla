-------------------------- MODULE LobbyViews_proofs --------------------------
(***************************************************************************)
(* Proofs about module LobbyViews: what the clients of a channel have been *)
(* told is what there is, for any users and rooms.  The facts about Rooms  *)
(* are those of Rooms_proofs and RowsAndMatches_proofs.                    *)
(***************************************************************************)
EXTENDS LobbyViews, RowsAndMatches_proofs, FiniteSetTheorems, WellFoundedInduction

-----------------------------------------------------------------------------
(* Induction and recursion up to a number, for the loops over the rooms    *)
(* and users that are told to go.  What is proved by induction is given as *)
(* the set P of the numbers of which it holds.                             *)

LEMMA LessThan == \A x, y \in Nat : x < y => <<x, y>> \in OpToRel(<, Nat)
<1> TAKE x, y \in Nat
<1>1. <<x, y>> \in Nat \X Nat
  OBVIOUS
<1>2. <<x, y>>[1] = x /\ <<x, y>>[2] = y
  OBVIOUS
<1> QED BY <1>1, <1>2, Zenon DEF OpToRel

LEMMA LeastNumber ==
  ASSUME NEW T, T \subseteq Nat, T # {}
  PROVE  \E x \in T : \A y \in T : ~ (y < x)
<1>1. PICK x \in T : \A y \in T : ~ (<<y, x>> \in OpToRel(<, Nat))
  BY WFMin, NatLessThanWellFounded, Zenon
<1> QED BY <1>1, LessThan

LEMMA UpTo ==
  ASSUME NEW n \in Nat, NEW P, 0 \in P, \A i \in 0 .. n - 1 : i \in P => i + 1 \in P
  PROVE  n \in P
<1> SUFFICES ASSUME n \notin P PROVE FALSE
  OBVIOUS
<1> DEFINE T == {i \in 0 .. n : i \notin P}
<1>1. T \subseteq Nat /\ T # {}
  OBVIOUS
<1>2. PICK x \in T : \A y \in T : ~ (y < x)
  <2> HIDE DEF T
  <2> QED BY <1>1, LeastNumber
<1>3. x \in 0 .. n /\ x \notin P /\ x # 0
  OBVIOUS
<1>4. x - 1 \in 0 .. n - 1 /\ x - 1 < x /\ (x - 1) + 1 = x
  BY <1>3
<1>5. x - 1 \in P
  BY <1>2, <1>4
<1> QED BY <1>3, <1>4, <1>5

\* F[i] is what the i-th step of a loop does to an element of S.
Steps(F, n, S) == F \in [1 .. n -> [S -> S]]
IsRun(f, base, F, n, S) ==
  f \in [0 .. n -> S] /\ f[0] = base /\ \A i \in 1 .. n : f[i] = F[i][f[i - 1]]

LEMMA RunExists ==
  ASSUME NEW n \in Nat, NEW S, NEW base \in S, NEW F, Steps(F, n, S)
  PROVE  \E f : IsRun(f, base, F, n, S)
<1> DEFINE Reached(k) ==
             \E f \in [0 .. k -> S] : f[0] = base /\ \A i \in 1 .. k : f[i] = F[i][f[i - 1]]
           P == {k \in 0 .. n : Reached(k)}
<1>1. F \in [1 .. n -> [S -> S]]
  BY DEF Steps
<1>2. Reached(0)
  <2> DEFINE f == [i \in 0 .. 0 |-> base]
  <2>1. f \in [0 .. 0 -> S] /\ f[0] = base
    OBVIOUS
  <2>2. \A i \in 1 .. 0 : f[i] = F[i][f[i - 1]]
    OBVIOUS
  <2> HIDE DEF f
  <2> QED BY <2>1, <2>2
<1>3. ASSUME NEW k \in 0 .. n - 1, Reached(k)
      PROVE  Reached(k + 1)
  <2>1. PICK f \in [0 .. k -> S] : f[0] = base /\ \A i \in 1 .. k : f[i] = F[i][f[i - 1]]
    BY <1>3
  <2>2. k + 1 \in 1 .. n /\ k \in 0 .. k
    OBVIOUS
  <2> DEFINE g == [i \in 0 .. k + 1 |-> IF i = k + 1 THEN F[k + 1][f[k]] ELSE f[i]]
  <2>3. F[k + 1][f[k]] \in S
    BY <1>1, <2>2
  <2>4. g \in [0 .. k + 1 -> S]
    BY <2>3
  <2>5. \A i \in 0 .. k : g[i] = f[i]
    OBVIOUS
  <2>6. g[k + 1] = F[k + 1][f[k]]
    OBVIOUS
  <2> HIDE DEF g
  <2>7. g[0] = base
    BY <2>1, <2>5
  <2>8. \A i \in 1 .. k + 1 : g[i] = F[i][g[i - 1]]
    <3> TAKE i \in 1 .. k + 1
    <3>1. CASE i = k + 1
      BY <2>2, <2>5, <2>6, <3>1
    <3>2. CASE i \in 1 .. k
      <4>1. i - 1 \in 0 .. k /\ i \in 0 .. k
        BY <3>2
      <4> QED BY <2>1, <2>5, <3>2, <4>1
    <3> QED BY <3>1, <3>2
  <2> QED BY <2>4, <2>7, <2>8
<1>4. 0 \in P /\ \A k \in 0 .. n - 1 : k \in P => k + 1 \in P
  <2> HIDE DEF Reached
  <2> QED BY <1>2, <1>3
<1>5. n \in P
  <2> HIDE DEF P
  <2> QED BY <1>4, UpTo
<1> QED BY <1>5 DEF IsRun

-----------------------------------------------------------------------------
(* The destruction of rooms.                                               *)

\* What the destruction has done so far: the values of st, users, lists and gone.
Progress == [st : [User -> Status], users : [User -> SUBSET User],
             lists : [User -> SUBSET Entry], gone : SUBSET RoomID]

Infos(R) == {RoomInfo(r) : r \in R}

LEMMA InfosAreEntries ==
  ASSUME TypeOK, NEW R \in SUBSET RoomID
  PROVE  Infos(R) \in SUBSET Entry
<1>1. ASSUME NEW r \in RoomID
      PROVE  RoomInfo(r) \in Entry
  <2>1. roomUsers[r] \in Seq(User) /\ maxPlayers[r] \in 0 .. 255 /\ roomState[r] \in RoomState
    BY DEF TypeOK
  <2>2. Len(roomUsers[r]) \in Nat
    BY <2>1, LenProperties
  <2> QED BY <2>1, <2>2 DEF RoomInfo, Entry
<1> QED BY <1>1 DEF Infos

LEMMA ArrivalTold ==
  ASSUME NEW lists \in [User -> SUBSET User], NEW st \in [User -> Status], NEW u \in User
  PROVE  /\ TellArrival(lists, st, u) \in [User -> SUBSET User]
         /\ \A v \in User : TellArrival(lists, st, u)[v] =
              IF v # u /\ st[v] = "InLobby" THEN lists[v] \union {u} ELSE lists[v]
BY DEF TellArrival, Tell, Lobby

LEMMA DepartureTold ==
  ASSUME NEW lists \in [User -> SUBSET User], NEW st \in [User -> Status], NEW u \in User
  PROVE  /\ TellDeparture(lists, st, u) \in [User -> SUBSET User]
         /\ \A v \in User : TellDeparture(lists, st, u)[v] =
              IF v # u /\ st[v] = "InLobby" THEN lists[v] \ {u} ELSE lists[v]
BY DEF TellDeparture, Tell, Lobby

\* d is what there is after user u has gone to the lobby, from c.
Evicted(d, c, u, listed) ==
  /\ d \in Progress
  /\ d.gone = c.gone
  /\ d.st = [c.st EXCEPT ![u] = "InLobby"]
  /\ \A v \in User : d.users[v] =
       IF v = u THEN Lobby(d.st)
       ELSE IF d.st[v] = "InLobby" THEN c.users[v] \union {u} ELSE c.users[v]
  /\ d.lists = [c.lists EXCEPT ![u] = Infos(listed \ c.gone)]

LEMMA EvictUserEffect ==
  ASSUME TypeOK, NEW c \in Progress, NEW u \in User, NEW listed \in SUBSET RoomID
  PROVE  Evicted(EvictUser(c, u, listed), c, u, listed)
<1> DEFINE st == [c.st EXCEPT ![u] = "InLobby"]
           told == TellArrival(c.users, st, u)
           users == [told EXCEPT ![u] = Lobby(st)]
           lists == [c.lists EXCEPT ![u] = Infos(listed \ c.gone)]
<1>1. /\ c.st \in [User -> Status] /\ c.users \in [User -> SUBSET User]
      /\ c.lists \in [User -> SUBSET Entry] /\ c.gone \in SUBSET RoomID
  BY DEF Progress
<1>2. st \in [User -> Status]
  BY <1>1 DEF Status
<1>3. /\ told \in [User -> SUBSET User]
      /\ \A v \in User : told[v] =
           IF v # u /\ st[v] = "InLobby" THEN c.users[v] \union {u} ELSE c.users[v]
  <2> HIDE DEF st
  <2> QED BY <1>1, <1>2, ArrivalTold
<1>4. Lobby(st) \in SUBSET User
  BY DEF Lobby
<1>5. /\ users \in [User -> SUBSET User]
      /\ \A v \in User : users[v] =
           IF v = u THEN Lobby(st)
           ELSE IF st[v] = "InLobby" THEN c.users[v] \union {u} ELSE c.users[v]
  <2> HIDE DEF st, told
  <2> QED BY <1>3, <1>4
<1>6. lists \in [User -> SUBSET Entry]
  BY <1>1, InfosAreEntries
<1> HIDE DEF st, told, users, lists
<1>7. EvictUser(c, u, listed) = [st |-> st, users |-> users, lists |-> lists, gone |-> c.gone]
  <2>1. EvictUser(c, u, listed) = [c EXCEPT !.st = st, !.users = users, !.lists = lists]
    BY Zenon DEF EvictUser, Infos, st, told, users, lists
  <2> QED BY <2>1 DEF Progress
<1> DEFINE d == EvictUser(c, u, listed)
<1> HIDE DEF d
<1>8. d.st = st /\ d.users = users /\ d.lists = lists /\ d.gone = c.gone /\ d \in Progress
  BY <1>1, <1>2, <1>5, <1>6, <1>7 DEF Progress, d
<1>9. Evicted(d, c, u, listed)
  BY <1>5, <1>8 DEF st, lists, Evicted
<1> QED BY <1>9 DEF d

\* The loop of ~Room, unfolded.
LEMMA EvictUsersRun ==
  ASSUME TypeOK, NEW c \in Progress, NEW users \in Seq(User), NEW listed \in SUBSET RoomID
  PROVE  \E g : /\ g[0] = c
                /\ \A i \in 1 .. Len(users) : g[i] = EvictUser(g[i - 1], users[i], listed)
                /\ EvictUsers(c, users, listed) = g[Len(users)]
<1> DEFINE n == Len(users)
           F == [i \in 1 .. n |-> [d \in Progress |-> EvictUser(d, users[i], listed)]]
           Loop(g) == g = [i \in 0 .. n |-> IF i = 0 THEN c ELSE EvictUser(g[i - 1], users[i], listed)]
<1>1. n \in Nat /\ \A i \in 1 .. n : users[i] \in User
  OBVIOUS
<1>2. \A i \in 1 .. n : \A d \in Progress : EvictUser(d, users[i], listed) \in Progress
  BY <1>1, EvictUserEffect DEF Evicted
<1> HIDE DEF n
<1>3. Steps(F, n, Progress)
  BY <1>2 DEF Steps
<1>4. PICK f : IsRun(f, c, F, n, Progress)
  <2> HIDE DEF F
  <2> QED BY <1>1, <1>3, RunExists
<1>5. f \in [0 .. n -> Progress] /\ f[0] = c /\ \A i \in 1 .. n : f[i] = F[i][f[i - 1]]
  <2> HIDE DEF F
  <2> QED BY <1>4 DEF IsRun
<1>6. \A i \in 0 .. n : f[i] = (IF i = 0 THEN c ELSE EvictUser(f[i - 1], users[i], listed))
  <2> TAKE i \in 0 .. n
  <2>1. CASE i = 0
    BY <1>5, <2>1
  <2>2. CASE i # 0
    <3>1. i \in 1 .. n /\ i - 1 \in 0 .. n
      BY <1>1, <2>2
    <3>2. f[i - 1] \in Progress
      BY <1>5, <3>1
    <3> QED BY <1>5, <2>2, <3>1, <3>2
  <2> QED BY <2>1, <2>2
<1>7. Loop(f)
  <2> HIDE DEF F
  <2> QED BY <1>5, <1>6, Zenon
<1> DEFINE g == CHOOSE g : Loop(g)
<1>8. Loop(g)
  <2> HIDE DEF Loop
  <2> QED BY <1>7, Zenon
<1>9. EvictUsers(c, users, listed) = g[n]
  BY Zenon DEF EvictUsers, n
<1> HIDE DEF g
<1>10. g[0] = c
  BY <1>1, <1>8
<1>11. ASSUME NEW i \in 1 .. n
       PROVE  g[i] = EvictUser(g[i - 1], users[i], listed)
  <2>1. i \in 0 .. n /\ i # 0
    BY <1>1
  <2> QED BY <1>8, <2>1
<1> QED BY <1>9, <1>10, <1>11 DEF n

\* What holds of the lists of the clients in the lobby in the middle of it.
UsersTold(c) == \A v \in Lobby(c.st) : c.users[v] = Lobby(c.st)
RoomsTold(c, listed) ==
  \A v \in Lobby(c.st) : /\ c.lists[v] \subseteq Infos(rooms \ c.gone)
                         /\ Infos(listed \ c.gone) \subseteq c.lists[v]

\* The users that arrive see those that were there, and are seen by them.
LEMMA EvictUserTold ==
  ASSUME TypeOK, NEW c \in Progress, NEW u \in User, NEW listed \in SUBSET rooms,
         NEW d, d = EvictUser(c, u, listed)
  PROVE  /\ UsersTold(c) => UsersTold(d)
         /\ RoomsTold(c, listed) => RoomsTold(d, listed)
<1>1. listed \in SUBSET RoomID
  BY DEF TypeOK
<1>2. /\ d.gone = c.gone
      /\ d.st = [c.st EXCEPT ![u] = "InLobby"]
      /\ \A v \in User : d.users[v] =
           IF v = u THEN Lobby(d.st)
           ELSE IF d.st[v] = "InLobby" THEN c.users[v] \union {u} ELSE c.users[v]
      /\ d.lists = [c.lists EXCEPT ![u] = Infos(listed \ c.gone)]
  <2>1. Evicted(d, c, u, listed)
    BY <1>1, EvictUserEffect
  <2> QED BY <2>1 DEF Evicted
<1>3. c.st \in [User -> Status] /\ c.lists \in [User -> SUBSET Entry]
  BY DEF Progress
<1>4. Lobby(d.st) = Lobby(c.st) \union {u}
  BY <1>2, <1>3 DEF Lobby
<1>5. UsersTold(c) => UsersTold(d)
  BY <1>2, <1>3, <1>4 DEF UsersTold, Lobby
<1>6. Infos(listed \ c.gone) \subseteq Infos(rooms \ c.gone)
  BY DEF Infos
<1>7. ASSUME RoomsTold(c, listed)
      PROVE  RoomsTold(d, listed)
  <2> SUFFICES ASSUME NEW v \in Lobby(d.st)
               PROVE  /\ d.lists[v] \subseteq Infos(rooms \ c.gone)
                      /\ Infos(listed \ c.gone) \subseteq d.lists[v]
    BY <1>2 DEF RoomsTold
  <2>1. CASE v = u
    <3>1. d.lists[v] = Infos(listed \ c.gone)
      BY <1>2, <1>3, <2>1
    <3> QED BY <1>6, <3>1
  <2>2. CASE v # u
    <3>1. v \in Lobby(c.st) /\ d.lists[v] = c.lists[v]
      BY <1>2, <1>3, <1>4, <2>2
    <3> QED BY <1>7, <3>1 DEF RoomsTold
  <2> QED BY <2>1, <2>2
<1> QED BY <1>5, <1>7

LEMMA EvictUsersEffect ==
  ASSUME TypeOK, NEW c \in Progress, NEW users \in Seq(User), NEW listed \in SUBSET rooms,
         NEW d, d = EvictUsers(c, users, listed)
  PROVE  /\ d \in Progress
         /\ d.gone = c.gone
         /\ \A v \in User : d.st[v] = IF v \in ToSet(users) THEN "InLobby" ELSE c.st[v]
         /\ UsersTold(c) => UsersTold(d)
         /\ RoomsTold(c, listed) => RoomsTold(d, listed)
<1> DEFINE n == Len(users)
           First(i) == {users[j] : j \in 1 .. i}
           After(e, i) ==
             /\ e \in Progress
             /\ e.gone = c.gone
             /\ \A v \in User : e.st[v] = IF v \in First(i) THEN "InLobby" ELSE c.st[v]
             /\ UsersTold(c) => UsersTold(e)
             /\ RoomsTold(c, listed) => RoomsTold(e, listed)
<1>1. listed \in SUBSET RoomID
  BY DEF TypeOK
<1>2. PICK g : /\ g[0] = c
               /\ \A i \in 1 .. n : g[i] = EvictUser(g[i - 1], users[i], listed)
               /\ EvictUsers(c, users, listed) = g[n]
  BY <1>1, EvictUsersRun
<1>3. n \in Nat /\ (\A i \in 1 .. n : users[i] \in User) /\ ToSet(users) = First(n)
  BY DEF ToSet
<1> HIDE DEF n
<1>4. After(g[0], 0)
  <2>1. First(0) = {}
    OBVIOUS
  <2> HIDE DEF First
  <2> QED BY <1>2, <2>1
<1>5. ASSUME NEW i \in 0 .. n - 1, After(g[i], i)
      PROVE  After(g[i + 1], i + 1)
  <2>1. i + 1 \in 1 .. n /\ (i + 1) - 1 = i
    BY <1>3
  <2> DEFINE u == users[i + 1]
             e == g[i + 1]
  <2>2. e = EvictUser(g[i], u, listed) /\ u \in User
    BY <1>2, <1>3, <2>1
  <2>3. First(i + 1) = First(i) \union {u}
    <3>1. \A j \in 1 .. i + 1 : j \in 1 .. i \/ j = i + 1
      BY <1>3
    <3>2. \A j \in 1 .. i : j \in 1 .. i + 1
      BY <1>3
    <3>3. i + 1 \in 1 .. i + 1
      BY <1>3
    <3> QED BY <3>1, <3>2, <3>3
  <2> HIDE DEF u, e
  <2>4. /\ e \in Progress
        /\ e.gone = g[i].gone
        /\ e.st = [g[i].st EXCEPT ![u] = "InLobby"]
    <3>1. g[i] \in Progress
      BY <1>5
    <3>2. Evicted(e, g[i], u, listed)
      BY <1>1, <2>2, <3>1, EvictUserEffect
    <3> QED BY <3>2 DEF Evicted
  <2>5. /\ UsersTold(g[i]) => UsersTold(e)
        /\ RoomsTold(g[i], listed) => RoomsTold(e, listed)
    BY <1>5, <2>2, EvictUserTold
  <2> HIDE DEF First
  <2>6. g[i].st \in [User -> Status]
    BY <1>5 DEF Progress
  <2>7. \A v \in User : e.st[v] = IF v \in First(i + 1) THEN "InLobby" ELSE c.st[v]
    BY <1>5, <2>2, <2>3, <2>4, <2>6
  <2> QED BY <1>5, <2>4, <2>5, <2>7 DEF e
<1> HIDE DEF After
<1> DEFINE P == {i \in 0 .. n : After(g[i], i)}
<1>6. n \in P
  <2>1. 0 \in P /\ \A i \in 0 .. n - 1 : i \in P => i + 1 \in P
    BY <1>3, <1>4, <1>5
  <2> HIDE DEF P
  <2> QED BY <1>3, <2>1, UpTo
<1>7. After(g[n], n)
  BY <1>6
<1> HIDE DEF First
<1> QED BY <1>2, <1>3, <1>7 DEF After

\* d is what there is after the rooms in R are destroyed, from c.
Destroyed(d, c, R, listed) ==
  /\ d \in Progress
  /\ d.gone = c.gone \union R
  /\ \A v \in User : d.st[v] = IF \E r \in R : v \in Members(r) THEN "InLobby" ELSE c.st[v]
  /\ UsersTold(c) => UsersTold(d)
  /\ RoomsTold(c, listed) => RoomsTold(d, listed)

LEMMA DestroyRoomEffect ==
  ASSUME TypeOK, NEW c \in Progress, NEW r \in RoomID, NEW listed \in SUBSET rooms
  PROVE  Destroyed(DestroyRoom(c, r, listed), c, {r}, listed)
<1> DEFINE lists == TellRoomGone(c.lists, c.st, r)
           told == [c EXCEPT !.lists = lists, !.gone = c.gone \union {r}]
           d == EvictUsers(told, roomUsers[r], listed)
<1>1. /\ c.st \in [User -> Status] /\ c.users \in [User -> SUBSET User]
      /\ c.lists \in [User -> SUBSET Entry] /\ c.gone \in SUBSET RoomID
  BY DEF Progress
<1>2. /\ lists \in [User -> SUBSET Entry]
      /\ \A v \in Lobby(c.st) : lists[v] = {e \in c.lists[v] : e.id # r}
  BY <1>1 DEF TellRoomGone, Tell, Lobby
<1> HIDE DEF lists
<1>3. told = [st |-> c.st, users |-> c.users, lists |-> lists, gone |-> c.gone \union {r}]
  <2>1. told = [c EXCEPT !.lists = lists, !.gone = c.gone \union {r}]
    OBVIOUS
  <2> HIDE DEF told
  <2> QED BY <2>1 DEF Progress
<1> HIDE DEF told
<1>4. /\ told \in Progress /\ told.st = c.st /\ told.users = c.users
      /\ told.lists = lists /\ told.gone = c.gone \union {r}
  BY <1>1, <1>2, <1>3 DEF Progress
<1>5. UsersTold(c) => UsersTold(told)
  BY <1>4 DEF UsersTold
<1>6. ASSUME RoomsTold(c, listed)
      PROVE  RoomsTold(told, listed)
  <2> SUFFICES ASSUME NEW v \in Lobby(c.st)
               PROVE  /\ lists[v] \subseteq Infos(rooms \ (c.gone \union {r}))
                      /\ Infos(listed \ (c.gone \union {r})) \subseteq lists[v]
    BY <1>4 DEF RoomsTold
  <2>1. /\ c.lists[v] \subseteq Infos(rooms \ c.gone)
        /\ Infos(listed \ c.gone) \subseteq c.lists[v]
    BY <1>6 DEF RoomsTold
  <2>2. \A q \in RoomID : RoomInfo(q).id = q
    BY DEF RoomInfo
  <2>3. rooms \subseteq RoomID
    BY DEF TypeOK
  <2>4. ASSUME NEW e \in lists[v]
        PROVE  e \in Infos(rooms \ (c.gone \union {r}))
    <3>1. e \in Infos(rooms \ c.gone) /\ e.id # r
      BY <1>2, <2>1
    <3>2. PICK q \in rooms \ c.gone : e = RoomInfo(q)
      BY <3>1 DEF Infos
    <3> QED BY <2>2, <2>3, <3>1, <3>2 DEF Infos
  <2>5. ASSUME NEW e \in Infos(listed \ (c.gone \union {r}))
        PROVE  e \in lists[v]
    <3>1. PICK q \in listed \ (c.gone \union {r}) : e = RoomInfo(q)
      BY DEF Infos
    <3>2. e \in c.lists[v]
      BY <2>1, <3>1 DEF Infos
    <3> QED BY <1>2, <2>2, <2>3, <3>1, <3>2
  <2> QED BY <2>4, <2>5
<1>7. roomUsers[r] \in Seq(User)
  BY DEF TypeOK
<1>8. DestroyRoom(c, r, listed) = d
  BY Zenon DEF DestroyRoom, d, told, lists
<1>9. /\ d \in Progress
      /\ d.gone = told.gone
      /\ \A v \in User : d.st[v] = IF v \in ToSet(roomUsers[r]) THEN "InLobby" ELSE told.st[v]
      /\ UsersTold(told) => UsersTold(d)
      /\ RoomsTold(told, listed) => RoomsTold(d, listed)
  BY <1>4, <1>7, EvictUsersEffect
<1> HIDE DEF d
<1>10. \A v \in User : (\E q \in {r} : v \in Members(q)) <=> v \in ToSet(roomUsers[r])
  BY DEF Members
<1> QED BY <1>4, <1>5, <1>6, <1>8, <1>9, <1>10 DEF Destroyed

LEMMA ChannelIsProgress == ViewsTypeOK => Channel \in Progress
BY DEF ViewsTypeOK, TypeOK, Channel, Progress

\* The loop over the rooms, unfolded.
LEMMA DestructionRun ==
  ASSUME ViewsTypeOK, NEW order \in Seq(RoomID), NEW listed \in SUBSET rooms
  PROVE  \E g : /\ g[0] = Channel
                /\ \A i \in 1 .. Len(order) : g[i] = DestroyRoom(g[i - 1], order[i], listed)
                /\ Destruction(order, listed) = g[Len(order)]
<1> DEFINE n == Len(order)
           c == Channel
           F == [i \in 1 .. n |-> [d \in Progress |-> DestroyRoom(d, order[i], listed)]]
           Loop(g) == g = [i \in 0 .. n |-> IF i = 0 THEN c ELSE DestroyRoom(g[i - 1], order[i], listed)]
<1>1. n \in Nat /\ \A i \in 1 .. n : order[i] \in RoomID
  OBVIOUS
<1>2. TypeOK /\ c \in Progress
  BY ChannelIsProgress DEF ViewsTypeOK
<1> HIDE DEF n
<1>3. \A i \in 1 .. n : \A d \in Progress : DestroyRoom(d, order[i], listed) \in Progress
  BY <1>1, <1>2, DestroyRoomEffect DEF Destroyed
<1>4. Steps(F, n, Progress)
  BY <1>3 DEF Steps
<1> HIDE DEF c
<1>5. PICK f : IsRun(f, c, F, n, Progress)
  <2> HIDE DEF F
  <2> QED BY <1>1, <1>2, <1>4, RunExists
<1>6. f \in [0 .. n -> Progress] /\ f[0] = c /\ \A i \in 1 .. n : f[i] = F[i][f[i - 1]]
  <2> HIDE DEF F
  <2> QED BY <1>5 DEF IsRun
<1>7. \A i \in 0 .. n : f[i] = (IF i = 0 THEN c ELSE DestroyRoom(f[i - 1], order[i], listed))
  <2> TAKE i \in 0 .. n
  <2>1. CASE i = 0
    BY <1>6, <2>1
  <2>2. CASE i # 0
    <3>1. i \in 1 .. n /\ i - 1 \in 0 .. n
      BY <1>1, <2>2
    <3>2. f[i - 1] \in Progress
      BY <1>6, <3>1
    <3> QED BY <1>6, <2>2, <3>1, <3>2
  <2> QED BY <2>1, <2>2
<1>8. Loop(f)
  <2> HIDE DEF F
  <2> QED BY <1>6, <1>7, Zenon
<1> DEFINE g == CHOOSE g : Loop(g)
<1>9. Loop(g)
  <2> HIDE DEF Loop
  <2> QED BY <1>8, Zenon
<1>10. Destruction(order, listed) = g[n]
  BY Zenon DEF Destruction, n, c
<1> HIDE DEF g
<1>11. g[0] = c
  BY <1>1, <1>9
<1>12. ASSUME NEW i \in 1 .. n
       PROVE  g[i] = DestroyRoom(g[i - 1], order[i], listed)
  <2>1. i \in 0 .. n /\ i # 0
    BY <1>1
  <2> QED BY <1>9, <2>1
<1> QED BY <1>10, <1>11, <1>12 DEF n, c

LEMMA DestructionEffect ==
  ASSUME ViewsTypeOK, NEW order \in Seq(RoomID), NEW listed \in SUBSET rooms
  PROVE  Destroyed(Destruction(order, listed), Channel, ToSet(order), listed)
<1> DEFINE n == Len(order)
           c == Channel
           First(i) == {order[j] : j \in 1 .. i}
<1>1. PICK g : /\ g[0] = c
               /\ \A i \in 1 .. n : g[i] = DestroyRoom(g[i - 1], order[i], listed)
               /\ Destruction(order, listed) = g[n]
  BY DestructionRun
<1>2. TypeOK /\ c \in Progress
  BY ChannelIsProgress DEF ViewsTypeOK
<1>3. n \in Nat /\ (\A i \in 1 .. n : order[i] \in RoomID) /\ ToSet(order) = First(n)
  BY DEF ToSet
<1> HIDE DEF n, c
<1>4. Destroyed(g[0], c, First(0), listed)
  <2>1. First(0) = {}
    OBVIOUS
  <2> HIDE DEF First
  <2>2. c.gone \in SUBSET RoomID
    BY <1>2 DEF Progress
  <2> QED BY <1>1, <1>2, <2>1, <2>2 DEF Destroyed
<1>5. ASSUME NEW i \in 0 .. n - 1, Destroyed(g[i], c, First(i), listed)
      PROVE  Destroyed(g[i + 1], c, First(i + 1), listed)
  <2>1. i + 1 \in 1 .. n /\ (i + 1) - 1 = i
    BY <1>3
  <2> DEFINE r == order[i + 1]
             e == g[i + 1]
  <2>2. e = DestroyRoom(g[i], r, listed) /\ r \in RoomID
    BY <1>1, <1>3, <2>1
  <2>3. First(i + 1) = First(i) \union {r}
    <3>1. \A j \in 1 .. i + 1 : j \in 1 .. i \/ j = i + 1
      BY <1>3
    <3>2. \A j \in 1 .. i : j \in 1 .. i + 1
      BY <1>3
    <3>3. i + 1 \in 1 .. i + 1
      BY <1>3
    <3> QED BY <3>1, <3>2, <3>3
  <2> HIDE DEF r, e, First
  <2>4. Destroyed(e, g[i], {r}, listed)
    <3>1. g[i] \in Progress
      BY <1>5 DEF Destroyed
    <3> QED BY <1>2, <2>2, <3>1, DestroyRoomEffect
  <2>5. \A v \in User : (\E q \in First(i + 1) : v \in Members(q))
                          <=> v \in Members(r) \/ \E q \in First(i) : v \in Members(q)
    BY <2>3
  <2>6. Destroyed(e, c, First(i + 1), listed)
    BY <1>5, <2>3, <2>4, <2>5 DEF Destroyed
  <2> QED BY <2>6 DEF e
<1> DEFINE P == {i \in 0 .. n : Destroyed(g[i], c, First(i), listed)}
<1> HIDE DEF First
<1>6. n \in P
  <2>1. 0 \in P /\ \A i \in 0 .. n - 1 : i \in P => i + 1 \in P
    BY <1>3, <1>4, <1>5
  <2> HIDE DEF P
  <2> QED BY <1>3, <2>1, UpTo
<1>7. Destroyed(g[n], c, First(n), listed)
  BY <1>6
<1> QED BY <1>1, <1>3, <1>7 DEF c

\* An order in which the rooms of a set are destroyed is over each of them.
LEMMA OrderOfAll ==
  ASSUME NEW S \in SUBSET RoomID, NEW order \in SetToSeqs(S)
  PROVE  order \in Seq(RoomID) /\ ToSet(order) = S
<1> DEFINE n == Cardinality(S)
<1>1. IsFiniteSet(S)
  <2>1. MaxRoomID \in Int
    BY RoomsAssumption
  <2>2. IsFiniteSet(RoomID)
    BY <2>1, FS_Interval DEF RoomID
  <2> QED BY <2>2, FS_Subset
<1>2. n \in Nat
  BY <1>1, FS_CardinalityType
<1>3. order \in [1 .. n -> S] /\ \A i, j \in 1 .. n : i # j => order[i] # order[j]
  BY DEF SetToSeqs
<1> HIDE DEF n
<1>4. order \in Injection(1 .. n, S)
  BY <1>3 DEF Injection, IsInjective
<1>5. Cardinality(1 .. n) = n
  BY <1>2, FS_Interval
<1>6. order \in Surjection(1 .. n, S)
  BY <1>1, <1>4, <1>5, FS_Injection DEF n
<1>7. \A s \in S : \E i \in 1 .. n : order[i] = s
  BY <1>6 DEF Surjection
<1>8. order \in Seq(RoomID)
  BY <1>2, <1>3, SeqDef
<1> QED BY <1>3, <1>7, <1>8 DEF ToSet

-----------------------------------------------------------------------------
(* What the packets about one room do to the lists of those who get them.  *)

\* What a list may say of each room.
Listings == {g \in [RoomID -> Entry] : \A q \in RoomID : g[q].id = q}
Current == [q \in RoomID |-> RoomInfo(q)]

\* The lists of those in the lobby show what g says of the rooms in R.
Shows(lists, st, R, g) == \A v \in Lobby(st) : lists[v] = {g[q] : q \in R}

LEMMA CurrentIsListing == TypeOK => Current \in Listings
<1> SUFFICES ASSUME TypeOK PROVE Current \in Listings
  OBVIOUS
<1>1. ASSUME NEW q \in RoomID
      PROVE  RoomInfo(q) \in Entry /\ RoomInfo(q).id = q
  <2>1. roomUsers[q] \in Seq(User) /\ maxPlayers[q] \in 0 .. 255 /\ roomState[q] \in RoomState
    BY DEF TypeOK
  <2>2. Len(roomUsers[q]) \in Nat
    BY <2>1, LenProperties
  <2> QED BY <2>1, <2>2 DEF RoomInfo, Entry
<1> QED BY <1>1 DEF Current, Listings

LEMMA LobbyShows ==
  ASSUME TypeOK
  PROVE  LobbySeesRooms <=> Shows(roomList, status, rooms, Current)
<1>1. RoomInfos = {Current[q] : q \in rooms}
  BY DEF RoomInfos, Current, TypeOK
<1> QED BY <1>1 DEF LobbySeesRooms, Shows

\* The entry of room r becomes x in the lists of those in the lobby.
Replaced(changed, lists, st, r, x) ==
  \A v \in Lobby(st) : changed[v] = {IF e.id = r THEN x ELSE e : e \in lists[v]}

LEMMA OneRoomChanges ==
  ASSUME NEW lists, NEW changed, NEW st, NEW R \in SUBSET RoomID, NEW g \in Listings,
         NEW r \in RoomID, NEW x \in Entry, x.id = r,
         Shows(lists, st, R, g), Replaced(changed, lists, st, r, x)
  PROVE  Shows(changed, st, R, [g EXCEPT ![r] = x])
<1> SUFFICES ASSUME NEW v \in Lobby(st)
             PROVE  changed[v] = {[g EXCEPT ![r] = x][q] : q \in R}
  BY DEF Shows
<1>1. /\ lists[v] = {g[q] : q \in R}
      /\ changed[v] = {IF e.id = r THEN x ELSE e : e \in lists[v]}
  BY DEF Shows, Replaced
<1>2. g \in [RoomID -> Entry] /\ \A q \in RoomID : g[q].id = q
  BY DEF Listings
<1>3. \A q \in R : [g EXCEPT ![r] = x][q] = IF g[q].id = r THEN x ELSE g[q]
  BY <1>2
<1> QED BY <1>1, <1>3

LEMMA ListingChanges ==
  ASSUME NEW g \in Listings, NEW r \in RoomID, NEW x \in Entry, x.id = r
  PROVE  [g EXCEPT ![r] = x] \in Listings
BY DEF Listings

LEMMA EntriesShown ==
  ASSUME NEW lists, NEW st, NEW R \in SUBSET RoomID, NEW g \in Listings,
         Shows(lists, st, R, g), NEW v \in Lobby(st)
  PROVE  \A e \in lists[v] : e = g[e.id]
BY DEF Shows, Listings

LEMMA PlayersTold ==
  ASSUME NEW lists \in [User -> SUBSET Entry], NEW st, NEW r \in RoomID, NEW n \in Nat
  PROVE  /\ TellPlayers(lists, st, r, n) \in [User -> SUBSET Entry]
         /\ \A v \in Lobby(st) : TellPlayers(lists, st, r, n)[v] =
              {IF e.id = r THEN [e EXCEPT !.players = n] ELSE e : e \in lists[v]}
<1>1. \A e \in Entry : [e EXCEPT !.players = n] \in Entry
  BY DEF Entry
<1> QED BY <1>1 DEF TellPlayers, TellRoomChange, Tell, Lobby

LEMMA PlayersShown ==
  ASSUME NEW lists \in [User -> SUBSET Entry], NEW st, NEW r \in RoomID, NEW n \in Nat,
         NEW R \in SUBSET RoomID, NEW g \in Listings, Shows(lists, st, R, g),
         NEW x, x = [g[r] EXCEPT !.players = n]
  PROVE  /\ [g EXCEPT ![r] = x] \in Listings
         /\ Shows(TellPlayers(lists, st, r, n), st, R, [g EXCEPT ![r] = x])
<1>1. g[r] \in Entry /\ g[r].id = r
  BY DEF Listings
<1>2. x \in Entry /\ x.id = r
  BY <1>1 DEF Entry
<1>3. ASSUME NEW v \in Lobby(st)
      PROVE  TellPlayers(lists, st, r, n)[v] = {IF e.id = r THEN x ELSE e : e \in lists[v]}
  <2>1. \A e \in lists[v] : e.id = r => e = g[r]
    BY EntriesShown
  <2> QED BY <2>1, PlayersTold
<1>4. Replaced(TellPlayers(lists, st, r, n), lists, st, r, x)
  BY <1>3 DEF Replaced
<1>5. Shows(TellPlayers(lists, st, r, n), st, R, [g EXCEPT ![r] = x])
  BY <1>2, <1>4, OneRoomChanges
<1> QED BY <1>2, <1>5, ListingChanges

LEMMA StateTold ==
  ASSUME NEW lists \in [User -> SUBSET Entry], NEW st, NEW r \in RoomID, NEW s \in RoomState
  PROVE  /\ TellState(lists, st, r, s) \in [User -> SUBSET Entry]
         /\ \A v \in Lobby(st) : TellState(lists, st, r, s)[v] =
              {IF e.id = r THEN [e EXCEPT !.state = s] ELSE e : e \in lists[v]}
<1>1. \A e \in Entry : [e EXCEPT !.state = s] \in Entry
  BY DEF Entry
<1> QED BY <1>1 DEF TellState, TellRoomChange, Tell, Lobby

LEMMA StateShown ==
  ASSUME NEW lists \in [User -> SUBSET Entry], NEW st, NEW r \in RoomID, NEW s \in RoomState,
         NEW R \in SUBSET RoomID, NEW g \in Listings, Shows(lists, st, R, g),
         NEW x, x = [g[r] EXCEPT !.state = s]
  PROVE  /\ [g EXCEPT ![r] = x] \in Listings
         /\ Shows(TellState(lists, st, r, s), st, R, [g EXCEPT ![r] = x])
<1>1. g[r] \in Entry /\ g[r].id = r
  BY DEF Listings
<1>2. x \in Entry /\ x.id = r
  BY <1>1 DEF Entry
<1>3. ASSUME NEW v \in Lobby(st)
      PROVE  TellState(lists, st, r, s)[v] = {IF e.id = r THEN x ELSE e : e \in lists[v]}
  <2>1. \A e \in lists[v] : e.id = r => e = g[r]
    BY EntriesShown
  <2> QED BY <2>1, StateTold
<1>4. Replaced(TellState(lists, st, r, s), lists, st, r, x)
  BY <1>3 DEF Replaced
<1>5. Shows(TellState(lists, st, r, s), st, R, [g EXCEPT ![r] = x])
  BY <1>2, <1>4, OneRoomChanges
<1> QED BY <1>2, <1>5, ListingChanges

LEMMA GoneTold ==
  ASSUME NEW lists \in [User -> SUBSET Entry], NEW st, NEW r \in RoomID
  PROVE  /\ TellRoomGone(lists, st, r) \in [User -> SUBSET Entry]
         /\ \A v \in Lobby(st) : TellRoomGone(lists, st, r)[v] = {e \in lists[v] : e.id # r}
BY DEF TellRoomGone, Tell, Lobby

LEMMA GoneShown ==
  ASSUME NEW lists \in [User -> SUBSET Entry], NEW st, NEW r \in RoomID,
         NEW R \in SUBSET RoomID, NEW g \in Listings, Shows(lists, st, R, g)
  PROVE  Shows(TellRoomGone(lists, st, r), st, R \ {r}, g)
<1> SUFFICES ASSUME NEW v \in Lobby(st)
             PROVE  TellRoomGone(lists, st, r)[v] = {g[q] : q \in R \ {r}}
  BY DEF Shows
<1>1. TellRoomGone(lists, st, r)[v] = {e \in lists[v] : e.id # r}
  BY GoneTold
<1>2. lists[v] = {g[q] : q \in R} /\ \A q \in RoomID : g[q].id = q
  BY DEF Shows, Listings
<1> QED BY <1>1, <1>2

-----------------------------------------------------------------------------
(* The users in the lobby.                                                 *)

UsersShape == status \in [User -> Status] /\ userList \in [User -> SUBSET User]

LEMMA UserArrives ==
  ASSUME UsersShape, LobbySeesUsers, NEW u \in User,
         status' = [status EXCEPT ![u] = "InLobby"],
         userList' = [TellArrival(userList, status', u) EXCEPT ![u] = Lobby(status')]
  PROVE  UsersShape' /\ LobbySeesUsers'
<1>1. status' \in [User -> Status]
  BY DEF UsersShape, Status
<1> DEFINE told == TellArrival(userList, status', u)
<1>2. /\ told \in [User -> SUBSET User]
      /\ \A v \in User : told[v] =
           IF v # u /\ status'[v] = "InLobby" THEN userList[v] \union {u} ELSE userList[v]
  <2>1. userList \in [User -> SUBSET User]
    BY DEF UsersShape
  <2> QED BY ONLY <1>1, <2>1, ArrivalTold, u \in User
<1> HIDE DEF told
<1>3. userList' = [told EXCEPT ![u] = Lobby(status')]
  BY DEF told
<1>4. Lobby(status') = Lobby(status) \union {u}
  BY DEF Lobby, UsersShape
<1>5. userList' \in [User -> SUBSET User]
  BY <1>2, <1>3 DEF Lobby
<1>6. ASSUME NEW v \in Lobby(status')
      PROVE  userList'[v] = Lobby(status')
  <2>1. CASE v = u
    BY <1>2, <1>3, <2>1
  <2>2. CASE v # u
    <3>1. v \in Lobby(status) /\ v \in User /\ status'[v] = "InLobby"
      BY <1>4, <1>6, <2>2 DEF Lobby
    <3>2. userList[v] = Lobby(status)
      BY <3>1 DEF LobbySeesUsers
    <3> QED BY <1>2, <1>3, <1>4, <2>2, <3>1, <3>2
  <2> QED BY <2>1, <2>2
<1>7. Lobby(status)' = Lobby(status')
  BY DEF Lobby
<1> QED BY <1>1, <1>5, <1>6, <1>7 DEF UsersShape, LobbySeesUsers

\* st selects the same audience as the statuses after the step.
LEMMA UserGoes ==
  ASSUME UsersShape, LobbySeesUsers, NEW u \in User, NEW s \in Status, s # "InLobby",
         NEW st \in [User -> Status], \A v \in User \ {u} : st[v] = status[v],
         status' = [status EXCEPT ![u] = s],
         userList' = [TellDeparture(userList, st, u) EXCEPT ![u] = {}]
  PROVE  UsersShape' /\ LobbySeesUsers'
<1>1. status' \in [User -> Status]
  BY DEF UsersShape
<1> DEFINE told == TellDeparture(userList, st, u)
<1>2. /\ told \in [User -> SUBSET User]
      /\ \A v \in User : told[v] =
           IF v # u /\ st[v] = "InLobby" THEN userList[v] \ {u} ELSE userList[v]
  <2>1. userList \in [User -> SUBSET User]
    BY DEF UsersShape
  <2> QED BY ONLY <2>1, DepartureTold, u \in User, st \in [User -> Status]
<1> HIDE DEF told
<1>3. userList' = [told EXCEPT ![u] = {}]
  BY DEF told
<1>4. Lobby(status') = Lobby(status) \ {u}
  BY DEF Lobby, UsersShape
<1>5. userList' \in [User -> SUBSET User]
  BY <1>2, <1>3
<1>6. ASSUME NEW v \in Lobby(status')
      PROVE  userList'[v] = Lobby(status')
  <2>1. v \in Lobby(status) /\ v \in User \ {u} /\ st[v] = "InLobby"
    BY <1>4, <1>6 DEF Lobby
  <2>2. userList[v] = Lobby(status)
    BY <2>1 DEF LobbySeesUsers
  <2> QED BY <1>2, <1>3, <1>4, <2>1, <2>2
<1>7. Lobby(status)' = Lobby(status')
  BY DEF Lobby
<1> QED BY <1>1, <1>5, <1>6, <1>7 DEF UsersShape, LobbySeesUsers

\* A step outside of the lobby.
LEMMA UsersStay ==
  ASSUME UsersShape, LobbySeesUsers, status' \in [User -> Status],
         \A v \in User : status'[v] = "InLobby" <=> status[v] = "InLobby",
         \A v \in User : status[v] = "InLobby" => userList'[v] = userList[v],
         userList' \in [User -> SUBSET User]
  PROVE  UsersShape' /\ LobbySeesUsers'
BY DEF UsersShape, LobbySeesUsers, Lobby

LEMMA CreateRoomUsers ==
  ASSUME UsersShape, LobbySeesUsers, NEW u \in User, ViewCreateRoom(u)
  PROVE  UsersShape' /\ LobbySeesUsers'
<1> DEFINE st == [status EXCEPT ![u] = "InRoom"]
           absent == TellDeparture(userList, st, u)
<1>1. st \in [User -> Status] /\ \A v \in User \ {u} : st[v] = status[v]
  BY DEF UsersShape, Status
<1>2. /\ absent \in [User -> SUBSET User]
      /\ \A v \in User : absent[v] =
           IF v # u /\ st[v] = "InLobby" THEN userList[v] \ {u} ELSE userList[v]
  <2> HIDE DEF st
  <2> QED BY <1>1, DepartureTold DEF UsersShape
<1>3. CASE rooms' = rooms
  <2>1. /\ status' = [status EXCEPT ![u] = "InLobby"]
        /\ userList' = [TellArrival(TellArrival(absent, status', u), status', u)
                          EXCEPT ![u] = Lobby(status')]
    <3>1. \A r \in RoomID : r \notin rooms => rooms' # rooms \union {r}
      BY <1>3
    <3>2. status' = [status EXCEPT ![u] = "InLobby"]
      BY <3>1, Zenon DEF ViewCreateRoom, CreateRoom, IsFreeRoomID
    <3>3. userList' = [TellArrival(TellArrival(absent, status', u), status', u)
                          EXCEPT ![u] = Lobby(status')]
      BY <3>1, Zenon DEF ViewCreateRoom
    <3> QED BY <3>2, <3>3
  <2>2. status' \in [User -> Status]
    BY <2>1 DEF UsersShape, Status
  <2> DEFINE once == TellArrival(absent, status', u)
             twice == TellArrival(once, status', u)
  <2> HIDE DEF absent, st
  <2>3. /\ once \in [User -> SUBSET User]
        /\ \A v \in User : once[v] =
             IF v # u /\ status'[v] = "InLobby" THEN absent[v] \union {u} ELSE absent[v]
    BY <1>2, <2>2, ArrivalTold
  <2> HIDE DEF once
  <2>4. /\ twice \in [User -> SUBSET User]
        /\ \A v \in User : twice[v] =
             IF v # u /\ status'[v] = "InLobby" THEN once[v] \union {u} ELSE once[v]
    BY <2>2, <2>3, ArrivalTold
  <2> HIDE DEF twice
  <2>5. userList' = [twice EXCEPT ![u] = Lobby(status')]
    BY <2>1 DEF twice, once
  <2>6. Lobby(status') = Lobby(status) \union {u}
    BY <2>1 DEF Lobby, UsersShape
  <2>7. userList' \in [User -> SUBSET User]
    BY <2>4, <2>5 DEF Lobby
  <2>8. ASSUME NEW v \in Lobby(status')
        PROVE  userList'[v] = Lobby(status')
    <3>1. CASE v = u
      BY <2>4, <2>5, <3>1
    <3>2. CASE v # u
      <4>1. v \in Lobby(status) /\ v \in User /\ status'[v] = "InLobby" /\ st[v] = "InLobby"
        BY <1>1, <2>6, <2>8, <3>2 DEF Lobby
      <4>2. userList[v] = Lobby(status)
        BY <4>1 DEF LobbySeesUsers
      <4>3. twice[v] = Lobby(status) \union {u}
        BY <1>2, <2>3, <2>4, <3>2, <4>1, <4>2
      <4> QED BY <2>4, <2>5, <2>6, <3>2, <4>1, <4>3
    <3> QED BY <3>1, <3>2
  <2>9. Lobby(status)' = Lobby(status')
    BY DEF Lobby
  <2> QED BY <2>2, <2>7, <2>8, <2>9 DEF UsersShape, LobbySeesUsers
<1>4. CASE rooms' # rooms
  <2>1. /\ status' = [status EXCEPT ![u] = "InRoom"]
        /\ userList' = [absent EXCEPT ![u] = {}]
    <3>1. status' = [status EXCEPT ![u] = "InRoom"]
      BY <1>4, Zenon DEF ViewCreateRoom, CreateRoom, roomVars
    <3>2. userList' = [absent EXCEPT ![u] = {}]
      BY <1>4, Zenon DEF ViewCreateRoom
    <3> QED BY <3>1, <3>2
  <2>2. "InRoom" \in Status /\ "InRoom" # "InLobby"
    BY DEF Status
  <2> HIDE DEF st
  <2> QED BY <1>1, <2>1, <2>2, UserGoes
<1> QED BY <1>3, <1>4

-----------------------------------------------------------------------------
(* The three parts of the invariant when rooms are destroyed.              *)

LEMMA DestroyedFacts ==
  ASSUME TypeOK, NEW gone \in SUBSET rooms, DestroyRooms(gone)
  PROVE  /\ \A v \in User : status'[v] = IF \E r \in gone : v \in Members(r)
                                         THEN "InLobby" ELSE status[v]
         /\ status' \in [User -> Status]
         /\ \A v \in User : (\A r \in gone : v \notin Members(r)) => currentRoom'[v] = currentRoom[v]
         /\ rooms' = rooms \ gone
         /\ \A q \in RoomID \ gone : /\ RoomInfo(q)' = RoomInfo(q)
                                     /\ InsideInfo(q)' = InsideInfo(q)
<1> DEFINE evicted == UNION {Members(r) : r \in gone}
<1>1. /\ status' = [u \in User |-> IF u \in evicted THEN "InLobby" ELSE status[u]]
      /\ currentRoom' = [u \in User |-> IF u \in evicted THEN NoRoom ELSE currentRoom[u]]
      /\ rooms' = rooms \ gone
      /\ roomUsers' = [r \in RoomID |-> IF r \in gone THEN <<>> ELSE roomUsers[r]]
      /\ roomHost' = [r \in RoomID |-> IF r \in gone THEN NoUser ELSE roomHost[r]]
      /\ roomState' = [r \in RoomID |-> IF r \in gone THEN "Waiting" ELSE roomState[r]]
      /\ maxPlayers' = [r \in RoomID |-> IF r \in gone THEN 0 ELSE maxPlayers[r]]
  BY DEF DestroyRooms
<1>2. \A v : v \in evicted <=> \E r \in gone : v \in Members(r)
  OBVIOUS
<1> HIDE DEF evicted
<1>3. status' \in [User -> Status]
  BY <1>1 DEF TypeOK, Status
<1>4. ASSUME NEW q \in RoomID \ gone
      PROVE  RoomInfo(q)' = RoomInfo(q) /\ InsideInfo(q)' = InsideInfo(q)
  <2>1. /\ roomUsers'[q] = roomUsers[q] /\ roomHost'[q] = roomHost[q]
        /\ roomState'[q] = roomState[q] /\ maxPlayers'[q] = maxPlayers[q]
    BY <1>1
  <2> QED BY <2>1 DEF RoomInfo, InsideInfo, Members
<1> QED BY <1>1, <1>2, <1>3, <1>4

LEMMA DestructionShown ==
  ASSUME ViewsTypeOK, LobbySeesUsers, NEW gone \in SUBSET rooms, DestroyRooms(gone),
         NEW order \in SetToSeqs(gone), NEW listed \in SUBSET rooms, rooms \ gone \subseteq listed,
         ShowDestruction(order, listed)
  PROVE  /\ userList' \in [User -> SUBSET User] /\ roomList' \in [User -> SUBSET Entry]
         /\ LobbySeesUsers'
         /\ LobbySeesRooms => LobbySeesRooms'
<1> DEFINE c == Destruction(order, listed)
<1>1. TypeOK /\ gone \in SUBSET RoomID
  BY DEF ViewsTypeOK, TypeOK
<1>2. order \in Seq(RoomID) /\ ToSet(order) = gone
  BY <1>1, OrderOfAll
<1>3. Destroyed(c, Channel, gone, listed)
  BY <1>2, DestructionEffect
<1>4. userList' = c.users /\ roomList' = c.lists
  BY Zenon DEF ShowDestruction
<1> HIDE DEF c
<1>5. /\ c.st \in [User -> Status] /\ c.users \in [User -> SUBSET User]
      /\ c.lists \in [User -> SUBSET Entry]
  BY <1>3 DEF Destroyed, Progress
<1>6. /\ Channel.st = status /\ Channel.users = userList /\ Channel.lists = roomList
      /\ Channel.gone = {}
  BY DEF Channel
<1>7. c.gone = gone
  BY <1>3, <1>6 DEF Destroyed
<1>8. c.st = status'
  <2>1. \A v \in User : c.st[v] = status'[v]
    BY <1>1, <1>3, <1>6, DestroyedFacts DEF Destroyed
  <2>2. status' \in [User -> Status]
    BY <1>1, DestroyedFacts
  <2> QED BY <1>5, <2>1, <2>2
<1>9. Lobby(status)' = Lobby(c.st)
  BY <1>8 DEF Lobby
<1>10. LobbySeesUsers'
  <2>1. UsersTold(Channel)
    BY <1>6 DEF UsersTold, LobbySeesUsers
  <2>2. UsersTold(c)
    BY <1>3, <2>1 DEF Destroyed
  <2> QED BY <1>4, <1>9, <2>2 DEF UsersTold, LobbySeesUsers
<1>11. ASSUME LobbySeesRooms
       PROVE  LobbySeesRooms'
  <2>1. RoomsTold(Channel, listed)
    BY <1>6, <1>11 DEF RoomsTold, LobbySeesRooms, Infos, RoomInfos
  <2>2. RoomsTold(c, listed)
    BY <1>3, <2>1 DEF Destroyed
  <2>3. Infos(rooms \ gone) \subseteq Infos(listed \ gone)
    BY DEF Infos
  <2>4. \A v \in Lobby(c.st) : c.lists[v] = Infos(rooms \ gone)
    BY <1>7, <2>2, <2>3 DEF RoomsTold
  <2>5. RoomInfos' = Infos(rooms \ gone)
    <3>1. \A q \in rooms \ gone : RoomInfo(q)' = RoomInfo(q)
      BY <1>1, DestroyedFacts DEF TypeOK
    <3>2. rooms' = rooms \ gone
      BY <1>1, DestroyedFacts
    <3>3. RoomInfos' = {RoomInfo(q)' : q \in rooms'}
      BY DEF RoomInfos
    <3> QED BY <3>1, <3>2, <3>3 DEF Infos
  <2> QED BY <1>4, <1>9, <2>4, <2>5 DEF LobbySeesRooms
<1> QED BY <1>4, <1>5, <1>10, <1>11

\* What InsideInfo is a value of.
LEMMA InsideIsView ==
  ASSUME TypeOK, NEW r \in RoomID
  PROVE  InsideInfo(r) \in RoomView
<1>1. /\ roomUsers[r] \in Seq(User) /\ roomHost[r] \in User \union {NoUser}
      /\ maxPlayers[r] \in 0 .. 255 /\ roomState[r] \in RoomState
  BY DEF TypeOK
<1>2. Members(r) \in SUBSET User
  BY <1>1 DEF Members, ToSet
<1> QED BY <1>1, <1>2 DEF InsideInfo, RoomView

LEMMA OutsideIsView == Outside \in RoomView
BY DEF Outside, RoomView, RoomState

LEMMA DestructionInside ==
  ASSUME Inv, roomView \in [User -> RoomView], MembersSeeRoom,
         NEW gone \in SUBSET rooms, DestroyRooms(gone),
         NEW c, \A v \in User : c[v] = status'[v],
         roomView' = [u \in User |-> IF c[u] = "InLobby" THEN Outside ELSE roomView[u]]
  PROVE  roomView' \in [User -> RoomView] /\ MembersSeeRoom'
<1> TypeOK
  BY DEF Inv
<1>1. roomView' \in [User -> RoomView]
  BY OutsideIsView
<1>2. ASSUME NEW v \in User, InARoom(v)'
      PROVE  roomView'[v] = InsideInfo(currentRoom[v])'
  <2> PICK q : q = currentRoom[v]
    OBVIOUS
  <2>1. status'[v] \in {"InRoom", "InGame"}
    BY <1>2 DEF InARoom
  <2>2. (\A r \in gone : v \notin Members(r)) /\ status'[v] = status[v] /\ currentRoom'[v] = q
    BY <2>1, DestroyedFacts
  <2>3. q \in rooms /\ q \in RoomID /\ roomView[v] = InsideInfo(q)
    BY <2>1, <2>2 DEF InARoom, MembersSeeRoom, Inv, RoomStatus, TypeOK
  <2>4. v \in Members(q)
    BY <2>3 DEF Inv, RoomMembership
  <2>5. q \in RoomID \ gone
    BY <2>2, <2>3, <2>4
  <2>6. InsideInfo(q)' = InsideInfo(q)
    BY <2>5, DestroyedFacts
  <2>7. roomView'[v] = roomView[v]
    BY <2>1
  <2> QED BY <2>2, <2>3, <2>6, <2>7 DEF InsideInfo, Members
<1> QED BY <1>1, <1>2 DEF MembersSeeRoom

-----------------------------------------------------------------------------
(* The room of a client.                                                   *)

\* Only room r changes, or its users: those in it know what it has become.
LEMMA InsideChanges ==
  ASSUME Inv, MembersSeeRoom, NEW r,
         \A q \in RoomID \ {r} : InsideInfo(q)' = InsideInfo(q),
         \A v \in User : InARoom(v)' =>
           \/ currentRoom'[v] = r /\ roomView'[v] = InsideInfo(r)'
           \/ /\ InARoom(v) /\ currentRoom'[v] = currentRoom[v] /\ currentRoom[v] # r
              /\ roomView'[v] = roomView[v]
  PROVE  MembersSeeRoom'
<1> SUFFICES ASSUME NEW v \in User, InARoom(v)'
             PROVE  roomView'[v] = InsideInfo(currentRoom[v])'
  BY DEF MembersSeeRoom
<1>1. CASE currentRoom'[v] = r /\ roomView'[v] = InsideInfo(r)'
  BY <1>1 DEF InsideInfo, Members
<1>2. CASE /\ InARoom(v) /\ currentRoom'[v] = currentRoom[v] /\ currentRoom[v] # r
           /\ roomView'[v] = roomView[v]
  <2> PICK q : q = currentRoom[v]
    OBVIOUS
  <2>1. q \in RoomID \ {r} /\ roomView[v] = InsideInfo(q)
    BY <1>2 DEF Inv, TypeOK, RoomStatus, MembersSeeRoom
  <2>2. roomView'[v] = InsideInfo(q)'
    BY <1>2, <2>1
  <2> QED BY <1>2, <2>2 DEF InsideInfo, Members
<1> QED BY <1>1, <1>2

\* A step that changes no room and makes nobody enter one.
LEMMA InsideStays ==
  ASSUME Inv, MembersSeeRoom,
         \A q \in RoomID : InsideInfo(q)' = InsideInfo(q),
         \A v \in User : InARoom(v)' =>
           InARoom(v) /\ currentRoom'[v] = currentRoom[v] /\ roomView'[v] = roomView[v]
  PROVE  MembersSeeRoom'
<1>1. NoRoom \notin RoomID
  BY DEF NoRoom, RoomID
<1>2. \A v \in User : InARoom(v) => currentRoom[v] # NoRoom
  BY <1>1 DEF Inv, RoomStatus, TypeOK
<1> QED BY <1>1, <1>2, InsideChanges

LEMMA RemoveFirstLength ==
  ASSUME NEW S, NEW s \in Seq(S), NEW e, IsInjective(s), e \in ToSet(s)
  PROVE  Len(RemoveFirst(s, e)) = Len(s) - 1
<1>1. PICK k \in 1 .. Len(s) : s[k] = e
  BY DEF ToSet
<1>2. RemoveFirst(s, e) = RemoveAt(s, k)
  BY <1>1, FirstIndex
<1> QED BY <1>2, RemoveAtElements

\* What RemoveRoomUser does to the room, which is gone or goes on, and to the
\* others.
Smaller(r, u) ==
  \/ rooms' = rooms \ {r} /\ Members(r) \ {u} = {}
  \/ /\ rooms' = rooms
     /\ Len(roomUsers'[r]) = Len(roomUsers[r]) - 1
     /\ maxPlayers'[r] = maxPlayers[r]
     /\ roomState'[r] = IF MatchEnds(r, u) THEN "Waiting" ELSE roomState[r]
     /\ roomHost[r] # u => roomHost'[r] = roomHost[r]

LEMMA LeavingFacts ==
  ASSUME Inv, NEW u \in User, NEW r \in rooms, currentRoom[u] = r,
         NEW left \in {"InLobby", "Offline"}, RemoveRoomUser(r, u, left)
  PROVE  /\ r \in RoomID
         /\ status' = [status EXCEPT ![u] = left]
         /\ currentRoom' = [currentRoom EXCEPT ![u] = NoRoom]
         /\ ToSet(roomUsers'[r]) = Members(r) \ {u}
         /\ \A q \in RoomID \ {r} : InsideInfo(q)' = InsideInfo(q) /\ RoomInfo(q)' = RoomInfo(q)
         /\ Smaller(r, u)
<1> DEFINE users == RemoveFirst(roomUsers[r], u)
<1>1. /\ r \in RoomID /\ roomUsers \in [RoomID -> Seq(User)]
      /\ roomHost \in [RoomID -> User \union {NoUser}]
      /\ roomState \in [RoomID -> RoomState] /\ maxPlayers \in [RoomID -> 0 .. 255]
  BY DEF Inv, TypeOK
<1>2. IsInjective(roomUsers[r]) /\ u \in Members(r)
  BY <1>1 DEF Inv, RoomMembership
<1>3. users \in Seq(User) /\ ToSet(users) = Members(r) \ {u}
  BY <1>1, <1>2, RemoveFirstProperties DEF Members
<1>4. Len(users) = Len(roomUsers[r]) - 1
  BY <1>1, <1>2, RemoveFirstLength DEF Members
<1>5. status' = [status EXCEPT ![u] = left] /\ currentRoom' = [currentRoom EXCEPT ![u] = NoRoom]
  BY DEF RemoveRoomUser
<1>6. \/ /\ users = <<>>
         /\ rooms' = rooms \ {r}
         /\ roomUsers' = [roomUsers EXCEPT ![r] = <<>>]
         /\ roomHost' = [roomHost EXCEPT ![r] = NoUser]
         /\ roomState' = [roomState EXCEPT ![r] = "Waiting"]
         /\ maxPlayers' = [maxPlayers EXCEPT ![r] = 0]
      \/ /\ users # <<>>
         /\ roomUsers' = [roomUsers EXCEPT ![r] = users]
         /\ \/ roomHost' = roomHost
            \/ roomHost[r] = u /\ \E h : roomHost' = [roomHost EXCEPT ![r] = h]
         /\ roomState' = [roomState EXCEPT ![r] = IF MatchEnds(r, u) THEN "Waiting" ELSE @]
         /\ UNCHANGED <<rooms, maxPlayers>>
  <2> HIDE DEF users
  <2> DEFINE heir == IF r \in matches /\ PlayersWithout(r, u) # <<>>
                     THEN Head(PlayersWithout(r, u)) ELSE Head(users)
  <2>1. roomHost' = [roomHost EXCEPT ![r] = IF @ = u THEN heir ELSE @]
          => \/ roomHost' = roomHost
             \/ roomHost[r] = u /\ \E h : roomHost' = [roomHost EXCEPT ![r] = h]
    <3> HIDE DEF heir
    <3> QED BY <1>1
  <2> QED BY <2>1, Zenon DEF RemoveRoomUser, users
<1> HIDE DEF users
<1>7. CASE users = <<>>
  <2>1. ToSet(<<>>) = {}
    BY EmptyProperties
  <2>2. /\ rooms' = rooms \ {r}
        /\ roomUsers' = [roomUsers EXCEPT ![r] = <<>>]
        /\ roomHost' = [roomHost EXCEPT ![r] = NoUser]
        /\ roomState' = [roomState EXCEPT ![r] = "Waiting"]
        /\ maxPlayers' = [maxPlayers EXCEPT ![r] = 0]
    BY <1>6, <1>7
  <2>3. roomUsers'[r] = users
    BY <1>1, <1>7, <2>2
  <2>4. ASSUME NEW q \in RoomID \ {r}
        PROVE  InsideInfo(q)' = InsideInfo(q) /\ RoomInfo(q)' = RoomInfo(q)
    <3>1. /\ roomUsers'[q] = roomUsers[q] /\ roomHost'[q] = roomHost[q]
          /\ roomState'[q] = roomState[q] /\ maxPlayers'[q] = maxPlayers[q]
      BY <1>1, <2>2
    <3> QED BY <3>1 DEF RoomInfo, InsideInfo, Members
  <2> QED BY <1>1, <1>3, <1>5, <1>7, <2>1, <2>2, <2>3, <2>4 DEF Smaller
<1>8. CASE users # <<>>
  <2>1. /\ roomUsers' = [roomUsers EXCEPT ![r] = users]
        /\ \/ roomHost' = roomHost
           \/ roomHost[r] = u /\ \E h : roomHost' = [roomHost EXCEPT ![r] = h]
        /\ roomState' = [roomState EXCEPT ![r] = IF MatchEnds(r, u) THEN "Waiting" ELSE @]
        /\ rooms' = rooms /\ maxPlayers' = maxPlayers
    BY <1>6, <1>8
  <2>2. /\ roomUsers'[r] = users
        /\ roomState'[r] = IF MatchEnds(r, u) THEN "Waiting" ELSE roomState[r]
        /\ roomHost[r] # u => roomHost'[r] = roomHost[r]
    BY <1>1, <2>1
  <2>3. ASSUME NEW q \in RoomID \ {r}
        PROVE  InsideInfo(q)' = InsideInfo(q) /\ RoomInfo(q)' = RoomInfo(q)
    <3>1. /\ roomUsers'[q] = roomUsers[q] /\ roomHost'[q] = roomHost[q]
          /\ roomState'[q] = roomState[q] /\ maxPlayers'[q] = maxPlayers[q]
      BY <1>1, <2>1
    <3> QED BY <3>1 DEF RoomInfo, InsideInfo, Members
  <2> QED BY <1>1, <1>3, <1>4, <1>5, <2>1, <2>2, <2>3 DEF Smaller
<1> QED BY <1>7, <1>8

LEMMA LeavingInside ==
  ASSUME Inv, roomView \in [User -> RoomView], MembersSeeRoom, Inv',
         NEW u \in User, NEW r \in rooms, currentRoom[u] = r,
         NEW left \in {"InLobby", "Offline"}, RemoveRoomUser(r, u, left), ShowLeaving(r, u)
  PROVE  roomView' \in [User -> RoomView] /\ MembersSeeRoom'
<1> DEFINE Change(view) ==
             [view EXCEPT !.members = @ \ {u},
                          !.host = IF roomHost[r] = u THEN roomHost'[r] ELSE @,
                          !.state = IF MatchEnds(r, u) THEN "Waiting" ELSE @]
           told == Tell(roomView, ToSet(roomUsers'[r]), LAMBDA view : Change(view))
<1>1. roomView' = [told EXCEPT ![u] = Outside]
  BY Zenon DEF ShowLeaving
<1>2. \A v \in User : told[v] = IF v \in ToSet(roomUsers'[r]) THEN Change(roomView[v]) ELSE roomView[v]
  BY DEF Tell
<1>3. /\ r \in RoomID
      /\ status' = [status EXCEPT ![u] = left]
      /\ currentRoom' = [currentRoom EXCEPT ![u] = NoRoom]
      /\ ToSet(roomUsers'[r]) = Members(r) \ {u}
      /\ \A q \in RoomID \ {r} : InsideInfo(q)' = InsideInfo(q)
      /\ \/ rooms' = rooms \ {r} /\ Members(r) \ {u} = {}
         \/ /\ maxPlayers'[r] = maxPlayers[r]
            /\ roomState'[r] = IF MatchEnds(r, u) THEN "Waiting" ELSE roomState[r]
            /\ roomHost[r] # u => roomHost'[r] = roomHost[r]
  <2>1. /\ r \in RoomID
        /\ status' = [status EXCEPT ![u] = left]
        /\ currentRoom' = [currentRoom EXCEPT ![u] = NoRoom]
        /\ ToSet(roomUsers'[r]) = Members(r) \ {u}
        /\ \A q \in RoomID \ {r} : InsideInfo(q)' = InsideInfo(q) /\ RoomInfo(q)' = RoomInfo(q)
        /\ Smaller(r, u)
    BY LeavingFacts
  <2> QED BY <2>1 DEF Smaller
<1>4. /\ status \in [User -> Status] /\ currentRoom \in [User -> RoomID \union {NoRoom}]
      /\ roomHost'[r] \in User \union {NoUser}
  BY <1>3 DEF Inv, TypeOK
<1>5. \A view \in RoomView :
        /\ Change(view) \in RoomView
        /\ Change(view).members = view.members \ {u}
        /\ Change(view).host = IF roomHost[r] = u THEN roomHost'[r] ELSE view.host
        /\ Change(view).max = view.max
        /\ Change(view).state = IF MatchEnds(r, u) THEN "Waiting" ELSE view.state
  <2> TAKE view \in RoomView
  <2> PICK host : host = IF roomHost[r] = u THEN roomHost'[r] ELSE view.host
    OBVIOUS
  <2> PICK state : state = IF MatchEnds(r, u) THEN "Waiting" ELSE view.state
    OBVIOUS
  <2>1. host \in User \union {NoUser} /\ state \in RoomState
    BY <1>4 DEF RoomView, RoomState
  <2>2. Change(view) = [view EXCEPT !.members = @ \ {u}, !.host = host, !.state = state]
    OBVIOUS
  <2> HIDE DEF Change
  <2> PICK new : new = Change(view)
    OBVIOUS
  <2> PICK members : members = view.members \ {u}
    OBVIOUS
  <2>3. new = [view EXCEPT !.members = members, !.host = host, !.state = state]
    BY <2>2
  <2>4. members \in SUBSET User
    BY DEF RoomView
  <2>5. new \in RoomView
    BY <2>1, <2>3, <2>4 DEF RoomView
  <2>6. new.members = members /\ new.host = host
    BY <2>3 DEF RoomView
  <2>7. new.max = view.max /\ new.state = state
    BY <2>3 DEF RoomView
  <2> QED BY <2>5, <2>6, <2>7
<1>6. \A v \in User : v # u => roomView'[v] = told[v]
  <2> HIDE DEF told
  <2>1. told = [v \in User |-> told[v]]
    BY DEF told, Tell
  <2> QED BY <1>1, <2>1
<1>7. roomView' \in [User -> RoomView]
  <2>1. told \in [User -> RoomView]
    <3>1. told = [v \in User |-> told[v]]
      BY DEF Tell
    <3>2. \A v \in User : told[v] \in RoomView
      <4> HIDE DEF told, Change
      <4> QED BY <1>2, <1>5
    <3> HIDE DEF told
    <3> QED BY <3>1, <3>2
  <2> HIDE DEF told
  <2> QED BY <1>1, <2>1, OutsideIsView
<1> HIDE DEF Change, told
<1>8. ASSUME NEW v \in User, InARoom(v)'
      PROVE  \/ currentRoom'[v] = r /\ roomView'[v] = InsideInfo(r)'
             \/ /\ InARoom(v) /\ currentRoom'[v] = currentRoom[v] /\ currentRoom[v] # r
                /\ roomView'[v] = roomView[v]
  <2>1. v # u /\ status'[v] = status[v] /\ currentRoom'[v] = currentRoom[v]
    BY <1>3, <1>4, <1>8 DEF InARoom
  <2>2. InARoom(v)
    BY <1>8, <2>1 DEF InARoom
  <2>3. v \in Members(r) <=> currentRoom[v] = r
    BY <1>3 DEF Inv, RoomMembership
  <2>4. CASE currentRoom[v] # r
    <3>1. v \notin ToSet(roomUsers'[r])
      BY <1>3, <2>3, <2>4
    <3> QED BY <1>2, <1>6, <2>1, <2>2, <2>4, <3>1
  <2>5. CASE currentRoom[v] = r
    <3>1. v \in ToSet(roomUsers'[r]) /\ Members(r) \ {u} # {}
      BY <1>3, <2>1, <2>3, <2>5
    <3>2. roomView[v] = InsideInfo(r) /\ roomView[v] \in RoomView
      BY <2>2, <2>5 DEF MembersSeeRoom
    <3>3. roomView'[v] = Change(roomView[v]) /\ roomView'[v] \in RoomView
      BY <1>2, <1>5, <1>6, <2>1, <3>1, <3>2
    <3>4. /\ roomView[v].members = Members(r) /\ roomView[v].host = roomHost[r]
          /\ roomView[v].max = maxPlayers[r] /\ roomView[v].state = roomState[r]
      BY <3>2 DEF InsideInfo
    <3>5. /\ roomView'[v].members = ToSet(roomUsers'[r]) /\ roomView'[v].host = roomHost'[r]
          /\ roomView'[v].max = maxPlayers'[r] /\ roomView'[v].state = roomState'[r]
      BY <1>3, <1>5, <3>1, <3>2, <3>3, <3>4
    <3>6. roomView'[v] = [members |-> ToSet(roomUsers'[r]), host |-> roomHost'[r],
                          max |-> maxPlayers'[r], state |-> roomState'[r]]
      BY <3>3, <3>5 DEF RoomView
    <3> QED BY <2>1, <2>5, <3>6 DEF InsideInfo, Members
  <2> QED BY <2>4, <2>5
<1>9. MembersSeeRoom'
  BY <1>3, <1>8, InsideChanges
<1> QED BY <1>7, <1>9

-----------------------------------------------------------------------------
(* The rooms a client in the lobby lists.                                  *)

LEMMA RoomInfosAreEntries == TypeOK => RoomInfos \in SUBSET Entry
BY InfosAreEntries DEF TypeOK, RoomInfos, Infos

LEMMA RoomInfosStayEntries == TypeOK' => RoomInfos' \in SUBSET Entry
<1>1. TypeOK' => (RoomInfos \in SUBSET Entry)'
  BY RoomInfosAreEntries, PTL
<1> QED BY <1>1

\* The rooms as they are after the step.
Fresh(h) == \A q \in rooms' : h[q] = RoomInfo(q)'

\* Whoever stays in the lobby has been told the difference, and whoever comes
\* gets the full list.
LEMMA ListsAfter ==
  ASSUME NEW next, NEW st, NEW h, Shows(next, st, rooms', h), Fresh(h),
         \A v \in User : status'[v] = "InLobby" =>
           \/ roomList'[v] = RoomInfos'
           \/ st[v] = "InLobby" /\ roomList'[v] = next[v]
  PROVE  LobbySeesRooms'
<1>1. RoomInfos' = {RoomInfo(q)' : q \in rooms'}
  BY DEF RoomInfos
<1>2. RoomInfos' = {h[q] : q \in rooms'}
  BY <1>1 DEF Fresh
<1>3. ASSUME NEW v \in User, status'[v] = "InLobby"
      PROVE  roomList'[v] = RoomInfos'
  <2>1. CASE st[v] = "InLobby" /\ roomList'[v] = next[v]
    BY <1>2, <2>1 DEF Shows, Lobby
  <2> QED BY <1>3, <2>1
<1> QED BY <1>3 DEF LobbySeesRooms, Lobby

LEMMA LeavingRooms ==
  ASSUME Inv, Inv', roomList \in [User -> SUBSET Entry],
         NEW u \in User, NEW r \in rooms, currentRoom[u] = r,
         NEW left \in {"InLobby", "Offline"}, RemoveRoomUser(r, u, left), ShowLeaving(r, u)
  PROVE  /\ roomList' \in [User -> SUBSET Entry]
         /\ LobbySeesRooms => LobbySeesRooms'
<1> DEFINE n == Len(roomUsers[r]) - 1
           counted == TellPlayers(roomList, status, r, n)
           next == IF r \notin rooms' THEN TellRoomGone(counted, status, r)
                   ELSE IF MatchEnds(r, u) THEN TellState(counted, status, r, "Waiting")
                   ELSE counted
           seen == IF status'[u] = "InLobby" THEN RoomInfos' ELSE {}
<1>1. roomList' = [next EXCEPT ![u] = seen]
  BY Zenon DEF ShowLeaving
<1>2. /\ r \in RoomID
      /\ status' = [status EXCEPT ![u] = left]
      /\ currentRoom' = [currentRoom EXCEPT ![u] = NoRoom]
      /\ ToSet(roomUsers'[r]) = Members(r) \ {u}
      /\ \A q \in RoomID \ {r} : InsideInfo(q)' = InsideInfo(q) /\ RoomInfo(q)' = RoomInfo(q)
      /\ Smaller(r, u)
  BY LeavingFacts
<1>3. TypeOK /\ TypeOK' /\ rooms \in SUBSET RoomID /\ rooms' \in SUBSET RoomID
  BY DEF Inv, TypeOK
<1>4. n \in Nat
  <2>1. roomUsers[r] \in Seq(User) /\ u \in ToSet(roomUsers[r])
    BY <1>2, <1>3 DEF TypeOK, Inv, RoomMembership, Members
  <2> QED BY <2>1 DEF ToSet
<1>5. counted \in [User -> SUBSET Entry]
  <2> HIDE DEF n
  <2> QED BY <1>2, <1>4, PlayersTold
<1>6. "Waiting" \in RoomState
  BY DEF RoomState
<1>7. next \in [User -> SUBSET Entry]
  <2> HIDE DEF counted
  <2>1. TellRoomGone(counted, status, r) \in [User -> SUBSET Entry]
    BY <1>2, <1>5, GoneTold
  <2>2. TellState(counted, status, r, "Waiting") \in [User -> SUBSET Entry]
    BY <1>2, <1>5, <1>6, StateTold
  <2> QED BY <1>5, <2>1, <2>2
<1>8. seen \in SUBSET Entry
  BY <1>3, RoomInfosStayEntries
<1>9. roomList' \in [User -> SUBSET Entry]
  <2> HIDE DEF next, seen
  <2> QED BY <1>1, <1>7, <1>8
<1>10. ASSUME LobbySeesRooms
       PROVE  LobbySeesRooms'
  <2> DEFINE x == [Current[r] EXCEPT !.players = n]
             g == [Current EXCEPT ![r] = x]
             y == [g[r] EXCEPT !.state = "Waiting"]
             h == [g EXCEPT ![r] = y]
  <2>1. Current \in Listings /\ Shows(roomList, status, rooms, Current)
    BY <1>3, <1>10, CurrentIsListing, LobbyShows
  <2>2. g \in Listings /\ Shows(counted, status, rooms, g)
    <3> HIDE DEF n, x
    <3>1. x = [Current[r] EXCEPT !.players = n]
      BY DEF x
    <3> QED BY <1>2, <1>3, <1>4, <2>1, <3>1, PlayersShown
  <2>3. \A q \in RoomID \ {r} : g[q] = RoomInfo(q)'
    BY <1>2, <2>1 DEF Current
  <2>4. x = [id |-> r, players |-> n, max |-> maxPlayers[r], state |-> roomState[r]]
    BY <1>2 DEF Current, RoomInfo
  <2>5. g[r] = x
    <3> HIDE DEF x
    <3> QED BY <1>2, <2>1 DEF Listings
  <2>6. Smaller(r, u) => \/ rooms' = rooms \ {r}
                         \/ /\ rooms' = rooms
                            /\ RoomInfo(r)' = [id |-> r, players |-> n, max |-> maxPlayers[r],
                                 state |-> IF MatchEnds(r, u) THEN "Waiting" ELSE roomState[r]]
    BY DEF Smaller, RoomInfo
  <2> HIDE DEF x, g, y, h, n, counted
  <2>7. \E k : Shows(next, status, rooms', k) /\ Fresh(k)
    <3>1. CASE rooms' = rooms \ {r}
      <4>1. next = TellRoomGone(counted, status, r)
        BY <3>1
      <4>2. Shows(next, status, rooms \ {r}, g)
        <5> HIDE DEF next
        <5> QED BY <1>2, <1>3, <1>5, <2>2, <4>1, GoneShown
      <4>3. Fresh(g)
        BY <1>3, <2>3, <3>1 DEF Fresh
      <4> HIDE DEF next
      <4> QED BY <3>1, <4>2, <4>3
    <3>2. CASE rooms' = rooms /\ ~ MatchEnds(r, u)
      <4>1. next = counted
        BY <3>2
      <4>2. g[r] = RoomInfo(r)'
        BY <1>2, <2>4, <2>5, <2>6, <3>2
      <4>3. Fresh(g)
        BY <1>3, <2>3, <4>2 DEF Fresh
      <4> HIDE DEF next
      <4> QED BY <2>2, <3>2, <4>1, <4>3
    <3>3. CASE rooms' = rooms /\ MatchEnds(r, u)
      <4>1. next = TellState(counted, status, r, "Waiting")
        BY <3>3
      <4>2. h \in Listings /\ Shows(next, status, rooms, h)
        <5> HIDE DEF next
        <5>1. y = [g[r] EXCEPT !.state = "Waiting"]
          BY DEF y
        <5>2. Shows(TellState(counted, status, r, "Waiting"), status, rooms, [g EXCEPT ![r] = y])
          BY <1>2, <1>3, <1>5, <1>6, <2>2, <5>1, StateShown
        <5>3. [g EXCEPT ![r] = y] \in Listings
          BY <1>2, <1>3, <1>5, <1>6, <2>2, <5>1, StateShown
        <5> QED BY <4>1, <5>2, <5>3 DEF h
      <4>3. /\ h[r] = y
            /\ \A q \in RoomID \ {r} : h[q] = g[q]
        BY <1>2, <2>2 DEF h, Listings
      <4>4. h[r] = RoomInfo(r)'
        BY <1>2, <2>4, <2>5, <2>6, <3>3, <4>3 DEF y
      <4>5. Fresh(h)
        BY <1>3, <2>3, <4>3, <4>4 DEF Fresh
      <4> HIDE DEF next
      <4> QED BY <3>3, <4>2, <4>5
    <3> QED BY <1>2, <2>6, <3>1, <3>2, <3>3
  <2>8. PICK k : Shows(next, status, rooms', k) /\ Fresh(k)
    BY <2>7
  <2>9. \A v \in User : status'[v] = "InLobby" =>
           \/ roomList'[v] = RoomInfos'
           \/ status[v] = "InLobby" /\ roomList'[v] = next[v]
    <3> HIDE DEF next, seen
    <3>1. \A v \in User : roomList'[v] = IF v = u THEN seen ELSE next[v]
      BY <1>1, <1>7
    <3>2. status'[u] = "InLobby" => seen = RoomInfos'
      BY DEF seen
    <3>3. \A v \in User : v # u => status'[v] = status[v]
      BY <1>2, <1>3 DEF TypeOK
    <3> QED BY <3>1, <3>2, <3>3
  <2> HIDE DEF next
  <2> QED BY <2>8, <2>9, ListsAfter
<1> QED BY <1>9, <1>10

-----------------------------------------------------------------------------
(* The handlers.                                                           *)

Shape ==
  /\ userList \in [User -> SUBSET User]
  /\ roomList \in [User -> SUBSET Entry]
  /\ roomView \in [User -> RoomView]

Told == Inv /\ Shape /\ LobbySeesUsers /\ MembersSeeRoom

StillTold ==
  /\ Shape'
  /\ LobbySeesUsers'
  /\ MembersSeeRoom'
  /\ ClientsKeepState /\ LobbySeesRooms => LobbySeesRooms'

LEMMA ToldTypes ==
  ASSUME Told
  PROVE  /\ Inv /\ TypeOK /\ ViewsTypeOK /\ UsersShape /\ LobbySeesUsers /\ MembersSeeRoom
         /\ status \in [User -> Status] /\ currentRoom \in [User -> RoomID \union {NoRoom}]
         /\ userList \in [User -> SUBSET User]
         /\ roomList \in [User -> SUBSET Entry]
         /\ roomView \in [User -> RoomView]
BY DEF Told, Shape, Inv, TypeOK, ViewsTypeOK, UsersShape

LEMMA RoomsStay ==
  ASSUME UNCHANGED roomVars
  PROVE  /\ RoomInfos' = RoomInfos
         /\ \A q : InsideInfo(q)' = InsideInfo(q)
BY DEF roomVars, RoomInfos, RoomInfo, InsideInfo, Members

\* The lists of rooms after a step that changes no room.
LEMMA ListsStay ==
  ASSUME LobbySeesRooms, RoomInfos' = RoomInfos,
         \A v \in User : status'[v] = "InLobby" =>
           \/ roomList'[v] = RoomInfos
           \/ status[v] = "InLobby" /\ roomList'[v] = roomList[v]
  PROVE  LobbySeesRooms'
BY DEF LobbySeesRooms, Lobby

\* Nobody enters or leaves the lobby or a room, and nothing is sent.
LEMMA QuietStep ==
  ASSUME Told, Inv', UNCHANGED <<currentRoom, roomVars, viewVars>>,
         \A v \in User : status'[v] = "InLobby" <=> status[v] = "InLobby",
         \A v \in User : InARoom(v)' => InARoom(v)
  PROVE  StillTold
<1> USE ToldTypes
<1>1. Shape'
  BY DEF viewVars, Shape
<1>2. status' \in [User -> Status]
  BY DEF Inv, TypeOK
<1>3. LobbySeesUsers'
  BY <1>2, UsersStay DEF viewVars
<1>4. MembersSeeRoom'
  <2>1. \A q \in RoomID : InsideInfo(q)' = InsideInfo(q)
    BY RoomsStay
  <2>2. \A v \in User : InARoom(v)' =>
          InARoom(v) /\ currentRoom'[v] = currentRoom[v] /\ roomView'[v] = roomView[v]
    BY DEF viewVars
  <2> QED BY <2>1, <2>2, InsideStays
<1>5. LobbySeesRooms => LobbySeesRooms'
  <2>1. \A v \in User : status'[v] = "InLobby" =>
          status[v] = "InLobby" /\ roomList'[v] = roomList[v]
    BY DEF viewVars
  <2>2. RoomInfos' = RoomInfos
    BY RoomsStay
  <2> QED BY <2>1, <2>2, ListsStay
<1> QED BY <1>1, <1>3, <1>4, <1>5 DEF StillTold

\* Somebody who is in no room comes to the lobby.
LEMMA LobbyStep ==
  ASSUME Told, Inv', NEW u \in User, status' = [status EXCEPT ![u] = "InLobby"],
         UNCHANGED <<currentRoom, roomVars>>, ShowLobby(u)
  PROVE  StillTold
<1> USE ToldTypes
<1>1. UsersShape' /\ LobbySeesUsers'
  BY UserArrives DEF ShowLobby
<1>2. RoomInfos \in SUBSET Entry
  BY RoomInfosAreEntries
<1>3. Shape'
  BY <1>1, <1>2 DEF ShowLobby, Shape, UsersShape
<1>4. MembersSeeRoom'
  <2>1. \A q \in RoomID : InsideInfo(q)' = InsideInfo(q)
    BY RoomsStay
  <2>2. \A v \in User : InARoom(v)' =>
          InARoom(v) /\ currentRoom'[v] = currentRoom[v] /\ roomView'[v] = roomView[v]
    BY DEF ShowLobby, InARoom
  <2> QED BY <2>1, <2>2, InsideStays
<1>5. LobbySeesRooms => LobbySeesRooms'
  <2>1. \A v \in User : status'[v] = "InLobby" =>
          \/ roomList'[v] = RoomInfos
          \/ status[v] = "InLobby" /\ roomList'[v] = roomList[v]
    BY DEF ShowLobby
  <2>2. RoomInfos' = RoomInfos
    BY RoomsStay
  <2> QED BY <2>1, <2>2, ListsStay
<1> QED BY <1>1, <1>3, <1>4, <1>5 DEF StillTold, UsersShape

LEMMA LogInTold ==
  ASSUME Told, Inv', NEW u \in User, ViewLogIn(u)
  PROVE  StillTold
<1> USE ToldTypes
<1>1. PICK s \in {"InLogin", "InServerList", "InLobby"} : status' = [status EXCEPT ![u] = s]
  BY DEF ViewLogIn, LogIn
<1>2. status[u] = "Offline" /\ UNCHANGED <<currentRoom, roomVars>>
  BY DEF ViewLogIn, LogIn
<1>3. CASE s = "InLobby"
  BY <1>1, <1>2, <1>3, LobbyStep DEF ViewLogIn
<1>4. CASE s # "InLobby"
  <2>1. UNCHANGED viewVars
    BY <1>1, <1>4 DEF ViewLogIn
  <2> QED BY <1>1, <1>2, <1>4, <2>1, QuietStep DEF InARoom
<1> QED BY <1>3, <1>4

LEMMA EnterLobbyTold ==
  ASSUME Told, Inv', NEW u \in User, ViewEnterLobby(u)
  PROVE  StillTold
BY ToldTypes, LobbyStep DEF ViewEnterLobby, EnterLobby

LEMMA CreateCharacterTold ==
  ASSUME Told, Inv', NEW u \in User, ViewCreateCharacter(u)
  PROVE  StillTold
BY ToldTypes, QuietStep DEF ViewCreateCharacter, CreateCharacter, InARoom

LEMMA SaveDataTold ==
  ASSUME Told, Inv', NEW u \in User, NEW r \in RoomID, ViewSaveData(u, r)
  PROVE  StillTold
BY ToldTypes, QuietStep DEF ViewSaveData, SaveData, InARoom, userVars

LEMMA SendUserStatusTold ==
  ASSUME Told, Inv', NEW u \in User, NEW v \in User, NEW r \in RoomID, ViewSendUserStatus(u, r, v)
  PROVE  StillTold
BY ToldTypes, QuietStep DEF ViewSendUserStatus, SendUserStatus, InARoom, viewVars

\* Somebody who is in no room goes, or is deleted.
LEMMA GoingStep ==
  ASSUME Told, Inv', NEW u \in User, NEW s \in {"Offline", "InServerList"}, ~ InARoom(u),
         status' = [status EXCEPT ![u] = s], NEW st \in {status, status'},
         UNCHANGED roomVars, \A v \in User \ {u} : currentRoom'[v] = currentRoom[v],
         userList' = [TellDeparture(userList, st, u) EXCEPT ![u] = {}],
         roomList' = [roomList EXCEPT ![u] = {}], UNCHANGED roomView
  PROVE  StillTold
<1> USE ToldTypes
<1>1. s \in Status /\ s # "InLobby"
  BY DEF Status
<1>2. st \in [User -> Status] /\ \A v \in User \ {u} : st[v] = status[v]
  BY <1>1
<1>3. UsersShape' /\ LobbySeesUsers'
  BY <1>1, <1>2, UserGoes
<1>4. Shape'
  BY <1>3 DEF Shape, UsersShape
<1>5. \A v \in User : v # u => status'[v] = status[v]
  OBVIOUS
<1>6. MembersSeeRoom'
  <2>1. \A q \in RoomID : InsideInfo(q)' = InsideInfo(q)
    BY RoomsStay
  <2>2. \A v \in User : InARoom(v)' =>
          InARoom(v) /\ currentRoom'[v] = currentRoom[v] /\ roomView'[v] = roomView[v]
    BY DEF InARoom
  <2> QED BY <2>1, <2>2, InsideStays
<1>7. LobbySeesRooms => LobbySeesRooms'
  <2>1. \A v \in User : status'[v] = "InLobby" =>
          status[v] = "InLobby" /\ roomList'[v] = roomList[v]
    BY <1>1
  <2>2. RoomInfos' = RoomInfos
    BY RoomsStay
  <2> QED BY <2>1, <2>2, ListsStay
<1> QED BY <1>3, <1>4, <1>6, <1>7 DEF StillTold

LEMMA RequestServerListTold ==
  ASSUME Told, Inv', NEW u \in User, ViewRequestServerList(u)
  PROVE  StillTold
<1>1. /\ status[u] = "InLobby" /\ status' = [status EXCEPT ![u] = "InServerList"]
      /\ UNCHANGED roomVars /\ currentRoom' = currentRoom
  BY DEF ViewRequestServerList, RequestServerList
<1> DEFINE st == status'
<1>2. /\ userList' = [TellDeparture(userList, st, u) EXCEPT ![u] = {}]
      /\ roomList' = [roomList EXCEPT ![u] = {}]
      /\ UNCHANGED roomView
  BY DEF ViewRequestServerList
<1>3. st \in {status, status'}
  OBVIOUS
<1> HIDE DEF st
<1> QED BY <1>1, <1>2, <1>3, GoingStep DEF InARoom

LEMMA LeaveRoomTold ==
  ASSUME Told, Inv', NEW u \in User, ViewLeaveRoom(u)
  PROVE  StillTold
<1> USE ToldTypes
<1> PICK r : r = currentRoom[u]
  OBVIOUS
<1>1. r \in rooms /\ RemoveRoomUser(r, u, "InLobby") /\ ShowLeaving(r, u)
  BY DEF ViewLeaveRoom, LeaveRoom
<1>2. /\ status' = [status EXCEPT ![u] = "InLobby"]
      /\ userList' = [TellArrival(userList, status', u) EXCEPT ![u] = Lobby(status')]
  BY <1>1 DEF ViewLeaveRoom, RemoveRoomUser
<1>3. UsersShape' /\ LobbySeesUsers'
  BY <1>2, UserArrives
<1>4. roomView' \in [User -> RoomView] /\ MembersSeeRoom'
  BY <1>1, LeavingInside
<1>5. roomList' \in [User -> SUBSET Entry] /\ (LobbySeesRooms => LobbySeesRooms')
  BY <1>1, LeavingRooms
<1> QED BY <1>3, <1>4, <1>5 DEF StillTold, Shape, UsersShape

LEMMA DisconnectTold ==
  ASSUME Told, Inv', NEW u \in User, ViewDisconnect(u)
  PROVE  StillTold
<1> USE ToldTypes
<1> PICK r : r = currentRoom[u]
  OBVIOUS
<1>1. CASE r \in rooms
  <2>1. RemoveRoomUser(r, u, "Offline") /\ ShowLeaving(r, u) /\ userList' = userList
    BY <1>1 DEF ViewDisconnect, Disconnect
  <2>2. status' = [status EXCEPT ![u] = "Offline"]
    BY <2>1 DEF RemoveRoomUser
  <2>3. status[u] # "InLobby" /\ status' \in [User -> Status]
    <3>1. r # NoRoom
      BY <1>1 DEF TypeOK, NoRoom, RoomID
    <3>2. InARoom(u)
      BY <3>1 DEF Inv, RoomStatus
    <3> QED BY <3>2 DEF InARoom, Inv, TypeOK
  <2>4. \A v \in User : status'[v] = "InLobby" <=> status[v] = "InLobby"
    BY <2>2, <2>3
  <2>5. UsersShape' /\ LobbySeesUsers'
    BY <2>1, <2>3, <2>4, UsersStay
  <2>6. roomView' \in [User -> RoomView] /\ MembersSeeRoom'
    BY <1>1, <2>1, LeavingInside
  <2>7. roomList' \in [User -> SUBSET Entry] /\ (LobbySeesRooms => LobbySeesRooms')
    BY <1>1, <2>1, LeavingRooms
  <2> QED BY <2>5, <2>6, <2>7 DEF StillTold, Shape, UsersShape
<1>2. CASE r \notin rooms
  <2>1. ~ InARoom(u)
    BY <1>2 DEF Inv, RoomStatus
  <2>2. /\ status' = [status EXCEPT ![u] = "Offline"]
        /\ currentRoom' = [currentRoom EXCEPT ![u] = NoRoom]
        /\ UNCHANGED roomVars
    BY <1>2 DEF ViewDisconnect, Disconnect
  <2>3. /\ userList' = [IF status[u] = "InLobby" THEN TellDeparture(userList, status, u)
                        ELSE userList EXCEPT ![u] = {}]
        /\ roomList' = [roomList EXCEPT ![u] = {}]
        /\ UNCHANGED roomView
    BY <1>2, Zenon DEF ViewDisconnect
  <2>4. \A v \in User \ {u} : currentRoom'[v] = currentRoom[v]
    BY <2>2
  <2>5. CASE status[u] = "InLobby"
    <3> PICK st : st = status
      OBVIOUS
    <3>1. userList' = [TellDeparture(userList, st, u) EXCEPT ![u] = {}]
      BY <2>3, <2>5
    <3> QED BY <2>1, <2>2, <2>3, <2>4, <3>1, GoingStep
  <2>6. CASE status[u] # "InLobby"
    <3>1. userList' = [userList EXCEPT ![u] = {}]
      BY <2>3, <2>6
    <3>2. status' \in [User -> Status]
      BY DEF Inv, TypeOK
    <3>3. \A v \in User : status'[v] = "InLobby" <=> status[v] = "InLobby"
      BY <2>2, <2>6
    <3>4. \A v \in User : status[v] = "InLobby" => userList'[v] = userList[v]
      BY <2>6, <3>1
    <3>5. UsersShape' /\ LobbySeesUsers'
      <4>1. userList' \in [User -> SUBSET User]
        BY <3>1
      <4> QED BY <3>2, <3>3, <3>4, <4>1, UsersStay
    <3>6. Shape'
      BY <2>3, <3>5 DEF Shape, UsersShape
    <3>7. MembersSeeRoom'
      <4>1. \A q \in RoomID : InsideInfo(q)' = InsideInfo(q)
        BY <2>2, RoomsStay
      <4>2. \A v \in User : InARoom(v)' =>
              InARoom(v) /\ currentRoom'[v] = currentRoom[v] /\ roomView'[v] = roomView[v]
        BY <2>2, <2>3 DEF InARoom
      <4> QED BY <4>1, <4>2, InsideStays
    <3>8. LobbySeesRooms => LobbySeesRooms'
      <4>1. \A v \in User : status'[v] = "InLobby" =>
              status[v] = "InLobby" /\ roomList'[v] = roomList[v]
        BY <2>2, <2>3, <2>6
      <4>2. RoomInfos' = RoomInfos
        BY <2>2, RoomsStay
      <4> QED BY <4>1, <4>2, ListsStay
    <3> QED BY <3>5, <3>6, <3>7, <3>8 DEF StillTold
  <2> QED BY <2>5, <2>6
<1> QED BY <1>1, <1>2

\* Rooms are destroyed; listed are those the full lists still show.
LEMMA DestructionStep ==
  ASSUME Told, Inv', NEW gone \in SUBSET rooms, DestroyRooms(gone),
         NEW order \in SetToSeqs(gone), NEW listed \in SUBSET rooms, rooms \ gone \subseteq listed,
         ShowDestruction(order, listed)
  PROVE  StillTold
<1> USE ToldTypes
<1>1. /\ userList' \in [User -> SUBSET User] /\ roomList' \in [User -> SUBSET Entry]
      /\ LobbySeesUsers'
      /\ LobbySeesRooms => LobbySeesRooms'
  BY DestructionShown
<1> DEFINE c == Destruction(order, listed).st
<1>2. roomView' = [u \in User |-> IF c[u] = "InLobby" THEN Outside ELSE roomView[u]]
  BY Zenon DEF ShowDestruction
<1>3. \A v \in User : c[v] = status'[v]
  <2>1. order \in Seq(RoomID) /\ ToSet(order) = gone
    <3>1. gone \in SUBSET RoomID
      BY DEF TypeOK
    <3> QED BY <3>1, OrderOfAll
  <2>2. Destroyed(Destruction(order, listed), Channel, gone, listed)
    BY <2>1, DestructionEffect
  <2>3. \A v \in User : c[v] = IF \E r \in gone : v \in Members(r) THEN "InLobby" ELSE Channel.st[v]
    BY <2>2 DEF Destroyed
  <2>4. Channel.st = status
    BY DEF Channel
  <2> HIDE DEF c
  <2> QED BY <2>3, <2>4, DestroyedFacts
<1> HIDE DEF c
<1>4. roomView' \in [User -> RoomView] /\ MembersSeeRoom'
  BY <1>2, <1>3, DestructionInside
<1> QED BY <1>1, <1>4 DEF StillTold, Shape

LEMMA RemoveAllRoomsTold ==
  ASSUME Told, Inv', ViewRemoveAllRooms
  PROVE  StillTold
<1>1. DestroyRooms(rooms)
  BY DEF ViewRemoveAllRooms, RemoveAllRooms
<1>2. PICK order \in SetToSeqs(rooms) : ShowDestruction(order, {})
  BY DEF ViewRemoveAllRooms
<1> PICK gone : gone = rooms
  OBVIOUS
<1>3. /\ gone \in SUBSET rooms /\ DestroyRooms(gone) /\ order \in SetToSeqs(gone)
      /\ {} \in SUBSET rooms /\ rooms \ gone \subseteq {}
  BY <1>1, <1>2
<1> QED BY <1>2, <1>3, DestructionStep

LEMMA RestoreRowsTold ==
  ASSUME Told, Inv', ViewRestoreRows
  PROVE  StillTold
<1>1. PICK order \in SetToSeqs(rooms \ rooms') : ShowDestruction(order, rooms)
  BY DEF ViewRestoreRows
<1>2. PICK gone \in SUBSET rooms : DestroyRooms(gone)
  BY DEF ViewRestoreRows, RestoreRows, RestoreWith
<1>3. rooms \ rooms' = gone
  BY <1>2 DEF DestroyRooms
<1> PICK listed : listed = rooms
  OBVIOUS
<1>4. order \in SetToSeqs(gone) /\ listed \in SUBSET rooms /\ rooms \ gone \subseteq listed
  BY <1>1, <1>3
<1>5. ShowDestruction(order, listed)
  BY <1>1
<1> QED BY <1>2, <1>4, <1>5, DestructionStep

LEMMA EntriesAndViews ==
  TypeOK => \A q \in RoomID : RoomInfo(q) \in Entry /\ InsideInfo(q) \in RoomView
<1> SUFFICES ASSUME TypeOK, NEW q \in RoomID PROVE RoomInfo(q) \in Entry /\ InsideInfo(q) \in RoomView
  OBVIOUS
<1>1. RoomInfo(q) \in Entry
  BY CurrentIsListing DEF Current, Listings
<1> QED BY <1>1, InsideIsView

LEMMA EntriesAndViewsStay ==
  TypeOK' => \A q \in RoomID : RoomInfo(q)' \in Entry /\ InsideInfo(q)' \in RoomView
<1>1. TypeOK' => (\A q \in RoomID : RoomInfo(q) \in Entry /\ InsideInfo(q) \in RoomView)'
  BY EntriesAndViews, PTL
<1> QED BY <1>1

LEMMA CreateRoomTold ==
  ASSUME Told, Inv', NEW u \in User, ViewCreateRoom(u)
  PROVE  StillTold
<1> USE ToldTypes
<1>1. UsersShape' /\ LobbySeesUsers'
  BY CreateRoomUsers
<1>2. TypeOK' /\ NoRoom \notin RoomID
  BY DEF Inv, NoRoom, RoomID
<1>3. CASE rooms' = rooms
  <2>1. \A r \in RoomID : r \notin rooms => rooms' # rooms \union {r}
    BY <1>3
  <2>2. /\ status' = [status EXCEPT ![u] = "InLobby"]
        /\ currentRoom' = [currentRoom EXCEPT ![u] = NoRoom]
        /\ UNCHANGED roomVars
    BY <2>1, Zenon DEF ViewCreateRoom, CreateRoom, IsFreeRoomID
  <2>3. roomList' = [roomList EXCEPT ![u] = RoomInfos] /\ roomView' = roomView
    BY <2>1, Zenon DEF ViewCreateRoom
  <2>4. RoomInfos \in SUBSET Entry
    BY RoomInfosAreEntries
  <2>5. Shape'
    BY <1>1, <2>3, <2>4 DEF Shape, UsersShape
  <2>6. MembersSeeRoom'
    <3>1. \A q \in RoomID : InsideInfo(q)' = InsideInfo(q)
      BY <2>2, RoomsStay
    <3>2. \A v \in User : InARoom(v)' =>
            InARoom(v) /\ currentRoom'[v] = currentRoom[v] /\ roomView'[v] = roomView[v]
      BY <2>2, <2>3 DEF InARoom
    <3> QED BY <3>1, <3>2, InsideStays
  <2>7. LobbySeesRooms => LobbySeesRooms'
    <3>1. \A v \in User : status'[v] = "InLobby" =>
            \/ roomList'[v] = RoomInfos
            \/ status[v] = "InLobby" /\ roomList'[v] = roomList[v]
      BY <2>2, <2>3
    <3>2. RoomInfos' = RoomInfos
      BY <2>2, RoomsStay
    <3> QED BY <3>1, <3>2, ListsStay
  <2> QED BY <1>1, <2>5, <2>6, <2>7 DEF StillTold
<1>4. CASE rooms' # rooms
  <2>1. PICK r \in RoomID :
          /\ rooms' = rooms \union {r}
          /\ r \notin rooms
          /\ roomList' = [Tell(roomList, Lobby(status'), LAMBDA list : list \union {RoomInfo(r)'})
                          EXCEPT ![u] = {}]
          /\ roomView' = [roomView EXCEPT ![u] = InsideInfo(r)']
    BY <1>4, Zenon DEF ViewCreateRoom
  <2>2. PICK p \in RoomID, max \in Capacity :
          /\ p \notin rooms /\ rooms' = rooms \union {p}
          /\ roomUsers' = [roomUsers EXCEPT ![p] = <<u>>]
          /\ roomHost' = [roomHost EXCEPT ![p] = u]
          /\ maxPlayers' = [maxPlayers EXCEPT ![p] = max]
          /\ status' = [status EXCEPT ![u] = "InRoom"]
          /\ currentRoom' = [currentRoom EXCEPT ![u] = p]
          /\ roomState' = roomState
    BY <1>4, Zenon DEF ViewCreateRoom, CreateRoom, IsFreeRoomID, roomVars
  <2>3. p = r
    BY <2>1, <2>2
  <2>4. \A q \in RoomID \ {r} : InsideInfo(q)' = InsideInfo(q) /\ RoomInfo(q)' = RoomInfo(q)
    <3> TAKE q \in RoomID \ {r}
    <3>1. /\ roomUsers'[q] = roomUsers[q] /\ roomHost'[q] = roomHost[q]
          /\ roomState'[q] = roomState[q] /\ maxPlayers'[q] = maxPlayers[q]
      BY <2>2, <2>3 DEF TypeOK
    <3> QED BY <3>1 DEF InsideInfo, RoomInfo, Members
  <2>5. RoomInfo(r)' \in Entry /\ InsideInfo(r)' \in RoomView
    BY <1>2, EntriesAndViewsStay
  <2> PICK e : e = RoomInfo(r)'
    OBVIOUS
  <2>6. roomList' = [[v \in User |-> IF v \in Lobby(status') THEN roomList[v] \union {e} ELSE roomList[v]]
                     EXCEPT ![u] = {}]
    <3>1. roomList' = [[v \in User |-> IF v \in Lobby(status') THEN roomList[v] \union {RoomInfo(r)'}
                                       ELSE roomList[v]] EXCEPT ![u] = {}]
      BY <2>1, Zenon DEF Tell
    <3> QED BY <3>1
  <2>7. \A v \in User : roomList'[v] = IF v = u THEN {}
                                       ELSE IF status'[v] = "InLobby" THEN roomList[v] \union {e}
                                       ELSE roomList[v]
    BY <2>6 DEF Lobby
  <2>8. Shape'
    <3>1. roomView' \in [User -> RoomView]
      BY <2>1, <2>5
    <3>2. roomList' \in [User -> SUBSET Entry]
      <4>1. roomList' = [v \in User |-> roomList'[v]]
        BY <2>6
      <4>2. \A v \in User : roomList'[v] \in SUBSET Entry
        BY <2>5, <2>7
      <4> QED BY <4>1, <4>2
    <3> QED BY <1>1, <3>1, <3>2 DEF Shape, UsersShape
  <2>9. MembersSeeRoom'
    <3>1. ASSUME NEW v \in User, InARoom(v)'
          PROVE  \/ currentRoom'[v] = r /\ roomView'[v] = InsideInfo(r)'
                 \/ /\ InARoom(v) /\ currentRoom'[v] = currentRoom[v] /\ currentRoom[v] # r
                    /\ roomView'[v] = roomView[v]
      <4>1. CASE v = u
        BY <2>1, <2>2, <2>3, <4>1
      <4>2. CASE v # u
        <5>1. InARoom(v) /\ currentRoom'[v] = currentRoom[v]
          BY <2>2, <3>1, <4>2 DEF InARoom
        <5>2. currentRoom[v] \in rooms
          BY <5>1 DEF Inv, RoomStatus
        <5> QED BY <2>1, <4>2, <5>1, <5>2
      <4> QED BY <4>1, <4>2
    <3> QED BY <2>4, <3>1, InsideChanges
  <2>10. ASSUME LobbySeesRooms
         PROVE  LobbySeesRooms'
    <3>1. RoomInfos' = RoomInfos \union {e}
      <4>1. RoomInfos' = {RoomInfo(q)' : q \in rooms \union {r}}
        BY <2>1 DEF RoomInfos
      <4>2. \A q \in rooms : RoomInfo(q)' = RoomInfo(q)
        BY <2>1, <2>4 DEF TypeOK
      <4> QED BY <4>1, <4>2 DEF RoomInfos
    <3>2. ASSUME NEW v \in User, status'[v] = "InLobby"
          PROVE  roomList'[v] = RoomInfos'
      <4>1. v # u /\ status[v] = "InLobby"
        BY <2>2, <3>2
      <4>2. roomList[v] = RoomInfos
        BY <2>10, <4>1 DEF LobbySeesRooms, Lobby
      <4> QED BY <2>7, <3>1, <3>2, <4>1, <4>2
    <3> QED BY <3>2 DEF LobbySeesRooms, Lobby
  <2> QED BY <1>1, <2>8, <2>9, <2>10 DEF StillTold
<1> QED BY <1>3, <1>4

\* The packets change one room, for its users and in the lists.
LEMMA OneRoomStep ==
  ASSUME Told, Inv', NEW r \in rooms, rooms' = rooms,
         \A q \in RoomID \ {r} : InsideInfo(q)' = InsideInfo(q) /\ RoomInfo(q)' = RoomInfo(q),
         UNCHANGED <<currentRoom, userList>>,
         \A v \in User : status'[v] = "InLobby" <=> status[v] = "InLobby",
         \A v \in User : InARoom(v)' => InARoom(v),
         NEW view, \A v \in User : roomView[v] = InsideInfo(r) => view[v] = InsideInfo(r)',
         roomView' = [v \in User |-> IF v \in Members(r) THEN view[v] ELSE roomView[v]],
         roomList' \in [User -> SUBSET Entry],
         ClientsKeepState /\ LobbySeesRooms => LobbySeesRooms'
  PROVE  StillTold
<1> USE ToldTypes
<1>1. TypeOK' /\ r \in RoomID
  BY DEF Inv, TypeOK
<1>2. \A v \in User : v \in Members(r) <=> currentRoom[v] = r
  BY <1>1 DEF Inv, RoomMembership
<1>3. \A v \in User : currentRoom[v] = r => InARoom(v)
  <2>1. r # NoRoom
    BY <1>1 DEF NoRoom, RoomID
  <2> QED BY <2>1 DEF Inv, RoomStatus
<1>4. \A v \in Members(r) : v \in User => view[v] = InsideInfo(r)'
  BY <1>2, <1>3 DEF MembersSeeRoom
<1>5. Shape'
  <2>1. InsideInfo(r)' \in RoomView
    BY <1>1, EntriesAndViewsStay
  <2> PICK w : w = InsideInfo(r)'
    OBVIOUS
  <2>2. roomView' = [v \in User |-> IF v \in Members(r) THEN w ELSE roomView[v]]
    BY <1>4
  <2>3. roomView' \in [User -> RoomView]
    BY <2>1, <2>2
  <2> QED BY <2>3 DEF Shape
<1>6. status' \in [User -> Status]
  BY DEF Inv, TypeOK
<1>7. LobbySeesUsers'
  BY <1>6, UsersStay
<1>8. ASSUME NEW v \in User, InARoom(v)'
      PROVE  \/ currentRoom'[v] = r /\ roomView'[v] = InsideInfo(r)'
             \/ /\ InARoom(v) /\ currentRoom'[v] = currentRoom[v] /\ currentRoom[v] # r
                /\ roomView'[v] = roomView[v]
  <2>1. InARoom(v) /\ currentRoom'[v] = currentRoom[v]
    BY <1>8
  <2> PICK w : w = InsideInfo(r)'
    OBVIOUS
  <2>2. \A a \in Members(r) : a \in User => view[a] = w
    BY <1>4
  <2>3. roomView'[v] = IF v \in Members(r) THEN w ELSE roomView[v]
    BY <2>2
  <2> QED BY <1>2, <2>1, <2>3
<1>9. MembersSeeRoom'
  BY <1>8, InsideChanges
<1> QED BY <1>5, <1>7, <1>9 DEF StillTold

LEMMA ShowStateStep ==
  ASSUME Told, Inv', NEW r \in rooms, NEW s \in RoomState, ShowState(r, s),
         UNCHANGED <<currentRoom, rooms, roomUsers, roomHost, maxPlayers>>,
         roomState' = [roomState EXCEPT ![r] = s],
         \A v \in User : status'[v] = "InLobby" <=> status[v] = "InLobby",
         \A v \in User : InARoom(v)' => InARoom(v)
  PROVE  StillTold
<1> USE ToldTypes
<1> DEFINE view == [v \in User |-> [roomView[v] EXCEPT !.state = s]]
<1>1. r \in RoomID /\ rooms \in SUBSET RoomID /\ roomState \in [RoomID -> RoomState]
  BY DEF TypeOK
<1>2. ASSUME NEW q \in RoomID \ {r}
      PROVE  InsideInfo(q)' = InsideInfo(q) /\ RoomInfo(q)' = RoomInfo(q)
  <2>1. roomState'[q] = roomState[q]
    BY <1>1
  <2> QED BY <2>1 DEF InsideInfo, RoomInfo, Members
<1>3. roomState'[r] = s
  BY <1>1
<1>4. InsideInfo(r)' = [members |-> Members(r), host |-> roomHost[r], max |-> maxPlayers[r], state |-> s]
  BY <1>3 DEF InsideInfo, Members
<1>5. ASSUME NEW v \in User, roomView[v] = InsideInfo(r)
      PROVE  view[v] = InsideInfo(r)'
  BY <1>4, <1>5 DEF InsideInfo
<1>6. roomView' = [v \in User |-> IF v \in Members(r) THEN view[v] ELSE roomView[v]]
  BY DEF ShowState, Tell
<1>7. roomList' = TellState(roomList, status', r, s) /\ userList' = userList
  BY DEF ShowState
<1> PICK st : st = status'
  OBVIOUS
<1>8. roomList' \in [User -> SUBSET Entry]
  <2>1. roomList' = TellState(roomList, st, r, s)
    BY <1>7
  <2> QED BY <1>1, <2>1, StateTold
<1>9. ASSUME LobbySeesRooms
      PROVE  LobbySeesRooms'
  <2> DEFINE x == [Current[r] EXCEPT !.state = s]
             h == [Current EXCEPT ![r] = x]
  <2>1. Current \in Listings /\ Shows(roomList, status, rooms, Current)
    BY <1>9, CurrentIsListing, LobbyShows
  <2>2. Shows(roomList, st, rooms, Current)
    BY <2>1 DEF Shows, Lobby
  <2>3. x = RoomInfo(r)'
    BY <1>1, <1>3 DEF Current, RoomInfo
  <2>4. Shows(TellState(roomList, st, r, s), st, rooms, h)
    <3> HIDE DEF x
    <3>1. x = [Current[r] EXCEPT !.state = s]
      BY DEF x
    <3> QED BY <1>1, <2>1, <2>2, <3>1, StateShown
  <2>5. h[r] = x /\ \A q \in RoomID \ {r} : h[q] = RoomInfo(q)'
    <3> HIDE DEF x
    <3> QED BY <1>1, <1>2 DEF Current
  <2> HIDE DEF h, x
  <2>6. Fresh(h)
    BY <1>1, <2>3, <2>5 DEF Fresh
  <2> PICK next : next = roomList'
    OBVIOUS
  <2>7. Shows(next, st, rooms', h)
    BY <1>7, <2>4
  <2>8. \A v \in User : status'[v] = "InLobby" => st[v] = "InLobby" /\ roomList'[v] = next[v]
    OBVIOUS
  <2> QED BY <2>6, <2>7, <2>8, ListsAfter
<1> HIDE DEF view
<1> QED BY <1>2, <1>5, <1>6, <1>7, <1>8, <1>9, OneRoomStep

LEMMA ServerIsActivatedTold ==
  ASSUME Told, Inv', NEW u \in User, NEW r \in RoomID, ViewServerIsActivated(u, r)
  PROVE  StillTold
<1>1. /\ r \in rooms
      /\ roomState' = [roomState EXCEPT ![r] = "Playing"]
      /\ UNCHANGED <<status, currentRoom, rooms, roomUsers, roomHost, maxPlayers>>
      /\ ShowState(r, "Playing")
  BY DEF ViewServerIsActivated, ServerIsActivated, Hosts, userVars
<1>2. "Playing" \in RoomState
  BY DEF RoomState
<1>3. \A v \in User : /\ status'[v] = "InLobby" <=> status[v] = "InLobby"
                      /\ InARoom(v)' => InARoom(v)
  BY <1>1 DEF InARoom
<1> QED BY <1>1, <1>2, <1>3, ShowStateStep

LEMMA EndGameTold ==
  ASSUME Told, Inv', NEW u \in User, NEW r \in RoomID, ViewEndGame(u, r)
  PROVE  StillTold
<1>1. /\ r \in rooms
      /\ roomState' = [roomState EXCEPT ![r] = "Waiting"]
      /\ status' = [v \in User |-> IF v \in Players(r) THEN "InRoom" ELSE status[v]]
      /\ UNCHANGED <<currentRoom, rooms, roomUsers, roomHost, maxPlayers>>
      /\ ShowState(r, "Waiting")
  BY DEF ViewEndGame, EndGame, Hosts
<1>2. "Waiting" \in RoomState
  BY DEF RoomState
<1>3. \A v \in User : v \in Players(r) => status[v] = "InGame"
  BY DEF Told, Inv, PlayersAreMembers
<1>4. \A v \in User : /\ status'[v] = "InLobby" <=> status[v] = "InLobby"
                      /\ InARoom(v)' => InARoom(v)
  BY <1>1, <1>3 DEF InARoom
<1> QED BY <1>1, <1>2, <1>4, ShowStateStep

LEMMA ReturnToRoomTold ==
  ASSUME Told, Inv', NEW u \in User, ViewReturnToRoom(u)
  PROVE  StillTold
<1> USE ToldTypes
<1> PICK r : r = currentRoom[u]
  OBVIOUS
<1> DEFINE players == PlayersWithout(r, u)
<1>1. /\ InARoom(u)
      /\ r \in matches
      /\ status' = [status EXCEPT ![u] = "InRoom"]
      /\ roomHost' = [roomHost EXCEPT ![r] = IF @ = u /\ players # <<>> THEN Head(players) ELSE @]
      /\ roomState' = [roomState EXCEPT ![r] = IF MatchEnds(r, u) THEN "Waiting" ELSE @]
      /\ UNCHANGED <<currentRoom, rooms, roomUsers, maxPlayers>>
  BY DEF ViewReturnToRoom, ReturnToRoom
<1>2. /\ r \in rooms /\ r \in RoomID /\ rooms \in SUBSET RoomID
      /\ roomHost \in [RoomID -> User \union {NoUser}] /\ roomState \in [RoomID -> RoomState]
  BY <1>1 DEF TypeOK
<1>3. \A v \in User : /\ status'[v] = "InLobby" <=> status[v] = "InLobby"
                      /\ InARoom(v)' => InARoom(v)
  BY <1>1 DEF InARoom
<1>4. CASE MatchEnds(r, u)
  <2>1. ShowState(r, "Waiting")
    BY <1>4, Zenon DEF ViewReturnToRoom
  <2>2. roomHost' = roomHost
    <3>1. players = <<>>
      BY <1>4 DEF MatchEnds
    <3> HIDE DEF players
    <3> QED BY <1>1, <1>2, <3>1
  <2>3. roomState' = [roomState EXCEPT ![r] = "Waiting"] /\ "Waiting" \in RoomState
    BY <1>1, <1>4 DEF RoomState
  <2> QED BY <1>1, <1>2, <1>3, <2>1, <2>2, <2>3, ShowStateStep
<1>5. CASE roomHost[r] = u /\ ~ MatchEnds(r, u)
  <2>1. /\ roomView' = [v \in User |-> IF v \in Members(r) THEN [roomView[v] EXCEPT !.host = roomHost'[r]]
                                       ELSE roomView[v]]
        /\ UNCHANGED <<userList, roomList>>
    BY <1>5 DEF ViewReturnToRoom, Tell
  <2>2. roomState' = roomState
    BY <1>1, <1>2, <1>5
  <2>3. \A q \in RoomID \ {r} : roomHost'[q] = roomHost[q]
    <3> HIDE DEF players
    <3> QED BY <1>1, <1>2
  <2> DEFINE view == [v \in User |-> [roomView[v] EXCEPT !.host = roomHost'[r]]]
  <2>4. roomView' = [v \in User |-> IF v \in Members(r) THEN view[v] ELSE roomView[v]]
    BY <2>1
  <2>5. \A q \in RoomID : RoomInfo(q)' = RoomInfo(q)
    BY <1>1, <2>2 DEF RoomInfo
  <2>6. \A q \in RoomID \ {r} : InsideInfo(q)' = InsideInfo(q) /\ RoomInfo(q)' = RoomInfo(q)
    BY <1>1, <2>2, <2>3, <2>5 DEF InsideInfo, Members
  <2>7. ASSUME NEW v \in User, roomView[v] = InsideInfo(r)
        PROVE  view[v] = InsideInfo(r)'
    BY <1>1, <2>2, <2>7 DEF InsideInfo, Members
  <2>8. LobbySeesRooms => LobbySeesRooms'
    <3>1. RoomInfos' = RoomInfos
      BY <1>1, <1>2, <2>5 DEF RoomInfos
    <3>2. \A v \in User : status'[v] = "InLobby" =>
            status[v] = "InLobby" /\ roomList'[v] = roomList[v]
      BY <1>3, <2>1
    <3> QED BY <3>1, <3>2, ListsStay
  <2>9. roomList' \in [User -> SUBSET Entry]
    BY <2>1
  <2> HIDE DEF view, players
  <2>10. UNCHANGED <<currentRoom, userList>> /\ rooms' = rooms
    BY <1>1, <2>1
  <2> QED BY <1>2, <1>3, <2>4, <2>6, <2>7, <2>8, <2>9, <2>10, OneRoomStep
<1>6. CASE roomHost[r] # u
  <2>1. ~ MatchEnds(r, u)
    BY <1>6 DEF MatchEnds
  <2>2. UNCHANGED viewVars
    BY <1>6, <2>1, Zenon DEF ViewReturnToRoom
  <2>3. roomState' = roomState /\ roomHost' = roomHost
    <3> HIDE DEF players
    <3> QED BY <1>1, <1>2, <1>6, <2>1
  <2> QED BY <1>1, <1>3, <2>2, <2>3, QuietStep DEF roomVars
<1> QED BY <1>4, <1>5, <1>6

\* What a client makes of the packets about its room.
LEMMA MembersReplaced ==
  ASSUME NEW view \in RoomView, NEW S \in SUBSET User, NEW new, new = [view EXCEPT !.members = S]
  PROVE  /\ new \in RoomView
         /\ new = [members |-> S, host |-> view.host, max |-> view.max, state |-> view.state]
<1>1. /\ new \in RoomView
      /\ new.members = S /\ new.host = view.host /\ new.max = view.max /\ new.state = view.state
  BY DEF RoomView
<1> QED BY <1>1 DEF RoomView

LEMMA SettingsReplaced ==
  ASSUME NEW view \in RoomView, NEW max \in 0 .. 255, NEW state \in RoomState,
         NEW new, new = [view EXCEPT !.max = max, !.state = state]
  PROVE  /\ new \in RoomView
         /\ new = [members |-> view.members, host |-> view.host, max |-> max, state |-> state]
<1>1. /\ new \in RoomView
      /\ new.members = view.members /\ new.host = view.host /\ new.max = max /\ new.state = state
  BY DEF RoomView
<1> QED BY <1>1 DEF RoomView

LEMMA JoinRoomTold ==
  ASSUME Told, Inv', NEW u \in User, NEW r \in RoomID, ViewJoinRoom(u, r)
  PROVE  StillTold
<1> USE ToldTypes
<1>1. /\ r \in rooms /\ u \notin Members(r)
      /\ roomUsers' = [roomUsers EXCEPT ![r] = Append(@, u)]
      /\ status' = [status EXCEPT ![u] = "InRoom"]
      /\ currentRoom' = [currentRoom EXCEPT ![u] = r]
      /\ UNCHANGED <<rooms, roomHost, roomState, maxPlayers>>
  BY DEF ViewJoinRoom, JoinRoom
<1>2. /\ userList' = [TellDeparture(userList, status', u) EXCEPT ![u] = {}]
      /\ roomList' = [TellPlayers(roomList, status', r, Len(roomUsers'[r])) EXCEPT ![u] = {}]
      /\ roomView' = [[v \in User |-> IF v \in Members(r)
                                      THEN [roomView[v] EXCEPT !.members = @ \union {u}]
                                      ELSE roomView[v]] EXCEPT ![u] = InsideInfo(r)']
  BY Zenon DEF ViewJoinRoom, Tell
<1>3. /\ roomUsers[r] \in Seq(User) /\ IsInjective(roomUsers[r])
      /\ roomUsers'[r] = Append(roomUsers[r], u)
      /\ \A q \in RoomID \ {r} : roomUsers'[q] = roomUsers[q]
  BY <1>1 DEF TypeOK, Inv, RoomMembership
<1>4. ToSet(roomUsers'[r]) = Members(r) \union {u} /\ Len(roomUsers'[r]) \in Nat
  <2>1. ToSet(roomUsers'[r]) = Members(r) \union {u}
    BY <1>1, <1>3, PushBackProperties DEF Members
  <2>2. Len(roomUsers'[r]) = Len(roomUsers[r]) + 1 /\ Len(roomUsers[r]) \in Nat
    BY <1>3
  <2> QED BY <2>1, <2>2
<1>5. \A q \in RoomID \ {r} : InsideInfo(q)' = InsideInfo(q) /\ RoomInfo(q)' = RoomInfo(q)
  BY <1>1, <1>3 DEF InsideInfo, RoomInfo, Members
<1>6. TypeOK' /\ rooms \in SUBSET RoomID /\ status' \in [User -> Status]
  BY DEF Inv, TypeOK
<1>7. UsersShape' /\ LobbySeesUsers'
  <2> PICK st : st = status'
    OBVIOUS
  <2>1. st \in [User -> Status] /\ \A v \in User \ {u} : st[v] = status[v]
    BY <1>1, <1>6
  <2>2. "InRoom" \in Status /\ "InRoom" # "InLobby"
    BY DEF Status
  <2>3. userList' = [TellDeparture(userList, st, u) EXCEPT ![u] = {}]
    BY <1>2
  <2> QED BY <1>1, <2>1, <2>2, <2>3, UserGoes
<1> PICK st : st = status'
  OBVIOUS
<1> PICK n : n = Len(roomUsers'[r])
  OBVIOUS
<1> DEFINE next == TellPlayers(roomList, st, r, n)
<1>8. next \in [User -> SUBSET Entry] /\ n \in Nat
  BY <1>4, PlayersTold
<1>9. roomList' = [next EXCEPT ![u] = {}]
  BY <1>2
<1>10. Shape'
  <2>1. roomList' \in [User -> SUBSET Entry]
    <3> HIDE DEF next
    <3> QED BY <1>8, <1>9
  <2>2. InsideInfo(r)' \in RoomView
    BY <1>6, EntriesAndViewsStay
  <2> PICK w : w = InsideInfo(r)'
    OBVIOUS
  <2> DEFINE told == [v \in User |-> IF v \in Members(r)
                                     THEN [roomView[v] EXCEPT !.members = @ \union {u}]
                                     ELSE roomView[v]]
  <2>3. told \in [User -> RoomView]
    <3>1. \A view \in RoomView : [view EXCEPT !.members = @ \union {u}] \in RoomView
      BY DEF RoomView
    <3> QED BY <3>1
  <2>4. roomView' = [told EXCEPT ![u] = w]
    BY <1>2
  <2> HIDE DEF told
  <2>5. roomView' \in [User -> RoomView]
    BY <2>2, <2>3, <2>4
  <2> QED BY <1>7, <2>1, <2>5 DEF Shape, UsersShape
<1>11. ASSUME NEW v \in User, InARoom(v)'
       PROVE  \/ currentRoom'[v] = r /\ roomView'[v] = InsideInfo(r)'
              \/ /\ InARoom(v) /\ currentRoom'[v] = currentRoom[v] /\ currentRoom[v] # r
                 /\ roomView'[v] = roomView[v]
  <2>1. CASE v = u
    BY <1>1, <1>2, <2>1
  <2>2. CASE v # u
    <3>1. InARoom(v) /\ currentRoom'[v] = currentRoom[v]
      BY <1>1, <1>11, <2>2 DEF InARoom
    <3>2. v \in Members(r) <=> currentRoom[v] = r
      BY <1>1 DEF Inv, RoomMembership
    <3>3. roomView'[v] = IF v \in Members(r) THEN [roomView[v] EXCEPT !.members = @ \union {u}]
                         ELSE roomView[v]
      BY <1>2, <2>2
    <3>4. CASE currentRoom[v] = r
      <4>1. roomView[v] = [members |-> Members(r), host |-> roomHost[r],
                           max |-> maxPlayers[r], state |-> roomState[r]]
        BY <3>1, <3>4 DEF MembersSeeRoom, InsideInfo
      <4>2. InsideInfo(r)' = [members |-> Members(r) \union {u}, host |-> roomHost[r],
                              max |-> maxPlayers[r], state |-> roomState[r]]
        BY <1>1, <1>4 DEF InsideInfo, Members
      <4>3. [roomView[v] EXCEPT !.members = @ \union {u}]
              = [members |-> Members(r) \union {u}, host |-> roomHost[r],
                 max |-> maxPlayers[r], state |-> roomState[r]]
        <5>1. roomView[v] \in RoomView /\ Members(r) \union {u} \in SUBSET User
          BY <1>3 DEF Members, ToSet
        <5>2. /\ roomView[v].members = Members(r) /\ roomView[v].host = roomHost[r]
              /\ roomView[v].max = maxPlayers[r] /\ roomView[v].state = roomState[r]
          BY <4>1
        <5> PICK new : new = [roomView[v] EXCEPT !.members = Members(r) \union {u}]
          OBVIOUS
        <5>3. new = [members |-> Members(r) \union {u}, host |-> roomHost[r],
                     max |-> maxPlayers[r], state |-> roomState[r]]
          BY <5>1, <5>2, MembersReplaced
        <5> QED BY <5>2, <5>3
      <4> QED BY <3>1, <3>2, <3>3, <3>4, <4>2, <4>3
    <3>5. CASE currentRoom[v] # r
      BY <3>1, <3>2, <3>3, <3>5
    <3> QED BY <3>4, <3>5
  <2> QED BY <2>1, <2>2
<1>12. MembersSeeRoom'
  BY <1>5, <1>11, InsideChanges
<1>13. ASSUME LobbySeesRooms
       PROVE  LobbySeesRooms'
  <2> DEFINE x == [Current[r] EXCEPT !.players = n]
             h == [Current EXCEPT ![r] = x]
  <2>1. Current \in Listings /\ Shows(roomList, status, rooms, Current)
    BY <1>13, CurrentIsListing, LobbyShows
  <2>2. \A v \in User : st[v] = "InLobby" => status[v] = "InLobby"
    BY <1>1
  <2>3. Shows(roomList, st, rooms, Current)
    BY <2>1, <2>2 DEF Shows, Lobby
  <2>4. x = RoomInfo(r)'
    BY <1>1 DEF Current, RoomInfo
  <2>5. Shows(next, st, rooms, h)
    <3> HIDE DEF x
    <3>1. x = [Current[r] EXCEPT !.players = n]
      BY DEF x
    <3> QED BY <1>6, <1>8, <2>1, <2>3, <3>1, PlayersShown
  <2>6. h[r] = x /\ \A q \in RoomID \ {r} : h[q] = RoomInfo(q)'
    <3> HIDE DEF x
    <3> QED BY <1>5 DEF Current
  <2> HIDE DEF h, x, next
  <2>7. Fresh(h)
    BY <1>1, <1>6, <2>4, <2>6 DEF Fresh
  <2>8. Shows(next, st, rooms', h)
    BY <1>1, <2>5
  <2>9. \A v \in User : status'[v] = "InLobby" => st[v] = "InLobby" /\ roomList'[v] = next[v]
    <3>1. status'[u] # "InLobby"
      BY <1>1
    <3> QED BY <1>8, <1>9, <3>1
  <2> QED BY <2>7, <2>8, <2>9, ListsAfter
<1> QED BY <1>7, <1>10, <1>12, <1>13 DEF StillTold

\* Of the two flags UpdateRoomSettings means to send, the lobby gets one.
LEMMA Flags == Announced("max") /\ ~ Announced("state")
BY DEF Announced, RoomListFlag

LEMMA UpdateRoomSettingsTold ==
  ASSUME Told, Inv', NEW u \in User, ViewUpdateRoomSettings(u)
  PROVE  StillTold
<1> USE ToldTypes
<1> PICK r : r = currentRoom[u]
  OBVIOUS
<1>1. PICK max \in Capacity \union {maxPlayers[r]}, state \in RoomState :
        /\ ClientsKeepState => state = roomState[r]
        /\ maxPlayers' = [maxPlayers EXCEPT ![r] = max]
        /\ roomState' = [roomState EXCEPT ![r] = state]
  BY DEF ViewUpdateRoomSettings, UpdateRoomSettings
<1>2. r \in rooms /\ UNCHANGED <<status, currentRoom, rooms, roomUsers, roomHost>>
  BY DEF ViewUpdateRoomSettings, UpdateRoomSettings, userVars
<1>3. r \in RoomID /\ rooms \in SUBSET RoomID /\ max \in 0 .. 255
  BY <1>2, CapacityIsByte DEF TypeOK
<1>4. /\ maxPlayers'[r] = max /\ roomState'[r] = state
      /\ \A q \in RoomID \ {r} : maxPlayers'[q] = maxPlayers[q] /\ roomState'[q] = roomState[q]
  BY <1>1, <1>3 DEF TypeOK
<1>5. \A q \in RoomID \ {r} : InsideInfo(q)' = InsideInfo(q) /\ RoomInfo(q)' = RoomInfo(q)
  BY <1>2, <1>4 DEF InsideInfo, RoomInfo, Members
<1> DEFINE view == [v \in User |-> [roomView[v] EXCEPT !.max = max, !.state = state]]
<1>6. roomView' = [v \in User |-> IF v \in Members(r) THEN view[v] ELSE roomView[v]]
  BY <1>4 DEF ViewUpdateRoomSettings, Tell
<1>7. ASSUME NEW v \in User, roomView[v] = InsideInfo(r)
      PROVE  view[v] = InsideInfo(r)'
  <2>1. InsideInfo(r)' = [members |-> Members(r), host |-> roomHost[r], max |-> max, state |-> state]
    BY <1>2, <1>4 DEF InsideInfo, Members
  <2>2. roomView[v] \in RoomView /\ roomView[v].members = Members(r) /\ roomView[v].host = roomHost[r]
    BY <1>7 DEF InsideInfo
  <2>3. view[v] = [roomView[v] EXCEPT !.max = max, !.state = state]
    OBVIOUS
  <2> HIDE DEF view
  <2> PICK w, new : w = roomView[v] /\ new = view[v]
    OBVIOUS
  <2>4. w \in RoomView /\ new = [w EXCEPT !.max = max, !.state = state]
    BY <2>2, <2>3
  <2>5. new = [members |-> w.members, host |-> w.host, max |-> max, state |-> state]
    BY ONLY <1>3, <2>4, SettingsReplaced, state \in RoomState
  <2> QED BY <2>1, <2>2, <2>5
<1>8. roomList' = [v \in User |-> IF v \in Lobby(status)
                                  THEN {IF e.id = r THEN [e EXCEPT !.max = max] ELSE e : e \in roomList[v]}
                                  ELSE roomList[v]]
  <2> DEFINE Sent(e) == IF e.id = currentRoom[u]
                        THEN [e EXCEPT !.max = IF Announced("max")
                                               THEN maxPlayers'[currentRoom[u]] ELSE @,
                                       !.state = IF Announced("state")
                                                 THEN roomState'[currentRoom[u]] ELSE @]
                        ELSE e
             Listed(e) == IF e.id = r THEN [e EXCEPT !.max = max] ELSE e
  <2>1. roomList' = [v \in User |-> IF v \in Lobby(status) THEN {Sent(e) : e \in roomList[v]}
                                    ELSE roomList[v]]
    BY Zenon DEF ViewUpdateRoomSettings, TellRoomChange, Tell
  <2>2. ASSUME NEW v \in User, NEW e \in roomList[v]
        PROVE  Sent(e) = Listed(e)
    <3>1. e \in Entry
      OBVIOUS
    <3>2. CASE e.id = r
      <4>1. Sent(e) = [e EXCEPT !.max = max, !.state = e.state]
        BY <1>4, <3>2, Flags
      <4> QED BY <3>1, <3>2, <4>1 DEF Entry
    <3> QED BY <3>2
  <2> HIDE DEF Sent, Listed
  <2>3. \A v \in User : {Sent(e) : e \in roomList[v]} = {Listed(e) : e \in roomList[v]}
    BY <2>2
  <2>4. roomList' = [v \in User |-> IF v \in Lobby(status) THEN {Listed(e) : e \in roomList[v]}
                                    ELSE roomList[v]]
    BY <2>1, <2>3
  <2> QED BY <2>4 DEF Listed
<1>9. roomList' \in [User -> SUBSET Entry]
  <2>1. \A e \in Entry : [e EXCEPT !.max = max] \in Entry
    BY <1>3 DEF Entry
  <2> QED BY <1>8, <2>1
<1>10. ASSUME ClientsKeepState, LobbySeesRooms
       PROVE  LobbySeesRooms'
  <2> DEFINE x == [Current[r] EXCEPT !.max = max]
             h == [Current EXCEPT ![r] = x]
  <2>1. Current \in Listings /\ Shows(roomList, status, rooms, Current)
    BY <1>10, CurrentIsListing, LobbyShows
  <2>2. x = RoomInfo(r)'
    BY <1>1, <1>2, <1>3, <1>4, <1>10 DEF Current, RoomInfo
  <2>3. x \in Entry /\ x.id = r
    BY <1>3, <2>1 DEF Listings, Entry
  <2> PICK next : next = roomList'
    OBVIOUS
  <2>4. Replaced(next, roomList, status, r, x)
    <3> SUFFICES ASSUME NEW v \in Lobby(status)
                 PROVE  next[v] = {IF e.id = r THEN x ELSE e : e \in roomList[v]}
      BY DEF Replaced
    <3>1. \A e \in roomList[v] : e = Current[e.id]
      BY <1>3, <2>1, EntriesShown
    <3>2. next[v] = {IF e.id = r THEN [e EXCEPT !.max = max] ELSE e : e \in roomList[v]}
      BY <1>8 DEF Lobby
    <3> QED BY <3>1, <3>2
  <2>5. Shows(next, status, rooms, h)
    <3> HIDE DEF x
    <3> QED BY <1>3, <2>1, <2>3, <2>4, OneRoomChanges
  <2>6. h[r] = x /\ \A q \in RoomID \ {r} : h[q] = RoomInfo(q)'
    <3> HIDE DEF x
    <3> QED BY <1>3, <1>5 DEF Current
  <2> HIDE DEF h, x
  <2>7. Fresh(h)
    BY <1>2, <1>3, <2>2, <2>6 DEF Fresh
  <2>8. Shows(next, status, rooms', h)
    BY <1>2, <2>5
  <2>9. \A v \in User : status'[v] = "InLobby" => status[v] = "InLobby" /\ roomList'[v] = next[v]
    BY <1>2
  <2> QED BY <2>7, <2>8, <2>9, ListsAfter
<1>11. /\ rooms' = rooms /\ UNCHANGED <<currentRoom, userList>>
       /\ \A v \in User : status'[v] = "InLobby" <=> status[v] = "InLobby"
       /\ \A v \in User : InARoom(v)' => InARoom(v)
  BY <1>2 DEF ViewUpdateRoomSettings, InARoom
<1> HIDE DEF view
<1> QED BY <1>2, <1>5, <1>6, <1>7, <1>9, <1>10, <1>11, OneRoomStep

-----------------------------------------------------------------------------
(* The theorems.                                                           *)

LEMMA ViewsStep == [ViewsNext]_allVars => [Next]_vars
<1> SUFFICES ASSUME [ViewsNext]_allVars PROVE [Next]_vars
  OBVIOUS
<1>1. ASSUME NEW u \in User,
             \/ ViewLogIn(u) \/ ViewCreateCharacter(u) \/ ViewRequestServerList(u)
             \/ ViewEnterLobby(u) \/ ViewDisconnect(u)
             \/ ViewCreateRoom(u) \/ ViewLeaveRoom(u) \/ ViewUpdateRoomSettings(u)
             \/ ViewReturnToRoom(u)
      PROVE  Next
  <2>1. \/ LogIn(u) \/ CreateCharacter(u) \/ RequestServerList(u) \/ EnterLobby(u)
        \/ Disconnect(u)
        \/ CreateRoom(u) \/ LeaveRoom(u) \/ UpdateRoomSettings(u) \/ ReturnToRoom(u)
    BY <1>1, Zenon DEF ViewLogIn, ViewCreateCharacter, ViewRequestServerList, ViewEnterLobby,
       ViewDisconnect, ViewCreateRoom, ViewLeaveRoom, ViewUpdateRoomSettings, ViewReturnToRoom
  <2> QED BY <2>1, Zenon DEF Next
<1>2. ASSUME NEW u \in User, NEW r \in RoomID,
             \/ ViewJoinRoom(u, r)
             \/ ViewServerIsActivated(u, r) \/ ViewSaveData(u, r) \/ ViewEndGame(u, r)
      PROVE  Next
  <2>1. \/ JoinRoom(u, r)
        \/ ServerIsActivated(u, r) \/ SaveData(u, r) \/ EndGame(u, r)
    BY <1>2, Zenon DEF ViewJoinRoom, ViewServerIsActivated, ViewSaveData, ViewEndGame
  <2> QED BY <2>1, Zenon DEF Next
<1>3. ASSUME NEW u \in User, NEW v \in User, NEW r \in RoomID, ViewSendUserStatus(u, r, v)
      PROVE  Next
  BY <1>3, Zenon DEF ViewSendUserStatus, Next
<1>4. ASSUME ViewRemoveAllRooms \/ ViewRestoreRows
      PROVE  Next
  BY <1>4, Zenon DEF ViewRemoveAllRooms, ViewRestoreRows, Next
<1>5. CASE UNCHANGED allVars
  BY <1>5 DEF allVars
<1>6. CASE ViewsNext
  BY <1>1, <1>2, <1>3, <1>4, <1>6, Zenon DEF ViewsNext
<1> QED BY <1>5, <1>6

\* Module LobbyViews adds what is sent to module Rooms, and takes nothing
\* away: the rooms behave as Rooms says they do.
THEOREM ViewsImplementRooms == ViewsSpec => Spec
<1>1. ViewsInit => Init
  BY DEF ViewsInit
<1> QED BY <1>1, ViewsStep, PTL DEF ViewsSpec, Spec

LEMMA ToldInit == ViewsInit => Told /\ LobbySeesRooms
<1> SUFFICES ASSUME ViewsInit PROVE Told /\ LobbySeesRooms
  OBVIOUS
<1>1. Inv
  BY InitInv DEF ViewsInit
<1>2. /\ status = [u \in User |-> "Offline"]
      /\ userList = [v \in User |-> {}]
      /\ roomList = [v \in User |-> {}]
      /\ roomView = [v \in User |-> Outside]
  BY DEF ViewsInit, Init
<1>3. Shape
  BY <1>2, OutsideIsView DEF Shape
<1>4. LobbySeesUsers /\ LobbySeesRooms /\ MembersSeeRoom
  BY <1>2 DEF LobbySeesUsers, LobbySeesRooms, MembersSeeRoom, Lobby, InARoom
<1> QED BY <1>1, <1>3, <1>4 DEF Told

LEMMA ToldNext ==
  ASSUME ClientsStayPut, Told, [ViewsNext]_allVars
  PROVE  /\ Told'
         /\ ClientsKeepState /\ LobbySeesRooms => LobbySeesRooms'
<1>1. Inv'
  BY ViewsStep, NextInv DEF Told
<1>2. ASSUME NEW u \in User,
             \/ ViewLogIn(u) \/ ViewCreateCharacter(u) \/ ViewRequestServerList(u)
             \/ ViewEnterLobby(u) \/ ViewDisconnect(u)
             \/ ViewCreateRoom(u) \/ ViewLeaveRoom(u) \/ ViewUpdateRoomSettings(u)
             \/ ViewReturnToRoom(u)
      PROVE  StillTold
  BY <1>1, <1>2, LogInTold, CreateCharacterTold, RequestServerListTold, EnterLobbyTold,
     DisconnectTold, CreateRoomTold, LeaveRoomTold, UpdateRoomSettingsTold, ReturnToRoomTold
<1>3. ASSUME NEW u \in User, NEW r \in RoomID,
             \/ ViewJoinRoom(u, r)
             \/ ViewServerIsActivated(u, r) \/ ViewSaveData(u, r) \/ ViewEndGame(u, r)
      PROVE  StillTold
  BY <1>1, <1>3, JoinRoomTold, ServerIsActivatedTold, SaveDataTold, EndGameTold
<1>4. ASSUME NEW u \in User, NEW v \in User, NEW r \in RoomID, ViewSendUserStatus(u, r, v)
      PROVE  StillTold
  BY <1>1, <1>4, SendUserStatusTold
<1>5. ASSUME ViewRemoveAllRooms \/ ViewRestoreRows
      PROVE  StillTold
  BY <1>1, <1>5, RemoveAllRoomsTold, RestoreRowsTold
<1>6. ASSUME UNCHANGED allVars
      PROVE  StillTold
  <2>1. UNCHANGED <<currentRoom, roomVars, viewVars>> /\ status' = status
    BY <1>6 DEF allVars, vars, userVars
  <2> QED BY <1>1, <2>1, QuietStep DEF InARoom
<1>7. ASSUME ViewsNext
      PROVE  StillTold
  BY <1>2, <1>3, <1>4, <1>5, <1>7, Zenon DEF ViewsNext
<1>8. StillTold
  BY <1>6, <1>7
<1> QED BY <1>1, <1>8 DEF StillTold, Told, Shape

\* As long as clients do not create or join a room during a game, the rooms
\* stay consistent and whoever is in the lobby or in a room knows who else is
\* there, whatever queries on the table rooms fail and whichever rooms are
\* destroyed.
THEOREM AllAreTold == ClientsStayPut => (ViewsSpec => []Told)
<1> SUFFICES ASSUME ClientsStayPut PROVE ViewsSpec => []Told
  OBVIOUS
<1>1. ViewsInit => Told
  BY ToldInit
<1>2. Told /\ [ViewsNext]_allVars => Told'
  BY ToldNext
<1> QED BY <1>1, <1>2, PTL DEF ViewsSpec

\* What clients have been told keeps its shape.
THEOREM ViewsTypeCorrect == ClientsStayPut => (ViewsSpec => []ViewsTypeOK)
<1>1. Told => ViewsTypeOK
  BY ToldTypes
<1> QED BY <1>1, AllAreTold, PTL

\* Clients in the lobby list the users in the lobby.
THEOREM LobbySeesUsersCorrect == ClientsStayPut => (ViewsSpec => []LobbySeesUsers)
<1>1. Told => LobbySeesUsers
  BY DEF Told
<1> QED BY <1>1, AllAreTold, PTL

\* Clients in a room know its users, host, capacity and state.
THEOREM MembersSeeRoomCorrect == ClientsStayPut => (ViewsSpec => []MembersSeeRoom)
<1>1. Told => MembersSeeRoom
  BY DEF Told
<1> QED BY <1>1, AllAreTold, PTL

\* Clients in the lobby list the rooms as they are, as long as no host sets
\* the state by UpdateRoomSettings, of which the lobby does not hear.
THEOREM LobbySeesRoomsCorrect ==
  ClientsStayPut /\ ClientsKeepState => (ViewsSpec => []LobbySeesRooms)
<1> SUFFICES ASSUME ClientsStayPut, ClientsKeepState PROVE ViewsSpec => []LobbySeesRooms
  OBVIOUS
<1>1. ViewsInit => Told /\ LobbySeesRooms
  BY ToldInit
<1>2. Told /\ LobbySeesRooms /\ [ViewsNext]_allVars => Told' /\ LobbySeesRooms'
  BY ToldNext
<1> QED BY <1>1, <1>2, PTL DEF ViewsSpec

\* The rooms of the channel have rows in the table, as in module Rooms.
THEOREM ViewsRowsCorrect == ClientsStayPut => (ViewsSpec => []RoomsHaveRows)
BY ViewsImplementRooms, RowsCorrect, PTL

=============================================================================
