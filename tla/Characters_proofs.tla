------------------------- MODULE Characters_proofs -------------------------
(***************************************************************************)
(* Proofs about module Characters, for any number of channels, users,      *)
(* nicknames and faults.                                                   *)
(***************************************************************************)
EXTENDS Characters, TLAPS

Creating == {"select", "insert", "nickname", "create"}

\* What a handler has found out, or done, when it is at a statement still
\* holds.
HandlerIsRight(c) ==
  LET w == work[c]
      u == work[c].user
  IN  /\ w.at # "idle" => where[u] = c /\ status[u] = "InLogin"
      /\ w.at \in Creating \cup {"exists"} => w.nick \in Nickname
      /\ w.at \in Creating => nick[u] = None
      /\ w.at \in {"select", "insert"} =>
           w.table \in Table /\ \A s \in Table : s < w.table => rows[u][s] = 1
      /\ w.at = "insert" => rows[u][w.table] = 0
      /\ w.at \in {"nickname", "create"} => \A s \in Table : rows[u][s] = 1
      /\ w.at = "create" => \A v \in User : nick[v] = w.nick => author[v] # c
      /\ w.at = "enter" => nick[u] # None

HandlersAreRight == \A c \in Channel : HandlerIsRight(c)

Listed == \A u \in User : where[u] = None => status[u] = "Offline"

Inv ==
  /\ TypeOK
  /\ Listed
  /\ HandlersAreRight
  /\ CharacterIsComplete
  /\ NobodyIsIgnored
  /\ NicknamePerChannel

LEMMA InitInv == Init => Inv
<1> SUFFICES ASSUME Init PROVE Inv
  OBVIOUS
<1> USE DEF Init
<1>1. TypeOK
  BY CharactersAssumption DEF TypeOK, Work, Status, Table
<1>2. HandlersAreRight
  BY DEF HandlersAreRight, HandlerIsRight, Idle, Creating
<1>3. CharacterIsComplete
  BY DEF CharacterIsComplete, Table
<1>4. Listed /\ NobodyIsIgnored /\ NicknamePerChannel
  BY DEF Listed, NobodyIsIgnored, NicknamePerChannel
<1> QED BY <1>1, <1>2, <1>3, <1>4 DEF Inv

-----------------------------------------------------------------------------
(* Steps of handlers.                                                      *)

\* What a step of channel c makes of work.
Step(c, w) ==
  /\ work' \in [Channel -> Work]
  /\ work'[c] = w
  /\ \A d \in Channel : d # c => work'[d] = work[d]

LEMMA WorkType ==
  ASSUME TypeOK, NEW c \in Channel
  PROVE  /\ work[c] \in Work
         /\ work[c].at # "idle" => /\ work[c].user \in User
                                   /\ work[c].nick \in Nickname \cup {None}
                                   /\ work[c].table \in {0} \cup Table
<1>1. work[c] \in Work
  BY DEF TypeOK
<1> QED BY <1>1 DEF Work, Idle

LEMMA AssignStep ==
  ASSUME TypeOK, NEW c \in Channel, NEW w \in Work, work' = [work EXCEPT ![c] = w]
  PROVE  Step(c, w)
  BY DEF TypeOK, Step

LEMMA DoneStep ==
  ASSUME TypeOK, NEW c \in Channel, Done(c)
  PROVE  Step(c, Idle)
<1>1. Idle \in Work
  BY DEF Work
<1> QED BY <1>1, AssignStep DEF Done

At == Creating \cup {"login", "exists", "enter"}

LEMMA ProceedStep ==
  ASSUME TypeOK, NEW c \in Channel, NEW at \in At, NEW t \in {0} \cup Table,
         work[c].at # "idle", Proceed(c, at, t)
  PROVE  Step(c, [at |-> at, user |-> work[c].user, nick |-> work[c].nick, table |-> t])
<1> DEFINE w == [at |-> at, user |-> work[c].user, nick |-> work[c].nick, table |-> t]
<1>1. work[c] \in [at : {"login", "exists", "select", "insert", "nickname", "create", "enter"},
                   user : User, nick : Nickname \cup {None}, table : {0} \cup Table]
  BY WorkType DEF Work, Idle
<1>2. w \in Work
  <2>1. at \in {"login", "exists", "select", "insert", "nickname", "create", "enter"}
    BY DEF At, Creating
  <2>2. work[c].user \in User /\ work[c].nick \in Nickname \cup {None}
    BY <1>1
  <2> QED BY <2>1, <2>2 DEF Work
<1>3. work' = [work EXCEPT ![c] = w]
  BY DEF Proceed
<1> QED BY <1>2, <1>3, AssignStep

\* Handlers of other channels serve other users.
LEMMA OtherHandler ==
  ASSUME Inv, NEW c \in Channel, NEW d \in Channel, d # c, work[d].at # "idle"
  PROVE  /\ work[d].user \in User
         /\ where[work[d].user] = d
         /\ work[c].at # "idle" => work[d].user # work[c].user
  BY WorkType DEF Inv, HandlersAreRight, HandlerIsRight

\* A handler stays right when its user, its rows and its character do not
\* change, and nobody gets its nickname from the same channel.
LEMMA KeepsRight ==
  ASSUME Inv, NEW d \in Channel, work'[d] = work[d],
         LET u == work[d].user
         IN  work[d].at # "idle" => /\ where'[u] = where[u] /\ status'[u] = status[u]
                                    /\ rows'[u] = rows[u] /\ nick'[u] = nick[u],
         \A v \in User : \/ nick'[v] = nick[v] /\ author'[v] = author[v]
                         \/ author'[v] # d
  PROVE  HandlerIsRight(d)'
<1>1. HandlerIsRight(d)
  BY DEF Inv, HandlersAreRight
<1>2. CASE work[d].at = "idle"
  BY <1>2 DEF HandlerIsRight, Creating
<1>3. CASE work[d].at # "idle"
  BY <1>1, <1>3 DEF HandlerIsRight
<1> QED BY <1>2, <1>3

\* The handler of c goes on, or begins or ends, and leaves users and tables
\* alone.
LEMMA MoveInv ==
  ASSUME Inv, TypeOK', NEW c \in Channel, NEW w, Step(c, w),
         UNCHANGED <<where, status, rows, nick, author>>,
         HandlerIsRight(c)',
         work[c].at \in {"login", "enter"} /\ nick[work[c].user] # None
           => w.at \in {"login", "enter"} /\ w.user = work[c].user
  PROVE  Inv'
<1>1. HandlersAreRight'
  <2> SUFFICES ASSUME NEW d \in Channel, d # c PROVE HandlerIsRight(d)'
    BY DEF HandlersAreRight
  <2> QED BY KeepsRight DEF Step
<1>2. NobodyIsIgnored'
  <2> SUFFICES ASSUME NEW u \in User, status[u] = "InLogin", nick[u] # None
               PROVE  work'[where[u]].user = u /\ work'[where[u]].at \in {"login", "enter"}
    BY DEF NobodyIsIgnored
  <2>1. work[where[u]].user = u /\ work[where[u]].at \in {"login", "enter"}
    BY DEF Inv, NobodyIsIgnored
  <2>2. CASE where[u] = c
    BY <2>1, <2>2 DEF Step
  <2>3. CASE where[u] \in Channel \ {c}
    BY <2>1, <2>3 DEF Step
  <2>4. where[u] \in Channel
    BY DEF Inv, TypeOK, Listed
  <2> QED BY <2>2, <2>3, <2>4
<1>3. CharacterIsComplete' /\ NicknamePerChannel' /\ Listed'
  BY DEF Inv, CharacterIsComplete, NicknamePerChannel, Listed
<1> QED BY <1>1, <1>2, <1>3 DEF Inv

\* RemoveUser: the user is no longer listed, and c is idle.
LEMMA RemoveInv ==
  ASSUME Inv, TypeOK', NEW c \in Channel, Step(c, Idle), NEW u \in User, Remove(u),
         where[u] = c, work[c].at # "idle" => work[c].user = u,
         UNCHANGED <<rows, nick, author>>
  PROVE  Inv'
<1>1. \A v \in User : v # u => where'[v] = where[v] /\ status'[v] = status[v]
  BY DEF Remove, Inv, TypeOK
<1>2. where'[u] = None /\ status'[u] = "Offline"
  BY DEF Remove, Inv, TypeOK
<1>3. HandlersAreRight'
  <2> SUFFICES ASSUME NEW d \in Channel PROVE HandlerIsRight(d)'
    BY DEF HandlersAreRight
  <2>1. CASE d = c
    BY <2>1 DEF Step, HandlerIsRight, Idle, Creating
  <2>2. CASE d # c
    <3>1. work[d].at # "idle" => work[d].user \in User /\ work[d].user # u
      BY <2>2, OtherHandler
    <3> QED BY <1>1, <2>2, <3>1, KeepsRight DEF Step
  <2> QED BY <2>1, <2>2
<1>4. NobodyIsIgnored'
  <2> SUFFICES ASSUME NEW v \in User, status'[v] = "InLogin", nick[v] # None
               PROVE  /\ work'[where'[v]].user = v
                      /\ work'[where'[v]].at \in {"login", "enter"}
    BY DEF NobodyIsIgnored
  <2>1. v # u
    BY <1>2
  <2>2. work[where[v]].user = v /\ work[where[v]].at \in {"login", "enter"}
    BY <1>1, <2>1 DEF Inv, NobodyIsIgnored
  <2>3. where[v] \in Channel
    BY <1>1, <2>1 DEF Inv, TypeOK, Listed
  <2>4. where[v] # c
    BY <2>1, <2>2
  <2> QED BY <1>1, <2>1, <2>2, <2>3, <2>4 DEF Step
<1>5. Listed'
  BY <1>1, <1>2 DEF Inv, Listed
<1>6. CharacterIsComplete' /\ NicknamePerChannel'
  BY DEF Inv, CharacterIsComplete, NicknamePerChannel
<1> QED BY <1>3, <1>4, <1>5, <1>6 DEF Inv

LEMMA LoginInv ==
  ASSUME Inv, TypeOK', NEW c \in Channel, NEW u \in User, Login(c, u)
  PROVE  Inv'
<1> DEFINE w == [at |-> "login", user |-> u, nick |-> None, table |-> 0]
<1>1. work[c] = Idle /\ where[u] = None /\ UNCHANGED <<rows, nick, author>>
  BY DEF Login, Begin, tables
<1>2. Step(c, w)
  <2>1. w \in Work
    BY DEF Work
  <2> QED BY <2>1, AssignStep DEF Login, Begin, Inv
<1>3. \A v \in User : v # u => where'[v] = where[v] /\ status'[v] = status[v]
  BY DEF Login, Inv, TypeOK
<1>4. where'[u] = c /\ status'[u] = "InLogin"
  BY DEF Login, Inv, TypeOK
<1>5. HandlersAreRight'
  <2> SUFFICES ASSUME NEW d \in Channel PROVE HandlerIsRight(d)'
    BY DEF HandlersAreRight
  <2>1. CASE d = c
    BY <1>2, <1>4, <2>1 DEF Step, HandlerIsRight, Creating
  <2>2. CASE d # c
    <3>1. work[d].at # "idle" => work[d].user \in User /\ where[work[d].user] = d
      BY <2>2, OtherHandler
    <3>2. d # None
      BY CharactersAssumption
    <3>3. work[d].at # "idle" => work[d].user # u
      BY <1>1, <3>1, <3>2
    <3> QED BY <1>1, <1>2, <1>3, <2>2, <3>1, <3>3, KeepsRight DEF Step
  <2> QED BY <2>1, <2>2
<1>6. NobodyIsIgnored'
  <2> SUFFICES ASSUME NEW v \in User, status'[v] = "InLogin", nick[v] # None
               PROVE  /\ work'[where'[v]].user = v
                      /\ work'[where'[v]].at \in {"login", "enter"}
    BY <1>1 DEF NobodyIsIgnored
  <2>1. CASE v = u
    BY <1>2, <1>4, <2>1 DEF Step
  <2>2. CASE v # u
    <3>1. work[where[v]].user = v /\ work[where[v]].at \in {"login", "enter"}
      BY <1>3, <2>2 DEF Inv, NobodyIsIgnored
    <3>2. where[v] \in Channel
      BY <1>3, <2>2 DEF Inv, TypeOK, Listed
    <3>3. where[v] # c
      BY <1>1, <3>1 DEF Idle
    <3> QED BY <1>2, <1>3, <2>2, <3>1, <3>2, <3>3 DEF Step
  <2> QED BY <2>1, <2>2
<1>7. Listed'
  <2>1. c # None
    BY CharactersAssumption
  <2> QED BY <1>3, <1>4, <2>1 DEF Inv, Listed
<1>8. CharacterIsComplete' /\ NicknamePerChannel'
  BY <1>1 DEF Inv, CharacterIsComplete, NicknamePerChannel
<1> QED BY <1>5, <1>6, <1>7, <1>8 DEF Inv

\* The socket of the user is closed, or it enters: it no longer waits.
LEMMA SendLoginPacketsInv ==
  ASSUME Inv, TypeOK', NEW c \in Channel, SendLoginPackets(c)
  PROVE  Inv'
<1> DEFINE u == work[c].user
<1>1. /\ work[c].at = "enter" /\ Done(c)
      /\ UNCHANGED <<where, rows, nick, author>>
      /\ \E s \in {"InServerList", "Closed"} : status' = [status EXCEPT ![u] = s]
  BY DEF SendLoginPackets, DisconnectUser, tables
<1>2. Step(c, Idle)
  BY <1>1, DoneStep DEF Inv
<1>3. u \in User /\ where[u] = c
  BY <1>1, WorkType DEF Inv, HandlersAreRight, HandlerIsRight
<1>4. status'[u] # "InLogin" /\ \A v \in User : v # u => status'[v] = status[v]
  BY <1>1, <1>3 DEF Inv, TypeOK
<1>5. HandlersAreRight'
  <2> SUFFICES ASSUME NEW d \in Channel PROVE HandlerIsRight(d)'
    BY DEF HandlersAreRight
  <2>1. CASE d = c
    BY <1>2, <2>1 DEF Step, HandlerIsRight, Idle, Creating
  <2>2. CASE d # c
    <3>1. work[d].at # "idle" => work[d].user \in User /\ work[d].user # u
      BY <1>1, <2>2, OtherHandler
    <3> QED BY <1>1, <1>2, <1>4, <2>2, <3>1, KeepsRight DEF Step
  <2> QED BY <2>1, <2>2
<1>6. NobodyIsIgnored'
  <2> SUFFICES ASSUME NEW v \in User, status'[v] = "InLogin", nick[v] # None
               PROVE  /\ work'[where[v]].user = v
                      /\ work'[where[v]].at \in {"login", "enter"}
    BY <1>1 DEF NobodyIsIgnored
  <2>1. v # u /\ status[v] = "InLogin"
    BY <1>4
  <2>2. work[where[v]].user = v /\ work[where[v]].at \in {"login", "enter"}
    BY <2>1 DEF Inv, NobodyIsIgnored
  <2>3. where[v] \in Channel /\ where[v] # c
    BY <2>1, <2>2 DEF Inv, TypeOK, Listed
  <2> QED BY <1>2, <2>2, <2>3 DEF Step
<1>7. Listed'
  <2>1. where[u] # None
    BY <1>3, CharactersAssumption
  <2> QED BY <1>1, <1>4, <2>1 DEF Inv, Listed
<1>8. CharacterIsComplete' /\ NicknamePerChannel'
  BY <1>1 DEF Inv, CharacterIsComplete, NicknamePerChannel
<1> QED BY <1>5, <1>6, <1>7, <1>8 DEF Inv

-----------------------------------------------------------------------------
(* Statements on the tables.                                               *)

\* The rows of table t are there.
LEMMA NextTableStep ==
  ASSUME Inv, NEW c \in Channel, NEW t \in Table, work[c].at # "idle", NextTable(c, t)
  PROVE  \E w : /\ Step(c, w)
               /\ w.user = work[c].user /\ w.nick = work[c].nick
               /\ \/ w.at = "nickname" /\ t = 3
                  \/ w.at = "select" /\ w.table \in Table /\ w.table = t + 1
<1>1. CASE t = 3
  <2> DEFINE w == [at |-> "nickname", user |-> work[c].user, nick |-> work[c].nick, table |-> 0]
  <2>1. Step(c, w)
    BY <1>1, ProceedStep DEF NextTable, At, Creating, Inv
  <2> QED BY <1>1, <2>1
<1>2. CASE t # 3
  <2> DEFINE w == [at |-> "select", user |-> work[c].user, nick |-> work[c].nick,
                   table |-> t + 1]
  <2>1. t + 1 \in Table
    BY <1>2 DEF Table
  <2>2. Step(c, w)
    BY <1>2, <2>1, ProceedStep DEF NextTable, At, Creating, Inv
  <2> QED BY <2>1, <2>2
<1> QED BY <1>1, <1>2

\* A handler after NextTable is right if its rows up to table t are there.
LEMMA NextTableRight ==
  ASSUME Inv, NEW c \in Channel, NEW t \in Table, work[c].at \in {"select", "insert"},
         NextTable(c, t),
         UNCHANGED <<where, status, nick>>,
         \A s \in Table : s <= t => rows'[work[c].user][s] = 1
  PROVE  HandlerIsRight(c)'
<1>1. PICK w : /\ Step(c, w)
               /\ w.user = work[c].user /\ w.nick = work[c].nick
               /\ \/ w.at = "nickname" /\ t = 3
                  \/ w.at = "select" /\ w.table \in Table /\ w.table = t + 1
  BY NextTableStep
<1>2. /\ where[work[c].user] = c /\ status[work[c].user] = "InLogin"
      /\ work[c].nick \in Nickname /\ nick[work[c].user] = None
  BY DEF Inv, HandlersAreRight, HandlerIsRight, Creating
<1>3. CASE w.at = "nickname"
  <2>1. \A s \in Table : rows'[work[c].user][s] = 1
    BY <1>1, <1>3 DEF Table
  <2> QED BY <1>1, <1>2, <1>3, <2>1 DEF Step, HandlerIsRight, Creating
<1>4. CASE w.at = "select" /\ w.table \in Table /\ w.table = t + 1
  <2>1. \A s \in Table : s < w.table => rows'[work[c].user][s] = 1
    BY <1>4 DEF Table
  <2> QED BY <1>1, <1>2, <1>4, <2>1 DEF Step, HandlerIsRight, Creating
<1> QED BY <1>1, <1>3, <1>4

LEMMA SelectRowsInv ==
  ASSUME Inv, TypeOK', NEW c \in Channel, SelectRows(c)
  PROVE  Inv'
<1> DEFINE u == work[c].user
           t == work[c].table
<1>1. work[c].at = "select" /\ UNCHANGED <<where, status, rows, nick, author>>
  BY DEF SelectRows, tables
<1>2. /\ u \in User /\ t \in Table /\ nick[u] = None
      /\ work[c].nick \in Nickname /\ where[u] = c /\ status[u] = "InLogin"
      /\ \A s \in Table : s < t => rows[u][s] = 1
  BY <1>1, WorkType DEF Inv, HandlersAreRight, HandlerIsRight, Creating
<1>3. rows[u][t] \in Nat /\ rows[u][t] <= 1
  BY <1>2 DEF Inv, TypeOK, CharacterIsComplete
<1>4. CASE rows[u][t] > 0
  <2>1. NextTable(c, t)
    BY <1>4 DEF SelectRows, Found
  <2>2. \A s \in Table : s <= t => rows[u][s] = 1
    BY <1>2, <1>3, <1>4 DEF Table
  <2>3. HandlerIsRight(c)'
    BY <1>1, <1>2, <2>1, <2>2, NextTableRight
  <2> QED BY <1>1, <1>2, <2>1, <2>3, NextTableStep, MoveInv
<1>5. CASE ~ (rows[u][t] > 0)
  <2> DEFINE w == [at |-> "insert", user |-> u, nick |-> work[c].nick, table |-> t]
  <2>1. Step(c, w)
    BY <1>1, <1>2, <1>5, ProceedStep DEF SelectRows, At, Creating, Inv
  <2>2. rows[u][t] = 0
    BY <1>3, <1>5
  <2>3. HandlerIsRight(c)'
    BY <1>1, <1>2, <2>1, <2>2 DEF Step, HandlerIsRight, Creating
  <2> QED BY <1>1, <2>1, <2>3, MoveInv
<1> QED BY <1>4, <1>5

LEMMA InsertRowsInv ==
  ASSUME Inv, TypeOK', NEW c \in Channel, InsertRows(c)
  PROVE  Inv'
<1> DEFINE u == work[c].user
           t == work[c].table
<1>1. /\ work[c].at = "insert" /\ NextTable(c, t)
      /\ rows' = [rows EXCEPT ![u][t] = @ + 1]
      /\ UNCHANGED <<where, status, nick, author>>
  BY DEF InsertRows
<1>2. /\ u \in User /\ t \in Table /\ nick[u] = None /\ where[u] = c
      /\ rows[u][t] = 0
      /\ \A s \in Table : s < t => rows[u][s] = 1
  BY <1>1, WorkType DEF Inv, HandlersAreRight, HandlerIsRight, Creating
<1>3. /\ rows'[u][t] = 1
      /\ \A s \in Table : s # t => rows'[u][s] = rows[u][s]
      /\ \A v \in User : v # u => rows'[v] = rows[v]
  BY <1>1, <1>2 DEF Inv, TypeOK
<1>4. \A s \in Table : s <= t => rows'[u][s] = 1
  BY <1>2, <1>3 DEF Table
<1>5. PICK w : Step(c, w) /\ w.at \in {"nickname", "select"}
  BY <1>1, <1>2, NextTableStep
<1>6. HandlersAreRight'
  <2> SUFFICES ASSUME NEW d \in Channel PROVE HandlerIsRight(d)'
    BY DEF HandlersAreRight
  <2>1. CASE d = c
    BY <1>1, <1>2, <1>4, <2>1, NextTableRight
  <2>2. CASE d # c
    <3>1. work[d].at # "idle" => work[d].user \in User /\ work[d].user # u
      BY <1>1, <2>2, OtherHandler
    <3> QED BY <1>1, <1>3, <1>5, <2>2, <3>1, KeepsRight DEF Step
  <2> QED BY <2>1, <2>2
<1>7. NobodyIsIgnored'
  <2> SUFFICES ASSUME NEW v \in User, status[v] = "InLogin", nick[v] # None
               PROVE  /\ work'[where[v]].user = v
                      /\ work'[where[v]].at \in {"login", "enter"}
    BY <1>1 DEF NobodyIsIgnored
  <2>1. work[where[v]].user = v /\ work[where[v]].at \in {"login", "enter"}
    BY DEF Inv, NobodyIsIgnored
  <2>2. where[v] \in Channel /\ where[v] # c
    BY <1>1, <2>1 DEF Inv, TypeOK, Listed
  <2> QED BY <1>5, <2>1, <2>2 DEF Step
<1>8. CharacterIsComplete'
  BY <1>1, <1>2, <1>3 DEF Inv, CharacterIsComplete
<1>9. Listed' /\ NicknamePerChannel'
  BY <1>1 DEF Inv, Listed, NicknamePerChannel
<1> QED BY <1>6, <1>7, <1>8, <1>9 DEF Inv

LEMMA InsertCharacterInv ==
  ASSUME Inv, TypeOK', NEW c \in Channel, InsertCharacter(c)
  PROVE  Inv'
<1> DEFINE u == work[c].user
           w == [at |-> "enter", user |-> u, nick |-> work[c].nick, table |-> 0]
<1>1. /\ work[c].at = "create" /\ Proceed(c, "enter", 0)
      /\ nick' = [nick EXCEPT ![u] = work[c].nick]
      /\ author' = [author EXCEPT ![u] = c]
      /\ UNCHANGED <<where, status, rows>>
  BY DEF InsertCharacter
<1>2. /\ u \in User /\ where[u] = c /\ status[u] = "InLogin"
      /\ work[c].nick \in Nickname
      /\ \A t \in Table : rows[u][t] = 1
      /\ \A v \in User : nick[v] = work[c].nick => author[v] # c
  BY <1>1, WorkType DEF Inv, HandlersAreRight, HandlerIsRight, Creating
<1>3. Step(c, w)
  BY <1>1, ProceedStep DEF At, Inv
<1>4. /\ nick'[u] = work[c].nick /\ nick'[u] # None /\ author'[u] = c
      /\ \A v \in User : v # u => nick'[v] = nick[v] /\ author'[v] = author[v]
  BY <1>1, <1>2, CharactersAssumption DEF Inv, TypeOK
<1>5. HandlersAreRight'
  <2> SUFFICES ASSUME NEW d \in Channel PROVE HandlerIsRight(d)'
    BY DEF HandlersAreRight
  <2>1. CASE d = c
    BY <1>1, <1>2, <1>3, <1>4, <2>1 DEF Step, HandlerIsRight, Creating
  <2>2. CASE d # c
    <3>1. work[d].at # "idle" => work[d].user \in User /\ work[d].user # u
      BY <1>1, <2>2, OtherHandler
    <3> QED BY <1>1, <1>3, <1>4, <2>2, <3>1, KeepsRight DEF Step
  <2> QED BY <2>1, <2>2
<1>6. NobodyIsIgnored'
  <2> SUFFICES ASSUME NEW v \in User, status[v] = "InLogin", nick'[v] # None
               PROVE  /\ work'[where[v]].user = v
                      /\ work'[where[v]].at \in {"login", "enter"}
    BY <1>1 DEF NobodyIsIgnored
  <2>1. CASE v = u
    BY <1>2, <1>3, <2>1 DEF Step
  <2>2. CASE v # u
    <3>1. work[where[v]].user = v /\ work[where[v]].at \in {"login", "enter"}
      BY <1>4, <2>2 DEF Inv, NobodyIsIgnored
    <3>2. where[v] \in Channel /\ where[v] # c
      BY <1>1, <3>1 DEF Inv, TypeOK, Listed
    <3> QED BY <1>3, <3>1, <3>2 DEF Step
  <2> QED BY <2>1, <2>2
<1>7. CharacterIsComplete'
  BY <1>1, <1>2, <1>4 DEF Inv, CharacterIsComplete
<1>8. NicknamePerChannel'
  <2> SUFFICES ASSUME NEW v \in User, NEW x \in User, v # x, nick'[v] # None, nick'[v] = nick'[x]
               PROVE  author'[v] # author'[x]
    BY DEF NicknamePerChannel
  <2>1. CASE v = u
    BY <1>2, <1>4, <2>1
  <2>2. CASE x = u
    BY <1>2, <1>4, <2>2
  <2>3. CASE v # u /\ x # u
    BY <1>4, <2>3 DEF Inv, NicknamePerChannel
  <2> QED BY <2>1, <2>2, <2>3
<1>9. Listed'
  BY <1>1 DEF Inv, Listed
<1> QED BY <1>5, <1>6, <1>7, <1>8, <1>9 DEF Inv

LEMMA SelectNicknameInv ==
  ASSUME Inv, TypeOK', NEW c \in Channel, SelectNickname(c)
  PROVE  Inv'
<1>1. work[c].at = "nickname" /\ UNCHANGED <<where, status, rows, nick, author>>
  BY DEF SelectNickname, tables
<1>2. CASE Taken(work[c].nick)
  <2>1. Step(c, Idle)
    BY <1>2, DoneStep DEF SelectNickname, Inv
  <2>2. HandlerIsRight(c)'
    BY <2>1 DEF Step, HandlerIsRight, Idle, Creating
  <2> QED BY <1>1, <2>1, <2>2, MoveInv
<1>3. CASE ~ Taken(work[c].nick)
  <2> DEFINE w == [at |-> "create", user |-> work[c].user, nick |-> work[c].nick, table |-> 0]
  <2>1. Step(c, w)
    BY <1>1, <1>3, ProceedStep DEF SelectNickname, At, Creating, Inv
  <2>2. \A v \in User : nick[v] # work[c].nick
    BY <1>3 DEF Taken
  <2>3. HandlerIsRight(c)
    BY DEF Inv, HandlersAreRight
  <2>4. HandlerIsRight(c)'
    BY <1>1, <2>1, <2>2, <2>3 DEF Step, HandlerIsRight, Creating
  <2> QED BY <1>1, <2>1, <2>4, MoveInv
<1> QED BY <1>2, <1>3

-----------------------------------------------------------------------------
(* The other statements; processes.                                        *)

\* A handler that is neither at login nor about to enter may end anywhere.
LEMMA EndInv ==
  ASSUME Inv, TypeOK', NEW c \in Channel, work[c].at \notin {"login", "enter"}, Done(c),
         UNCHANGED <<where, status, rows, nick, author>>
  PROVE  Inv'
<1>1. Step(c, Idle)
  BY DoneStep DEF Inv
<1>2. HandlerIsRight(c)'
  BY <1>1 DEF Step, HandlerIsRight, Idle, Creating
<1> QED BY <1>1, <1>2, MoveInv

LEMMA RecvCharacterInv ==
  ASSUME Inv, TypeOK', NEW c \in Channel, NEW u \in User, NEW n \in Nickname,
         RecvCharacter(c, u, n)
  PROVE  Inv'
<1> DEFINE w == [at |-> "exists", user |-> u, nick |-> n, table |-> 0]
<1>1. /\ where[u] = c /\ status[u] = "InLogin" /\ work[c] = Idle
      /\ UNCHANGED <<where, status, rows, nick, author>>
  BY DEF RecvCharacter, Begin, tables
<1>2. Step(c, w)
  <2>1. w \in Work
    BY DEF Work
  <2> QED BY <2>1, AssignStep DEF RecvCharacter, Begin, Inv
<1>3. HandlerIsRight(c)'
  BY <1>1, <1>2 DEF Step, HandlerIsRight, Creating
<1>4. work[c].at = "idle"
  BY <1>1 DEF Idle
<1> QED BY <1>1, <1>2, <1>3, <1>4, MoveInv

LEMMA ExistsInv ==
  ASSUME Inv, TypeOK', NEW c \in Channel, IsUserCharacterExists(c)
  PROVE  Inv'
<1>1. work[c].at = "exists" /\ UNCHANGED <<where, status, rows, nick, author>>
  BY DEF IsUserCharacterExists, tables
<1>2. CASE nick[work[c].user] # None
  BY <1>1, <1>2, EndInv DEF IsUserCharacterExists
<1>3. CASE nick[work[c].user] = None
  <2> DEFINE w == [at |-> "select", user |-> work[c].user, nick |-> work[c].nick, table |-> 1]
  <2>1. Step(c, w)
    <3>1. "select" \in At /\ 1 \in {0} \cup Table
      BY DEF At, Creating, Table
    <3> QED BY <1>1, <1>3, <3>1, ProceedStep DEF IsUserCharacterExists, Inv
  <2>2. HandlerIsRight(c)
    BY DEF Inv, HandlersAreRight
  <2>3. HandlerIsRight(c)'
    BY <1>1, <1>3, <2>1, <2>2 DEF Step, HandlerIsRight, Creating, Table
  <2> QED BY <1>1, <2>1, <2>3, MoveInv
<1> QED BY <1>2, <1>3

LEMMA LoginFindsCharacterInv ==
  ASSUME Inv, TypeOK', NEW c \in Channel, LoginFindsCharacter(c)
  PROVE  Inv'
<1> DEFINE u == work[c].user
<1>1. work[c].at = "login" /\ UNCHANGED <<rows, nick, author>>
  BY DEF LoginFindsCharacter, tables
<1>2. u \in User /\ HandlerIsRight(c)
  BY <1>1, WorkType DEF Inv, HandlersAreRight
<1>3. CASE nick[u] = None /\ Done(c) /\ UNCHANGED <<where, status>>
  <2>1. Step(c, Idle)
    BY <1>3, DoneStep DEF Inv
  <2>2. HandlerIsRight(c)'
    BY <2>1 DEF Step, HandlerIsRight, Idle, Creating
  <2> QED BY <1>1, <1>3, <2>1, <2>2, MoveInv
<1>4. CASE nick[u] # None /\ Proceed(c, "enter", 0) /\ UNCHANGED <<where, status>>
  <2> DEFINE w == [at |-> "enter", user |-> u, nick |-> work[c].nick, table |-> 0]
  <2>1. Step(c, w)
    BY <1>1, <1>4, ProceedStep DEF At, Inv
  <2>2. HandlerIsRight(c)'
    BY <1>1, <1>2, <1>4, <2>1 DEF Step, HandlerIsRight, Creating
  <2> QED BY <1>1, <1>4, <2>1, <2>2, MoveInv
<1>5. CASE Done(c) /\ Remove(u)
  <2>1. Step(c, Idle)
    BY <1>5, DoneStep DEF Inv
  <2>2. where[u] = c
    BY <1>1, <1>2 DEF HandlerIsRight
  <2> QED BY <1>1, <1>2, <1>5, <2>1, <2>2, RemoveInv
<1> QED BY <1>3, <1>4, <1>5 DEF LoginFindsCharacter

LEMMA DisconnectInv ==
  ASSUME Inv, TypeOK', NEW c \in Channel, NEW u \in User, Disconnect(c, u)
  PROVE  Inv'
<1>1. /\ where[u] = c /\ work[c] = Idle /\ Remove(u)
      /\ UNCHANGED <<work, rows, nick, author>>
  BY DEF Disconnect, tables
<1>2. Step(c, Idle) /\ work[c].at = "idle"
  BY <1>1 DEF Step, Inv, TypeOK, Idle
<1> QED BY <1>1, <1>2, RemoveInv

LEMMA CrashInv ==
  ASSUME Inv, TypeOK', NEW c \in Channel, Crash(c)
  PROVE  Inv'
<1>1. /\ where' = [u \in User |-> IF where[u] = c THEN None ELSE where[u]]
      /\ status' = [u \in User |-> IF where[u] = c THEN "Offline" ELSE status[u]]
      /\ Done(c)
      /\ UNCHANGED <<rows, nick, author>>
  BY DEF Crash, Done, tables
<1>2. Step(c, Idle)
  BY <1>1, DoneStep DEF Inv
<1>3. HandlersAreRight'
  <2> SUFFICES ASSUME NEW d \in Channel PROVE HandlerIsRight(d)'
    BY DEF HandlersAreRight
  <2>1. CASE d = c
    BY <1>2, <2>1 DEF Step, HandlerIsRight, Idle, Creating
  <2>2. CASE d # c
    <3>1. work[d].at # "idle" => work[d].user \in User /\ where[work[d].user] = d
      BY <2>2, OtherHandler
    <3> QED BY <1>1, <1>2, <2>2, <3>1, KeepsRight DEF Step
  <2> QED BY <2>1, <2>2
<1>4. NobodyIsIgnored'
  <2> SUFFICES ASSUME NEW v \in User, status'[v] = "InLogin", nick[v] # None
               PROVE  /\ work'[where'[v]].user = v
                      /\ work'[where'[v]].at \in {"login", "enter"}
    BY <1>1 DEF NobodyIsIgnored
  <2>1. where[v] # c /\ where'[v] = where[v] /\ status[v] = "InLogin"
    BY <1>1
  <2>2. work[where[v]].user = v /\ work[where[v]].at \in {"login", "enter"}
    BY <2>1 DEF Inv, NobodyIsIgnored
  <2>3. where[v] \in Channel
    BY <2>1 DEF Inv, TypeOK, Listed
  <2> QED BY <1>2, <2>1, <2>2, <2>3 DEF Step
<1>5. Listed'
  BY <1>1 DEF Inv, Listed
<1>6. CharacterIsComplete' /\ NicknamePerChannel'
  BY <1>1 DEF Inv, CharacterIsComplete, NicknamePerChannel
<1> QED BY <1>3, <1>4, <1>5, <1>6 DEF Inv

LEMMA SameInv ==
  ASSUME Inv, TypeOK', UNCHANGED <<where, status, work, rows, nick, author>>
  PROVE  Inv'
  BY DEF Inv, Listed, HandlersAreRight, HandlerIsRight, CharacterIsComplete, NobodyIsIgnored,
         NicknamePerChannel

-----------------------------------------------------------------------------
(* The shape of the state.                                                 *)

LEMMA Increment ==
  ASSUME NEW f \in [Table -> Nat], NEW t \in Table
  PROVE  [f EXCEPT ![t] = @ + 1] \in [Table -> Nat]
<1>1. f[t] + 1 \in Nat
  OBVIOUS
<1> QED BY <1>1

LEMMA TypeStep == Inv /\ [Next]_vars => TypeOK'
<1> SUFFICES ASSUME Inv, TypeOK, [Next]_vars PROVE TypeOK'
  BY DEF Inv
<1>1. ASSUME NEW c \in Channel, Done(c)
      PROVE  work' \in [Channel -> Work]
  BY <1>1, DoneStep DEF Step
<1>2. ASSUME NEW c \in Channel, NEW at \in At, NEW t \in {0} \cup Table,
             work[c].at # "idle", Proceed(c, at, t)
      PROVE  work' \in [Channel -> Work]
  BY <1>2, ProceedStep DEF Step
<1>3. ASSUME NEW c \in Channel, NEW at \in {"login", "exists"}, NEW u \in User,
             NEW n \in Nickname \cup {None}, Begin(c, at, u, n)
      PROVE  work' \in [Channel -> Work]
  <2> DEFINE w == [at |-> at, user |-> u, nick |-> n, table |-> 0]
  <2>1. w \in Work
    BY DEF Work
  <2> QED BY <1>3, <2>1, AssignStep DEF Begin, Step
<1>4. ASSUME NEW c \in Channel, NEW t \in Table, work[c].at # "idle", NextTable(c, t)
      PROVE  work' \in [Channel -> Work]
  <2>1. t # 3 => t + 1 \in Table
    BY DEF Table
  <2> QED BY <1>2, <1>4, <2>1 DEF NextTable, At, Creating
<1>5. ASSUME Fault
      PROVE  faults' \in 0 .. MaxFaults
  BY <1>5, CharactersAssumption DEF Fault, TypeOK
<1>6. ASSUME NEW u, Remove(u)
      PROVE  where' \in [User -> Channel \cup {None}] /\ status' \in [User -> Status]
  BY <1>6 DEF Remove, TypeOK, Status
<1>7. ASSUME NEW c \in Channel, Start(c)
      PROVE  TypeOK'
  BY <1>7 DEF Start, TypeOK, tables
<1>8. ASSUME NEW c \in Channel, Crash(c)
      PROVE  TypeOK'
  <2>1. work' \in [Channel -> Work]
    BY <1>1, <1>8 DEF Crash, Done
  <2>2. where' \in [User -> Channel \cup {None}] /\ status' \in [User -> Status]
    BY <1>8 DEF Crash, TypeOK, Status
  <2> QED BY <1>5, <1>8, <2>1, <2>2 DEF Crash, TypeOK, tables
<1>9. ASSUME NEW c \in Channel, NEW u \in User, Disconnect(c, u)
      PROVE  TypeOK'
  BY <1>6, <1>9 DEF Disconnect, TypeOK, tables
<1>10. ASSUME NEW c \in Channel, Fails(c)
       PROVE  TypeOK'
  BY <1>1, <1>5, <1>10 DEF Fails, TypeOK, tables
<1>11. ASSUME NEW c \in Channel, NEW u \in User, Login(c, u)
       PROVE  TypeOK'
  BY <1>3, <1>11 DEF Login, TypeOK, Status, tables
<1>12. ASSUME NEW c \in Channel, NEW u \in User, NEW n \in Nickname, RecvCharacter(c, u, n)
       PROVE  TypeOK'
  BY <1>3, <1>12 DEF RecvCharacter, TypeOK, tables
<1>13. ASSUME NEW c \in Channel, LoginFindsCharacter(c)
       PROVE  TypeOK'
  <2>1. work[c].at = "login" /\ UNCHANGED <<running, rows, nick, author>>
    BY <1>13 DEF LoginFindsCharacter, tables
  <2>2. CASE Done(c) /\ UNCHANGED <<where, status, faults>>
    BY <1>1, <2>1, <2>2 DEF TypeOK
  <2>3. CASE Proceed(c, "enter", 0) /\ UNCHANGED <<where, status, faults>>
    BY <1>2, <2>1, <2>3 DEF TypeOK, At
  <2>4. CASE Fault /\ Done(c) /\ Remove(work[c].user)
    BY <1>1, <1>5, <1>6, <2>1, <2>4 DEF TypeOK
  <2> QED BY <1>13, <2>2, <2>3, <2>4 DEF LoginFindsCharacter
<1>14. ASSUME NEW c \in Channel, IsUserCharacterExists(c)
       PROVE  TypeOK'
  <2>1. "select" \in At /\ 1 \in {0} \cup Table
    BY DEF At, Creating, Table
  <2>2. work' \in [Channel -> Work]
    BY <1>1, <1>2, <1>14, <2>1 DEF IsUserCharacterExists
  <2> QED BY <1>14, <2>2 DEF IsUserCharacterExists, TypeOK, tables
<1>15. ASSUME NEW c \in Channel, SelectRows(c)
       PROVE  TypeOK'
  <2> USE DEF Creating
  <2>0. work[c].table \in Table
    BY <1>15 DEF SelectRows, Inv, HandlersAreRight, HandlerIsRight
  <2>1. work' \in [Channel -> Work]
    BY <1>2, <1>4, <1>15, <2>0 DEF SelectRows, Found, At, Creating
  <2> QED BY <1>15, <2>1 DEF SelectRows, TypeOK, tables
<1>16. ASSUME NEW c \in Channel, InsertRows(c)
       PROVE  TypeOK'
  <2> USE DEF Creating
  <2>0. work[c].table \in Table
    BY <1>16 DEF InsertRows, Inv, HandlersAreRight, HandlerIsRight
  <2>1. work' \in [Channel -> Work]
    BY <1>4, <1>16, <2>0 DEF InsertRows
  <2>2. rows' \in [User -> [Table -> Nat]]
    <3> DEFINE u == work[c].user
               t == work[c].table
    <3>1. u \in User
      BY <1>16, WorkType DEF InsertRows
    <3>2. rows \in [User -> [Table -> Nat]] /\ rows[u] \in [Table -> Nat]
      BY <3>1 DEF TypeOK
    <3>4. [rows[u] EXCEPT ![t] = @ + 1] \in [Table -> Nat]
      BY <2>0, <3>2, Increment
    <3>5. rows' = [rows EXCEPT ![u] = [rows[u] EXCEPT ![t] = @ + 1]]
      BY <1>16 DEF InsertRows
    <3> HIDE DEF u, t
    <3> QED BY <3>2, <3>4, <3>5
  <2> QED BY <1>16, <2>1, <2>2 DEF InsertRows, TypeOK
<1>17. ASSUME NEW c \in Channel, SelectNickname(c)
       PROVE  TypeOK'
  <2>1. work' \in [Channel -> Work]
    BY <1>1, <1>2, <1>17 DEF SelectNickname, At, Creating
  <2> QED BY <1>17, <2>1 DEF SelectNickname, TypeOK, tables
<1>18. ASSUME NEW c \in Channel, InsertCharacter(c)
       PROVE  TypeOK'
  <2>1. work' \in [Channel -> Work]
    BY <1>2, <1>18 DEF InsertCharacter, At
  <2>2. work[c].nick \in Nickname \cup {None}
    BY <1>18, WorkType DEF InsertCharacter
  <2> QED BY <1>18, <2>1, <2>2 DEF InsertCharacter, TypeOK
<1>19. ASSUME NEW c \in Channel, SendLoginPackets(c)
       PROVE  TypeOK'
  <2>1. status' \in [User -> Status]
    BY <1>19 DEF SendLoginPackets, DisconnectUser, TypeOK, Status
  <2> QED BY <1>1, <1>5, <1>19, <2>1 DEF SendLoginPackets, TypeOK, tables
<1>20. CASE UNCHANGED vars
  BY <1>20 DEF vars, TypeOK
<1> QED BY <1>7, <1>8, <1>9, <1>10, <1>11, <1>12, <1>13, <1>14, <1>15, <1>16, <1>17, <1>18,
           <1>19, <1>20 DEF Next, Statement

LEMMA NextInv == Inv /\ [Next]_vars => Inv'
<1> SUFFICES ASSUME Inv, [Next]_vars PROVE Inv'
  OBVIOUS
<1>1. TypeOK'
  BY TypeStep
<1>2. ASSUME NEW c \in Channel, Statement(c)
      PROVE  Inv'
  BY <1>1, <1>2, LoginFindsCharacterInv, ExistsInv, SelectRowsInv, InsertRowsInv,
     SelectNicknameInv, InsertCharacterInv, SendLoginPacketsInv DEF Statement
<1>3. ASSUME NEW c \in Channel, Fails(c)
      PROVE  Inv'
  BY <1>1, <1>3, EndInv DEF Fails, tables
<1>4. ASSUME NEW c \in Channel, NEW u \in User, Login(c, u) \/ Disconnect(c, u)
      PROVE  Inv'
  BY <1>1, <1>4, LoginInv, DisconnectInv
<1>5. ASSUME NEW c \in Channel, NEW u \in User, NEW n \in Nickname, RecvCharacter(c, u, n)
      PROVE  Inv'
  BY <1>1, <1>5, RecvCharacterInv
<1>6. ASSUME NEW c \in Channel, Crash(c)
      PROVE  Inv'
  BY <1>1, <1>6, CrashInv
<1>7. ASSUME NEW c \in Channel, Start(c)
      PROVE  Inv'
  BY <1>1, <1>7, SameInv DEF Start, tables
<1>8. CASE UNCHANGED vars
  BY <1>1, <1>8, SameInv DEF vars
<1> QED BY <1>2, <1>3, <1>4, <1>5, <1>6, <1>7, <1>8 DEF Next

-----------------------------------------------------------------------------
(* The theorems.                                                           *)

LEMMA CharactersConsistency == Spec => []Inv
  BY InitInv, NextInv, PTL DEF Spec

\* The state keeps its shape.
THEOREM CharactersTypeCorrect == Spec => []TypeOK
<1>1. Inv => TypeOK
  BY DEF Inv
<1> QED BY <1>1, CharactersConsistency, PTL

\* A user with a character has its default rows once, wherever a statement
\* failed or a process crashed.
THEOREM CompleteCorrect == Spec => []CharacterIsComplete
<1>1. Inv => CharacterIsComplete
  BY DEF Inv
<1> QED BY <1>1, CharactersConsistency, PTL

\* A client that waits to create its character is not ignored.
THEOREM AnsweredCorrect == Spec => []NobodyIsIgnored
<1>1. Inv => NobodyIsIgnored
  BY DEF Inv
<1> QED BY <1>1, CharactersConsistency, PTL

\* A channel gives a nickname once.
THEOREM NicknameCorrect == Spec => []NicknamePerChannel
<1>1. Inv => NicknamePerChannel
  BY DEF Inv
<1> QED BY <1>1, CharactersConsistency, PTL
=============================================================================
