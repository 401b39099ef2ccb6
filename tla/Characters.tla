----------------------------- MODULE Characters -----------------------------
(***************************************************************************)
(* The creation of characters.  A user whose first login finds no          *)
(* character sends a nickname; the channel gives it the default rows of    *)
(* user_buymenus, user_bookmarks and user_inventory, unless it has them    *)
(* from an attempt that failed, and then its row of user_characters, if    *)
(* nobody has the nickname.  No transaction holds these statements         *)
(* together, and several channels work on the same tables.  One action is  *)
(* one SQL statement with the code up to the next one.                     *)
(* The definitions named Bug... are faulty variants of the one that        *)
(* follows.                                                                *)
(*                                                                         *)
(* Simplifications: a statement that fails changes nothing; nicknames that *)
(* break a rule of form are refused before the first statement and left    *)
(* out; a user logs in at one place at a time (OneChannel of Sessions),    *)
(* and the statements on its session are left out.                         *)
(***************************************************************************)
EXTENDS Naturals

CONSTANTS
  Channel,
  User,
  Nickname,
  None,       \* no user, no channel, no nickname
  MaxFaults   \* bounds the statements that fail and the processes that crash

ASSUME CharactersAssumption ==
  None \notin Channel \cup User \cup Nickname /\ MaxFaults \in Nat

VARIABLES
  running,  \* channels whose process runs
  where,    \* the channel that lists a user
  status,   \* _userStatus; Closed: the socket of the user is closed
  work,     \* the statement the TCP thread of a channel is at
  rows,     \* number of sets of default rows of a user in each table
  nick,     \* user_characters: the nickname of a user
  author,   \* the channel that inserted it
  faults    \* number of faults

vars == <<running, where, status, work, rows, nick, author, faults>>

\* user_buymenus, user_bookmarks and user_inventory, in this order.
Table == 1 .. 3
Status == {"Offline", "InLogin", "InServerList", "Closed"}

Idle == [at |-> "idle", user |-> None, nick |-> None, table |-> 0]
Work == [at : {"login", "exists", "select", "insert", "nickname", "create", "enter"},
         user : User, nick : Nickname \cup {None}, table : {0} \cup Table] \cup {Idle}

TypeOK ==
  /\ running \subseteq Channel
  /\ where \in [User -> Channel \cup {None}]
  /\ status \in [User -> Status]
  /\ work \in [Channel -> Work]
  /\ rows \in [User -> [Table -> Nat]]
  /\ nick \in [User -> Nickname \cup {None}]
  /\ author \in [User -> Channel \cup {None}]
  /\ faults \in 0 .. MaxFaults

Init ==
  /\ running = {}
  /\ where = [u \in User |-> None]
  /\ status = [u \in User |-> "Offline"]
  /\ work = [c \in Channel |-> Idle]
  /\ rows = [u \in User |-> [t \in Table |-> 0]]
  /\ nick = [u \in User |-> None]
  /\ author = [u \in User |-> None]
  /\ faults = 0

tables == <<rows, nick, author>>

Fault == faults < MaxFaults /\ faults' = faults + 1

-----------------------------------------------------------------------------
\* Processes and connections.

Start(c) ==
  /\ c \notin running
  /\ running' = running \cup {c}
  /\ UNCHANGED <<where, status, work, tables, faults>>

Crash(c) ==
  /\ c \in running
  /\ Fault
  /\ running' = running \ {c}
  /\ where' = [u \in User |-> IF where[u] = c THEN None ELSE where[u]]
  /\ status' = [u \in User |-> IF where[u] = c THEN "Offline" ELSE status[u]]
  /\ work' = [work EXCEPT ![c] = Idle]
  /\ UNCHANGED tables

Remove(u) ==
  /\ where' = [where EXCEPT ![u] = None]
  /\ status' = [status EXCEPT ![u] = "Offline"]

Disconnect(c, u) ==
  /\ where[u] = c
  /\ work[c] = Idle
  /\ Remove(u)
  /\ UNCHANGED <<running, work, tables, faults>>

-----------------------------------------------------------------------------
\* Control of a handler.

Begin(c, at, u, n) ==
  /\ c \in running
  /\ work[c] = Idle
  /\ work' = [work EXCEPT ![c] = [at |-> at, user |-> u, nick |-> n, table |-> 0]]

Proceed(c, at, t) ==
  work' = [work EXCEPT ![c] = [at |-> at, user |-> @.user, nick |-> @.nick, table |-> t]]

Done(c) == work' = [work EXCEPT ![c] = Idle]

\* The statement after the rows of table t are there.
BugNextTableLate(c, t) == IF t = 4 THEN Proceed(c, "nickname", 0) ELSE Proceed(c, "select", t + 1)
BugNextTable(c, t) == IF t = 2 THEN Proceed(c, "nickname", 0) ELSE Proceed(c, "select", t + 1)
NextTable(c, t) == IF t = 3 THEN Proceed(c, "nickname", 0) ELSE Proceed(c, "select", t + 1)

\* A statement fails where it is only answered SysError.
Fails(c) ==
  /\ work[c].at \in {"exists", "select", "insert", "nickname", "create"}
  /\ Fault
  /\ Done(c)
  /\ UNCHANGED <<running, where, status, tables>>

-----------------------------------------------------------------------------
\* Login, once the session of the user is added.

Login(c, u) ==
  /\ where[u] = None
  /\ Begin(c, "login", u, None)
  /\ where' = [where EXCEPT ![u] = c]
  /\ status' = [status EXCEPT ![u] = "InLogin"]
  /\ UNCHANGED <<running, tables, faults>>

LoginFindsCharacter(c) ==
  LET u == work[c].user
  IN  /\ work[c].at = "login"
      /\ \/ nick[u] = None /\ Done(c) /\ UNCHANGED <<where, status, faults>>
         \/ nick[u] # None /\ Proceed(c, "enter", 0) /\ UNCHANGED <<where, status, faults>>
         \/ Fault /\ Done(c) /\ Remove(u)
      /\ UNCHANGED <<running, tables>>

\* The connection is closed, which leads to Disconnect.
BugDisconnectUser(u) == UNCHANGED status
DisconnectUser(u) == status' = [status EXCEPT ![u] = "Closed"]

\* SendLoginPackets reads the character again.
SendLoginPackets(c) ==
  LET u == work[c].user
  IN  /\ work[c].at = "enter"
      /\ \/ status' = [status EXCEPT ![u] = "InServerList"] /\ UNCHANGED faults
         \/ Fault /\ DisconnectUser(u)
      /\ Done(c)
      /\ UNCHANGED <<running, where, tables>>

-----------------------------------------------------------------------------
\* RecvCharacter.

RecvCharacter(c, u, n) ==
  /\ where[u] = c
  /\ status[u] = "InLogin"
  /\ Begin(c, "exists", u, n)
  /\ UNCHANGED <<running, where, status, tables, faults>>

IsUserCharacterExists(c) ==
  /\ work[c].at = "exists"
  /\ IF nick[work[c].user] = None THEN Proceed(c, "select", 1) ELSE Done(c)
  /\ UNCHANGED <<running, where, status, tables, faults>>

\* CreateUserBuymenus, CreateUserBookmarks and CreateUserInventory.
BugFound(c, t) == Done(c)
Found(c, t) == NextTable(c, t)

SelectRows(c) ==
  LET t == work[c].table
  IN  /\ work[c].at = "select"
      /\ IF rows[work[c].user][t] > 0 THEN Found(c, t) ELSE Proceed(c, "insert", t)
      /\ UNCHANGED <<running, where, status, tables, faults>>

InsertRows(c) ==
  LET t == work[c].table
  IN  /\ work[c].at = "insert"
      /\ rows' = [rows EXCEPT ![work[c].user][t] = @ + 1]
      /\ NextTable(c, t)
      /\ UNCHANGED <<running, where, status, nick, author, faults>>

\* CreateUserCharacter.
BugTaken(n) == FALSE
Taken(n) == \E v \in User : nick[v] = n

SelectNickname(c) ==
  /\ work[c].at = "nickname"
  /\ IF Taken(work[c].nick) THEN Done(c) ELSE Proceed(c, "create", 0)
  /\ UNCHANGED <<running, where, status, tables, faults>>

\* The table has no key on nickName.
InsertCharacter(c) ==
  LET u == work[c].user
  IN  /\ work[c].at = "create"
      /\ nick' = [nick EXCEPT ![u] = work[c].nick]
      /\ author' = [author EXCEPT ![u] = c]
      /\ Proceed(c, "enter", 0)
      /\ UNCHANGED <<running, where, status, rows, faults>>

-----------------------------------------------------------------------------
Statement(c) ==
  \/ LoginFindsCharacter(c)
  \/ IsUserCharacterExists(c)
  \/ SelectRows(c)
  \/ InsertRows(c)
  \/ SelectNickname(c)
  \/ InsertCharacter(c)
  \/ SendLoginPackets(c)

Next ==
  \E c \in Channel :
    \/ Start(c) \/ Crash(c) \/ Statement(c) \/ Fails(c)
    \/ \E u \in User :
         \/ Login(c, u) \/ Disconnect(c, u)
         \/ \E n \in Nickname : RecvCharacter(c, u, n)

Spec == Init /\ [][Next]_vars

\* Channels run and answer; a client comes back, and tries every nickname
\* again and again.
Fairness ==
  /\ \A c \in Channel : WF_vars(Start(c)) /\ WF_vars(Statement(c))
  /\ \A u \in User :
       /\ SF_vars(\E c \in Channel : Login(c, u))
       /\ \A n \in Nickname : SF_vars(\E c \in Channel : RecvCharacter(c, u, n))

FairSpec == Spec /\ Fairness

-----------------------------------------------------------------------------
\* A user with a character has the default rows of every table, and nobody
\* has them twice, whatever statements failed and channels crashed between
\* the inserts: SendLoginPackets relies on the rows, and nothing adds them
\* later.
CharacterIsComplete ==
  \A u \in User : \A t \in Table :
    /\ rows[u][t] <= 1
    /\ nick[u] # None => rows[u][t] = 1

\* ParsePacket_RecvCharacter ignores a user that has a character: a user that
\* waits in InLogin has none, or its client would be left without an answer.
NobodyIsIgnored ==
  \A u \in User : status[u] = "InLogin" /\ nick[u] # None =>
    work[where[u]].user = u /\ work[where[u]].at \in {"login", "enter"}

\* A channel gives a nickname to one user.  Two channels may: both find it
\* free before either inserts it.
NicknamePerChannel ==
  \A u, v \in User :
    u # v /\ nick[u] # None /\ nick[u] = nick[v] => author[u] # author[v]

\* Rows left by an attempt that failed do not keep a user from getting its
\* character by trying again.
GetsCharacter == \A u \in User : <>(nick[u] # None)
=============================================================================
