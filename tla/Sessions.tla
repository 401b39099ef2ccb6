------------------------------ MODULE Sessions ------------------------------
(***************************************************************************)
(* The users of several channels and the tables user_sessions and          *)
(* user_transfers, which the channels share.  A user logs in with its      *)
(* password, or with the token another channel gave it; a channel takes    *)
(* the session of another channel over if it believes that channel to be   *)
(* offline.  One action is one SQL statement with the code up to the next  *)
(* one: statements of different channels, and of the TCP and the tick      *)
(* thread of one channel, interleave.                                      *)
(*                                                                         *)
(* Simplifications: which channels are online comes from UDP datagrams and *)
(* is left to the actions Greet and Suspect; a transfer has no age, any    *)
(* prefix of the tokens issued may be over 60 seconds old; names,          *)
(* passwords, levels and the number of players of other channels are left  *)
(* out; a User that is deleted while the tick thread holds a pointer to it *)
(* still reads as it was.  The definitions named Bug... are faulty         *)
(* variants of the one that follows.                                       *)
(***************************************************************************)
EXTENDS Naturals, FiniteSets

CONSTANTS
  Channel,
  User,
  None,           \* no row
  MaxPlayers,     \* maxPlayers of a channel
  MaxTokens,      \* bounds the transfers requested
  MeshIsAccurate, \* channels never believe a running channel to be offline
  Stalls,         \* a channel may miss more than three seconds
  Crashes,        \* processes of channels may end
  OneClient,      \* a user logs in at one place at a time
  DBFaults        \* queries may fail

ASSUME SessionsAssumption ==
  /\ None \notin Channel \cup User
  /\ {MaxPlayers, MaxTokens} \subseteq Nat
  /\ {MeshIsAccurate, Stalls, Crashes, OneClient, DBFaults} \subseteq BOOLEAN
  /\ Stalls => ~MeshIsAccurate

VARIABLES
  running,    \* channels whose process runs
  online,     \* isOnline of every channel, in the process of each channel
  users,      \* _users of each channel
  sessions,   \* user_sessions: the channel of each user
  transfers,  \* user_transfers: target and authToken of each user
  work,       \* the login or recheck each thread is in the middle of
  recheck,    \* users the tick thread has yet to recheck after a stall
  issued,     \* number of tokens handed out
  redeemed    \* tokens with which a user was added

vars == <<running, online, users, sessions, transfers, work, recheck, issued, redeemed>>

Thread  == {"tcp", "tick"}
NoToken == 0
Token   == 1 .. MaxTokens

Transfer == [to : Channel, token : Token]

Idle == [at |-> "idle", user |-> None, token |-> NoToken]
Work == [at : {"select", "delete", "insert", "untransfer"},
         user : User, token : Token \cup {NoToken}] \cup {Idle}

TypeOK ==
  /\ running \subseteq Channel
  /\ online \in [Channel -> SUBSET Channel]
  /\ users \in [Channel -> SUBSET User]
  /\ sessions \in [User -> Channel \cup {None}]
  /\ transfers \in [User -> Transfer \cup {None}]
  /\ work \in [Channel -> [Thread -> Work]]
  /\ recheck \in [Channel -> SUBSET User]
  /\ issued \in 0 .. MaxTokens
  /\ redeemed \subseteq Token

Init ==
  /\ running = {}
  /\ online = [c \in Channel |-> {}]
  /\ users = [c \in Channel |-> {}]
  /\ sessions = [u \in User |-> None]
  /\ transfers = [u \in User |-> None]
  /\ work = [c \in Channel |-> [t \in Thread |-> Idle]]
  /\ recheck = [c \in Channel |-> {}]
  /\ issued = 0
  /\ redeemed = {}

-----------------------------------------------------------------------------
\* Start and end of a process.  A process that starts cleans up its rows
\* before it accepts connections.  What it believes of the others is empty
\* until they answer its HELLO.

BugRowsOf(c) == DOMAIN sessions
RowsOf(c) == {u \in User : sessions[u] = c}

TransfersTo(c) == {u \in User : transfers[u] # None /\ transfers[u].to = c}

\* DELETE of the rows of the users in U from table, unless the query fails.
Deleted(table, U) ==
  {[u \in User |-> IF u \in U THEN None ELSE table[u]]}
    \cup (IF DBFaults THEN {table} ELSE {})

Start(c) ==
  /\ c \notin running
  /\ running' = running \cup {c}
  /\ sessions' \in Deleted(sessions, RowsOf(c))
  /\ transfers' \in Deleted(transfers, TransfersTo(c))
  /\ online' = [d \in Channel |->
                  IF d = c THEN (IF MeshIsAccurate THEN running' ELSE {c})
                  ELSE IF MeshIsAccurate /\ d \in running THEN online[d] \cup {c}
                  ELSE online[d]]
  /\ UNCHANGED <<users, work, recheck, issued, redeemed>>

Crash(c) ==
  /\ Crashes
  /\ c \in running
  /\ running' = running \ {c}
  /\ online' = [online EXCEPT ![c] = {}]
  /\ users' = [users EXCEPT ![c] = {}]
  /\ work' = [work EXCEPT ![c] = [t \in Thread |-> Idle]]
  /\ recheck' = [recheck EXCEPT ![c] = {}]
  /\ UNCHANGED <<sessions, transfers, issued, redeemed>>

-----------------------------------------------------------------------------
\* What channel c believes of channel d: a HELLO of d arrives, however late,
\* or c misses the heartbeats of d, or its GOODBYE arrives (ServerMesh).

Greet(c, d) ==
  /\ c \in running
  /\ d \notin online[c]
  /\ online' = [online EXCEPT ![c] = @ \cup {d}]
  /\ UNCHANGED <<running, users, sessions, transfers, work, recheck, issued, redeemed>>

Suspect(c, d) ==
  /\ c # d
  /\ d \in online[c]
  /\ MeshIsAccurate => d \notin running
  /\ online' = [online EXCEPT ![c] = @ \ {d}]
  /\ UNCHANGED <<running, users, sessions, transfers, work, recheck, issued, redeemed>>

-----------------------------------------------------------------------------
\* Login.  AddUser calls AddUserSession, three statements at most; the tick
\* thread calls it too.

LoggingIn(u) == \E c \in Channel : work[c]["tcp"].user = u

Proceed(c, t, at) == work' = [work EXCEPT ![c][t].at = at]
BugDoneLeaksUser(c, t) == work' = [work EXCEPT ![c][t].at = "idle"]
Done(c, t) == work' = [work EXCEPT ![c][t] = Idle]

Login(c, u, token) ==
  /\ c \in running
  /\ work[c]["tcp"] = Idle
  /\ OneClient => ~LoggingIn(u)
  /\ Cardinality(users[c]) < MaxPlayers
  /\ work' = [work EXCEPT ![c]["tcp"] = [at |-> "select", user |-> u, token |-> token]]
  /\ UNCHANGED <<running, online, users, sessions, transfers, recheck, issued, redeemed>>

PasswordLogin(c, u) == Login(c, u, NoToken)

TransferLogin(c, u) == u \in TransfersTo(c) /\ Login(c, u, transfers[u].token)

BugMayTakeOver(c, d) == d # c
MayTakeOver(c, d) == d \notin online[c]

SelectSession(c, t) ==
  LET u == work[c][t].user
  IN  /\ work[c][t].at = "select"
      /\ \/ sessions[u] = None /\ Proceed(c, t, "insert")
         \/ sessions[u] # None /\ MayTakeOver(c, sessions[u]) /\ Proceed(c, t, "delete")
         \/ sessions[u] # None /\ ~MayTakeOver(c, sessions[u]) /\ Done(c, t)
         \/ DBFaults /\ Done(c, t)
      /\ UNCHANGED <<running, online, users, sessions, transfers, recheck, issued, redeemed>>

\* DELETE ... WHERE userID: the row may no longer be the one selected.
DeleteStaleSession(c, t) ==
  /\ work[c][t].at = "delete"
  /\ \/ /\ sessions' = [sessions EXCEPT ![work[c][t].user] = None]
        /\ Proceed(c, t, "insert")
     \/ DBFaults /\ Done(c, t) /\ UNCHANGED sessions
  /\ UNCHANGED <<running, online, users, transfers, recheck, issued, redeemed>>

\* userID is the primary key.
Insertable(u) == sessions[u] = None

InsertSession(c, t) ==
  LET u == work[c][t].user
  IN  /\ work[c][t].at = "insert"
      /\ Insertable(u)
      /\ sessions' = [sessions EXCEPT ![u] = c]
      /\ IF t = "tcp"
         THEN /\ users' = [users EXCEPT ![c] = @ \cup {u}]
              /\ redeemed' = redeemed \cup ({work[c][t].token} \ {NoToken})
              /\ Proceed(c, t, "untransfer")
         ELSE Done(c, t) /\ UNCHANGED <<users, redeemed>>
      /\ UNCHANGED <<running, online, transfers, recheck, issued>>

InsertRefused(c, t) ==
  /\ work[c][t].at = "insert"
  /\ ~Insertable(work[c][t].user) \/ DBFaults
  /\ Done(c, t)
  /\ UNCHANGED <<running, online, users, sessions, transfers, recheck, issued, redeemed>>

BugRemovedTransfers(u) == {}
RemovedTransfers(u) == {u}

RemoveUserTransfer(c) ==
  /\ work[c]["tcp"].at = "untransfer"
  /\ transfers' \in Deleted(transfers, RemovedTransfers(work[c]["tcp"].user))
  /\ Done(c, "tcp")
  /\ UNCHANGED <<running, online, users, sessions, recheck, issued, redeemed>>

\* RemoveUser.  The DELETE does not look at the channel of the row.
BugRemovedSessions(u) == {}
RemovedSessions(u) == {u}

RemoveUser(c, u) ==
  /\ u \in users[c]
  /\ work[c]["tcp"] = Idle
  /\ users' = [users EXCEPT ![c] = @ \ {u}]
  /\ sessions' \in Deleted(sessions, RemovedSessions(u))
  /\ UNCHANGED <<running, online, transfers, work, recheck, issued, redeemed>>

-----------------------------------------------------------------------------
\* Transfers: a user on channel c asks to go to channel d.

RequestTransfer(c, u, d) ==
  /\ u \in users[c]
  /\ work[c]["tcp"] = Idle
  /\ d # c
  /\ d \in online[c]
  /\ transfers[u] = None
  /\ issued < MaxTokens
  /\ issued' = issued + 1
  /\ transfers' = [transfers EXCEPT ![u] = [to |-> d, token |-> issued + 1]]
  /\ UNCHANGED <<running, online, users, sessions, work, recheck, redeemed>>

RemoveOldUserTransfers(c, oldest) ==
  /\ c \in running
  /\ transfers' = [u \in User |-> IF u \in TransfersTo(c) /\ transfers[u].token <= oldest
                                  THEN None ELSE transfers[u]]
  /\ UNCHANGED <<running, online, users, sessions, work, recheck, issued, redeemed>>

-----------------------------------------------------------------------------
\* The tick thread of a channel that missed more than three seconds forgets
\* the other channels and looks whether its users still have a session.

Stall(c) ==
  /\ Stalls
  /\ c \in running
  /\ recheck[c] = {}
  /\ work[c]["tick"] = Idle
  /\ online' = [online EXCEPT ![c] = {c}]
  /\ recheck' = [recheck EXCEPT ![c] = users[c]]
  /\ UNCHANGED <<running, users, sessions, transfers, work, issued, redeemed>>

\* A user whose row names another channel is disconnected: its socket is
\* closed, which leads to RemoveUser.  A user without a row gets a new one.
IsUserSessionAdded(c, u) ==
  /\ u \in recheck[c]
  /\ work[c]["tick"] = Idle
  /\ recheck' = [recheck EXCEPT ![c] = @ \ {u}]
  /\ \/ /\ sessions[u] = None
        /\ work' = [work EXCEPT ![c]["tick"] = [at |-> "select", user |-> u, token |-> NoToken]]
     \/ (sessions[u] # None \/ DBFaults) /\ UNCHANGED work
  /\ UNCHANGED <<running, online, users, sessions, transfers, issued, redeemed>>

-----------------------------------------------------------------------------
AddUserSession(c) ==
  \E t \in Thread :
    \/ SelectSession(c, t)
    \/ DeleteStaleSession(c, t)
    \/ InsertSession(c, t)
    \/ InsertRefused(c, t)

TCPStep(c) ==
  \/ RemoveUserTransfer(c)
  \/ \E u \in User :
       \/ PasswordLogin(c, u)
       \/ TransferLogin(c, u)
       \/ RemoveUser(c, u)
       \/ \E d \in Channel : RequestTransfer(c, u, d)

TickStep(c) ==
  \/ Stall(c)
  \/ \E u \in User : IsUserSessionAdded(c, u)
  \/ \E oldest \in Token : RemoveOldUserTransfers(c, oldest)

ProcessStep(c) ==
  \/ Start(c)
  \/ Crash(c)
  \/ \E d \in Channel : Greet(c, d) \/ Suspect(c, d)

Next == \E c \in Channel : AddUserSession(c) \/ TCPStep(c) \/ TickStep(c) \/ ProcessStep(c)

Spec == Init /\ [][Next]_vars

-----------------------------------------------------------------------------
\* A user is on one channel: a login elsewhere is answered Playing
\* (ParsePacket_Login, ParsePacket_TransferLogin), however the statements of
\* the channels interleave and whatever queries fail.
OneChannel ==
  \A u \in User : \A c, d \in Channel :
    u \in users[c] /\ u \in users[d] => c = d

\* A channel that lists a user owns the session of the user.  RemoveUser and
\* AddUserSession rest on it when they delete a row by its userID alone.
SessionOfListed ==
  \A c \in Channel : \A u \in users[c] : c \in running /\ sessions[u] = c

\* A user that is answered Playing plays: while a channel runs, its rows are
\* those of users it lists, or else the user can no longer log in.
RowIsUsed ==
  \A u \in User : sessions[u] \in running => u \in users[sessions[u]]

\* A token is good for one login (AddUser removes the transfer), whoever
\* else logs in as the same user in the meantime and whatever crashes.
RedeemedOnce ==
  [][\A c \in Channel :
       work[c]["tcp"].at = "insert" /\ work'[c]["tcp"].at = "untransfer"
         => work[c]["tcp"].token \notin redeemed]_vars

\* A user enters a channel only when it is on none (Presence).
Abstract == INSTANCE Presence WITH
  where <- [u \in User |-> {c \in Channel : u \in users[c]}]

EntersFromNowhere == Abstract!PresenceSpec
=============================================================================
