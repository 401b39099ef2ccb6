-------------------------- MODULE Sessions_proofs --------------------------
(***************************************************************************)
(* Proofs about module Sessions: for any number of channels and users, a   *)
(* user is on one channel as long as channels never believe a running      *)
(* channel to be offline, and either a user logs in at one place at a time *)
(* or no process ends; and the token of a transfer lets one login in.      *)
(***************************************************************************)
EXTENDS Sessions, TLAPS

-----------------------------------------------------------------------------
(* The shape of the state.                                                 *)

LEMMA DeletedType ==
  ASSUME NEW R, NEW table \in [User -> R \cup {None}], NEW U, NEW new \in Deleted(table, U)
  PROVE  /\ new \in [User -> R \cup {None}]
         /\ \A u \in User : new[u] = table[u] \/ (u \in U /\ new[u] = None)
  BY DEF Deleted

At == {"select", "delete", "insert", "untransfer"}

\* What a step of thread t of channel c makes of work.
Step(c, t, w) ==
  /\ work' \in [Channel -> [Thread -> Work]]
  /\ work'[c][t] = w
  /\ \A d \in Channel : \A s \in Thread : d # c \/ s # t => work'[d][s] = work[d][s]

LEMMA AssignStep ==
  ASSUME TypeOK, NEW c \in Channel, NEW t \in Thread, NEW w \in Work,
         work' = [work EXCEPT ![c][t] = w]
  PROVE  Step(c, t, w)
  BY DEF TypeOK, Step

LEMMA BusyWork ==
  ASSUME TypeOK, NEW c \in Channel, NEW t \in Thread, work[c][t].at # "idle"
  PROVE  work[c][t] \in [at : At, user : User, token : Token \cup {NoToken}]
<1>1. work[c][t] \in Work
  BY DEF TypeOK
<1> QED BY <1>1 DEF Work, Idle, At

LEMMA ProceedStep ==
  ASSUME TypeOK, NEW c \in Channel, NEW t \in Thread, NEW at \in At,
         work[c][t].at # "idle", Proceed(c, t, at)
  PROVE  Step(c, t, [at |-> at, user |-> work[c][t].user, token |-> work[c][t].token])
<1> DEFINE w == [at |-> at, user |-> work[c][t].user, token |-> work[c][t].token]
<1>1. work[c][t] \in [at : At, user : User, token : Token \cup {NoToken}]
  BY BusyWork
<1>2. [work[c][t] EXCEPT !.at = at] = w /\ w \in Work
  BY <1>1 DEF Work, At
<1>3. work' = [work EXCEPT ![c][t] = w]
  BY <1>2, Zenon DEF Proceed
<1> QED BY <1>2, <1>3, AssignStep

LEMMA DoneStep ==
  ASSUME TypeOK, NEW c \in Channel, NEW t \in Thread, Done(c, t)
  PROVE  Step(c, t, Idle)
<1>1. Idle \in Work
  BY DEF Work
<1> QED BY <1>1, AssignStep DEF Done

LEMMA TypeStep == TypeOK /\ [Next]_vars => TypeOK'
<1> SUFFICES ASSUME TypeOK, [Next]_vars PROVE TypeOK'
  OBVIOUS
<1>1. ASSUME NEW c \in Channel, NEW t \in Thread, SelectSession(c, t)
      PROVE  TypeOK'
  <2>1. work[c][t].at # "idle" /\ ((\E at \in At : Proceed(c, t, at)) \/ Done(c, t))
    BY <1>1 DEF SelectSession, At
  <2>2. work' \in [Channel -> [Thread -> Work]]
    BY <2>1, ProceedStep, DoneStep DEF Step
  <2> QED BY <1>1, <2>2 DEF SelectSession, TypeOK
<1>2. ASSUME NEW c \in Channel, NEW t \in Thread, DeleteStaleSession(c, t)
      PROVE  TypeOK'
  <2>1. work[c][t].at # "idle" /\ (Proceed(c, t, "insert") \/ Done(c, t))
    BY <1>2 DEF DeleteStaleSession
  <2>2. work' \in [Channel -> [Thread -> Work]]
    BY <2>1, ProceedStep, DoneStep DEF Step, At
  <2>3. sessions' \in [User -> Channel \cup {None}]
    BY <1>2 DEF DeleteStaleSession, TypeOK
  <2> QED BY <1>2, <2>2, <2>3 DEF DeleteStaleSession, TypeOK
<1>3. ASSUME NEW c \in Channel, NEW t \in Thread, InsertSession(c, t)
      PROVE  TypeOK'
  <2>1. work[c][t].at # "idle" /\ (Proceed(c, t, "untransfer") \/ Done(c, t))
    BY <1>3 DEF InsertSession
  <2>2. work' \in [Channel -> [Thread -> Work]]
    BY <2>1, ProceedStep, DoneStep DEF Step, At
  <2>3. sessions' \in [User -> Channel \cup {None}]
    BY <1>3 DEF InsertSession, TypeOK
  <2>4. work[c][t] \in [at : At, user : User, token : Token \cup {NoToken}]
    BY <1>3, BusyWork DEF InsertSession
  <2>5. redeemed' \subseteq Token
    <3>1. work[c][t].token \in Token \cup {NoToken}
      BY <2>4
    <3>2. redeemed' = redeemed \cup ({work[c][t].token} \ {NoToken}) \/ redeemed' = redeemed
      BY <1>3 DEF InsertSession
    <3> QED BY <3>1, <3>2 DEF TypeOK
  <2>6. users' \in [Channel -> SUBSET User]
    BY <1>3, <2>4 DEF InsertSession, TypeOK
  <2> QED BY <1>3, <2>2, <2>3, <2>5, <2>6 DEF InsertSession, TypeOK
<1>4. ASSUME NEW c \in Channel, NEW t \in Thread, InsertRefused(c, t)
      PROVE  TypeOK'
  <2>1. work' \in [Channel -> [Thread -> Work]]
    BY <1>4, DoneStep DEF Step, InsertRefused
  <2> QED BY <1>4, <2>1 DEF InsertRefused, TypeOK
<1>5. ASSUME NEW c \in Channel, NEW u \in User, NEW k \in Token \cup {NoToken}, Login(c, u, k)
      PROVE  TypeOK'
  <2> DEFINE w == [at |-> "select", user |-> u, token |-> k]
  <2>1. w \in Work /\ "tcp" \in Thread
    BY DEF Work, Thread
  <2>2. work' \in [Channel -> [Thread -> Work]]
    BY <1>5, <2>1, AssignStep DEF Step, Login
  <2> QED BY <1>5, <2>2 DEF Login, TypeOK
<1>6. ASSUME NEW c \in Channel, NEW u \in User, PasswordLogin(c, u) \/ TransferLogin(c, u)
      PROVE  TypeOK'
  <2>1. u \in TransfersTo(c) => transfers[u].token \in Token
    BY DEF TransfersTo, TypeOK, Transfer
  <2> QED BY <1>5, <1>6, <2>1 DEF PasswordLogin, TransferLogin
<1>7. ASSUME NEW c \in Channel, RemoveUserTransfer(c)
      PROVE  TypeOK'
  <2>1. work' \in [Channel -> [Thread -> Work]]
    BY <1>7, DoneStep DEF Step, RemoveUserTransfer, Thread
  <2>2. transfers' \in [User -> Transfer \cup {None}]
    <3>1. transfers \in [User -> Transfer \cup {None}]
      BY DEF TypeOK
    <3>2. \E U : transfers' \in Deleted(transfers, U)
      BY <1>7 DEF RemoveUserTransfer
    <3> QED BY <3>1, <3>2, DeletedType
  <2> QED BY <1>7, <2>1, <2>2 DEF RemoveUserTransfer, TypeOK
<1>8. ASSUME NEW c \in Channel, NEW u \in User, RemoveUser(c, u)
      PROVE  TypeOK'
  <2>1. sessions' \in [User -> Channel \cup {None}]
    BY <1>8, DeletedType DEF RemoveUser, TypeOK
  <2> QED BY <1>8, <2>1 DEF RemoveUser, TypeOK
<1>9. ASSUME NEW c \in Channel, NEW d \in Channel, NEW u \in User, RequestTransfer(c, u, d)
      PROVE  TypeOK'
  <2>1. issued + 1 \in Token
    BY <1>9, SessionsAssumption DEF RequestTransfer, TypeOK, Token
  <2>2. [to |-> d, token |-> issued + 1] \in Transfer
    BY <2>1 DEF Transfer
  <2>3. issued' \in 0 .. MaxTokens
    BY <1>9, <2>1 DEF RequestTransfer, Token
  <2> QED BY <1>9, <2>2, <2>3 DEF RequestTransfer, TypeOK
<1>10. ASSUME NEW c \in Channel, NEW oldest \in Token, RemoveOldUserTransfers(c, oldest)
       PROVE  TypeOK'
  BY <1>10 DEF RemoveOldUserTransfers, TypeOK
<1>11. ASSUME NEW c \in Channel, Stall(c)
       PROVE  TypeOK'
  BY <1>11 DEF Stall, TypeOK
<1>12. ASSUME NEW c \in Channel, NEW u \in User, IsUserSessionAdded(c, u)
       PROVE  TypeOK'
  <2> DEFINE w == [at |-> "select", user |-> u, token |-> NoToken]
  <2>1. w \in Work /\ "tick" \in Thread
    BY DEF Work, Thread
  <2>2. work' = [work EXCEPT ![c]["tick"] = w] \/ work' = work
    BY <1>12 DEF IsUserSessionAdded
  <2>3. work' \in [Channel -> [Thread -> Work]]
    BY <2>1, <2>2, AssignStep DEF Step, TypeOK
  <2> QED BY <1>12, <2>3 DEF IsUserSessionAdded, TypeOK
<1>13. ASSUME NEW c \in Channel, Start(c)
       PROVE  TypeOK'
  <2>1. sessions' \in [User -> Channel \cup {None}]
    <3>1. sessions \in [User -> Channel \cup {None}]
      BY DEF TypeOK
    <3>2. sessions' \in Deleted(sessions, RowsOf(c))
      BY <1>13 DEF Start
    <3> QED BY <3>1, <3>2, DeletedType, Zenon
  <2>2. transfers' \in [User -> Transfer \cup {None}]
    <3>1. transfers \in [User -> Transfer \cup {None}]
      BY DEF TypeOK
    <3>2. transfers' \in Deleted(transfers, TransfersTo(c))
      BY <1>13 DEF Start
    <3> QED BY <3>1, <3>2, DeletedType, Zenon
  <2>3. online' \in [Channel -> SUBSET Channel]
    BY <1>13 DEF Start, TypeOK
  <2> QED BY <1>13, <2>1, <2>2, <2>3 DEF Start, TypeOK
<1>14. ASSUME NEW c \in Channel, Crash(c)
       PROVE  TypeOK'
  <2>1. Idle \in Work
    BY DEF Work
  <2>2. work' \in [Channel -> [Thread -> Work]]
    BY <1>14, <2>1 DEF Crash, TypeOK
  <2> QED BY <1>14, <2>2 DEF Crash, TypeOK
<1>15. ASSUME NEW c \in Channel, NEW d \in Channel, Greet(c, d) \/ Suspect(c, d)
       PROVE  TypeOK'
  BY <1>15 DEF Greet, Suspect, TypeOK
<1>16. CASE UNCHANGED vars
  BY <1>16 DEF vars, TypeOK
<1> QED BY <1>1, <1>2, <1>3, <1>4, <1>6, <1>7, <1>8, <1>9, <1>10, <1>11, <1>12, <1>13,
           <1>14, <1>15, <1>16 DEF Next, AddUserSession, TCPStep, TickStep, ProcessStep

LEMMA TypeInit == Init => TypeOK
<1>1. Idle \in Work
  BY DEF Work
<1> QED BY <1>1, SessionsAssumption DEF Init, TypeOK

\* The state of the channels and of the two tables keeps its shape.
THEOREM SessionsTypeCorrect == Spec => []TypeOK
<1> QED BY TypeInit, TypeStep, PTL DEF Spec
-----------------------------------------------------------------------------
(* The inductive invariant.  DeleteStaleSession deletes whatever row the   *)
(* user has by then, so the user must be on no channel from the moment the *)
(* row was selected: no other login of the user can be under way, or there *)
(* are no rows of channels that ended and nothing is ever deleted.         *)

SoundTakeover == MeshIsAccurate /\ (OneClient \/ ~Crashes)

MeshKnows == \A c, d \in running : d \in online[c]

RowsOfRunning == ~Crashes => \A u \in User : sessions[u] = None \/ sessions[u] \in running

WorkRuns == \A c \in Channel : work[c]["tcp"] # Idle => c \in running

TickIdle == \A c \in Channel : work[c]["tick"] = Idle /\ recheck[c] = {}

StaleIsStale ==
  \A c \in Channel :
    work[c]["tcp"].at = "delete" =>
      OneClient /\ \A d \in Channel : work[c]["tcp"].user \notin users[d]

OneLogin ==
  OneClient =>
    \A c, d \in Channel :
      work[c]["tcp"] # Idle /\ work[c]["tcp"].user = work[d]["tcp"].user => c = d

Inv ==
  /\ TypeOK
  /\ SessionOfListed
  /\ MeshKnows
  /\ RowsOfRunning
  /\ WorkRuns
  /\ TickIdle
  /\ StaleIsStale
  /\ OneLogin

LEMMA InitInv == Init => Inv
<1> SUFFICES ASSUME Init PROVE Inv
  OBVIOUS
<1>1. \A c \in Channel : \A t \in Thread : work[c][t] = Idle
  BY DEF Init
<1>2. TypeOK
  BY TypeInit
<1> QED BY <1>1, <1>2 DEF Init, Inv, SessionOfListed, MeshKnows, RowsOfRunning, WorkRuns, TickIdle,
           StaleIsStale, OneLogin, Idle, Thread

\* Only the TCP thread is ever in the middle of AddUserSession.
LEMMA BusyIsTCP ==
  ASSUME Inv, NEW c \in Channel, NEW t \in Thread, work[c][t].at # "idle"
  PROVE  /\ t = "tcp"
         /\ work[c][t] \in [at : At, user : User, token : Token \cup {NoToken}]
         /\ work[c][t] # Idle
         /\ c \in running
<1>1. work[c]["tick"].at = "idle"
  BY DEF Inv, TickIdle, Idle
<1>2. work[c][t] \in [at : At, user : User, token : Token \cup {NoToken}]
  BY BusyWork DEF Inv
<1> QED BY <1>1, <1>2 DEF Inv, WorkRuns, Idle, Thread

\* What a step of the TCP thread leaves of the invariant when it changes
\* neither users nor sessions nor what is running.
LEMMA WorkStepInv ==
  ASSUME Inv, TypeOK', NEW c \in Channel, NEW w, Step(c, "tcp", w),
         w # Idle => c \in running,
         \/ w = Idle
         \/ work[c]["tcp"] # Idle /\ w.user = work[c]["tcp"].user
         \/ (OneClient => \A d \in Channel : d # c => work[d]["tcp"].user # w.user),
         w.at = "delete" => OneClient /\ \A d \in Channel : w.user \notin users[d],
         UNCHANGED <<running, online, users, sessions, recheck>>
  PROVE  Inv'
<1>1. /\ work'[c]["tcp"] = w
      /\ \A d \in Channel : d # c => work'[d]["tcp"] = work[d]["tcp"]
      /\ \A d \in Channel : work'[d]["tick"] = work[d]["tick"]
  BY DEF Step, Thread
<1>2. SessionOfListed' /\ MeshKnows' /\ RowsOfRunning'
  BY DEF Inv, SessionOfListed, MeshKnows, RowsOfRunning
<1>3. WorkRuns'
  BY <1>1 DEF Inv, WorkRuns
<1>4. TickIdle'
  BY <1>1 DEF Inv, TickIdle
<1>5. StaleIsStale'
  BY <1>1 DEF Inv, StaleIsStale
<1>6. OneLogin'
  <2> SUFFICES ASSUME OneClient, NEW d \in Channel, NEW e \in Channel, d # e,
                      work'[d]["tcp"] # Idle
               PROVE  work'[d]["tcp"].user # work'[e]["tcp"].user
    BY DEF OneLogin
  <2>1. CASE d # c /\ e # c
    BY <1>1, <2>1 DEF Inv, OneLogin
  <2>2. CASE d = c
    BY <1>1, <2>2 DEF Inv, OneLogin
  <2>3. CASE e = c /\ w # Idle
    BY <1>1, <2>3 DEF Inv, OneLogin
  <2>4. CASE e = c /\ w = Idle
    <3>1. work[d]["tcp"] = work'[d]["tcp"]
      BY <1>1, <2>4
    <3>2. work[d]["tcp"] \in Work
      BY DEF Inv, TypeOK, Thread
    <3>3. work[d]["tcp"].user \in User
      BY <3>1, <3>2 DEF Work
    <3>4. w.user = None /\ None \notin User
      BY <2>4, SessionsAssumption DEF Idle
    <3> QED BY <1>1, <2>4, <3>1, <3>3, <3>4
  <2> QED BY <2>1, <2>2, <2>3, <2>4
<1> QED BY <1>2, <1>3, <1>4, <1>5, <1>6 DEF Inv

\* A row that names a channel believed to be offline is that of a channel
\* that ended, hence of a user that is nowhere.
LEMMA SelectSessionInv ==
  ASSUME SoundTakeover, Inv, TypeOK', NEW c \in Channel, NEW t \in Thread, SelectSession(c, t)
  PROVE  Inv'
<1> DEFINE u == work[c][t].user
<1>1. /\ t = "tcp"
      /\ u \in User
      /\ work[c][t] # Idle
      /\ c \in running
      /\ work[c][t].at # "idle"
  BY BusyIsTCP DEF SelectSession
<1>2. UNCHANGED <<running, online, users, sessions, recheck>>
  BY DEF SelectSession
<1>3. TypeOK
  BY DEF Inv
<1>4. CASE Done(c, t)
  BY <1>1, <1>2, <1>3, <1>4, DoneStep, WorkStepInv DEF Idle
<1>5. CASE Proceed(c, t, "insert")
  <2> DEFINE w == [at |-> "insert", user |-> u, token |-> work[c][t].token]
  <2>1. Step(c, "tcp", w)
    BY <1>1, <1>3, <1>5, ProceedStep DEF At
  <2>2. w.user = work[c]["tcp"].user /\ w.at # "delete" /\ work[c]["tcp"] # Idle
    BY <1>1
  <2> HIDE DEF w
  <2> QED BY <1>1, <1>2, <2>1, <2>2, WorkStepInv
<1>6. CASE /\ sessions[u] # None
           /\ MayTakeOver(c, sessions[u])
           /\ Proceed(c, t, "delete")
  <2> DEFINE w == [at |-> "delete", user |-> u, token |-> work[c][t].token]
  <2>1. Step(c, "tcp", w)
    BY <1>1, <1>3, <1>6, ProceedStep DEF At
  <2>2. sessions[u] \notin running
    BY <1>1, <1>6 DEF Inv, MeshKnows, MayTakeOver
  <2>3. OneClient
    BY <1>1, <1>6, <2>2 DEF SoundTakeover, Inv, RowsOfRunning
  <2>4. \A d \in Channel : u \notin users[d]
    BY <2>2 DEF Inv, SessionOfListed
  <2>5. w.user = work[c]["tcp"].user /\ work[c]["tcp"] # Idle
    BY <1>1
  <2>6. \A d \in Channel : w.user \notin users[d]
    BY <2>4
  <2> HIDE DEF w
  <2> QED BY <1>1, <1>2, <2>1, <2>3, <2>5, <2>6, WorkStepInv
<1> QED BY <1>4, <1>5, <1>6 DEF SelectSession

LEMMA DeleteStaleSessionInv ==
  ASSUME SoundTakeover, Inv, TypeOK', NEW c \in Channel, NEW t \in Thread, DeleteStaleSession(c, t)
  PROVE  Inv'
<1> DEFINE u == work[c][t].user
           w == [at |-> "insert", user |-> u, token |-> work[c][t].token]
<1>1. /\ t = "tcp"
      /\ u \in User
      /\ work[c][t] # Idle
      /\ c \in running
      /\ work[c][t].at # "idle"
  BY BusyIsTCP DEF DeleteStaleSession
<1>2. TypeOK
  BY DEF Inv
<1>3. CASE Done(c, t) /\ UNCHANGED sessions
  <2>1. Step(c, "tcp", Idle)
    BY <1>1, <1>2, <1>3, DoneStep
  <2> QED BY <1>3, <2>1, WorkStepInv DEF Idle, DeleteStaleSession
<1>4. CASE /\ sessions' = [sessions EXCEPT ![u] = None]
           /\ Proceed(c, t, "insert")
  <2>1. Step(c, "tcp", w)
    BY <1>1, <1>2, <1>4, ProceedStep DEF At
  <2>2. /\ work'[c]["tcp"] = w
        /\ \A d \in Channel : d # c => work'[d]["tcp"] = work[d]["tcp"]
        /\ \A d \in Channel : work'[d]["tick"] = work[d]["tick"]
    BY <2>1 DEF Step, Thread
  <2>3. \A v \in User : sessions'[v] = (IF v = u THEN None ELSE sessions[v])
    BY <1>2, <1>4 DEF TypeOK
  <2>4. UNCHANGED <<running, online, users, recheck>>
    BY DEF DeleteStaleSession
  <2>5. \A d \in Channel : u \notin users[d]
    BY <1>1 DEF Inv, StaleIsStale, DeleteStaleSession
  <2>6. SessionOfListed'
    BY <1>2, <2>3, <2>4, <2>5 DEF Inv, SessionOfListed, TypeOK
  <2>7. RowsOfRunning'
    BY <2>3, <2>4 DEF Inv, RowsOfRunning
  <2>8. MeshKnows' /\ TickIdle' /\ WorkRuns' /\ StaleIsStale'
    BY <1>1, <2>2, <2>4 DEF Inv, MeshKnows, TickIdle, WorkRuns, StaleIsStale
  <2>9. OneLogin'
    BY <1>1, <2>2 DEF Inv, OneLogin
  <2> QED BY <2>6, <2>7, <2>8, <2>9 DEF Inv
<1> QED BY <1>3, <1>4 DEF DeleteStaleSession

\* The row is inserted only when there is none: the user is nowhere.
LEMMA InsertSessionInv ==
  ASSUME SoundTakeover, Inv, TypeOK', NEW c \in Channel, NEW t \in Thread, InsertSession(c, t)
  PROVE  /\ Inv'
         /\ work[c][t].user \in User
         /\ \A d \in Channel : work[c][t].user \notin users[d]
         /\ users' = [users EXCEPT ![c] = @ \cup {work[c][t].user}]
<1> DEFINE u == work[c][t].user
           w == [at |-> "untransfer", user |-> u, token |-> work[c][t].token]
<1>1. /\ t = "tcp"
      /\ u \in User
      /\ work[c][t] # Idle
      /\ c \in running
      /\ work[c][t].at # "idle"
  BY BusyIsTCP DEF InsertSession
<1>2. TypeOK
  BY DEF Inv
<1>3. /\ sessions[u] = None
      /\ sessions' = [sessions EXCEPT ![u] = c]
      /\ users' = [users EXCEPT ![c] = @ \cup {u}]
      /\ Proceed(c, t, "untransfer")
      /\ UNCHANGED <<running, online, recheck>>
  BY <1>1 DEF InsertSession, Insertable
<1>4. \A d \in Channel : u \notin users[d]
  <2>1. \A d \in Channel : d # None
    BY SessionsAssumption
  <2>2. running \subseteq Channel
    BY <1>2 DEF TypeOK
  <2> QED BY <1>3, <2>1, <2>2 DEF Inv, SessionOfListed
<1>5. Step(c, "tcp", w)
  BY <1>1, <1>2, <1>3, ProceedStep DEF At
<1>6. /\ work'[c]["tcp"] = w
      /\ \A d \in Channel : d # c => work'[d]["tcp"] = work[d]["tcp"]
      /\ \A d \in Channel : work'[d]["tick"] = work[d]["tick"]
  BY <1>5 DEF Step, Thread
<1>7. /\ \A v \in User : sessions'[v] = (IF v = u THEN c ELSE sessions[v])
      /\ \A d \in Channel : users'[d] = (IF d = c THEN users[d] \cup {u} ELSE users[d])
  BY <1>2, <1>3 DEF TypeOK
<1>8. SessionOfListed'
  <2> SUFFICES ASSUME NEW d \in Channel, NEW v \in users'[d]
               PROVE  d \in running /\ sessions'[v] = d
    BY <1>3 DEF SessionOfListed
  <2>1. CASE v = u
    BY <1>1, <1>4, <1>7, <2>1
  <2>2. CASE v # u
    <3>1. users'[d] \subseteq users[d] \cup {u}
      BY <1>7
    <3>2. v \in users[d]
      BY <2>2, <3>1
    <3>3. v \in User
      BY <1>2, <3>2 DEF TypeOK
    <3>4. d \in running /\ sessions[v] = d
      BY <3>2 DEF Inv, SessionOfListed
    <3> QED BY <1>7, <2>2, <3>3, <3>4
  <2> QED BY <2>1, <2>2
<1>9. RowsOfRunning'
  BY <1>1, <1>3, <1>7 DEF Inv, RowsOfRunning
<1>10. MeshKnows' /\ TickIdle' /\ WorkRuns'
  BY <1>1, <1>3, <1>6 DEF Inv, MeshKnows, TickIdle, WorkRuns
<1>11. OneLogin'
  BY <1>1, <1>6 DEF Inv, OneLogin
<1>12. StaleIsStale'
  <2> SUFFICES ASSUME NEW d \in Channel, work'[d]["tcp"].at = "delete"
               PROVE  OneClient /\ \A e \in Channel : work'[d]["tcp"].user \notin users'[e]
    BY DEF StaleIsStale
  <2>1. d # c /\ work'[d]["tcp"] = work[d]["tcp"]
    BY <1>6
  <2>2. OneClient /\ \A e \in Channel : work[d]["tcp"].user \notin users[e]
    BY <2>1 DEF Inv, StaleIsStale
  <2>3. work[d]["tcp"].user # u
    BY <1>1, <2>1, <2>2 DEF Inv, OneLogin
  <2>4. \A e \in Channel : users'[e] \subseteq users[e] \cup {u}
    BY <1>7
  <2> QED BY <2>1, <2>2, <2>3, <2>4
<1> QED BY <1>1, <1>3, <1>4, <1>8, <1>9, <1>10, <1>11, <1>12 DEF Inv

LEMMA LoginInv ==
  ASSUME Inv, TypeOK', NEW c \in Channel, NEW u \in User, NEW k \in Token \cup {NoToken},
         Login(c, u, k)
  PROVE  Inv'
<1> DEFINE w == [at |-> "select", user |-> u, token |-> k]
<1>1. w \in Work /\ "tcp" \in Thread
  BY DEF Work, Thread
<1>2. TypeOK
  BY DEF Inv
<1>3. Step(c, "tcp", w)
  BY <1>1, <1>2, AssignStep DEF Login
<1>4. OneClient => \A d \in Channel : work[d]["tcp"].user # u
  BY DEF Login, LoggingIn
<1>5. w.user = u /\ w.at # "delete"
  OBVIOUS
<1> HIDE DEF w
<1> QED BY <1>3, <1>4, <1>5, WorkStepInv DEF Login

\* Only the channel that owns the row lists the user.
LEMMA RemoveUserInv ==
  ASSUME Inv, TypeOK', NEW c \in Channel, NEW u \in User, RemoveUser(c, u)
  PROVE  Inv'
<1>1. TypeOK
  BY DEF Inv
<1>2. /\ users' = [users EXCEPT ![c] = @ \ {u}]
      /\ \A d \in Channel : users'[d] \subseteq users[d]
      /\ u \notin users'[c]
  BY <1>1 DEF RemoveUser, TypeOK
<1>3. \A v \in User : sessions'[v] = sessions[v] \/ (v = u /\ sessions'[v] = None)
  <2>1. \/ sessions' = sessions
        \/ sessions' = [v \in User |-> IF v \in {u} THEN None ELSE sessions[v]]
    BY DEF RemoveUser, RemovedSessions, Deleted
  <2> QED BY <2>1
<1>4. \A d \in Channel : d # c => u \notin users[d]
  BY DEF Inv, SessionOfListed, RemoveUser
<1>5. UNCHANGED <<running, online, work, recheck>>
  BY DEF RemoveUser
<1>6. SessionOfListed'
  <2> SUFFICES ASSUME NEW d \in Channel, NEW v \in users'[d]
               PROVE  d \in running /\ sessions'[v] = d
    BY <1>5 DEF SessionOfListed
  <2>1. v \in users[d] /\ v \in User /\ v # u
    BY <1>1, <1>2, <1>4 DEF TypeOK
  <2> QED BY <1>3, <2>1 DEF Inv, SessionOfListed
<1>7. RowsOfRunning'
  BY <1>3, <1>5 DEF Inv, RowsOfRunning
<1>8. MeshKnows' /\ WorkRuns' /\ TickIdle' /\ StaleIsStale' /\ OneLogin'
  BY <1>2, <1>5 DEF Inv, MeshKnows, WorkRuns, TickIdle, StaleIsStale, OneLogin
<1> QED BY <1>6, <1>7, <1>8 DEF Inv

LEMMA StartInv ==
  ASSUME SoundTakeover, Inv, TypeOK', NEW c \in Channel, Start(c)
  PROVE  Inv'
<1>1. TypeOK /\ MeshIsAccurate
  BY DEF Inv, SoundTakeover
<1>2. \A u \in User : sessions'[u] = sessions[u] \/ (sessions[u] = c /\ sessions'[u] = None)
  <2>1. \/ sessions' = sessions
        \/ sessions' = [u \in User |-> IF u \in RowsOf(c) THEN None ELSE sessions[u]]
    BY DEF Start, Deleted
  <2> QED BY <2>1 DEF RowsOf
<1>3. c \notin running /\ running' = running \cup {c} /\ UNCHANGED <<users, work, recheck>>
  BY DEF Start
<1>4. SessionOfListed'
  <2> SUFFICES ASSUME NEW d \in Channel, NEW u \in users[d]
               PROVE  d \in running' /\ sessions'[u] = d
    BY <1>3 DEF SessionOfListed
  <2>1. u \in User /\ d \in running /\ sessions[u] = d
    BY <1>1 DEF Inv, SessionOfListed, TypeOK
  <2> QED BY <1>2, <1>3, <2>1
<1>5. MeshKnows'
  <2>1. \A d \in Channel : online'[d] = IF d = c THEN running'
                                       ELSE IF d \in running THEN online[d] \cup {c}
                                       ELSE online[d]
    BY <1>1 DEF Start
  <2>2. running' \subseteq Channel
    BY <1>1, <1>3 DEF TypeOK
  <2> QED BY <1>3, <2>1, <2>2 DEF Inv, MeshKnows
<1>6. RowsOfRunning'
  BY <1>2, <1>3 DEF Inv, RowsOfRunning
<1>7. WorkRuns' /\ TickIdle' /\ StaleIsStale' /\ OneLogin'
  BY <1>3 DEF Inv, WorkRuns, TickIdle, StaleIsStale, OneLogin
<1> QED BY <1>4, <1>5, <1>6, <1>7 DEF Inv

LEMMA CrashInv ==
  ASSUME Inv, TypeOK', NEW c \in Channel, Crash(c)
  PROVE  Inv'
<1>1. TypeOK
  BY DEF Inv
<1>2. /\ Crashes
      /\ running' = running \ {c}
      /\ UNCHANGED sessions
  BY DEF Crash
<1>3. /\ \A d \in Channel : online'[d] = (IF d = c THEN {} ELSE online[d])
      /\ \A d \in Channel : users'[d] = (IF d = c THEN {} ELSE users[d])
      /\ \A d \in Channel : recheck'[d] = (IF d = c THEN {} ELSE recheck[d])
      /\ \A d \in Channel : \A t \in Thread : work'[d][t] = (IF d = c THEN Idle ELSE work[d][t])
  BY <1>1 DEF Crash, TypeOK
<1>4. \A d \in Channel : /\ work'[d]["tcp"] = (IF d = c THEN Idle ELSE work[d]["tcp"])
                         /\ work'[d]["tick"] = (IF d = c THEN Idle ELSE work[d]["tick"])
  BY <1>3 DEF Thread
<1>5. SessionOfListed'
  BY <1>2, <1>3 DEF Inv, SessionOfListed
<1>6. MeshKnows'
  BY <1>1, <1>2, <1>3 DEF Inv, MeshKnows, TypeOK
<1>7. RowsOfRunning' /\ WorkRuns' /\ TickIdle'
  BY <1>2, <1>3, <1>4 DEF Inv, RowsOfRunning, WorkRuns, TickIdle
<1>8. StaleIsStale'
  BY <1>3, <1>4 DEF Inv, StaleIsStale, Idle
<1>9. OneLogin'
  <2>1. \A d \in Channel : work'[d]["tcp"] # Idle => work'[d]["tcp"].user \in User
    <3>1. \A d \in Channel : work'[d]["tcp"] \in Work
      BY DEF TypeOK, Thread
    <3> QED BY <3>1 DEF Work
  <2>2. Idle.user = None /\ None \notin User
    BY SessionsAssumption DEF Idle
  <2> QED BY <1>4, <2>1, <2>2 DEF Inv, OneLogin
<1> QED BY <1>5, <1>6, <1>7, <1>8, <1>9 DEF Inv

\* Steps that change neither who is where nor the sessions.
LEMMA OtherStepInv ==
  ASSUME SoundTakeover, Inv, TypeOK', UNCHANGED <<running, users, sessions, work, recheck>>, MeshKnows'
  PROVE  Inv'
  BY DEF Inv, SessionOfListed, RowsOfRunning, WorkRuns, TickIdle, StaleIsStale, OneLogin

LEMMA SuspectInv ==
  ASSUME SoundTakeover, Inv, TypeOK', NEW c \in Channel, NEW d \in Channel, Greet(c, d) \/ Suspect(c, d)
  PROVE  Inv'
<1>1. MeshKnows'
  <2>1. \A a \in Channel : \A b \in running : b \in online[a] => b \in online'[a]
    BY DEF Greet, Suspect, SoundTakeover, Inv, TypeOK
  <2> QED BY <2>1 DEF Greet, Suspect, Inv, MeshKnows, TypeOK
<1> QED BY <1>1, OtherStepInv DEF Greet, Suspect

\* A step that changes _users is a login of a user that was nowhere, a user
\* that leaves, or the end of a process.
WhereStep ==
  \/ UNCHANGED users
  \/ \E c \in Channel : users' = [users EXCEPT ![c] = {}]
  \/ \E c \in Channel : \E u \in User : users' = [users EXCEPT ![c] = @ \ {u}]
  \/ \E c \in Channel : \E u \in User :
       /\ \A d \in Channel : u \notin users[d]
       /\ users' = [users EXCEPT ![c] = @ \cup {u}]

LEMMA NextInv == SoundTakeover /\ Inv /\ [Next]_vars => Inv' /\ WhereStep
<1> SUFFICES ASSUME SoundTakeover, Inv, [Next]_vars PROVE Inv' /\ WhereStep
  OBVIOUS
<1>1. TypeOK /\ TypeOK'
  BY TypeStep DEF Inv
<1>2. ASSUME NEW c \in Channel, NEW t \in Thread, SelectSession(c, t)
      PROVE  Inv' /\ WhereStep
  BY <1>1, <1>2, SelectSessionInv DEF SelectSession, WhereStep
<1>3. ASSUME NEW c \in Channel, NEW t \in Thread, DeleteStaleSession(c, t)
      PROVE  Inv' /\ WhereStep
  BY <1>1, <1>3, DeleteStaleSessionInv DEF DeleteStaleSession, WhereStep
<1>4. ASSUME NEW c \in Channel, NEW t \in Thread, InsertSession(c, t)
      PROVE  Inv' /\ WhereStep
  BY <1>1, <1>4, InsertSessionInv DEF WhereStep
<1>5. ASSUME NEW c \in Channel, NEW t \in Thread, InsertRefused(c, t)
      PROVE  Inv' /\ WhereStep
  <2>1. t = "tcp"
    BY <1>5, BusyIsTCP DEF InsertRefused
  <2>2. Step(c, "tcp", Idle)
    BY <1>1, <1>5, <2>1, DoneStep DEF InsertRefused
  <2> QED BY <1>1, <1>5, <2>2, WorkStepInv DEF InsertRefused, WhereStep, Idle
<1>6. ASSUME NEW c \in Channel, NEW u \in User, PasswordLogin(c, u) \/ TransferLogin(c, u)
      PROVE  Inv' /\ WhereStep
  <2>1. \E k \in Token \cup {NoToken} : Login(c, u, k)
    BY <1>1, <1>6 DEF PasswordLogin, TransferLogin, TransfersTo, TypeOK, Transfer
  <2> QED BY <1>1, <2>1, LoginInv DEF Login, WhereStep
<1>7. ASSUME NEW c \in Channel, RemoveUserTransfer(c)
      PROVE  Inv' /\ WhereStep
  <2>1. Step(c, "tcp", Idle)
    BY <1>1, <1>7, DoneStep DEF RemoveUserTransfer, Thread
  <2> QED BY <1>1, <1>7, <2>1, WorkStepInv DEF RemoveUserTransfer, WhereStep, Idle
<1>8. ASSUME NEW c \in Channel, NEW u \in User, RemoveUser(c, u)
      PROVE  Inv' /\ WhereStep
  BY <1>1, <1>8, RemoveUserInv DEF RemoveUser, WhereStep
<1>9. ASSUME NEW c \in Channel, NEW d \in Channel, NEW u \in User, RequestTransfer(c, u, d)
      PROVE  Inv' /\ WhereStep
  BY <1>1, <1>9, OtherStepInv DEF RequestTransfer, WhereStep, Inv, MeshKnows
<1>10. ASSUME NEW c \in Channel, NEW oldest \in Token, RemoveOldUserTransfers(c, oldest)
       PROVE  Inv' /\ WhereStep
  BY <1>1, <1>10, OtherStepInv DEF RemoveOldUserTransfers, WhereStep, Inv, MeshKnows
<1>11. ASSUME NEW c \in Channel, Stall(c) \/ \E u \in User : IsUserSessionAdded(c, u)
       PROVE  FALSE
  BY <1>11, SessionsAssumption DEF Stall, IsUserSessionAdded, SoundTakeover, Inv, TickIdle
<1>12. ASSUME NEW c \in Channel, Start(c)
       PROVE  Inv' /\ WhereStep
  BY <1>1, <1>12, StartInv DEF Start, WhereStep
<1>13. ASSUME NEW c \in Channel, Crash(c)
       PROVE  Inv' /\ WhereStep
  BY <1>1, <1>13, CrashInv DEF Crash, WhereStep
<1>14. ASSUME NEW c \in Channel, NEW d \in Channel, Greet(c, d) \/ Suspect(c, d)
       PROVE  Inv' /\ WhereStep
  BY <1>1, <1>14, SuspectInv DEF Greet, Suspect, WhereStep
<1>15. CASE UNCHANGED vars
  <2>1. UNCHANGED <<running, users, sessions, work, recheck, online>>
    BY <1>15 DEF vars
  <2> QED BY <1>1, <2>1, OtherStepInv DEF WhereStep, Inv, MeshKnows
<1> QED BY <1>2, <1>3, <1>4, <1>5, <1>6, <1>7, <1>8, <1>9, <1>10, <1>11, <1>12, <1>13,
           <1>14, <1>15 DEF Next, AddUserSession, TCPStep, TickStep, ProcessStep

THEOREM SessionsConsistency == SoundTakeover => (Spec => []Inv)
<1> SUFFICES ASSUME SoundTakeover PROVE Spec => []Inv
  OBVIOUS
<1>1. Inv /\ [Next]_vars => Inv'
  BY NextInv
<1> QED BY InitInv, <1>1, PTL DEF Spec

\* A channel owns the sessions of the users it lists, so that what it
\* deletes by userID alone is its own.
THEOREM SessionsOwned == SoundTakeover => (Spec => []SessionOfListed)
<1>1. Inv => SessionOfListed
  BY DEF Inv
<1> QED BY <1>1, SessionsConsistency, PTL

\* No user is on two channels, whatever queries fail and however the
\* statements of the channels interleave.
THEOREM OneChannelCorrect == SoundTakeover => (Spec => []OneChannel)
<1>1. Inv => OneChannel
  <2> SUFFICES ASSUME Inv, NEW u \in User, NEW c \in Channel, NEW d \in Channel,
                      u \in users[c], u \in users[d]
               PROVE  c = d
    BY DEF OneChannel
  <2> QED BY DEF Inv, SessionOfListed
<1> QED BY <1>1, SessionsConsistency, PTL

-----------------------------------------------------------------------------
(* The channels implement Presence.                                        *)

Where == [u \in User |-> {c \in Channel : u \in users[c]}]

LEMMA WhereInit == Init => Abstract!PresenceInit
  BY DEF Init, Abstract!PresenceInit

LEMMA WhereRefines ==
  ASSUME TypeOK, WhereStep
  PROVE  [Abstract!PresenceNext]_Where
<1>1. CASE UNCHANGED users
  BY <1>1 DEF Where
<1>2. ASSUME NEW c \in Channel, users' = [users EXCEPT ![c] = {}]
      PROVE  Abstract!Close(c)
  BY <1>2 DEF Abstract!Close, TypeOK
<1>3. ASSUME NEW c \in Channel, NEW u \in User, users' = [users EXCEPT ![c] = @ \ {u}]
      PROVE  Abstract!Leave(u, c)
  BY <1>3 DEF Abstract!Leave, TypeOK
<1>4. ASSUME NEW c \in Channel, NEW u \in User,
             \A d \in Channel : u \notin users[d],
             users' = [users EXCEPT ![c] = @ \cup {u}]
      PROVE  Abstract!Enter(u, c)
  <2>1. \A d \in Channel : users'[d] = (IF d = c THEN users[d] \cup {u} ELSE users[d])
    BY <1>4 DEF TypeOK
  <2>2. {d \in Channel : u \in users[d]} = {} /\ {d \in Channel : u \in users'[d]} = {c}
    BY <1>4, <2>1
  <2>3. ASSUME NEW v \in User, v # u
        PROVE  {d \in Channel : v \in users'[d]} = {d \in Channel : v \in users[d]}
    BY <2>1, <2>3
  <2>4. Where[u] = {}
    BY <2>2 DEF Where
  <2>5. \A v \in User : Where'[v] = IF v = u THEN {c} ELSE Where[v]
    BY <2>2, <2>3 DEF Where
  <2>6. Where' = [Where EXCEPT ![u] = {c}]
    BY <2>5 DEF Where
  <2> QED BY <2>4, <2>6 DEF Abstract!Enter, Where
<1> QED BY <1>1, <1>2, <1>3, <1>4 DEF WhereStep, Abstract!PresenceNext

\* A user enters a channel only when it is on none, and never moves from one
\* channel to another without having left.
THEOREM PresenceImplemented == SoundTakeover => (Spec => EntersFromNowhere)
<1> SUFFICES ASSUME SoundTakeover PROVE Spec => EntersFromNowhere
  OBVIOUS
<1>1. Inv /\ [Next]_vars => [Abstract!PresenceNext]_Where
  BY NextInv, WhereRefines DEF Inv
<1> QED BY <1>1, WhereInit, SessionsConsistency, PTL
        DEF Spec, EntersFromNowhere, Abstract!PresenceSpec, Where

-----------------------------------------------------------------------------
(* Without stalls only the TCP thread inserts rows, and it lists the user  *)
(* in the same step.                                                       *)

UsedInv == TypeOK /\ TickIdle /\ RowIsUsed

LEMMA UsedNext == ~Stalls /\ ~DBFaults /\ UsedInv /\ [Next]_vars => UsedInv'
<1> SUFFICES ASSUME ~Stalls, ~DBFaults, UsedInv, [Next]_vars PROVE TickIdle' /\ RowIsUsed'
  BY TypeStep DEF UsedInv
<1>1. TypeOK /\ TypeOK' /\ running \subseteq Channel /\ \A c \in Channel : c # None
  BY TypeStep, SessionsAssumption DEF UsedInv, TypeOK
<1>2. ASSUME NEW c \in Channel, NEW t \in Thread, work[c][t].at # "idle"
      PROVE  t = "tcp" /\ work[c][t].user \in User
  <2>1. work[c]["tick"].at = "idle"
    BY DEF UsedInv, TickIdle, Idle
  <2> QED BY <1>1, <1>2, <2>1, BusyWork DEF Thread
<1>3. ASSUME NEW c \in Channel, NEW w, Step(c, "tcp", w), UNCHANGED recheck
      PROVE  TickIdle'
  BY <1>3 DEF UsedInv, TickIdle, Step, Thread
<1>4. ASSUME UNCHANGED <<running, users, sessions>>
      PROVE  RowIsUsed'
  BY <1>4 DEF UsedInv, RowIsUsed
<1>5. ASSUME NEW c \in Channel, NEW t \in Thread, SelectSession(c, t) \/ InsertRefused(c, t)
      PROVE  TickIdle' /\ RowIsUsed'
  <2>1. work[c][t].at # "idle" /\ ((\E at \in At : Proceed(c, t, at)) \/ Done(c, t))
    BY <1>5 DEF SelectSession, InsertRefused, At
  <2>2. \E w : Step(c, "tcp", w)
    <3>1. TypeOK /\ t = "tcp" /\ t \in Thread
      BY <1>1, <1>2, <2>1
    <3>2. CASE Done(c, t)
      BY <3>1, <3>2, DoneStep
    <3>3. ASSUME NEW at \in At, Proceed(c, t, at)
          PROVE  \E w : Step(c, "tcp", w)
      <4>1. Step(c, t, [at |-> at, user |-> work[c][t].user, token |-> work[c][t].token])
        BY <2>1, <3>1, <3>3, ProceedStep
      <4> QED BY <3>1, <4>1
    <3> QED BY <2>1, <3>2, <3>3
  <2> QED BY <1>3, <1>4, <1>5, <2>2 DEF SelectSession, InsertRefused
<1>6. ASSUME NEW c \in Channel, NEW t \in Thread, DeleteStaleSession(c, t)
      PROVE  TickIdle' /\ RowIsUsed'
  <2>1. /\ t = "tcp"
        /\ work[c][t].user \in User
        /\ work[c][t].at # "idle"
        /\ Proceed(c, t, "insert")
    BY <1>2, <1>6 DEF DeleteStaleSession
  <2>2. Step(c, "tcp", [at |-> "insert", user |-> work[c][t].user, token |-> work[c][t].token])
    BY <1>1, <2>1, ProceedStep DEF At
  <2>3. sessions' = [sessions EXCEPT ![work[c][t].user] = None]
    BY <1>6 DEF DeleteStaleSession
  <2>4. RowIsUsed'
    BY <1>1, <1>6, <2>3 DEF DeleteStaleSession, UsedInv, RowIsUsed, TypeOK
  <2> QED BY <1>3, <1>6, <2>2, <2>4 DEF DeleteStaleSession
<1>7. ASSUME NEW c \in Channel, NEW t \in Thread, InsertSession(c, t)
      PROVE  TickIdle' /\ RowIsUsed'
  <2> DEFINE u == work[c][t].user
  <2>1. /\ t = "tcp"
        /\ u \in User
        /\ work[c][t].at # "idle"
        /\ Proceed(c, t, "untransfer")
        /\ sessions' = [sessions EXCEPT ![u] = c]
        /\ users' = [users EXCEPT ![c] = @ \cup {u}]
        /\ UNCHANGED running
    BY <1>2, <1>7 DEF InsertSession
  <2>2. Step(c, "tcp", [at |-> "untransfer", user |-> u, token |-> work[c][t].token])
    BY <1>1, <2>1, ProceedStep DEF At
  <2>3. /\ \A v \in User : sessions'[v] = (IF v = u THEN c ELSE sessions[v])
        /\ \A d \in Channel : users'[d] = (IF d = c THEN users[d] \cup {u} ELSE users[d])
    BY <1>1, <2>1 DEF TypeOK
  <2>4. RowIsUsed'
    BY <1>1, <2>1, <2>3 DEF UsedInv, RowIsUsed
  <2> QED BY <1>3, <1>7, <2>2, <2>4 DEF InsertSession
<1>8. ASSUME NEW c \in Channel, NEW u \in User, NEW k \in Token \cup {NoToken}, Login(c, u, k)
      PROVE  TickIdle' /\ RowIsUsed'
  <2> DEFINE w == [at |-> "select", user |-> u, token |-> k]
  <2>1. w \in Work /\ "tcp" \in Thread
    BY DEF Work, Thread
  <2>2. Step(c, "tcp", w)
    BY <1>1, <1>8, <2>1, AssignStep DEF Login
  <2> QED BY <1>3, <1>4, <1>8, <2>2 DEF Login
<1>9. ASSUME NEW c \in Channel, NEW u \in User, PasswordLogin(c, u) \/ TransferLogin(c, u)
      PROVE  TickIdle' /\ RowIsUsed'
  <2>1. u \in TransfersTo(c) => transfers[u].token \in Token
    BY <1>1 DEF TransfersTo, TypeOK, Transfer
  <2> QED BY <1>8, <1>9, <2>1 DEF PasswordLogin, TransferLogin
<1>10. ASSUME NEW c \in Channel, RemoveUserTransfer(c)
       PROVE  TickIdle' /\ RowIsUsed'
  <2>1. Step(c, "tcp", Idle)
    BY <1>1, <1>10, DoneStep DEF RemoveUserTransfer, Thread
  <2> QED BY <1>3, <1>4, <1>10, <2>1 DEF RemoveUserTransfer
<1>11. ASSUME NEW c \in Channel, NEW u \in User, RemoveUser(c, u)
       PROVE  TickIdle' /\ RowIsUsed'
  <2>1. sessions' = [v \in User |-> IF v = u THEN None ELSE sessions[v]]
    BY <1>11 DEF RemoveUser, RemovedSessions, Deleted
  <2>2. \A d \in Channel : \A v \in User : v \in users[d] /\ v # u => v \in users'[d]
    BY <1>1, <1>11 DEF RemoveUser, TypeOK
  <2> QED BY <1>1, <1>11, <2>1, <2>2 DEF RemoveUser, UsedInv, RowIsUsed, TickIdle
<1>12. ASSUME NEW c \in Channel, Start(c)
       PROVE  TickIdle' /\ RowIsUsed'
  <2>1. sessions' = [v \in User |-> IF v \in RowsOf(c) THEN None ELSE sessions[v]]
    BY <1>12 DEF Start, Deleted
  <2>2. running' = running \cup {c} /\ UNCHANGED <<users, work, recheck>>
    BY <1>12 DEF Start
  <2> QED BY <1>1, <2>1, <2>2 DEF RowsOf, UsedInv, RowIsUsed, TickIdle
<1>13. ASSUME NEW c \in Channel, Crash(c)
       PROVE  TickIdle' /\ RowIsUsed'
  <2>1. /\ running' = running \ {c}
        /\ UNCHANGED sessions
        /\ \A d \in Channel : d # c => users'[d] = users[d]
    BY <1>1, <1>13 DEF Crash, TypeOK
  <2>2. \A d \in Channel : /\ recheck'[d] = (IF d = c THEN {} ELSE recheck[d])
                           /\ work'[d]["tick"] = (IF d = c THEN Idle ELSE work[d]["tick"])
    BY <1>1, <1>13 DEF Crash, TypeOK, Thread
  <2> QED BY <1>1, <2>1, <2>2 DEF UsedInv, RowIsUsed, TickIdle
<1>14. ASSUME UNCHANGED <<running, users, sessions, work, recheck>>
       PROVE  TickIdle' /\ RowIsUsed'
  BY <1>4, <1>14 DEF UsedInv, TickIdle
<1>15. ASSUME NEW c \in Channel, Stall(c) \/ \E u \in User : IsUserSessionAdded(c, u)
       PROVE  FALSE
  BY <1>15 DEF Stall, IsUserSessionAdded, UsedInv, TickIdle
<1>16. ASSUME NEW c \in Channel,
              \/ \E d \in Channel : Greet(c, d) \/ Suspect(c, d)
              \/ \E d \in Channel : \E u \in User : RequestTransfer(c, u, d)
              \/ \E oldest \in Token : RemoveOldUserTransfers(c, oldest)
       PROVE  TickIdle' /\ RowIsUsed'
  BY <1>14, <1>16 DEF Greet, Suspect, RequestTransfer, RemoveOldUserTransfers
<1>17. CASE UNCHANGED vars
  BY <1>14, <1>17 DEF vars
<1> QED BY <1>5, <1>6, <1>7, <1>9, <1>10, <1>11, <1>12, <1>13, <1>15, <1>16, <1>17
        DEF Next, AddUserSession, TCPStep, TickStep, ProcessStep

\* While its channel runs, the session of a user is that of a user the channel
\* lists: nobody is answered Playing for a session that nobody uses.
THEOREM SessionsUsed == ~Stalls /\ ~DBFaults => (Spec => []RowIsUsed)
<1> SUFFICES ASSUME ~Stalls, ~DBFaults PROVE Spec => []RowIsUsed
  OBVIOUS
<1>1. Init => UsedInv
  BY InitInv DEF UsedInv, Inv, Init, RowIsUsed
<1>2. UsedInv /\ [Next]_vars => UsedInv'
  BY UsedNext
<1>3. UsedInv => RowIsUsed
  BY DEF UsedInv
<1> QED BY <1>1, <1>2, <1>3, PTL DEF Spec

-----------------------------------------------------------------------------
(***************************************************************************)
(* A token of user_transfers lets one login in: for any number of channels *)
(* and users, whatever channels believe of one another, whoever else logs  *)
(* in at the same time and whatever crashes or stalls, as long as queries  *)
(* do not fail.                                                            *)
(***************************************************************************)

TCP(c) == work[c]["tcp"]

\* The transfer of u, if it has one, has token k.
Carries(u, k) == transfers[u] # None /\ transfers[u].token = k

-----------------------------------------------------------------------------
(* The inductive invariant.                                                *)

TokensIssued ==
  /\ \A u \in User : transfers[u] # None => transfers[u].token \in 1 .. issued
  /\ \A c \in Channel : TCP(c).token \in 0 .. issued
  /\ redeemed \subseteq 1 .. issued

OneTransfer ==
  \A u, v \in User : transfers[u] # None /\ Carries(v, transfers[u].token) => u = v

HolderIsTarget ==
  \A c \in Channel : \A u \in User :
    Carries(u, TCP(c).token) => transfers[u].to = c /\ TCP(c).user = u

OneHolder ==
  \A c, d \in Channel : TCP(c).token = TCP(d).token /\ TCP(c).token # NoToken => c = d

HeldIsFresh == \A c \in Channel : TCP(c).at # "untransfer" => TCP(c).token \notin redeemed

\* A transfer whose token is used up is about to be deleted by the login that
\* used it, or by the next start of its target.
Expiring(u) ==
  \/ transfers[u].to \notin running
  \/ TCP(transfers[u].to).at = "untransfer" /\ TCP(transfers[u].to).user = u

RedeemedExpires ==
  \A u \in User : transfers[u] # None /\ transfers[u].token \in redeemed => Expiring(u)

TokenInv ==
  /\ TypeOK
  /\ WorkRuns
  /\ TokensIssued
  /\ OneTransfer
  /\ HolderIsTarget
  /\ OneHolder
  /\ HeldIsFresh
  /\ RedeemedExpires

LEMMA IssuedNat == TypeOK => issued \in Nat
  BY SessionsAssumption DEF TypeOK

LEMMA TokenInit == Init => TokenInv
<1> SUFFICES ASSUME Init PROVE TokenInv
  OBVIOUS
<1>1. TypeOK
  BY TypeInit
<1>2. \A c \in Channel : TCP(c) = Idle
  BY DEF Init, TCP, Thread
<1>3. \A u \in User : transfers[u] = None
  BY DEF Init
<1>4. WorkRuns
  BY <1>2 DEF WorkRuns, TCP
<1>5. issued = 0 /\ redeemed = {}
  BY DEF Init
<1>6. \A c \in Channel : TCP(c).token = 0 /\ TCP(c).at = "idle"
  BY <1>2 DEF Idle, NoToken
<1> QED BY <1>1, <1>3, <1>4, <1>5, <1>6
        DEF TokenInv, TokensIssued, OneTransfer, HolderIsTarget, OneHolder, HeldIsFresh,
            RedeemedExpires, Carries, NoToken

-----------------------------------------------------------------------------
(* The shapes of steps.                                                    *)

\* The login of c goes on, is refused, or is that of another thread.
GoesOn(c) ==
  /\ \A d \in Channel : d # c => TCP(d)' = TCP(d)
  /\ \/ TCP(c)' = TCP(c)
     \/ /\ TCP(c).at # "untransfer"
        /\ \/ TCP(c)' = Idle
           \/ /\ TCP(c)'.at # "untransfer"
              /\ TCP(c)'.token = TCP(c).token
              /\ TCP(c)'.user = TCP(c).user

LEMMA GoesOnInv ==
  ASSUME TokenInv, TypeOK', WorkRuns', NEW c \in Channel, GoesOn(c),
         UNCHANGED <<running, transfers, issued, redeemed>>
  PROVE  TokenInv'
<1>1. \A d \in Channel : \/ TCP(d)' = TCP(d)
                         \/ TCP(d).at # "untransfer" /\ TCP(d)'.at # "untransfer"
  BY DEF GoesOn, Idle
<1>2. \A d \in Channel : \/ TCP(d)'.token = TCP(d).token /\ TCP(d)'.user = TCP(d).user
                         \/ TCP(d)'.token = 0
  BY DEF GoesOn, Idle, NoToken
<1>3. TokensIssued'
  BY <1>2, IssuedNat DEF TokenInv, TokensIssued
<1>4. OneTransfer'
  BY DEF TokenInv, OneTransfer, Carries
<1>5. HolderIsTarget'
  <2>1. \A u \in User : ~ Carries(u, 0)
    BY DEF TokenInv, TokensIssued, Carries
  <2> QED BY <1>2, <2>1 DEF TokenInv, HolderIsTarget, Carries
<1>6. OneHolder'
  BY <1>2 DEF TokenInv, OneHolder, NoToken
<1>7. HeldIsFresh'
  <2>1. 0 \notin redeemed
    BY DEF TokenInv, TokensIssued
  <2> QED BY <1>1, <1>2, <2>1 DEF TokenInv, HeldIsFresh
<1>8. RedeemedExpires'
  <2> SUFFICES ASSUME NEW u \in User, transfers[u] # None, transfers[u].token \in redeemed
               PROVE  Expiring(u)'
    BY DEF RedeemedExpires
  <2>1. Expiring(u) /\ transfers[u].to \in Channel
    BY DEF TokenInv, RedeemedExpires, TypeOK, Transfer
  <2> QED BY <1>1, <2>1 DEF Expiring
<1> QED BY <1>3, <1>4, <1>5, <1>6, <1>7, <1>8 DEF TokenInv

\* The transfers of the users outside K are deleted; those that are used up
\* and stay keep the login that will delete them.
LEMMA DeletionInv ==
  ASSUME TokenInv, TypeOK', WorkRuns',
         \A u \in User : transfers'[u] \in {transfers[u], None},
         \A d \in Channel : TCP(d)' = TCP(d) \/ TCP(d)' = Idle,
         UNCHANGED <<issued, redeemed>>,
         \A u \in User : Expiring(u) /\ transfers'[u] = transfers[u] /\ transfers[u] # None
                         => Expiring(u)'
  PROVE  TokenInv'
<1>1. \A d \in Channel : TCP(d)' = TCP(d) \/ (TCP(d)'.token = 0 /\ TCP(d)'.at = "idle")
  BY DEF Idle, NoToken
<1>2. TokensIssued'
  <2>1. 0 \in 0 .. issued
    BY IssuedNat DEF TokenInv
  <2>2. \A u \in User : transfers'[u] # None => transfers'[u] = transfers[u]
    OBVIOUS
  <2> QED BY <1>1, <2>1, <2>2 DEF TokenInv, TokensIssued
<1>3. OneTransfer'
  BY DEF TokenInv, OneTransfer, Carries
<1>4. HolderIsTarget'
  <2>1. \A u \in User : ~ Carries(u, 0)
    BY DEF TokenInv, TokensIssued, Carries
  <2> QED BY <1>1, <2>1 DEF TokenInv, HolderIsTarget, Carries
<1>5. OneHolder'
  BY <1>1 DEF TokenInv, OneHolder, NoToken
<1>6. HeldIsFresh'
  <2>1. 0 \notin redeemed
    BY DEF TokenInv, TokensIssued
  <2> QED BY <1>1, <2>1 DEF TokenInv, HeldIsFresh
<1>7. RedeemedExpires'
  BY DEF TokenInv, RedeemedExpires
<1> QED BY <1>2, <1>3, <1>4, <1>5, <1>6, <1>7 DEF TokenInv

\* A login that holds a token of its user, or none, begins.
LEMMA LoginHolds ==
  ASSUME TokenInv, TypeOK', WorkRuns', NEW c \in Channel, NEW u \in User, NEW k,
         c \in running, TCP(c) = Idle,
         k = NoToken \/ (Carries(u, k) /\ transfers[u].to = c),
         \A d \in Channel : d # c => TCP(d)' = TCP(d),
         TCP(c)' = [at |-> "select", user |-> u, token |-> k],
         UNCHANGED <<running, transfers, issued, redeemed>>
  PROVE  TokenInv'
<1>1. \A d \in Channel : d # c => TCP(d)'.token # k \/ k = NoToken
  BY DEF TokenInv, HolderIsTarget
<1>2. k \in 0 .. issued
  <2>1. 0 \in 0 .. issued
    BY IssuedNat DEF TokenInv
  <2> QED BY <2>1 DEF TokenInv, TokensIssued, Carries, NoToken
<1>3. TokensIssued'
  <2>1. \A d \in Channel : TCP(d)'.token \in 0 .. issued'
    BY <1>2 DEF TokenInv, TokensIssued
  <2> QED BY <2>1 DEF TokenInv, TokensIssued
<1>4. OneTransfer'
  BY DEF TokenInv, OneTransfer, Carries
<1>5. HolderIsTarget'
  <2>1. \A v \in User : Carries(v, k) => transfers[v].to = c /\ v = u
    <3>1. \A v \in User : ~ Carries(v, 0)
      BY DEF TokenInv, TokensIssued, Carries
    <3> QED BY <3>1 DEF TokenInv, OneTransfer, Carries, NoToken
  <2> QED BY <2>1 DEF TokenInv, HolderIsTarget, Carries
<1>6. OneHolder'
  BY <1>1 DEF TokenInv, OneHolder
<1>7. ASSUME NEW v \in User, transfers[v] # None, transfers[v].token \in redeemed
      PROVE  /\ transfers[v].to # c
             /\ Expiring(v)'
  <2>1. Expiring(v) /\ transfers[v].to \in Channel
    BY <1>7 DEF TokenInv, RedeemedExpires, TypeOK, Transfer
  <2>2. transfers[v].to # c
    BY <2>1 DEF Expiring, Idle
  <2> QED BY <2>1, <2>2 DEF Expiring
<1>8. HeldIsFresh'
  <2>1. k \notin redeemed
    <3>1. 0 \notin redeemed
      BY DEF TokenInv, TokensIssued
    <3> QED BY <1>7, <3>1 DEF Carries, NoToken
  <2> QED BY <2>1 DEF TokenInv, HeldIsFresh
<1>9. RedeemedExpires'
  BY <1>7 DEF RedeemedExpires
<1> QED BY <1>3, <1>4, <1>5, <1>6, <1>8, <1>9 DEF TokenInv

\* The login of channel c has inserted its session: its token is used up.
LEMMA UseInv ==
  ASSUME TokenInv, TypeOK', WorkRuns', NEW c \in Channel,
         TCP(c).at = "insert",
         \A d \in Channel : d # c => TCP(d)' = TCP(d),
         TCP(c)' = [at |-> "untransfer", user |-> TCP(c).user, token |-> TCP(c).token],
         redeemed' = redeemed \cup ({TCP(c).token} \ {NoToken}),
         UNCHANGED <<running, transfers, issued>>
  PROVE  TokenInv'
<1>1. \A d \in Channel : TCP(d)'.token = TCP(d).token /\ TCP(d)'.user = TCP(d).user
  OBVIOUS
<1>2. TokensIssued'
  <2>1. redeemed' \subseteq 1 .. issued
    <3>1. TCP(c).token \in 0 .. issued /\ redeemed \subseteq 1 .. issued
      BY DEF TokenInv, TokensIssued
    <3>2. \A k \in 0 .. issued : k # 0 => k \in 1 .. issued
      BY IssuedNat DEF TokenInv
    <3> QED BY <3>1, <3>2 DEF NoToken
  <2> QED BY <1>1, <2>1 DEF TokenInv, TokensIssued
<1>3. OneTransfer'
  BY DEF TokenInv, OneTransfer, Carries
<1>4. HolderIsTarget'
  BY <1>1 DEF TokenInv, HolderIsTarget, Carries
<1>5. OneHolder'
  BY <1>1 DEF TokenInv, OneHolder
<1>6. HeldIsFresh'
  <2> SUFFICES ASSUME NEW d \in Channel, TCP(d)'.at # "untransfer"
               PROVE  TCP(d)'.token \notin redeemed'
    BY DEF HeldIsFresh
  <2>1. d # c /\ TCP(d).token \notin redeemed
    BY DEF TokenInv, HeldIsFresh
  <2>2. TCP(d).token = TCP(c).token => TCP(c).token = NoToken
    BY <2>1 DEF TokenInv, OneHolder
  <2> QED BY <2>1, <2>2
<1>7. RedeemedExpires'
  <2> SUFFICES ASSUME NEW u \in User, transfers[u] # None, transfers[u].token \in redeemed'
               PROVE  Expiring(u)'
    BY DEF RedeemedExpires
  <2>1. CASE transfers[u].token = TCP(c).token
    <3>1. transfers[u].to = c /\ TCP(c).user = u
      BY <2>1 DEF TokenInv, HolderIsTarget, Carries
    <3> QED BY <3>1 DEF Expiring
  <2>2. CASE transfers[u].token \in redeemed
    <3>1. Expiring(u) /\ transfers[u].to \in Channel
      BY <2>2 DEF TokenInv, RedeemedExpires, TypeOK, Transfer
    <3>2. transfers[u].to # c \/ c \notin running
      BY <3>1 DEF Expiring
    <3> QED BY <3>1, <3>2 DEF Expiring
  <2> QED BY <2>1, <2>2
<1> QED BY <1>2, <1>3, <1>4, <1>5, <1>6, <1>7 DEF TokenInv

\* A token is issued.
LEMMA IssueInv ==
  ASSUME TokenInv, TypeOK', NEW u \in User, NEW d \in Channel,
         transfers[u] = None,
         transfers' = [transfers EXCEPT ![u] = [to |-> d, token |-> issued + 1]],
         issued' = issued + 1,
         UNCHANGED <<running, work, redeemed>>
  PROVE  TokenInv'
<1>1. /\ transfers'[u] = [to |-> d, token |-> issued + 1]
      /\ \A v \in User : v # u => transfers'[v] = transfers[v]
  BY DEF TokenInv, TypeOK
<1>2. \A c \in Channel : TCP(c)' = TCP(c)
  BY DEF TCP
<1>3. /\ issued \in Nat
      /\ \A k \in 0 .. issued : k # issued + 1 /\ k \in 0 .. issued'
      /\ \A k \in 1 .. issued : k # issued + 1 /\ k \in 1 .. issued'
      /\ issued + 1 \in 1 .. issued'
  BY IssuedNat DEF TokenInv
<1>4. TokensIssued'
  <2>1. \A v \in User : transfers'[v] # None => transfers'[v].token \in 1 .. issued'
    BY <1>1, <1>3 DEF TokenInv, TokensIssued
  <2> QED BY <1>2, <1>3, <2>1 DEF TokenInv, TokensIssued
<1>5. \A v \in User : v # u /\ transfers[v] # None => transfers[v].token # issued + 1
  BY <1>3 DEF TokenInv, TokensIssued
<1>6. OneTransfer'
  BY <1>1, <1>5 DEF TokenInv, OneTransfer, Carries
<1>7. HolderIsTarget'
  <2>1. \A c \in Channel : TCP(c).token # issued + 1
    BY <1>3 DEF TokenInv, TokensIssued
  <2> QED BY <1>1, <1>2, <2>1 DEF TokenInv, HolderIsTarget, Carries
<1>8. OneHolder' /\ HeldIsFresh' /\ WorkRuns'
  BY <1>2 DEF TokenInv, OneHolder, HeldIsFresh, WorkRuns
<1>9. RedeemedExpires'
  <2> SUFFICES ASSUME NEW v \in User, transfers'[v] # None, transfers'[v].token \in redeemed
               PROVE  Expiring(v)'
    BY DEF RedeemedExpires
  <2>1. issued + 1 \notin redeemed
    BY <1>3 DEF TokenInv, TokensIssued
  <2>2. v # u
    BY <1>1, <2>1
  <2>3. transfers'[v] = transfers[v] /\ transfers[v].to \in Channel /\ Expiring(v)
    BY <1>1, <2>2 DEF TokenInv, RedeemedExpires, TypeOK, Transfer
  <2> QED BY <1>2, <2>3 DEF Expiring
<1> QED BY <1>4, <1>6, <1>7, <1>8, <1>9 DEF TokenInv

-----------------------------------------------------------------------------
(* Every action has one of these shapes.                                   *)

LEMMA StepTCP ==
  ASSUME NEW c \in Channel, NEW t \in Thread, NEW w, Step(c, t, w)
  PROVE  /\ \A d \in Channel : d # c => TCP(d)' = TCP(d)
         /\ TCP(c)' = IF t = "tcp" THEN w ELSE TCP(c)
  BY DEF Step, TCP, Thread

LEMMA RunsStep ==
  ASSUME TokenInv, NEW c \in Channel, running \subseteq running',
         \A d \in Channel : d # c => TCP(d)' = TCP(d),
         TCP(c)' = Idle \/ TCP(c) # Idle \/ c \in running
  PROVE  WorkRuns'
  BY DEF TokenInv, WorkRuns, TCP

\* A login, or the recheck of the tick thread, goes on or ends.
LEMMA StatementInv ==
  ASSUME TokenInv, TypeOK', NEW c \in Channel, NEW t \in Thread,
         work[c][t].at \notin {"idle", "untransfer"},
         Done(c, t) \/ \E at \in At \ {"untransfer"} : Proceed(c, t, at),
         UNCHANGED <<running, transfers, issued, redeemed>>
  PROVE  TokenInv'
<1>1. TypeOK
  BY DEF TokenInv
<1>2. ASSUME NEW w, Step(c, t, w),
             \/ w = Idle
             \/ w.at # "untransfer" /\ w.token = work[c][t].token /\ w.user = work[c][t].user
      PROVE  TokenInv'
  <2>1. /\ \A d \in Channel : d # c => TCP(d)' = TCP(d)
        /\ TCP(c)' = IF t = "tcp" THEN w ELSE TCP(c)
    BY <1>2, StepTCP
  <2>2. GoesOn(c)
    BY <1>2, <2>1 DEF GoesOn, TCP
  <2>3. t = "tcp" => TCP(c) # Idle
    BY DEF Idle, TCP
  <2>4. TCP(c)' = Idle \/ TCP(c) # Idle \/ c \in running
    BY <2>1, <2>3
  <2>5. WorkRuns'
    BY <2>1, <2>4, RunsStep
  <2> QED BY <2>2, <2>5, GoesOnInv
<1>3. CASE Done(c, t)
  <2>1. Step(c, t, Idle)
    BY <1>1, <1>3, DoneStep
  <2> QED BY <1>2, <2>1
<1>4. ASSUME NEW at \in At \ {"untransfer"}, Proceed(c, t, at)
      PROVE  TokenInv'
  <2> DEFINE w == [at |-> at, user |-> work[c][t].user, token |-> work[c][t].token]
  <2>1. Step(c, t, w)
    BY <1>1, <1>4, ProceedStep
  <2>2. w.at # "untransfer" /\ w.token = work[c][t].token /\ w.user = work[c][t].user
    BY <1>4
  <2> HIDE DEF w
  <2> QED BY <1>2, <2>1, <2>2
<1> QED BY <1>3, <1>4

LEMMA InsertInv ==
  ASSUME TokenInv, TypeOK', NEW c \in Channel, NEW t \in Thread, InsertSession(c, t)
  PROVE  TokenInv'
<1>1. TypeOK /\ work[c][t].at = "insert" /\ UNCHANGED <<running, transfers, issued>>
  BY DEF TokenInv, InsertSession
<1>2. CASE t # "tcp"
  BY <1>1, <1>2, StatementInv DEF InsertSession
<1>3. CASE t = "tcp"
  <2> DEFINE w == [at |-> "untransfer", user |-> TCP(c).user, token |-> TCP(c).token]
  <2>1. Proceed(c, t, "untransfer") /\ redeemed' = redeemed \cup ({TCP(c).token} \ {NoToken})
    BY <1>3 DEF InsertSession, TCP
  <2>2. Step(c, t, w)
    BY <1>1, <1>3, <2>1, ProceedStep DEF At, TCP
  <2>3. (\A d \in Channel : d # c => TCP(d)' = TCP(d)) /\ TCP(c)' = w
    BY <1>3, <2>2, StepTCP
  <2>4. TCP(c).at = "insert" /\ TCP(c) # Idle
    BY <1>1, <1>3 DEF TCP, Idle
  <2>5. WorkRuns'
    BY <1>1, <2>3, <2>4, RunsStep
  <2> QED BY <1>1, <2>1, <2>3, <2>4, <2>5, UseInv
<1> QED BY <1>2, <1>3

LEMMA TokenLogin ==
  ASSUME TokenInv, TypeOK', NEW c \in Channel, NEW u \in User, NEW k \in Token \cup {NoToken},
         Login(c, u, k),
         k = NoToken \/ (Carries(u, k) /\ transfers[u].to = c)
  PROVE  TokenInv'
<1> DEFINE w == [at |-> "select", user |-> u, token |-> k]
<1>1. TypeOK /\ w \in Work /\ "tcp" \in Thread
  BY DEF TokenInv, Work, Thread
<1>2. Step(c, "tcp", w)
  BY <1>1, AssignStep DEF Login
<1>3. (\A d \in Channel : d # c => TCP(d)' = TCP(d)) /\ TCP(c)' = w
  BY <1>1, <1>2, StepTCP
<1>4. c \in running /\ TCP(c) = Idle /\ UNCHANGED <<running, transfers, issued, redeemed>>
  BY DEF Login, TCP
<1>5. WorkRuns'
  BY <1>3, <1>4, RunsStep
<1> QED BY <1>3, <1>4, <1>5, LoginHolds

LEMMA UntransferInv ==
  ASSUME ~ DBFaults, TokenInv, TypeOK', NEW c \in Channel, RemoveUserTransfer(c)
  PROVE  TokenInv'
<1>1. transfers' = [u \in User |-> IF u = TCP(c).user THEN None ELSE transfers[u]]
  BY DEF RemoveUserTransfer, Deleted, RemovedTransfers, TCP
<1>2. Step(c, "tcp", Idle)
  BY DoneStep DEF RemoveUserTransfer, Thread, TokenInv
<1>3. (\A d \in Channel : d # c => TCP(d)' = TCP(d)) /\ TCP(c)' = Idle
  BY <1>2, StepTCP DEF Thread
<1>4. UNCHANGED <<running, issued, redeemed>>
  BY DEF RemoveUserTransfer
<1>5. WorkRuns'
  BY <1>3, <1>4, RunsStep
<1>6. ASSUME NEW u \in User, Expiring(u), transfers'[u] = transfers[u], transfers[u] # None
      PROVE  Expiring(u)'
  <2>1. u # TCP(c).user
    BY <1>1, <1>6
  <2>2. transfers[u].to \in Channel
    BY <1>6 DEF TokenInv, TypeOK, Transfer
  <2>3. transfers[u].to # c \/ c \notin running
    BY <1>6, <2>1 DEF Expiring
  <2> QED BY <1>3, <1>4, <1>6, <2>2, <2>3 DEF Expiring
<1>7. \A u \in User : transfers'[u] \in {transfers[u], None}
  BY <1>1
<1>8. \A d \in Channel : TCP(d)' = TCP(d) \/ TCP(d)' = Idle
  BY <1>3
<1> QED BY <1>4, <1>5, <1>6, <1>7, <1>8, DeletionInv

LEMMA TokenStart ==
  ASSUME ~ DBFaults, TokenInv, TypeOK', NEW c \in Channel, Start(c)
  PROVE  TokenInv'
<1>1. transfers' = [u \in User |-> IF u \in TransfersTo(c) THEN None ELSE transfers[u]]
  BY DEF Start, Deleted
<1>2. running' = running \cup {c} /\ UNCHANGED <<work, issued, redeemed>>
  BY DEF Start
<1>3. \A d \in Channel : TCP(d)' = TCP(d)
  BY <1>2 DEF TCP
<1>4. WorkRuns'
  BY <1>2 DEF TokenInv, WorkRuns
<1>5. ASSUME NEW u \in User, Expiring(u), transfers'[u] = transfers[u], transfers[u] # None
      PROVE  Expiring(u)'
  <2>1. transfers[u].to # c
    BY <1>1, <1>5 DEF TransfersTo
  <2>2. transfers[u].to \in Channel
    BY <1>5 DEF TokenInv, TypeOK, Transfer
  <2> QED BY <1>2, <1>3, <1>5, <2>1, <2>2 DEF Expiring
<1>6. \A u \in User : transfers'[u] \in {transfers[u], None}
  BY <1>1
<1> QED BY <1>2, <1>3, <1>4, <1>5, <1>6, DeletionInv

LEMMA TokenCrash ==
  ASSUME TokenInv, TypeOK', NEW c \in Channel, Crash(c)
  PROVE  TokenInv'
<1>1. running' = running \ {c} /\ UNCHANGED <<transfers, issued, redeemed>>
  BY DEF Crash
<1>2. \A d \in Channel : TCP(d)' = IF d = c THEN Idle ELSE TCP(d)
  BY DEF Crash, TokenInv, TypeOK, TCP, Thread
<1>3. WorkRuns'
  BY <1>1, <1>2 DEF TokenInv, WorkRuns, TCP
<1>4. ASSUME NEW u \in User, Expiring(u), transfers[u] # None
      PROVE  Expiring(u)'
  <2>1. transfers[u].to \in Channel
    BY <1>4 DEF TokenInv, TypeOK, Transfer
  <2> QED BY <1>1, <1>2, <1>4, <2>1 DEF Expiring
<1>5. \A u \in User : transfers'[u] \in {transfers[u], None}
  BY <1>1
<1>6. \A d \in Channel : TCP(d)' = TCP(d) \/ TCP(d)' = Idle
  BY <1>2
<1> QED BY <1>1, <1>3, <1>4, <1>5, <1>6, DeletionInv

LEMMA RemoveOldInv ==
  ASSUME TokenInv, TypeOK', NEW c \in Channel, NEW oldest, RemoveOldUserTransfers(c, oldest)
  PROVE  TokenInv'
<1>1. \A u \in User : transfers'[u] \in {transfers[u], None}
  BY DEF RemoveOldUserTransfers
<1>2. (\A d \in Channel : TCP(d)' = TCP(d)) /\ WorkRuns' /\ UNCHANGED <<running, issued, redeemed>>
  BY DEF RemoveOldUserTransfers, TCP, TokenInv, WorkRuns
<1>3. ASSUME NEW u \in User, Expiring(u), transfers'[u] = transfers[u], transfers[u] # None
      PROVE  Expiring(u)'
  <2>1. transfers[u].to \in Channel
    BY <1>3 DEF TokenInv, TypeOK, Transfer
  <2> QED BY <1>2, <1>3, <2>1 DEF Expiring
<1> QED BY <1>1, <1>2, <1>3, DeletionInv

LEMMA TokenNext == ~ DBFaults /\ TokenInv /\ [Next]_vars => TokenInv'
<1> SUFFICES ASSUME ~ DBFaults, TokenInv, [Next]_vars PROVE TokenInv'
  OBVIOUS
<1>1. TypeOK'
  BY TypeStep DEF TokenInv
<1>2. ASSUME NEW c \in Channel, NEW t \in Thread,
             SelectSession(c, t) \/ DeleteStaleSession(c, t) \/ InsertRefused(c, t)
      PROVE  TokenInv'
  <2>1. /\ work[c][t].at \notin {"idle", "untransfer"}
        /\ Done(c, t) \/ Proceed(c, t, "insert") \/ Proceed(c, t, "delete")
        /\ UNCHANGED <<running, transfers, issued, redeemed>>
    BY <1>2 DEF SelectSession, DeleteStaleSession, InsertRefused
  <2>2. Done(c, t) \/ \E at \in At \ {"untransfer"} : Proceed(c, t, at)
    BY <2>1 DEF At
  <2> QED BY <1>1, <2>1, <2>2, StatementInv
<1>3. ASSUME NEW c \in Channel, NEW t \in Thread, InsertSession(c, t)
      PROVE  TokenInv'
  BY <1>1, <1>3, InsertInv
<1>4. ASSUME NEW c \in Channel, NEW u \in User, PasswordLogin(c, u)
      PROVE  TokenInv'
  BY <1>1, <1>4, TokenLogin DEF PasswordLogin
<1>5. ASSUME NEW c \in Channel, NEW u \in User, TransferLogin(c, u)
      PROVE  TokenInv'
  <2>1. transfers[u] # None /\ transfers[u].to = c /\ transfers[u].token \in Token
    BY <1>5 DEF TransferLogin, TransfersTo, TokenInv, TypeOK, Transfer
  <2>2. Carries(u, transfers[u].token)
    BY <2>1 DEF Carries
  <2> QED BY <1>1, <1>5, <2>1, <2>2, TokenLogin DEF TransferLogin
<1>6. ASSUME NEW c \in Channel, RemoveUserTransfer(c)
      PROVE  TokenInv'
  BY <1>1, <1>6, UntransferInv
<1>7. ASSUME NEW c \in Channel, NEW d \in Channel, NEW u \in User, RequestTransfer(c, u, d)
      PROVE  TokenInv'
  BY <1>1, <1>7, IssueInv DEF RequestTransfer
<1>8. ASSUME NEW c \in Channel, NEW oldest \in Token, RemoveOldUserTransfers(c, oldest)
      PROVE  TokenInv'
  BY <1>1, <1>8, RemoveOldInv
<1>9. ASSUME NEW c \in Channel, Start(c)
      PROVE  TokenInv'
  BY <1>1, <1>9, TokenStart
<1>10. ASSUME NEW c \in Channel, Crash(c)
       PROVE  TokenInv'
  BY <1>1, <1>10, TokenCrash
<1>11. ASSUME UNCHANGED <<running, transfers, work, issued, redeemed>>
       PROVE  TokenInv'
  <2>1. \A c \in Channel : TCP(c)' = TCP(c)
    BY <1>11 DEF TCP
  <2>2. WorkRuns'
    BY <1>11 DEF TokenInv, WorkRuns
  <2>3. \A u \in User : transfers[u] # None => transfers[u].to \in Channel
    BY DEF TokenInv, TypeOK, Transfer
  <2>4. \A u \in User : transfers[u] # None /\ Expiring(u) => Expiring(u)'
    BY <1>11, <2>1, <2>3 DEF Expiring
  <2>5. \A u \in User : transfers'[u] \in {transfers[u], None}
    BY <1>11
  <2> QED BY <1>1, <1>11, <2>1, <2>2, <2>4, <2>5, DeletionInv
<1>12. ASSUME NEW c \in Channel, NEW u \in User, RemoveUser(c, u)
       PROVE  TokenInv'
  BY <1>11, <1>12 DEF RemoveUser
<1>13. ASSUME NEW c \in Channel, Stall(c) \/ \E d \in Channel : Greet(c, d) \/ Suspect(c, d)
       PROVE  TokenInv'
  BY <1>11, <1>13 DEF Stall, Greet, Suspect
<1>14. ASSUME NEW c \in Channel, NEW u \in User, IsUserSessionAdded(c, u)
       PROVE  TokenInv'
  <2>1. UNCHANGED <<running, transfers, issued, redeemed>>
    BY <1>14 DEF IsUserSessionAdded
  <2>2. \A d \in Channel : TCP(d)' = TCP(d)
    BY <1>14 DEF IsUserSessionAdded, TokenInv, TypeOK, TCP, Thread
  <2>3. WorkRuns'
    BY <2>1, <2>2 DEF TokenInv, WorkRuns, TCP
  <2> QED BY <1>1, <2>1, <2>2, <2>3, GoesOnInv DEF GoesOn
<1>15. CASE UNCHANGED vars
  BY <1>11, <1>15 DEF vars
<1> QED BY <1>2, <1>3, <1>4, <1>5, <1>6, <1>7, <1>8, <1>9, <1>10, <1>12, <1>13, <1>14, <1>15
        DEF Next, AddUserSession, TCPStep, TickStep, ProcessStep

\* A token is good for one login: the login that has inserted its session
\* deletes the transfer before the channel handles anything else, and if the
\* process ends in between, its next start does.
THEOREM RedeemedOnceCorrect == ~ DBFaults => (Spec => RedeemedOnce)
<1> SUFFICES ASSUME ~ DBFaults PROVE Spec => RedeemedOnce
  OBVIOUS
<1>1. TokenInv /\ [Next]_vars => TokenInv'
  BY TokenNext
<1>2. TokenInv => \A c \in Channel :
                    work[c]["tcp"].at = "insert" /\ work'[c]["tcp"].at = "untransfer"
                      => work[c]["tcp"].token \notin redeemed
  BY DEF TokenInv, HeldIsFresh, TCP
<1> QED BY TokenInit, <1>1, <1>2, PTL DEF Spec, RedeemedOnce
=============================================================================
