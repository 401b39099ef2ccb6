-------------------------- MODULE ServerMesh_proofs --------------------------
(***************************************************************************)
(* Proofs about module ServerMesh.                                         *)
(***************************************************************************)
EXTENDS ServerMesh, TLAPS

LEMMA TypeInit == Init => TypeOK
  BY MeshAssumption DEF Init, TypeOK

LEMMA SentType ==
  ASSUME NEW type \in {"HELLO", "HELLO_ANSWER", "GOODBYE", "HEARTBEAT"},
         NEW c \in Channel, NEW D \in SUBSET Channel
  PROVE  /\ Sent(type, c, D) \subseteq Datagram
         /\ \A m \in Sent(type, c, D) : m.type = type /\ m.from = c /\ m.to \in D
  BY DEF Sent, Datagram

LEMMA ForgetType ==
  ASSUME TypeOK, NEW c \in Channel, NEW gone, Forget(c, gone)
  PROVE  /\ online' \in [Channel -> SUBSET Channel]
         /\ ready' \in [Channel -> SUBSET Server]
<1>1. {ServerOf[d] : d \in online[c] \ gone} \subseteq Server
  BY MeshAssumption DEF TypeOK
<1>2. ReadyAfter(c, gone, online[c] \ gone) \subseteq Server
  BY <1>1 DEF ReadyAfter, TypeOK
<1> QED BY <1>2 DEF Forget, TypeOK

LEMMA ReceptionType ==
  ASSUME TypeOK, NEW m \in Datagram, handleIncomingServerPacket(m)
  PROVE  /\ online' \in [Channel -> SUBSET Channel]
         /\ ready' \in [Channel -> SUBSET Server]
         /\ age' \in [Channel -> [Channel -> 0 .. Timeout]]
         /\ Replies(m) \subseteq Datagram
<1> DEFINE c == m.to
           d == m.from
<1>1. c \in Channel /\ d \in Channel
  BY DEF Datagram
<1>2. ServerOf[d] \in Server /\ 0 \in 0 .. Timeout
  BY <1>1, MeshAssumption
<1>3. Replies(m) \subseteq Datagram
  BY <1>1, SentType DEF Replies, Answer
<1>4. CASE Greeted(m.type, c, d)
  BY <1>1, <1>2, <1>3, <1>4 DEF Greeted, TypeOK
<1>5. CASE SaidGoodbye(m.type, c, d)
  BY <1>1, <1>2, <1>3, <1>5, ForgetType DEF SaidGoodbye, TypeOK
<1>6. CASE HeardHeartbeat(m.type, c, d)
  BY <1>1, <1>2, <1>3, <1>6 DEF HeardHeartbeat, TypeOK
<1>7. CASE UNCHANGED <<online, ready, age>>
  BY <1>3, <1>7 DEF TypeOK
<1> QED BY <1>4, <1>5, <1>6, <1>7 DEF handleIncomingServerPacket

\* A channel that stays online after a tick was heard of recently enough.
LEMMA TickType ==
  ASSUME TypeOK, NEW c \in Channel, Tick(c)
  PROVE  TypeOK'
<1> DEFINE elapsed == missed[c] + 1
           stalled == elapsed > Timeout
           gone == IF stalled THEN online[c] ELSE Silent(c, elapsed)
<1>1. /\ Forget(c, gone)
      /\ age' = [age EXCEPT ![c] =
                   [d \in Channel |-> IF d \in online'[c] THEN age[c][d] + elapsed ELSE 0]]
      /\ network' = network \cup (IF stalled THEN Sent("HELLO", c, Others(c))
                                  ELSE Sent("HEARTBEAT", c, online'[c]))
      /\ ticked' = ticked \cup {c}
      /\ missed' = [missed EXCEPT ![c] = 0]
      /\ UNCHANGED <<running, late, starts, lost, stray>>
  BY DEF Tick, Heartbeats
<1>2. elapsed \in Nat /\ Timeout \in Nat
  BY MeshAssumption DEF TypeOK
<1>3. online'[c] = online[c] \ gone
  BY <1>1 DEF Forget, TypeOK
<1>4. /\ online' \in [Channel -> SUBSET Channel]
      /\ ready' \in [Channel -> SUBSET Server]
  BY <1>1, ForgetType
<1>5. \A d \in Channel : d \in online'[c] => age[c][d] + elapsed \in 0 .. Timeout
  <2> SUFFICES ASSUME NEW d \in Channel, d \in online'[c]
               PROVE  age[c][d] + elapsed \in 0 .. Timeout
    OBVIOUS
  <2>1. ~ stalled /\ d \notin Silent(c, elapsed) /\ d \in online[c]
    BY <1>3
  <2>2. ~ (age[c][d] + elapsed > Timeout)
    BY <2>1 DEF Silent
  <2>3. age[c][d] \in Nat
    BY DEF TypeOK
  <2> QED BY <1>2, <2>2, <2>3
<1>6. age' \in [Channel -> [Channel -> 0 .. Timeout]]
  BY <1>1, <1>2, <1>5 DEF TypeOK
<1>7. network' \subseteq Datagram
  <2>1. Others(c) \subseteq Channel /\ online'[c] \subseteq Channel
    BY <1>4 DEF Others
  <2> QED BY <1>1, <2>1, SentType DEF TypeOK
<1>8. ticked' \subseteq Channel /\ missed' \in [Channel -> 0 .. Timeout]
  BY <1>1, <1>2 DEF TypeOK
<1> QED BY <1>1, <1>4, <1>6, <1>7, <1>8 DEF TypeOK

LEMMA TypeNext ==
  ASSUME TypeOK, [Next]_vars
  PROVE  TypeOK'
<1>1. ASSUME NEW c \in Channel, Start(c)
      PROVE  TypeOK'
  <2>1. Sent("HELLO", c, Others(c)) \subseteq Datagram
    BY SentType DEF Others
  <2>2. starts' \in 0 .. MaxStarts
    BY <1>1, MeshAssumption DEF Start, TypeOK
  <2> QED BY <1>1, <2>1, <2>2 DEF Start, TypeOK
<1>2. ASSUME NEW c \in Channel, End(c), network' \subseteq Datagram
      PROVE  TypeOK'
  BY <1>2, MeshAssumption DEF End, TypeOK
<1>3. ASSUME NEW c \in Channel, Crash(c)
      PROVE  TypeOK'
  BY <1>2, <1>3 DEF Crash, TypeOK
<1>4. ASSUME NEW c \in Channel, Shutdown(c)
      PROVE  TypeOK'
  <2>1. network' \subseteq Datagram
    BY <1>4, SentType DEF Shutdown, TypeOK
  <2> QED BY <1>2, <1>4, <2>1 DEF Shutdown
<1>5. ASSUME NEW c \in Channel, Tick(c)
      PROVE  TypeOK'
  BY <1>5, TickType
<1>6. ASSUME NEW m \in network, Receive(m)
      PROVE  TypeOK'
  <2>1. m \in Datagram
    BY DEF TypeOK
  <2> QED BY <1>6, <2>1, ReceptionType DEF Receive, TypeOK
<1>7. ASSUME NEW m \in late, ReceiveLate(m)
      PROVE  TypeOK'
  <2>1. m \in Datagram
    BY DEF TypeOK
  <2> QED BY <1>7, <2>1, ReceptionType DEF ReceiveLate, TypeOK
<1>8. ASSUME NEW m \in network, Lose(m)
      PROVE  TypeOK'
  BY <1>8, MeshAssumption DEF Lose, TypeOK
<1>9. ASSUME NEW m \in network, Stray(m)
      PROVE  TypeOK'
  BY <1>9, MeshAssumption DEF Stray, TypeOK
<1>10. ASSUME NEW c \in Channel, Pause(c)
       PROVE  TypeOK'
  BY <1>10, MeshAssumption DEF Pause, TypeOK
<1>11. CASE Second
  BY <1>11 DEF Second, TypeOK
<1>12. CASE UNCHANGED vars
  BY <1>12 DEF vars, TypeOK
<1> QED
  BY <1>1, <1>3, <1>4, <1>5, <1>6, <1>7, <1>8, <1>9, <1>10, <1>11, <1>12
     DEF Next, ProcessStep, NetworkStep, FaultStep

\* The state has its type, whatever channels and servers there are.
THEOREM MeshTypeCorrect == Spec => []TypeOK
<1>1. TypeOK /\ [Next]_vars => TypeOK'
  BY TypeNext
<1> QED BY <1>1, TypeInit, PTL DEF Spec

-----------------------------------------------------------------------------
(* The status of the servers.                                              *)

ServersOf(c, D) == {ServerOf[d] : d \in D} \ {ServerOf[c]}

LEMMA ForgetStatus ==
  ASSUME TypeOK, StatusAgrees, NEW c \in Channel, NEW gone, Forget(c, gone)
  PROVE  StatusAgrees'
<1> DEFINE kept == online[c] \ gone
<1>1. /\ online' = [online EXCEPT ![c] = kept]
      /\ ready' = [ready EXCEPT ![c] = ReadyAfter(c, gone, kept)]
  BY DEF Forget
<1>2. ready[c] = ServersOf(c, online[c])
  BY DEF StatusAgrees, ServersOf
<1>3. ReadyAfter(c, gone, kept) = ServersOf(c, kept)
  BY <1>2 DEF ReadyAfter, ServersOf
<1>4. ASSUME NEW e \in Channel
      PROVE  ready'[e] = {ServerOf[d] : d \in online'[e]} \ {ServerOf[e]}
  <2>1. CASE e = c
    BY <1>1, <1>3, <2>1 DEF TypeOK, ServersOf
  <2>2. CASE e # c
    BY <1>1, <2>2 DEF TypeOK, StatusAgrees
  <2> QED BY <2>1, <2>2
<1> QED BY <1>4 DEF StatusAgrees

LEMMA ReceptionStatus ==
  ASSUME TypeOK, StatusAgrees, NEW m \in Datagram, handleIncomingServerPacket(m)
  PROVE  StatusAgrees'
<1> DEFINE c == m.to
           d == m.from
<1>1. c \in Channel /\ d \in Channel
  BY DEF Datagram
<1>2. CASE Greeted(m.type, c, d)
  <2>1. /\ online' = [online EXCEPT ![c] = @ \cup {d}]
        /\ ready' = [ready EXCEPT ![c] = @ \cup ({ServerOf[d]} \ {ServerOf[c]})]
    BY <1>2 DEF Greeted
  <2>2. ASSUME NEW e \in Channel
        PROVE  ready'[e] = {ServerOf[x] : x \in online'[e]} \ {ServerOf[e]}
    BY <1>1, <2>1 DEF TypeOK, StatusAgrees
  <2> QED BY <2>2 DEF StatusAgrees
<1>3. CASE SaidGoodbye(m.type, c, d)
  BY <1>1, <1>3, ForgetStatus DEF SaidGoodbye
<1>4. CASE UNCHANGED <<online, ready>>
  BY <1>4 DEF StatusAgrees
<1> QED BY <1>2, <1>3, <1>4 DEF handleIncomingServerPacket, HeardHeartbeat

LEMMA StatusNext ==
  ASSUME TypeOK, StatusAgrees, [Next]_vars
  PROVE  StatusAgrees'
<1>1. ASSUME NEW c \in Channel, End(c)
      PROVE  StatusAgrees'
  BY <1>1 DEF End, TypeOK, StatusAgrees
<1>2. ASSUME NEW c \in Channel, Tick(c)
      PROVE  StatusAgrees'
  BY <1>2, ForgetStatus DEF Tick
<1>3. ASSUME NEW m \in network \cup late, handleIncomingServerPacket(m)
      PROVE  StatusAgrees'
  <2>1. m \in Datagram
    BY DEF TypeOK
  <2> QED BY <1>3, <2>1, ReceptionStatus
<1>4. CASE UNCHANGED <<online, ready>>
  BY <1>4 DEF StatusAgrees
<1> QED
  BY <1>1, <1>2, <1>3, <1>4
     DEF Next, ProcessStep, NetworkStep, FaultStep, Start, Crash, Shutdown, Receive,
         ReceiveLate, Lose, Stray, Pause, Second, vars

\* A server is shown as Ready exactly when one of its channels is online,
\* however many channels it has.
THEOREM StatusCorrect == Spec => []StatusAgrees
<1>1. Init => StatusAgrees
  BY DEF Init, StatusAgrees
<1>2. TypeOK /\ StatusAgrees /\ [Next]_vars => StatusAgrees'
  BY StatusNext
<1> QED BY <1>1, <1>2, MeshTypeCorrect, PTL DEF Spec

-----------------------------------------------------------------------------
(* How old what a channel knows may be.  Each lost datagram and each missed *)
(* tick adds a second, and within a second one more passes before a tick    *)
(* of c is made good by the heartbeat of d.                                 *)

\* The heartbeat of channel d that c has not received yet in this second.
Due(d, c) == d \notin ticked \/ Sent("HEARTBEAT", d, {c}) \subseteq network

Ticked(c) == IF c \in ticked THEN 1 ELSE 0
Pending(d, c) == IF Due(d, c) THEN 1 ELSE 0

Stopped == \A c \in Channel \ running : online[c] = {}
MissedAreLost == \A c \in Channel : missed[c] <= lost
NoneLate == stray = 0 => late = {}
GoodbyeIsTrue == \A m \in network : m.type = "GOODBYE" => m.from \in ticked \ running

\* Channels that know each other.
Fresh ==
  stray = 0 => \A c, d \in Channel : d \in online[c] /\ c \in online[d] =>
                 age[c][d] + missed[c] <= lost + Ticked(c) + Pending(d, c)

\* Channel d has greeted c, so c may soon know it.
FreshGreeting ==
  stray = 0 => \A m \in network : m.type \in {"HELLO", "HELLO_ANSWER"} /\ m.to \in online[m.from] =>
                 age[m.from][m.to] + missed[m.from] <= lost + Ticked(m.from)

Inv == TypeOK /\ Stopped /\ MissedAreLost /\ NoneLate /\ GoodbyeIsTrue /\ Fresh /\ FreshGreeting

LEMMA Numbers ==
  ASSUME TypeOK
  PROVE  /\ lost \in Nat /\ stray \in Nat /\ Timeout \in Nat
         /\ \A c \in Channel : missed[c] \in Nat /\ Ticked(c) \in {0, 1}
         /\ \A c, d \in Channel : age[c][d] \in Nat /\ Pending(c, d) \in {0, 1}
  BY MeshAssumption DEF TypeOK, Ticked, Pending

LEMMA OneSent ==
  ASSUME NEW type, NEW c, NEW d, NEW M
  PROVE  Sent(type, c, {d}) \subseteq M <=> [type |-> type, from |-> c, to |-> d] \in M
  BY DEF Sent

LEMMA StartInv ==
  ASSUME Inv, TypeOK', NEW e \in Channel, Start(e)
  PROVE  Inv'
<1>1. /\ e \notin running
      /\ running' = running \cup {e}
      /\ ticked' = ticked \cup {e}
      /\ network' = network \cup Sent("HELLO", e, Others(e))
      /\ UNCHANGED <<online, age, missed, late, lost, stray>>
  BY DEF Start
<1>2. online[e] = {}
  BY <1>1 DEF Inv, Stopped
<1>3. \A m \in Sent("HELLO", e, Others(e)) : m.type = "HELLO" /\ m.from = e
  BY DEF Sent
<1>4. Stopped' /\ MissedAreLost' /\ NoneLate'
  BY <1>1 DEF Inv, Stopped, MissedAreLost, NoneLate
<1>5. GoodbyeIsTrue'
  <2> SUFFICES ASSUME NEW m \in network', m.type = "GOODBYE"
               PROVE  m.from \in ticked' \ running'
    BY DEF GoodbyeIsTrue
  <2>1. m \in network
    BY <1>1, <1>3
  <2>2. m.from \in ticked \ running
    BY <2>1 DEF Inv, GoodbyeIsTrue
  <2> QED BY <1>1, <2>2 DEF Start
<1>6. Fresh'
  <2> SUFFICES ASSUME stray = 0, NEW c \in Channel, NEW d \in Channel,
                      d \in online[c], c \in online[d]
               PROVE  age[c][d] + missed[c] <= lost + Ticked(c)' + Pending(d, c)'
    BY <1>1 DEF Fresh
  <2>1. c # e /\ d # e
    BY <1>2
  <2>2. [type |-> "HEARTBEAT", from |-> d, to |-> c] \in network'
          <=> [type |-> "HEARTBEAT", from |-> d, to |-> c] \in network
    BY <1>1, <1>3
  <2>3. Ticked(c)' = Ticked(c) /\ Pending(d, c)' = Pending(d, c)
    BY <1>1, <2>1, <2>2, OneSent DEF Ticked, Pending, Due
  <2> QED BY <2>3 DEF Inv, Fresh
<1>7. FreshGreeting'
  <2> SUFFICES ASSUME stray = 0, NEW m \in network', m.type \in {"HELLO", "HELLO_ANSWER"},
                      m.to \in online[m.from]
               PROVE  age[m.from][m.to] + missed[m.from] <= lost + Ticked(m.from)'
    BY <1>1 DEF FreshGreeting
  <2>1. m.from # e /\ m \in network
    BY <1>1, <1>2, <1>3
  <2>2. Ticked(m.from)' = Ticked(m.from)
    BY <1>1, <2>1 DEF Ticked
  <2> QED BY <2>1, <2>2 DEF Inv, FreshGreeting
<1> QED BY <1>4, <1>5, <1>6, <1>7 DEF Inv

LEMMA EndInv ==
  ASSUME Inv, TypeOK', NEW e \in Channel, End(e),
         network' = network \/ network' = network \cup Sent("GOODBYE", e, online[e])
  PROVE  Inv'
<1>1. /\ e \in running
      /\ running' = running \ {e}
      /\ online' = [online EXCEPT ![e] = {}]
      /\ age' = [age EXCEPT ![e] = [d \in Channel |-> 0]]
      /\ ticked' = ticked \cup {e}
      /\ missed' = [missed EXCEPT ![e] = 0]
      /\ UNCHANGED <<late, lost, stray>>
  BY DEF End
<1> HIDE DEF End
<1>2. /\ online'[e] = {} /\ missed'[e] = 0
      /\ \A c \in Channel \ {e} : online'[c] = online[c] /\ missed'[c] = missed[c] /\ age'[c] = age[c]
  BY <1>1 DEF Inv, TypeOK
<1>3. \A m \in network' \ network : m.type = "GOODBYE" /\ m.from = e
  BY DEF Sent
<1>4. Stopped' /\ NoneLate'
  BY <1>1, <1>2 DEF Inv, Stopped, NoneLate
<1>5. MissedAreLost'
  BY <1>1, <1>2, Numbers DEF Inv, MissedAreLost
<1>6. GoodbyeIsTrue'
  BY <1>1, <1>3 DEF Inv, GoodbyeIsTrue
<1>7. Fresh'
  <2> SUFFICES ASSUME stray = 0, NEW c \in Channel, NEW d \in Channel,
                      d \in online'[c], c \in online'[d]
               PROVE  age'[c][d] + missed'[c] <= lost + Ticked(c)' + Pending(d, c)'
    BY <1>1 DEF Fresh
  <2>1. c # e /\ d # e
    BY <1>2
  <2>2. [type |-> "HEARTBEAT", from |-> d, to |-> c] \in network'
          <=> [type |-> "HEARTBEAT", from |-> d, to |-> c] \in network
    BY <1>3
  <2>3. Ticked(c)' = Ticked(c) /\ Pending(d, c)' = Pending(d, c)
    BY <1>1, <2>1, <2>2, OneSent DEF Ticked, Pending, Due
  <2> QED BY <1>2, <2>1, <2>3 DEF Inv, Fresh
<1>8. FreshGreeting'
  <2> SUFFICES ASSUME stray = 0, NEW m \in network', m.type \in {"HELLO", "HELLO_ANSWER"},
                      m.to \in online'[m.from]
               PROVE  age'[m.from][m.to] + missed'[m.from] <= lost + Ticked(m.from)'
    BY <1>1 DEF FreshGreeting
  <2>1. m \in network /\ m.from \in Channel
    BY <1>3 DEF Inv, TypeOK, Datagram
  <2>2. m.from # e
    BY <1>2
  <2>3. Ticked(m.from)' = Ticked(m.from)
    BY <1>1, <2>2 DEF Ticked
  <2> QED BY <1>2, <2>1, <2>2, <2>3 DEF Inv, FreshGreeting
<1> QED BY <1>4, <1>5, <1>6, <1>7, <1>8 DEF Inv

LEMMA TickInv ==
  ASSUME Inv, TypeOK', NEW e \in Channel, Tick(e)
  PROVE  Inv'
<1> DEFINE elapsed == missed[e] + 1
           stalled == elapsed > Timeout
           gone == IF stalled THEN online[e] ELSE Silent(e, elapsed)
<1>1. /\ e \in running \ ticked
      /\ online' = [online EXCEPT ![e] = @ \ gone]
      /\ age' = [age EXCEPT ![e] =
                   [d \in Channel |-> IF d \in online'[e] THEN age[e][d] + elapsed ELSE 0]]
      /\ network' = network \cup (IF stalled THEN Sent("HELLO", e, Others(e))
                                  ELSE Sent("HEARTBEAT", e, online'[e]))
      /\ ticked' = ticked \cup {e}
      /\ missed' = [missed EXCEPT ![e] = 0]
      /\ UNCHANGED <<running, late, lost, stray>>
  BY DEF Tick, Forget, Heartbeats
<1>2. /\ online'[e] = online[e] \ gone /\ missed'[e] = 0
      /\ \A d \in online'[e] : age'[e][d] = age[e][d] + elapsed
      /\ \A c \in Channel \ {e} : online'[c] = online[c] /\ missed'[c] = missed[c] /\ age'[c] = age[c]
  <2>1. /\ online'[e] = online[e] \ gone /\ missed'[e] = 0
        /\ \A c \in Channel \ {e} : online'[c] = online[c] /\ missed'[c] = missed[c] /\ age'[c] = age[c]
    BY <1>1 DEF Inv, TypeOK
  <2>2. \A d \in online'[e] : d \in Channel
    BY DEF TypeOK
  <2>3. age'[e] = [d \in Channel |-> IF d \in online'[e] THEN age[e][d] + elapsed ELSE 0]
    BY <1>1 DEF Inv, TypeOK
  <2> QED BY <2>1, <2>2, <2>3
<1>3. stalled => online'[e] = {}
  BY <1>2
<1>4. /\ \A m \in network' \ network : m.type \in {"HELLO", "HEARTBEAT"} /\ m.from = e
      /\ \A m \in network' \ network : m.type = "HELLO" => stalled
  BY <1>1 DEF Sent
<1>5. \A d \in online'[e] : [type |-> "HEARTBEAT", from |-> e, to |-> d] \in network'
  <2> SUFFICES ASSUME NEW d \in online'[e]
               PROVE  [type |-> "HEARTBEAT", from |-> e, to |-> d] \in network'
    OBVIOUS
  <2>1. network' = network \cup Sent("HEARTBEAT", e, online'[e])
    BY <1>1, <1>3
  <2> QED BY <2>1 DEF Sent
<1> HIDE DEF stalled, gone
<1>6. Stopped' /\ NoneLate'
  BY <1>1, <1>2 DEF Inv, Stopped, NoneLate
<1>7. MissedAreLost'
  BY <1>1, <1>2, Numbers DEF Inv, MissedAreLost
<1>8. GoodbyeIsTrue'
  BY <1>1, <1>4 DEF Inv, GoodbyeIsTrue
<1>9. Ticked(e) = 0 /\ Ticked(e)' = 1 /\ \A c \in Channel \ {e} : Ticked(c)' = Ticked(c)
  BY <1>1 DEF Ticked
<1>10. Fresh'
  <2> SUFFICES ASSUME stray = 0, NEW c \in Channel, NEW d \in Channel,
                      d \in online'[c], c \in online'[d]
               PROVE  age'[c][d] + missed'[c] <= lost + Ticked(c)' + Pending(d, c)'
    BY <1>1 DEF Fresh
  <2>1. age[c][d] + missed[c] <= lost + Ticked(c) + Pending(d, c)
    <3>1. d \in online[c] /\ c \in online[d]
      BY <1>2
    <3> QED BY <3>1 DEF Inv, Fresh
  <2>2. Due(d, c) => Due(d, c)'
    <3>1. CASE d = e
      BY <1>5, <3>1, OneSent DEF Due
    <3>2. CASE d # e
      BY <1>1, <3>2, OneSent DEF Due
    <3> QED BY <3>1, <3>2
  <2>3. Pending(d, c) <= Pending(d, c)'
    BY <2>2 DEF Pending
  <2>4. age'[c][d] + missed'[c] - Ticked(c)' <= age[c][d] + missed[c] - Ticked(c)
    <3>1. CASE c = e
      BY <1>2, <1>9, <3>1, Numbers DEF Inv
    <3>2. CASE c # e
      BY <1>2, <1>9, <3>2, Numbers DEF Inv
    <3> QED BY <3>1, <3>2
  <2>5. /\ {age[c][d], missed[c], lost, age'[c][d], missed'[c]} \subseteq Nat
        /\ {Ticked(c), Ticked(c)', Pending(d, c), Pending(d, c)'} \subseteq {0, 1}
    BY MeshAssumption DEF Inv, TypeOK, Ticked, Pending
  <2> QED BY <2>1, <2>3, <2>4, <2>5
<1>11. FreshGreeting'
  <2> SUFFICES ASSUME stray = 0, NEW m \in network', m.type \in {"HELLO", "HELLO_ANSWER"},
                      m.to \in online'[m.from]
               PROVE  age'[m.from][m.to] + missed'[m.from] <= lost + Ticked(m.from)'
    BY <1>1 DEF FreshGreeting
  <2> DEFINE c == m.from
             d == m.to
  <2>1. m \in network
    BY <1>3, <1>4
  <2>2. c \in Channel /\ d \in Channel
    BY DEF TypeOK, Datagram
  <2>3. d \in online[c]
    BY <1>2, <2>2
  <2>4. age[c][d] + missed[c] <= lost + Ticked(c)
    BY <2>1, <2>3 DEF Inv, FreshGreeting
  <2>5. age[c][d] \in Nat /\ missed[c] \in Nat /\ lost \in Nat
    BY <2>2, Numbers DEF Inv
  <2>6. CASE c = e
    BY <1>2, <1>9, <2>2, <2>4, <2>5, <2>6
  <2>7. CASE c # e
    BY <1>2, <1>9, <2>2, <2>4, <2>7
  <2> QED BY <2>6, <2>7
<1> QED BY <1>6, <1>7, <1>8, <1>10, <1>11 DEF Inv

\* What receiving does to what channel e knows of channel d.
LEMMA ReceptionKnows ==
  ASSUME TypeOK, NEW m \in Datagram, handleIncomingServerPacket(m)
  PROVE  LET e == m.to
             d == m.from
         IN  /\ \A c \in Channel : e \notin running \/ c # e =>
                   online'[c] = online[c] /\ age'[c] = age[c]
             /\ online'[e] \subseteq online[e] \cup {d}
             /\ \A x \in Channel : x # d => age'[e][x] = age[e][x]
             /\ e \in running => age'[e][d] = 0
             /\ d \in online'[e] \ online[e] => m.type \in {"HELLO", "HELLO_ANSWER"}
             /\ e \in running /\ d \in online[e] \ online'[e] => m.type = "GOODBYE"
             /\ online[e] \ {d} \subseteq online'[e]
<1> DEFINE e == m.to
           d == m.from
<1>1. e \in Channel /\ d \in Channel
  BY DEF Datagram
<1>2. CASE e \in running /\ Greeted(m.type, e, d)
  BY <1>1, <1>2 DEF Greeted, TypeOK
<1>3. CASE e \in running /\ SaidGoodbye(m.type, e, d)
  BY <1>1, <1>3 DEF SaidGoodbye, Forget, TypeOK
<1>4. CASE e \in running /\ HeardHeartbeat(m.type, e, d)
  BY <1>1, <1>4 DEF HeardHeartbeat, TypeOK
<1>5. CASE e \notin running /\ UNCHANGED <<online, ready, age>>
  BY <1>5
<1> QED BY <1>2, <1>3, <1>4, <1>5 DEF handleIncomingServerPacket

LEMMA ReceiveInv ==
  ASSUME Inv, TypeOK', NEW m \in network, Receive(m)
  PROVE  Inv'
<1> DEFINE e == m.to
           d == m.from
<1>1. /\ handleIncomingServerPacket(m)
      /\ network' = (network \ {m}) \cup Replies(m)
      /\ UNCHANGED <<running, ticked, missed, late, lost, stray>>
  BY DEF Receive
<1>2. m \in Datagram /\ e \in Channel /\ d \in Channel
  BY DEF Inv, TypeOK, Datagram
<1>3. /\ \A c \in Channel : e \notin running \/ c # e =>
            online'[c] = online[c] /\ age'[c] = age[c]
      /\ online'[e] \subseteq online[e] \cup {d}
      /\ \A x \in Channel : x # d => age'[e][x] = age[e][x]
      /\ e \in running => age'[e][d] = 0
      /\ d \in online'[e] \ online[e] => m.type \in {"HELLO", "HELLO_ANSWER"}
  BY <1>1, <1>2, ReceptionKnows DEF Inv
<1>4. \A r \in Replies(m) : r.type = "HELLO_ANSWER" /\ r.from = e /\ r.to = d /\ e \in running
  BY DEF Replies, Answer, Sent
<1>5. Stopped'
  BY <1>1, <1>3 DEF Inv, Stopped
<1>6. MissedAreLost' /\ NoneLate'
  BY <1>1 DEF Inv, MissedAreLost, NoneLate
<1>7. GoodbyeIsTrue'
  BY <1>1, <1>4 DEF Inv, GoodbyeIsTrue
<1>8. \A c \in Channel : Ticked(c)' = Ticked(c) /\ missed[c] <= lost /\ missed'[c] = missed[c]
  BY <1>1 DEF Ticked, Inv, MissedAreLost
<1>9. Fresh'
  <2> SUFFICES ASSUME stray = 0, NEW c \in Channel, NEW x \in Channel,
                      x \in online'[c], c \in online'[x]
               PROVE  age'[c][x] + missed'[c] <= lost + Ticked(c)' + Pending(x, c)'
    BY <1>1 DEF Fresh
  <2>1. /\ {age[c][x], missed[c], lost, age'[c][x], missed'[c]} \subseteq Nat
        /\ {Ticked(c), Ticked(c)', Pending(x, c), Pending(x, c)'} \subseteq {0, 1}
    BY MeshAssumption DEF Inv, TypeOK, Ticked, Pending
  <2>2. CASE e \in running /\ c = e /\ x = d
    BY <1>3, <1>8, <2>1, <2>2
  <2>3. CASE ~ (e \in running /\ c = e /\ x = d)
    <3>1. age'[c][x] = age[c][x] /\ x \in online[c]
      BY <1>3, <2>3
    <3>2. Pending(x, c)' >= Pending(x, c) \/ (c = e /\ x = d)
      <4>1. CASE c = e /\ x = d
        BY <4>1
      <4>2. CASE ~ (c = e /\ x = d)
        <5>1. [type |-> "HEARTBEAT", from |-> x, to |-> c] # m
          BY <1>2, <4>2
        <5>2. Due(x, c) => Due(x, c)'
          BY <1>1, <5>1, OneSent DEF Due
        <5> QED BY <5>2 DEF Pending
      <4> QED BY <4>1, <4>2
    <3>3. CASE c \in online[x]
      <4>1. age[c][x] + missed[c] <= lost + Ticked(c) + Pending(x, c)
        BY <3>1, <3>3 DEF Inv, Fresh
      <4>2. CASE ~ (c = e /\ x = d)
        BY <1>8, <2>1, <3>1, <3>2, <4>1, <4>2
      <4>3. CASE c = e /\ x = d /\ e \notin running
        <5>1. online'[c] = {}
          BY <1>1, <1>5, <4>3 DEF Stopped
        <5> QED BY <5>1
      <4> QED BY <2>3, <4>2, <4>3
    <3>4. CASE c \notin online[x]
      <4>1. x = e /\ c = d /\ m.type \in {"HELLO", "HELLO_ANSWER"}
        BY <1>3, <3>4
      <4>2. age[c][x] + missed[c] <= lost + Ticked(c)
        BY <3>1, <4>1 DEF Inv, FreshGreeting
      <4> QED BY <1>8, <2>1, <3>1, <4>2
    <3> QED BY <3>3, <3>4
  <2> QED BY <2>2, <2>3
<1>10. FreshGreeting'
  <2> SUFFICES ASSUME stray = 0, NEW r \in network', r.type \in {"HELLO", "HELLO_ANSWER"},
                      r.to \in online'[r.from]
               PROVE  age'[r.from][r.to] + missed'[r.from] <= lost + Ticked(r.from)'
    BY <1>1 DEF FreshGreeting
  <2>1. r.from \in Channel /\ r.to \in Channel
    BY DEF TypeOK, Datagram
  <2>2. /\ {age[r.from][r.to], missed[r.from], lost} \subseteq Nat
        /\ {Ticked(r.from), Ticked(r.from)'} \subseteq {0, 1}
    BY <2>1, MeshAssumption DEF Inv, TypeOK, Ticked
  <2>3. CASE e \in running /\ r.from = e /\ r.to = d
    BY <1>3, <1>8, <2>1, <2>2, <2>3
  <2>4. CASE ~ (e \in running /\ r.from = e /\ r.to = d)
    <3>1. age'[r.from][r.to] = age[r.from][r.to] /\ r.to \in online[r.from] /\ r \in network
      BY <1>1, <1>3, <1>4, <2>1, <2>4
    <3>2. age[r.from][r.to] + missed[r.from] <= lost + Ticked(r.from)
      BY <3>1 DEF Inv, FreshGreeting
    <3> QED BY <1>8, <2>1, <3>1, <3>2
  <2> QED BY <2>3, <2>4
<1> QED BY <1>5, <1>6, <1>7, <1>9, <1>10 DEF Inv

LEMMA ReceiveLateInv ==
  ASSUME Inv, TypeOK', NEW m \in late, ReceiveLate(m)
  PROVE  Inv'
<1>1. /\ handleIncomingServerPacket(m)
      /\ network' = network \cup Replies(m)
      /\ UNCHANGED <<running, ticked, missed, lost, stray>>
  BY DEF ReceiveLate
<1>2. stray # 0
  BY DEF Inv, NoneLate
<1>3. m \in Datagram /\ m.to \in Channel
  BY DEF Inv, TypeOK, Datagram
<1>4. Stopped'
  <2>1. \A c \in Channel : m.to \notin running \/ c # m.to => online'[c] = online[c]
    BY <1>1, <1>3, ReceptionKnows DEF Inv
  <2> QED BY <1>1, <2>1 DEF Inv, Stopped
<1>5. GoodbyeIsTrue'
  <2>1. \A r \in Replies(m) : r.type = "HELLO_ANSWER"
    BY DEF Replies, Answer, Sent
  <2> QED BY <1>1, <2>1 DEF Inv, GoodbyeIsTrue
<1>6. MissedAreLost' /\ NoneLate' /\ Fresh' /\ FreshGreeting'
  BY <1>1, <1>2 DEF Inv, MissedAreLost, NoneLate, Fresh, FreshGreeting
<1> QED BY <1>4, <1>5, <1>6 DEF Inv

\* A datagram that is lost, or a tick that is missed, takes at most one
\* heartbeat from every channel that waits for it.
LEMMA LossInv ==
  ASSUME Inv, TypeOK',
         \/ \E m \in network : Lose(m)
         \/ \E e \in Channel : Pause(e)
  PROVE  Inv'
<1> DEFINE Loss ==
             /\ lost' = lost + 1
             /\ ticked \subseteq ticked'
             /\ network' \subseteq network
             /\ \A c \in Channel : /\ missed'[c] - Ticked(c)' <= missed[c] - Ticked(c)
                                  /\ missed'[c] <= missed[c] + 1
             /\ UNCHANGED <<running, online, age, late, stray>>
<1>1. Loss
  <2>1. ASSUME NEW m \in network, Lose(m)
        PROVE  Loss
    BY <2>1, Numbers DEF Lose, Inv, Ticked
  <2>2. ASSUME NEW e \in Channel, Pause(e)
        PROVE  Loss
    <3>1. /\ e \notin ticked /\ ticked' = ticked \cup {e}
          /\ missed' = [missed EXCEPT ![e] = @ + 1]
          /\ lost' = lost + 1
          /\ UNCHANGED <<running, online, age, late, stray, network>>
      BY <2>2 DEF Pause
    <3>2. ASSUME NEW c \in Channel
          PROVE  missed'[c] - Ticked(c)' <= missed[c] - Ticked(c) /\ missed'[c] <= missed[c] + 1
      <4>1. CASE c = e
        BY <3>1, <4>1, Numbers DEF Inv, TypeOK, Ticked
      <4>2. CASE c # e
        BY <3>1, <4>2, Numbers DEF Inv, TypeOK, Ticked
      <4> QED BY <4>1, <4>2
    <3> QED BY <3>1, <3>2
  <2> QED BY <2>1, <2>2
<1>2. /\ lost \in Nat
      /\ \A c \in Channel : missed[c] \in Nat /\ missed'[c] \in Nat
                          /\ Ticked(c) \in {0, 1} /\ Ticked(c)' \in {0, 1}
  BY MeshAssumption DEF Inv, TypeOK, Ticked
<1>3. Stopped' /\ NoneLate'
  BY <1>1 DEF Inv, Stopped, NoneLate
<1>4. MissedAreLost'
  BY <1>1, <1>2 DEF Inv, MissedAreLost
<1>5. GoodbyeIsTrue'
  BY <1>1 DEF Inv, GoodbyeIsTrue
<1>6. Fresh'
  <2> SUFFICES ASSUME stray = 0, NEW c \in Channel, NEW d \in Channel,
                      d \in online[c], c \in online[d]
               PROVE  age[c][d] + missed'[c] <= lost' + Ticked(c)' + Pending(d, c)'
    BY <1>1 DEF Fresh
  <2>1. age[c][d] + missed[c] <= lost + Ticked(c) + Pending(d, c)
    BY DEF Inv, Fresh
  <2>2. age[c][d] \in Nat /\ Pending(d, c) \in {0, 1} /\ Pending(d, c)' \in {0, 1}
    BY Numbers DEF Inv, Pending
  <2> QED BY <1>1, <1>2, <2>1, <2>2
<1>7. FreshGreeting'
  <2> SUFFICES ASSUME stray = 0, NEW m \in network, m.type \in {"HELLO", "HELLO_ANSWER"},
                      m.to \in online[m.from]
               PROVE  age[m.from][m.to] + missed'[m.from] <= lost' + Ticked(m.from)'
    BY <1>1 DEF FreshGreeting
  <2>1. m.from \in Channel /\ m.to \in Channel
    BY DEF Inv, TypeOK, Datagram
  <2>2. age[m.from][m.to] + missed[m.from] <= lost + Ticked(m.from)
    BY DEF Inv, FreshGreeting
  <2>3. age[m.from][m.to] \in Nat
    BY <2>1, Numbers DEF Inv
  <2> QED BY <1>1, <1>2, <2>1, <2>2, <2>3
<1> QED BY <1>3, <1>4, <1>5, <1>6, <1>7 DEF Inv

LEMMA StrayInv ==
  ASSUME Inv, TypeOK', NEW m \in network, Stray(m)
  PROVE  Inv'
<1>1. stray' # 0
  BY Numbers DEF Stray, Inv
<1>2. network' \subseteq network /\ UNCHANGED <<running, online, ticked, missed, lost>>
  BY DEF Stray
<1> QED
  BY <1>1, <1>2 DEF Inv, Stopped, MissedAreLost, NoneLate, GoodbyeIsTrue, Fresh, FreshGreeting

\* A second ends when every heartbeat has arrived: those of the next are due.
LEMMA SecondInv ==
  ASSUME Inv, TypeOK', Second
  PROVE  Inv'
<1>1. /\ running \subseteq ticked /\ network = {} /\ ticked' = {}
      /\ UNCHANGED <<running, online, age, missed, network, late, lost, stray>>
  BY DEF Second
<1>2. Stopped' /\ MissedAreLost' /\ NoneLate' /\ GoodbyeIsTrue' /\ FreshGreeting'
  BY <1>1 DEF Inv, Stopped, MissedAreLost, NoneLate, GoodbyeIsTrue, FreshGreeting
<1>3. Fresh'
  <2> SUFFICES ASSUME stray = 0, NEW c \in Channel, NEW d \in Channel,
                      d \in online[c], c \in online[d]
               PROVE  age[c][d] + missed[c] <= lost + Ticked(c)' + Pending(d, c)'
    BY <1>1 DEF Fresh
  <2>1. c \in ticked /\ d \in ticked
    BY <1>1 DEF Inv, Stopped
  <2>2. Ticked(c) = 1 /\ Ticked(c)' = 0 /\ Pending(d, c)' = 1
    BY <1>1, <2>1 DEF Ticked, Pending, Due
  <2>3. Pending(d, c) = 0
    <3>1. [type |-> "HEARTBEAT", from |-> d, to |-> c] \notin network
      BY <1>1
    <3>2. ~ Due(d, c)
      BY <2>1, <3>1, OneSent DEF Due
    <3> QED BY <3>2 DEF Pending
  <2>4. age[c][d] + missed[c] <= lost + 1 + 0
    BY <2>2, <2>3 DEF Inv, Fresh
  <2> QED BY <2>2, <2>4, Numbers DEF Inv
<1> QED BY <1>2, <1>3 DEF Inv

LEMMA MeshInit == Init => Inv
<1> SUFFICES ASSUME Init
             PROVE  Inv
  OBVIOUS
<1>1. Stopped /\ NoneLate /\ GoodbyeIsTrue /\ FreshGreeting
  BY DEF Init, Stopped, NoneLate, GoodbyeIsTrue, FreshGreeting
<1>2. MissedAreLost /\ Fresh
  BY DEF Init, MissedAreLost, Fresh
<1> QED BY <1>1, <1>2, TypeInit DEF Inv

LEMMA MeshNext ==
  ASSUME Inv, [Next]_vars
  PROVE  Inv'
<1>1. TypeOK'
  BY TypeNext DEF Inv
<1>2. CASE ProcessStep
  BY <1>1, <1>2, StartInv, EndInv, TickInv DEF ProcessStep, Crash, Shutdown
<1>3. CASE NetworkStep
  BY <1>1, <1>3, ReceiveInv, ReceiveLateInv DEF NetworkStep
<1>4. CASE FaultStep
  BY <1>1, <1>4, LossInv, StrayInv DEF FaultStep
<1>5. CASE Second
  BY <1>1, <1>5, SecondInv
<1>6. CASE UNCHANGED vars
  BY <1>1, <1>6 DEF vars, Inv, Stopped, MissedAreLost, NoneLate, GoodbyeIsTrue, Fresh,
                    FreshGreeting, Ticked, Pending, Due
<1> QED BY <1>2, <1>3, <1>4, <1>5, <1>6 DEF Next

TrustStep ==
  \A c, d \in Channel :
    (/\ d \in online[c] /\ c \in online[d]
     /\ c \in running'
     /\ lost + 2 <= Timeout /\ stray = 0)
    => d \in online'[c]

\* The tick of c comes when the last heartbeat of d is at most two seconds
\* old, one more for each loss; the timeout is three.
LEMMA TickTrusts ==
  ASSUME Inv, NEW e \in Channel, Tick(e), NEW c \in Channel, NEW d \in Channel,
         d \in online[c], c \in online[d], lost + 2 <= Timeout, stray = 0
  PROVE  d \in online'[c]
<1> DEFINE elapsed == missed[e] + 1
<1>1. CASE c # e
  BY <1>1 DEF Tick, Forget, Inv, TypeOK
<1>2. CASE c = e
  <2>1. {missed[e], lost, Timeout, age[c][d]} \subseteq Nat /\ Pending(d, c) \in {0, 1}
    BY <1>2, Numbers DEF Inv
  <2>2. Ticked(c) = 0
    BY <1>2 DEF Tick, Ticked
  <2>3. age[c][d] + missed[e] <= lost + 0 + Pending(d, c) /\ missed[e] <= lost
    BY <1>2, <2>2 DEF Inv, Fresh, MissedAreLost
  <2>4. ~ (elapsed > Timeout) /\ ~ (age[c][d] + elapsed > Timeout)
    BY <2>1, <2>3
  <2>5. d \notin Silent(e, elapsed)
    BY <1>2, <2>4 DEF Silent
  <2>6. Forget(e, Silent(e, elapsed))
    BY <2>4 DEF Tick
  <2> QED BY <1>2, <2>5, <2>6 DEF Forget, Inv, TypeOK
<1> QED BY <1>1, <1>2

LEMMA TrustNext ==
  ASSUME Inv, [Next]_vars
  PROVE  TrustStep
<1> SUFFICES ASSUME NEW c \in Channel, NEW d \in Channel, d \in online[c], c \in online[d],
                    c \in running', lost + 2 <= Timeout, stray = 0
             PROVE  d \in online'[c]
  BY DEF TrustStep
<1>1. ASSUME NEW e \in Channel, Tick(e)
      PROVE  d \in online'[c]
  BY <1>1, TickTrusts
<1>2. ASSUME NEW e \in Channel, End(e)
      PROVE  d \in online'[c]
  BY <1>2 DEF End, Inv, TypeOK
<1>3. ASSUME NEW m \in network, Receive(m)
      PROVE  d \in online'[c]
  <2>1. m \in Datagram /\ m.to \in Channel /\ handleIncomingServerPacket(m)
    BY <1>3 DEF Inv, TypeOK, Datagram, Receive
  <2>2. CASE m.to = c /\ m.from = d /\ c \in running
    <3>1. d \in running
      BY DEF Inv, Stopped
    <3>2. m.type # "GOODBYE"
      BY <2>2, <3>1 DEF Inv, GoodbyeIsTrue
    <3> QED BY <2>1, <2>2, <3>2, ReceptionKnows DEF Inv
  <2>3. CASE m.to # c \/ m.from # d \/ c \notin running
    BY <2>1, <2>3, ReceptionKnows DEF Inv
  <2> QED BY <2>2, <2>3
<1>4. ASSUME NEW m \in late
      PROVE  FALSE
  BY DEF Inv, NoneLate
<1>5. CASE UNCHANGED online
  BY <1>5
<1> QED
  BY <1>1, <1>2, <1>3, <1>4, <1>5
     DEF Next, ProcessStep, NetworkStep, FaultStep, Start, Crash, Shutdown, Lose, Stray, Pause,
         Second, vars

\* Two channels that know each other stay online for each other, in whatever
\* order ticks and datagrams come, if fewer heartbeats are lost and ticks
\* missed than the timeout has seconds to spare.
THEOREM TrustCorrect == Spec => Trust
<1>1. Inv /\ [Next]_vars => Inv'
  BY MeshNext
<1>2. Inv /\ [Next]_vars => TrustStep
  BY TrustNext
<1>3. Spec => [][TrustStep]_vars
  BY <1>1, <1>2, MeshInit, PTL DEF Spec
<1> QED BY <1>3 DEF Trust, TrustStep
=============================================================================
