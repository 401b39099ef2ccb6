----------------------------- MODULE ServerMesh -----------------------------
(***************************************************************************)
(* What the channels believe of one another.  Every process keeps isOnline *)
(* and lastHeartbeat of the other channels and the status of the other     *)
(* servers, and learns of them by UDP: a HELLO when a process starts or    *)
(* has missed ticks, the answer to it, a heartbeat every second to the     *)
(* channels that are online, a GOODBYE at an orderly end.                  *)
(*                                                                         *)
(* Time is a sequence of seconds.  In each, every running channel ticks    *)
(* once (OnSecondTick), in any order, and the datagrams sent are received, *)
(* in any order, before it ends.  What breaks this is a fault: a datagram  *)
(* that is lost, delayed, or duplicated with a delay, and a channel that   *)
(* does not tick in a second.                                              *)
(*                                                                         *)
(* Simplifications: a datagram is handled at once and a tick is atomic;    *)
(* numPlayers, and the packets that carry nothing else, are left out;      *)
(* lastHeartbeat is kept as its distance to _currentTime, and only for     *)
(* channels that are online, as nothing else reads it.                     *)
(***************************************************************************)
EXTENDS Naturals, FiniteSets

CONSTANTS
  Channel,
  Server,
  ServerOf,    \* the server of each channel
  Timeout,     \* UDP_SERVER_HEARTBEAT_TIMEOUT
  MaxStarts,   \* bounds the processes started
  MaxLost,     \* bounds the datagrams lost and ticks missed
  MaxStray     \* bounds the datagrams delayed or duplicated

ASSUME MeshAssumption ==
  /\ ServerOf \in [Channel -> Server]
  /\ {Timeout, MaxStarts, MaxLost, MaxStray} \subseteq Nat
  /\ Timeout >= 2

VARIABLES
  running,  \* channels whose process runs
  online,   \* isOnline of the other channels, in each process
  ready,    \* the other servers that are Ready, in each process
  age,      \* _currentTime - lastHeartbeat
  ticked,   \* channels with no tick left in this second
  missed,   \* seconds since _currentTime without a tick
  network,  \* datagrams that arrive in this second
  late,     \* datagrams that may arrive at any time
  starts,   \* number of processes started
  lost,     \* number of datagrams lost and ticks missed
  stray     \* number of datagrams delayed or duplicated

vars == <<running, online, ready, age, ticked, missed, network, late, starts, lost, stray>>

Others(c) == Channel \ {c}
Datagram == [type : {"HELLO", "HELLO_ANSWER", "GOODBYE", "HEARTBEAT"},
             from : Channel, to : Channel]

Sent(type, c, D) == [type : {type}, from : {c}, to : D]

TypeOK ==
  /\ running \subseteq Channel
  /\ online \in [Channel -> SUBSET Channel]
  /\ ready \in [Channel -> SUBSET Server]
  /\ age \in [Channel -> [Channel -> 0 .. Timeout]]
  /\ ticked \subseteq Channel
  /\ missed \in [Channel -> 0 .. Timeout]
  /\ network \subseteq Datagram
  /\ late \subseteq Datagram
  /\ starts \in 0 .. MaxStarts
  /\ lost \in 0 .. MaxLost
  /\ stray \in 0 .. MaxStray

Init ==
  /\ running = {}
  /\ online = [c \in Channel |-> {}]
  /\ ready = [c \in Channel |-> {}]
  /\ age = [c \in Channel |-> [d \in Channel |-> 0]]
  /\ ticked = {}
  /\ missed = [c \in Channel |-> 0]
  /\ network = {}
  /\ late = {}
  /\ starts = 0
  /\ lost = 0
  /\ stray = 0

-----------------------------------------------------------------------------
\* The status of the server of a channel that has gone offline, when O are
\* the channels that are still online; that of its own server never changes.
ReadyAfter(c, gone, O) ==
  LET again == {ServerOf[d] : d \in gone} \ {ServerOf[c]}
  IN  (ready[c] \ again) \cup (again \cap {ServerOf[d] : d \in O})

BugForget(c, gone) == online' = [online EXCEPT ![c] = @ \ gone] /\ UNCHANGED ready
Forget(c, gone) ==
  /\ online' = [online EXCEPT ![c] = @ \ gone]
  /\ ready' = [ready EXCEPT ![c] = ReadyAfter(c, gone, online[c] \ gone)]

-----------------------------------------------------------------------------
\* Start and end of a process.

Start(c) ==
  /\ c \notin running \cup ticked
  /\ starts < MaxStarts
  /\ starts' = starts + 1
  /\ running' = running \cup {c}
  /\ ticked' = ticked \cup {c}
  /\ network' = network \cup Sent("HELLO", c, Others(c))
  /\ UNCHANGED <<online, ready, age, missed, late, lost, stray>>

End(c) ==
  /\ c \in running
  /\ running' = running \ {c}
  /\ online' = [online EXCEPT ![c] = {}]
  /\ ready' = [ready EXCEPT ![c] = {}]
  /\ age' = [age EXCEPT ![c] = [d \in Channel |-> 0]]
  /\ ticked' = ticked \cup {c}
  /\ missed' = [missed EXCEPT ![c] = 0]
  /\ UNCHANGED <<late, starts, lost, stray>>

Crash(c) == End(c) /\ UNCHANGED network

Shutdown(c) == End(c) /\ network' = network \cup Sent("GOODBYE", c, online[c])

-----------------------------------------------------------------------------
\* The tick.  A channel that has missed too many forgets what it knew and
\* greets the others again.

BugSilentNever(c, elapsed) == {}
BugSilent(c, elapsed) == {d \in online[c] : age[c][d] + elapsed >= Timeout}
Silent(c, elapsed) == {d \in online[c] : age[c][d] + elapsed > Timeout}

BugHeartbeats(c, O) == Sent("HEARTBEAT", c, Others(c))
Heartbeats(c, O) == Sent("HEARTBEAT", c, O)

Tick(c) ==
  LET elapsed == missed[c] + 1
      stalled == elapsed > Timeout
      gone == IF stalled THEN online[c] ELSE Silent(c, elapsed)
  IN  /\ c \in running \ ticked
      /\ Forget(c, gone)
      /\ age' = [age EXCEPT ![c] =
                   [d \in Channel |-> IF d \in online'[c] THEN age[c][d] + elapsed ELSE 0]]
      /\ network' = network \cup (IF stalled THEN Sent("HELLO", c, Others(c))
                                  ELSE Heartbeats(c, online'[c]))
      /\ ticked' = ticked \cup {c}
      /\ missed' = [missed EXCEPT ![c] = 0]
      /\ UNCHANGED <<running, late, starts, lost, stray>>

-----------------------------------------------------------------------------
\* Reception of a datagram by channel c from channel d.  A heartbeat does
\* not bring a channel back that is offline.

BugAnswer(type, c, d) == {}
Answer(type, c, d) == IF type = "HELLO" THEN Sent("HELLO_ANSWER", c, {d}) ELSE {}

Greeted(type, c, d) ==
  /\ type \in {"HELLO", "HELLO_ANSWER"}
  /\ online' = [online EXCEPT ![c] = @ \cup {d}]
  /\ ready' = [ready EXCEPT ![c] = @ \cup ({ServerOf[d]} \ {ServerOf[c]})]
  /\ age' = [age EXCEPT ![c][d] = 0]

SaidGoodbye(type, c, d) ==
  /\ type = "GOODBYE"
  /\ Forget(c, {d})
  /\ age' = [age EXCEPT ![c][d] = 0]

HeardHeartbeat(type, c, d) ==
  /\ type = "HEARTBEAT"
  /\ age' = [age EXCEPT ![c][d] = 0]
  /\ UNCHANGED <<online, ready>>

handleIncomingServerPacket(m) ==
  \/ /\ m.to \in running
     /\ \/ Greeted(m.type, m.to, m.from)
        \/ SaidGoodbye(m.type, m.to, m.from)
        \/ HeardHeartbeat(m.type, m.to, m.from)
  \/ m.to \notin running /\ UNCHANGED <<online, ready, age>>

Replies(m) == IF m.to \in running THEN Answer(m.type, m.to, m.from) ELSE {}

Receive(m) ==
  /\ m \in network
  /\ handleIncomingServerPacket(m)
  /\ network' = (network \ {m}) \cup Replies(m)
  /\ UNCHANGED <<running, ticked, missed, late, starts, lost, stray>>

ReceiveLate(m) ==
  /\ m \in late
  /\ handleIncomingServerPacket(m)
  /\ network' = network \cup Replies(m)
  /\ late' = late \ {m}
  /\ UNCHANGED <<running, ticked, missed, starts, lost, stray>>

-----------------------------------------------------------------------------
\* A second is over.
Second ==
  /\ running \subseteq ticked
  /\ network = {}
  /\ ticked' = {}
  /\ UNCHANGED <<running, online, ready, age, missed, network, late, starts, lost, stray>>

\* Faults.

Lose(m) ==
  /\ lost < MaxLost
  /\ lost' = lost + 1
  /\ network' = network \ {m}
  /\ UNCHANGED <<running, online, ready, age, ticked, missed, late, starts, stray>>

Pause(c) ==
  /\ c \in running \ ticked
  /\ missed[c] < Timeout
  /\ lost < MaxLost
  /\ lost' = lost + 1
  /\ ticked' = ticked \cup {c}
  /\ missed' = [missed EXCEPT ![c] = @ + 1]
  /\ UNCHANGED <<running, online, ready, age, network, late, starts, stray>>

\* The datagram m will arrive later, or now and once more later.
Stray(m) ==
  /\ stray < MaxStray
  /\ stray' = stray + 1
  /\ network' \in {network, network \ {m}}
  /\ late' = late \cup {m}
  /\ UNCHANGED <<running, online, ready, age, ticked, missed, starts, lost>>

-----------------------------------------------------------------------------
ProcessStep == \E c \in Channel : Start(c) \/ Crash(c) \/ Shutdown(c) \/ Tick(c)

FaultStep ==
  \/ \E m \in network : Lose(m) \/ Stray(m)
  \/ \E c \in Channel : Pause(c)

NetworkStep ==
  \/ \E m \in network : Receive(m)
  \/ \E m \in late : ReceiveLate(m)

Next == ProcessStep \/ NetworkStep \/ FaultStep \/ Second

Spec == Init /\ [][Next]_vars

\* The tick thread runs, datagrams that are neither lost nor late arrive,
\* time passes.
Fairness ==
  /\ \A c \in Channel : WF_vars(Tick(c))
  /\ WF_vars(\E m \in network : Receive(m))
  /\ WF_vars(Second)

FairSpec == Spec /\ Fairness

-----------------------------------------------------------------------------
\* The status of a server sent to clients says whether one of its channels
\* is online, after any sequence of greetings, goodbyes, timeouts and stalls
\* (four places recompute it).
StatusAgrees ==
  \A c \in Channel : ready[c] = {ServerOf[d] : d \in online[c]} \ {ServerOf[c]}

\* Two channels that know each other do not lose each other by the order of
\* ticks and heartbeats in a second, nor for one lost datagram or one tick
\* that is missed: that is what a timeout of 3 seconds is worth.
Trust ==
  [][\A c, d \in Channel :
       (/\ d \in online[c] /\ c \in online[d]
        /\ c \in running'
        /\ lost + 2 <= Timeout /\ stray = 0)
       => d \in online'[c]]_vars

\* Whatever was lost, late or missed, in the end the channels agree: nobody
\* believes a channel to be online that is not running or does not believe
\* the same of it.
Converges ==
  <>[](\A c \in running : \A d \in online[c] : d \in running /\ c \in online[d])

\* Without faults every running channel is known to all others in the end,
\* however starts, crashes and shutdowns interleave.
AllKnown ==
  <>[](lost + stray = 0 => \A c \in running : Others(c) \cap running \subseteq online[c])
=============================================================================
