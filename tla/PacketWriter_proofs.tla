------------------------- MODULE PacketWriter_proofs -------------------------
(***************************************************************************)
(* Proofs about module PacketWriter: its invariants, and that it           *)
(* implements PacketStream, for any threads, packets, sizes and moduli.    *)
(***************************************************************************)
EXTENDS PacketWriter, SequenceTheorems, TLAPS

-----------------------------------------------------------------------------
(* Sequences and remainders.                                               *)

LEMMA AppendEffect ==
  ASSUME NEW S, NEW s \in Seq(S), NEW e \in S
  PROVE  /\ Append(s, e) \in Seq(S)
         /\ Len(Append(s, e)) = Len(s) + 1
         /\ DOMAIN Append(s, e) = 1 .. Len(s) + 1
         /\ DOMAIN s = 1 .. Len(s)
         /\ \A i \in 1 .. Len(s) : Append(s, e)[i] = s[i]
         /\ Append(s, e)[Len(s) + 1] = e
         /\ Len(s) \in Nat
  OBVIOUS

LEMMA TailEffect ==
  ASSUME NEW S, NEW s \in Seq(S), s # <<>>
  PROVE  /\ Head(s) = s[1] /\ Head(s) \in S
         /\ Tail(s) \in Seq(S)
         /\ Len(s) \in Nat \ {0}
         /\ Len(Tail(s)) = Len(s) - 1
         /\ \A i \in 1 .. Len(s) - 1 : Tail(s)[i] = s[i + 1]
  OBVIOUS

LEMMA DivMod ==
  ASSUME NEW n \in Nat, NEW m \in Nat \ {0}
  PROVE  /\ n = m * (n \div m) + (n % m)
         /\ n \div m \in Nat
         /\ n % m \in 0 .. m - 1
  OBVIOUS

LEMMA SmallMultiple ==
  ASSUME NEW m \in Nat \ {0}, NEW d \in Int, -m < m * d, m * d < m
  PROVE  d = 0
<1>1. CASE d >= 1
  <2>1. m * d >= m
    BY <1>1
  <2> QED BY <2>1
<1>2. CASE d <= -1
  <2>1. m * d <= -m
    BY <1>2
  <2> QED BY <2>1
<1> QED BY <1>1, <1>2

LEMMA RemainderIsUnique ==
  ASSUME NEW m \in Nat \ {0}, NEW a \in Nat, NEW k \in Nat, NEW s \in 0 .. m - 1, a = m * k + s
  PROVE  a % m = s
<1>1. a = m * (a \div m) + (a % m) /\ a \div m \in Nat /\ a % m \in 0 .. m - 1
  BY DivMod
<1>2. m * (k - (a \div m)) = (a % m) - s
  BY <1>1
<1>3. k - (a \div m) = 0
  BY <1>1, <1>2, SmallMultiple
<1> QED BY <1>1, <1>2, <1>3

LEMMA SuccessorModulo ==
  ASSUME NEW n \in Nat, NEW m \in Nat \ {0}
  PROVE  ((n % m) + 1) % m = (n + 1) % m
<1>1. n = m * (n \div m) + (n % m) /\ n \div m \in Nat /\ n % m \in 0 .. m - 1
  BY DivMod
<1>2. CASE n % m < m - 1
  <2>1. n + 1 = m * (n \div m) + ((n % m) + 1)
    BY <1>1
  <2>2. (n + 1) % m = (n % m) + 1
    BY <1>1, <1>2, <2>1, RemainderIsUnique
  <2>3. ((n % m) + 1) % m = (n % m) + 1
    BY <1>1, <1>2
  <2> QED BY <2>2, <2>3
<1>3. CASE n % m = m - 1
  <2>1. n + 1 = m * ((n \div m) + 1) + 0
    BY <1>1, <1>3
  <2>2. (n + 1) % m = 0
    <3>1. (n \div m) + 1 \in Nat /\ 0 \in 0 .. m - 1 /\ n + 1 \in Nat
      BY <1>1
    <3> QED BY <3>1, <2>1, RemainderIsUnique
  <2>3. ((n % m) + 1) % m = m % m
    BY <1>1, <1>3
  <2>4. m = m * 1 + 0
    OBVIOUS
  <2>5. m % m = 0
    BY <2>4, RemainderIsUnique
  <2> QED BY <2>2, <2>3, <2>5
<1> QED BY <1>1, <1>2, <1>3

LEMMA ModuloRange ==
  ASSUME NEW n \in Nat, NEW m \in Nat \ {0}
  PROVE  n % m \in 0 .. m - 1
  OBVIOUS

LEMMA ModuloSmall ==
  ASSUME NEW m \in Nat \ {0}, NEW n \in 0 .. m - 1
  PROVE  n % m = n
  OBVIOUS

-----------------------------------------------------------------------------
(* The inductive invariant.                                                *)

\* The client has received the key of the server.
KeyArrived == \E j \in 1 .. Len(wire) : wire[j].buffer.packet = EncryptKey

\* Who writes, writes the front of the queue.
WritesFront ==
  /\ \A t \in Thread : Writing(t) => queue # <<>>
  /\ \A t \in Thread : pc[t] = "send" => taken[t] = Head(queue)
  /\ \A w \in inFlight : queue # <<>> /\ w.buffer = Head(queue)

\* b is right as the n-th packet of the connection.
Frame(b, n) == b.seq = n % SeqModulus /\ b.length = Size[b.packet]

Numbered ==
  /\ outSeq = (Len(wire) + Len(queue)) % SeqModulus
  /\ \A i \in 1 .. Len(queue) : Frame(queue[i], Len(wire) + i)
  /\ \A i \in 1 .. Len(wire) : Frame(wire[i].buffer, i)

\* The key of the client comes after that of the server, if there is one.
KeysInOrder ==
  /\ \A i \in 1 .. Len(queue) :
       /\ queue[i].packet = EncryptKey => cipher = "announced"
       /\ queue[i].packet = DecryptKey =>
            \/ cipher = "failed"
            \/ cipher = "announced" /\ (KeyArrived \/ \E j \in 1 .. i - 1 : queue[j].packet = EncryptKey)
  /\ KeyArrived => cipher = "announced"
  /\ cipher = "announced" => KeyArrived \/ \E j \in 1 .. Len(queue) : queue[j].packet = EncryptKey

\* The queue is empty or served; it is neither when a write has failed.
Served == queue = <<>> \/ inFlight # {} \/ \E t \in Thread : Writing(t)

\* Encryption is on once the key has been written, or is being written.
SwitchedOn ==
  /\ Served => (encrypt <=> KeyArrived \/ (inFlight # {} /\ Head(queue).packet = EncryptKey))
  /\ \A w \in inFlight : w.encrypted <=> KeyArrived

Inv ==
  /\ WriterTypeOK
  /\ OneWriter
  /\ QueueIsServed
  /\ WritesFront
  /\ Numbered
  /\ KeysInOrder
  /\ SwitchedOn
  /\ EncryptedAfterKey

LEMMA InitInv == WriterInit => Inv
<1> SUFFICES ASSUME WriterInit PROVE Inv
  OBVIOUS
<1> USE WriterAssumption DEF WriterInit
<1>1. NoBuffer \in Buffer
  BY DEF NoBuffer, Buffer
<1>2. queue = <<>> /\ wire = <<>> /\ inFlight = {} /\ \A t \in Thread : ~ Writing(t)
  BY DEF Writing
<1>3. WriterTypeOK
  <2>1. queue \in Seq(Buffer) /\ wire \in Seq(Wire)
    BY <1>2
  <2>2. outSeq \in 0 .. SeqModulus - 1
    OBVIOUS
  <2>3. taken \in [Thread -> Buffer]
    BY <1>1
  <2>4. pc \in [Thread -> {"idle", "call", "send"}] /\ cipher \in {"none", "failed", "ready", "announced"}
    OBVIOUS
  <2>5. encrypt \in BOOLEAN /\ open \in BOOLEAN
    OBVIOUS
  <2> QED BY <1>2, <2>1, <2>2, <2>3, <2>4, <2>5 DEF WriterTypeOK
<1>4. Len(queue) = 0 /\ Len(wire) = 0
  BY <1>2
<1>5. ~ KeyArrived
  BY <1>4 DEF KeyArrived
<1>6. Numbered
  <2>1. 0 = (0 + 0) % SeqModulus
    BY ModuloSmall
  <2> QED BY <1>4, <2>1 DEF Numbered
<1>7. OneWriter /\ QueueIsServed /\ WritesFront
  BY <1>2 DEF OneWriter, QueueIsServed, WritesFront, Writing
<1>8. KeysInOrder /\ SwitchedOn
  BY <1>2, <1>4, <1>5 DEF KeysInOrder, SwitchedOn
<1>9. EncryptedAfterKey
  BY <1>2 DEF EncryptedAfterKey
<1> QED BY <1>3, <1>6, <1>7, <1>8, <1>9 DEF Inv

-----------------------------------------------------------------------------
(* One lemma per action.                                                   *)

\* What is in the wire stays as it is while nothing is delivered.
LEMMA SameWire ==
  ASSUME UNCHANGED wire
  PROVE  /\ KeyArrived' <=> KeyArrived
         /\ EncryptedAfterKey => EncryptedAfterKey'
  BY DEF KeyArrived, EncryptedAfterKey

LEMMA WritePacketInv ==
  ASSUME Inv, NEW t \in Thread, NEW p \in Packet, WritePacket(t, p)
  PROVE  Inv'
<1> DEFINE e == [packet |-> p, seq |-> NextSequence, length |-> Length(p)]
           n == Len(queue)
<1>1. /\ pc[t] = "idle" /\ open /\ MayPush(t, p) /\ Fits(p)
      /\ outSeq' = NextSequence
      /\ queue' = Append(queue, e)
      /\ pc' = [pc EXCEPT ![t] = IF QueueIdle THEN "call" ELSE "idle"]
      /\ cipher' = IF p = EncryptKey THEN "announced" ELSE cipher
      /\ UNCHANGED <<taken, inFlight, encrypt, wire, open>>
  BY DEF WritePacket
<1>2. /\ queue \in Seq(Buffer) /\ wire \in Seq(Wire) /\ outSeq \in 0 .. SeqModulus - 1
      /\ pc \in [Thread -> {"idle", "call", "send"}]
      /\ SeqModulus \in Nat \ {0} /\ Size[p] \in Nat
      /\ Len(wire) \in Nat
  BY Inv, WriterAssumption DEF Inv, WriterTypeOK
<1>3. e \in Buffer
  <2>1. NextSequence \in 0 .. SeqModulus - 1
    BY <1>2, ModuloRange DEF NextSequence
  <2> QED BY <2>1 DEF Buffer
<1>4. /\ queue' \in Seq(Buffer) /\ Len(queue') = n + 1 /\ n \in Nat
      /\ \A i \in 1 .. n : queue'[i] = queue[i]
      /\ queue'[n + 1] = e
      /\ queue' # <<>>
  <2> HIDE DEF e
  <2> QED BY <1>1, <1>2, <1>3, AppendEffect
<1>5. WriterTypeOK'
  <2>1. outSeq' \in 0 .. SeqModulus - 1
    BY <1>1, <1>2, ModuloRange DEF NextSequence
  <2> QED BY <1>1, <1>2, <1>4, <2>1 DEF Inv, WriterTypeOK
<1>6. \/ /\ queue = <<>> /\ inFlight = {} /\ \A s \in Thread : pc[s] = "idle"
         /\ pc' = [pc EXCEPT ![t] = "call"]
      \/ queue # <<>> /\ pc' = pc
  BY <1>1, <1>2 DEF Inv, WritesFront, QueueIdle, Writing
<1>7. OneWriter' /\ QueueIsServed'
  BY <1>1, <1>2, <1>4, <1>6 DEF Inv, OneWriter, QueueIsServed, Writing
<1>8. queue # <<>> => Head(queue') = Head(queue)
  BY <1>2, <1>4
<1>9. WritesFront'
  BY <1>1, <1>2, <1>4, <1>6, <1>8 DEF Inv, WritesFront, Writing
<1>10. Numbered'
  <2>1. outSeq = (Len(wire) + n) % SeqModulus
    BY DEF Inv, Numbered
  <2>2. outSeq' = (Len(wire) + (n + 1)) % SeqModulus
    <3>1. Len(wire) + n \in Nat /\ (Len(wire) + n) + 1 = Len(wire) + (n + 1)
      BY <1>2, <1>4
    <3> QED BY <1>1, <1>2, <2>1, <3>1, SuccessorModulo DEF NextSequence
  <2>3. Length(p) = Size[p]
    <3>1. LengthModulus \in Nat \ {0} /\ MaxBufferSize = LengthModulus
      BY DEF LengthModulus, MaxBufferSize
    <3>2. Size[p] + 4 <= MaxBufferSize
      BY <1>1 DEF Fits, HeaderSize
    <3>3. Size[p] \in 0 .. LengthModulus - 1
      BY <1>2, <3>1, <3>2
    <3> QED BY <3>1, <3>3, ModuloSmall DEF Length
  <2>4. Frame(queue'[n + 1], Len(wire) + (n + 1))
    BY <1>1, <1>4, <2>2, <2>3 DEF Frame
  <2>5. \A i \in 1 .. n : Frame(queue'[i], Len(wire) + i)
    BY <1>4 DEF Inv, Numbered
  <2>6. \A i \in 1 .. n + 1 : i \in 1 .. n \/ i = n + 1
    BY <1>4
  <2> QED BY <1>1, <1>4, <2>2, <2>4, <2>5, <2>6 DEF Inv, Numbered, Frame
<1>11. KeysInOrder'
  <2>1. KeyArrived' <=> KeyArrived
    BY <1>1, SameWire
  <2>2. ASSUME NEW i \in 1 .. n + 1
        PROVE  /\ queue'[i].packet = EncryptKey => cipher' = "announced"
               /\ queue'[i].packet = DecryptKey =>
                    \/ cipher' = "failed"
                    \/ cipher' = "announced" /\ (KeyArrived \/ \E j \in 1 .. i - 1 : queue'[j].packet = EncryptKey)
    <3>1. CASE i = n + 1
      BY <1>1, <1>4, <3>1, WriterAssumption DEF Inv, KeysInOrder, MayPush
    <3>2. CASE i \in 1 .. n
      <4>1. \A j \in 1 .. i - 1 : queue'[j] = queue[j]
        BY <1>4, <3>2
      <4> QED BY <1>1, <1>4, <3>2, <4>1, WriterAssumption DEF Inv, KeysInOrder, MayPush
    <3> QED BY <1>4, <3>1, <3>2
  <2>3. KeyArrived => cipher' = "announced"
    BY <1>1 DEF Inv, KeysInOrder
  <2>4. cipher' = "announced" => KeyArrived \/ \E j \in 1 .. n + 1 : queue'[j].packet = EncryptKey
    BY <1>1, <1>4 DEF Inv, KeysInOrder
  <2> QED BY <1>4, <2>1, <2>2, <2>3, <2>4 DEF KeysInOrder
<1>12. SwitchedOn'
  <2>1. KeyArrived' <=> KeyArrived
    BY <1>1, SameWire
  <2>2. Served
    BY <1>1 DEF Inv, QueueIsServed, Served
  <2>3. inFlight # {} => Head(queue') = Head(queue)
    BY <1>6, <1>8
  <2> QED BY <1>1, <2>1, <2>2, <2>3 DEF Inv, SwitchedOn
<1>13. EncryptedAfterKey'
  BY <1>1, SameWire DEF Inv
<1> QED BY <1>5, <1>7, <1>9, <1>10, <1>11, <1>12, <1>13 DEF Inv

\* A thread in asyncWrite is alone, and has a front to write.
LEMMA AloneWriting ==
  ASSUME Inv, NEW t \in Thread, Writing(t)
  PROVE  /\ queue # <<>> /\ inFlight = {}
         /\ \A s \in Thread \ {t} : pc[s] = "idle"
         /\ Head(queue) = queue[1] /\ Head(queue) \in Buffer /\ Len(queue) \in Nat \ {0}
         /\ Served
<1>1. queue # <<>> /\ inFlight = {} /\ \A s \in Thread : Writing(s) => s = t
  BY DEF Inv, OneWriter, WritesFront
<1>2. queue \in Seq(Buffer) /\ pc \in [Thread -> {"idle", "call", "send"}]
  BY DEF Inv, WriterTypeOK
<1>3. \A s \in Thread \ {t} : pc[s] = "idle"
  BY <1>1, <1>2 DEF Writing
<1>4. Served
  BY DEF Served
<1> QED BY <1>1, <1>2, <1>3, <1>4, TailEffect

LEMMA TakeFrontInv ==
  ASSUME Inv, NEW t \in Thread, TakeFront(t)
  PROVE  Inv'
<1>1. Writing(t) /\ pc[t] = "call"
  BY DEF TakeFront, Writing
<1>2. /\ queue # <<>> /\ inFlight = {} /\ \A s \in Thread \ {t} : pc[s] = "idle"
      /\ Head(queue) \in Buffer /\ Served
  BY <1>1, AloneWriting
<1>3. /\ pc' = [pc EXCEPT ![t] = "send"]
      /\ taken' = [taken EXCEPT ![t] = Head(queue)]
      /\ UNCHANGED <<queue, outSeq, inFlight, cipher, encrypt, wire, open>>
  BY <1>2 DEF TakeFront
<1>4. /\ pc \in [Thread -> {"idle", "call", "send"}]
      /\ taken \in [Thread -> Buffer]
  BY DEF Inv, WriterTypeOK
<1>5. pc'[t] = "send" /\ \A s \in Thread \ {t} : pc'[s] = "idle"
  BY <1>2, <1>3, <1>4
<1>6. WriterTypeOK'
  BY <1>2, <1>3, <1>4 DEF Inv, WriterTypeOK
<1>7. OneWriter' /\ QueueIsServed' /\ WritesFront'
  BY <1>2, <1>3, <1>4, <1>5 DEF OneWriter, QueueIsServed, WritesFront, Writing
<1>8. Numbered' /\ KeysInOrder' /\ EncryptedAfterKey'
  <2>1. KeyArrived' <=> KeyArrived
    BY <1>3, SameWire
  <2>2. EncryptedAfterKey'
    BY <1>3, SameWire DEF Inv
  <2>3. Numbered'
    BY <1>3 DEF Inv, Numbered, Frame
  <2> QED BY <1>3, <2>1, <2>2, <2>3 DEF Inv, KeysInOrder
<1>9. SwitchedOn'
  <2>1. KeyArrived' <=> KeyArrived
    BY <1>3, SameWire
  <2> QED BY <1>2, <1>3, <2>1 DEF Inv, SwitchedOn
<1> QED BY <1>6, <1>7, <1>8, <1>9 DEF Inv

LEMMA BeginWriteInv ==
  ASSUME Inv, NEW t \in Thread, BeginWrite(t)
  PROVE  Inv'
<1> DEFINE w == [buffer |-> taken[t], encrypted |-> encrypt]
<1>1. Writing(t) /\ pc[t] = "send"
  BY DEF BeginWrite, Writing
<1>2. /\ queue # <<>> /\ inFlight = {} /\ \A s \in Thread \ {t} : pc[s] = "idle"
      /\ Head(queue) = queue[1] /\ Head(queue) \in Buffer /\ Len(queue) \in Nat \ {0}
      /\ Served
  BY <1>1, AloneWriting
<1>3. taken[t] = Head(queue)
  BY <1>1 DEF Inv, WritesFront
<1>4. /\ inFlight' = {w}
      /\ encrypt' = (encrypt \/ SwitchesOn(Head(queue).packet))
      /\ pc' = [pc EXCEPT ![t] = "idle"]
      /\ UNCHANGED <<queue, outSeq, taken, cipher, wire, open>>
  BY <1>2, <1>3 DEF BeginWrite
<1>5. pc \in [Thread -> {"idle", "call", "send"}] /\ encrypt \in BOOLEAN
  BY DEF Inv, WriterTypeOK
<1>6. w \in Wire /\ w.buffer = Head(queue) /\ w.encrypted = encrypt
  BY <1>2, <1>3, <1>5 DEF Wire
<1>7. \A s \in Thread : pc'[s] = "idle"
  BY <1>2, <1>4, <1>5
<1>8. WriterTypeOK'
  <2>1. encrypt' \in BOOLEAN
    BY <1>4
  <2> HIDE DEF w
  <2> QED BY <1>4, <1>5, <1>6, <2>1 DEF Inv, WriterTypeOK
<1>9. OneWriter' /\ QueueIsServed' /\ WritesFront'
  <2> HIDE DEF w
  <2> QED BY <1>2, <1>4, <1>6, <1>7 DEF OneWriter, QueueIsServed, WritesFront, Writing
<1>10. KeyArrived' <=> KeyArrived
  BY <1>4, SameWire
<1>11. Numbered' /\ KeysInOrder' /\ EncryptedAfterKey'
  <2>1. EncryptedAfterKey'
    BY <1>4, SameWire DEF Inv
  <2>2. Numbered'
    BY <1>4 DEF Inv, Numbered, Frame
  <2> QED BY <1>4, <1>10, <2>1, <2>2 DEF Inv, KeysInOrder
<1>12. SwitchedOn'
  <2>1. encrypt <=> KeyArrived
    BY <1>2 DEF Inv, SwitchedOn
  <2>2. Head(queue).packet = EncryptKey => cipher = "announced"
    BY <1>2 DEF Inv, KeysInOrder
  <2>3. Head(queue).packet = DecryptKey /\ cipher \in {"ready", "announced"} => KeyArrived
    <3>1. ~ \E j \in 1 .. 1 - 1 : queue[j].packet = EncryptKey
      OBVIOUS
    <3>2. 1 \in 1 .. Len(queue)
      BY <1>2
    <3> QED BY <1>2, <3>1, <3>2 DEF Inv, KeysInOrder
  <2>4. encrypt' <=> KeyArrived \/ Head(queue).packet = EncryptKey
    BY <1>4, <2>1, <2>2, <2>3 DEF SwitchesOn, IsKey
  <2>5. w.encrypted <=> KeyArrived
    BY <2>1
  <2> HIDE DEF w
  <2> QED BY <1>4, <1>10, <2>4, <2>5 DEF SwitchedOn
<1> QED BY <1>8, <1>9, <1>11, <1>12 DEF Inv

\* What OnWrite finds: one write in flight, of the front.
LEMMA OnWriteEffect ==
  ASSUME Inv, OnWrite
  PROVE  \E w \in inFlight :
           /\ inFlight' = {} /\ inFlight = {w}
           /\ w \in Wire /\ w.buffer = Head(queue) /\ (w.encrypted <=> KeyArrived)
           /\ wire' = Append(wire, w)
           /\ queue # <<>> /\ queue' = Tail(queue)
           /\ pc' = [pc EXCEPT ![TCPThread] = IF GoesOn(Tail(queue)) THEN "call" ELSE "idle"]
           /\ \A s \in Thread : pc[s] = "idle"
           /\ UNCHANGED <<outSeq, taken, cipher, encrypt, open>>
<1>1. PICK w \in inFlight : inFlight' = inFlight \ {w} /\ wire' = Append(wire, w)
  BY DEF OnWrite
<1>2. inFlight = {w} /\ inFlight' = {} /\ \A s \in Thread : ~ Writing(s)
  BY <1>1 DEF Inv, OneWriter
<1>3. \A s \in Thread : pc[s] = "idle"
  BY <1>2 DEF Inv, WriterTypeOK, Writing
<1>4. w \in Wire /\ w.buffer = Head(queue) /\ queue # <<>> /\ (w.encrypted <=> KeyArrived)
  BY DEF Inv, WriterTypeOK, WritesFront, SwitchedOn
<1> QED BY <1>1, <1>2, <1>3, <1>4 DEF OnWrite

LEMMA OnWriteInv ==
  ASSUME Inv, OnWrite
  PROVE  Inv'
<1> DEFINE m == Len(wire)
           n == Len(queue)
<1>1. PICK w \in inFlight :
        /\ inFlight' = {} /\ inFlight = {w}
        /\ w \in Wire /\ w.buffer = Head(queue) /\ (w.encrypted <=> KeyArrived)
        /\ wire' = Append(wire, w)
        /\ queue # <<>> /\ queue' = Tail(queue)
        /\ pc' = [pc EXCEPT ![TCPThread] = IF GoesOn(Tail(queue)) THEN "call" ELSE "idle"]
        /\ \A s \in Thread : pc[s] = "idle"
        /\ UNCHANGED <<outSeq, taken, cipher, encrypt, open>>
  BY OnWriteEffect
<1>2. /\ queue \in Seq(Buffer) /\ wire \in Seq(Wire)
      /\ pc \in [Thread -> {"idle", "call", "send"}] /\ TCPThread \in Thread
  BY WriterAssumption DEF Inv, WriterTypeOK
<1>3. /\ Head(queue) = queue[1] /\ n \in Nat \ {0}
      /\ queue' \in Seq(Buffer) /\ Len(queue') = n - 1
      /\ \A i \in 1 .. n - 1 : queue'[i] = queue[i + 1]
  BY <1>1, <1>2, TailEffect
<1>4. /\ wire' \in Seq(Wire) /\ Len(wire') = m + 1 /\ m \in Nat
      /\ DOMAIN wire = 1 .. m /\ DOMAIN wire' = 1 .. m + 1
      /\ \A i \in 1 .. m : wire'[i] = wire[i]
      /\ wire'[m + 1] = w
  BY <1>1, <1>2, AppendEffect
<1>5. /\ \A s \in Thread \ {TCPThread} : pc'[s] = "idle"
      /\ pc'[TCPThread] = IF queue' # <<>> THEN "call" ELSE "idle"
  BY <1>1, <1>2 DEF GoesOn
<1>6. WriterTypeOK'
  BY <1>1, <1>2, <1>3, <1>4 DEF Inv, WriterTypeOK
<1>7. OneWriter' /\ QueueIsServed' /\ WritesFront'
  BY <1>1, <1>2, <1>5 DEF OneWriter, QueueIsServed, WritesFront, Writing
<1>8. \A i \in 1 .. m + 1 : i \in 1 .. m \/ i = m + 1
  BY <1>4
<1>9. Numbered'
  <2>1. outSeq' = ((m + 1) + (n - 1)) % SeqModulus
    <3>1. (m + 1) + (n - 1) = m + n
      BY <1>3, <1>4
    <3> QED BY <1>1, <3>1 DEF Inv, Numbered
  <2>2. \A i \in 1 .. n - 1 : Frame(queue'[i], (m + 1) + i)
    <3> TAKE i \in 1 .. n - 1
    <3>1. i + 1 \in 1 .. n /\ m + (i + 1) = (m + 1) + i
      BY <1>3, <1>4
    <3> QED BY <1>3, <3>1 DEF Inv, Numbered
  <2>3. Frame(wire'[m + 1].buffer, m + 1)
    <3>1. 1 \in 1 .. n
      BY <1>3
    <3> QED BY <1>1, <1>3, <1>4, <3>1 DEF Inv, Numbered
  <2>4. \A i \in 1 .. m : Frame(wire'[i].buffer, i)
    BY <1>4 DEF Inv, Numbered
  <2> QED BY <1>3, <1>4, <1>8, <2>1, <2>2, <2>3, <2>4 DEF Numbered, Frame
<1>10. KeyArrived' <=> KeyArrived \/ Head(queue).packet = EncryptKey
  BY <1>1, <1>4, <1>8 DEF KeyArrived
<1>11. KeysInOrder'
  <2>1. ASSUME NEW i \in 1 .. n - 1
        PROVE  /\ queue'[i].packet = EncryptKey => cipher = "announced"
               /\ queue'[i].packet = DecryptKey =>
                    \/ cipher = "failed"
                    \/ cipher = "announced" /\ (KeyArrived' \/ \E j \in 1 .. i - 1 : queue'[j].packet = EncryptKey)
    <3>1. i + 1 \in 1 .. n /\ queue'[i] = queue[i + 1]
      BY <1>3
    <3>2. ASSUME NEW j \in 1 .. (i + 1) - 1, queue[j].packet = EncryptKey
          PROVE  KeyArrived' \/ \E l \in 1 .. i - 1 : queue'[l].packet = EncryptKey
      <4>1. CASE j = 1
        BY <1>3, <1>10, <3>2, <4>1
      <4>2. CASE j # 1
        <5>1. j - 1 \in 1 .. i - 1 /\ queue'[j - 1] = queue[(j - 1) + 1] /\ (j - 1) + 1 = j
          BY <1>3, <4>2
        <5> QED BY <3>2, <5>1
      <4> QED BY <4>1, <4>2
    <3> QED BY <1>10, <3>1, <3>2 DEF Inv, KeysInOrder
  <2>2. KeyArrived' => cipher = "announced"
    <3>1. 1 \in 1 .. n
      BY <1>3
    <3> QED BY <1>3, <1>10, <3>1 DEF Inv, KeysInOrder
  <2>3. ASSUME NEW j \in 1 .. n, queue[j].packet = EncryptKey
        PROVE  KeyArrived' \/ \E l \in 1 .. n - 1 : queue'[l].packet = EncryptKey
    <3>1. CASE j = 1
      BY <1>3, <1>10, <2>3, <3>1
    <3>2. CASE j # 1
      <4>1. j - 1 \in 1 .. n - 1 /\ queue'[j - 1] = queue[(j - 1) + 1] /\ (j - 1) + 1 = j
        BY <1>3, <3>2
      <4> QED BY <2>3, <4>1
    <3> QED BY <3>1, <3>2
  <2>4. cipher = "announced" => KeyArrived' \/ \E l \in 1 .. n - 1 : queue'[l].packet = EncryptKey
    BY <1>10, <2>3 DEF Inv, KeysInOrder
  <2> QED BY <1>1, <1>3, <2>1, <2>2, <2>4 DEF KeysInOrder
<1>12. SwitchedOn'
  <2>1. encrypt <=> KeyArrived \/ Head(queue).packet = EncryptKey
    BY <1>1 DEF Inv, SwitchedOn, Served
  <2> QED BY <1>1, <1>10, <2>1 DEF SwitchedOn
<1>13. EncryptedAfterKey'
  <2>1. ASSUME NEW i \in 1 .. m
        PROVE  wire'[i].encrypted <=> \E j \in 1 .. i - 1 : wire'[j].buffer.packet = EncryptKey
    <3>1. \A j \in 1 .. i - 1 : j \in 1 .. m
      BY <1>4
    <3> QED BY <1>4, <3>1 DEF Inv, EncryptedAfterKey
  <2>2. w.encrypted <=> \E j \in 1 .. m : wire'[j].buffer.packet = EncryptKey
    BY <1>1, <1>4 DEF KeyArrived
  <2>3. (m + 1) - 1 = m
    BY <1>4
  <2> QED BY <1>4, <1>8, <2>1, <2>2, <2>3 DEF EncryptedAfterKey
<1> QED BY <1>6, <1>7, <1>9, <1>11, <1>12, <1>13 DEF Inv

\* The other steps leave the queue and the wire alone.
LEMMA QuietInv ==
  ASSUME Inv, SetupEncryptCipher \/ OnWriteError \/ CloseSocket
  PROVE  Inv'
<1>1. UNCHANGED <<queue, outSeq, pc, taken, encrypt, wire>>
  BY DEF SetupEncryptCipher, OnWriteError, CloseSocket
<1>2. KeyArrived' <=> KeyArrived
  BY <1>1, SameWire
<1>3. \/ cipher' = cipher
      \/ cipher = "none" /\ cipher' \in {"ready", "failed"}
  BY DEF SetupEncryptCipher, OnWriteError, CloseSocket
<1>4. \/ UNCHANGED <<inFlight, open>>
      \/ UNCHANGED inFlight /\ open' = FALSE
      \/ inFlight # {} /\ inFlight' = {} /\ open' = FALSE
  <2>1. CASE SetupEncryptCipher
    BY <2>1 DEF SetupEncryptCipher
  <2>2. CASE CloseSocket
    BY <2>2 DEF CloseSocket
  <2>3. CASE OnWriteError
    BY <2>3 DEF OnWriteError, Inv, OneWriter
  <2> QED BY <2>1, <2>2, <2>3
<1>5. inFlight # {} => ~ \E t \in Thread : Writing(t)
  BY DEF Inv, OneWriter
<1>6. WriterTypeOK'
  BY <1>1, <1>3, <1>4 DEF Inv, WriterTypeOK
<1>7. OneWriter' /\ QueueIsServed' /\ WritesFront'
  BY <1>1, <1>4 DEF Inv, OneWriter, QueueIsServed, WritesFront, Writing
<1>8. Numbered'
  BY <1>1 DEF Inv, Numbered, Frame
<1>9. KeysInOrder'
  BY <1>1, <1>2, <1>3 DEF Inv, KeysInOrder
<1>10. SwitchedOn'
  <2>1. CASE UNCHANGED inFlight
    BY <1>1, <1>2, <2>1 DEF Inv, SwitchedOn, Served, Writing
  <2>2. CASE inFlight # {} /\ inFlight' = {}
    <3>1. queue # <<>>
      BY <2>2 DEF Inv, WritesFront
    <3>2. ~ Served'
      BY <1>1, <1>5, <2>2, <3>1 DEF Served, Writing
    <3> QED BY <2>2, <3>2 DEF SwitchedOn
  <2> QED BY <1>4, <2>1, <2>2
<1>11. EncryptedAfterKey'
  BY <1>1, SameWire DEF Inv
<1> QED BY <1>6, <1>7, <1>8, <1>9, <1>10, <1>11 DEF Inv

LEMMA StutterInv ==
  ASSUME Inv, UNCHANGED writerVars
  PROVE  Inv'
<1>1. UNCHANGED <<queue, outSeq, pc, taken, inFlight, cipher, encrypt, wire, open>>
  BY DEF writerVars
<1>2. (KeyArrived' <=> KeyArrived) /\ EncryptedAfterKey'
  BY <1>1, SameWire DEF Inv
<1>3. WriterTypeOK' /\ OneWriter' /\ QueueIsServed' /\ WritesFront'
  BY <1>1 DEF Inv, WriterTypeOK, OneWriter, QueueIsServed, WritesFront, Writing
<1>4. Numbered' /\ KeysInOrder' /\ SwitchedOn'
  BY <1>1, <1>2 DEF Inv, Numbered, Frame, KeysInOrder, SwitchedOn, Served, Writing
<1> QED BY <1>2, <1>3, <1>4 DEF Inv

LEMMA NextInv == Inv /\ [WriterNext]_writerVars => Inv'
BY WritePacketInv, TakeFrontInv, BeginWriteInv, OnWriteInv, QuietInv, StutterInv DEF WriterNext

-----------------------------------------------------------------------------
(* Theorems.                                                               *)

LEMMA Consistency == WriterSafe => []Inv
BY InitInv, NextInv, PTL DEF WriterSafe

\* The queue, the threads in asyncWrite and what was sent keep their shape.
THEOREM WriterTypeCorrect == WriterSafe => []WriterTypeOK
<1>1. Inv => WriterTypeOK
  BY DEF Inv
<1> QED BY <1>1, Consistency, PTL

\* No two threads are ever in asyncWrite, nor one while a write is in flight.
THEOREM OneWriterCorrect == WriterSafe => []OneWriter
<1>1. Inv => OneWriter
  BY DEF Inv
<1> QED BY <1>1, Consistency, PTL

\* No wakeup is lost: a queue that is not empty is being written.
THEOREM ServedCorrect == WriterSafe => []QueueIsServed
<1>1. Inv => QueueIsServed
  BY DEF Inv
<1> QED BY <1>1, Consistency, PTL

\* Sequence numbers and length fields are what the client counts on.
THEOREM FramesCorrect == WriterSafe => []FramesExact
<1>1. Inv => FramesExact
  BY DEF Inv, WriterTypeOK, Numbered, Frame, FramesExact
<1> QED BY <1>1, Consistency, PTL

\* What the client receives is encrypted exactly from the key on.
THEOREM EncryptionCorrect == WriterSafe => []EncryptedAfterKey
<1>1. Inv => EncryptedAfterKey
  BY DEF Inv
<1> QED BY <1>1, Consistency, PTL

-----------------------------------------------------------------------------
(* The writer implements PacketStream.                                     *)

LEMMA BuffersOf ==
  ASSUME NEW ws \in Seq(Wire)
  PROVE  /\ Buffers(ws) \in Seq(Buffer)
         /\ Len(Buffers(ws)) = Len(ws)
         /\ Len(ws) \in Nat
         /\ \A i \in 1 .. Len(ws) : Buffers(ws)[i] = ws[i].buffer
<1>1. DOMAIN ws = 1 .. Len(ws) /\ Len(ws) \in Nat
  BY LenProperties
<1>2. \A i \in 1 .. Len(ws) : ws[i].buffer \in Buffer
  <2> TAKE i \in 1 .. Len(ws)
  <2>1. ws[i] \in Wire
    BY ElementOfSeq
  <2> QED BY <2>1 DEF Wire
<1>3. Buffers(ws) = [i \in 1 .. Len(ws) |-> ws[i].buffer]
  BY <1>1 DEF Buffers
<1>4. Buffers(ws) \in [1 .. Len(ws) -> Buffer]
  BY <1>2, <1>3
<1>5. Buffers(ws) \in Seq(Buffer)
  BY <1>1, <1>4
<1>6. Len(Buffers(ws)) = Len(ws)
  BY <1>1, <1>3
<1> QED BY <1>1, <1>3, <1>5, <1>6

\* What the client has received, after one more write has completed.
LEMMA BuffersAppend ==
  ASSUME NEW ws \in Seq(Wire), NEW w \in Wire
  PROVE  Buffers(Append(ws, w)) = Append(Buffers(ws), w.buffer)
<1> DEFINE n == Len(ws)
           left == Buffers(Append(ws, w))
           right == Append(Buffers(ws), w.buffer)
<1>1. /\ Append(ws, w) \in Seq(Wire) /\ Len(Append(ws, w)) = n + 1 /\ n \in Nat
      /\ \A i \in 1 .. n : Append(ws, w)[i] = ws[i]
      /\ Append(ws, w)[n + 1] = w
  BY AppendEffect
<1>2. /\ left \in Seq(Buffer) /\ Len(left) = n + 1
      /\ \A i \in 1 .. n + 1 : left[i] = Append(ws, w)[i].buffer
  BY <1>1, BuffersOf
<1>3. /\ Buffers(ws) \in Seq(Buffer) /\ Len(Buffers(ws)) = n
      /\ \A i \in 1 .. n : Buffers(ws)[i] = ws[i].buffer
  BY BuffersOf
<1>4. w.buffer \in Buffer
  BY DEF Wire
<1>5. /\ right \in Seq(Buffer) /\ Len(right) = n + 1
      /\ \A i \in 1 .. n : right[i] = Buffers(ws)[i]
      /\ right[n + 1] = w.buffer
  BY <1>3, <1>4, AppendEffect
<1> HIDE DEF left, right
<1>6. \A i \in 1 .. n + 1 : left[i] = right[i]
  <2> TAKE i \in 1 .. n + 1
  <2>1. CASE i \in 1 .. n
    BY <1>1, <1>2, <1>3, <1>5, <2>1
  <2>2. CASE i = n + 1
    BY <1>1, <1>2, <1>5, <2>2
  <2>3. i \in 1 .. n \/ i = n + 1
    BY <1>1
  <2> QED BY <2>1, <2>2, <2>3
<1>7. left = right
  BY <1>2, <1>5, <1>6, SeqEqual
<1> QED BY <1>7 DEF left, right

LEMMA AppendToConcat ==
  ASSUME NEW S, NEW s \in Seq(S), NEW t \in Seq(S), NEW e \in S
  PROVE  s \o Append(t, e) = Append(s \o t, e)
<1>1. <<e>> \in Seq(S) /\ s \o t \in Seq(S)
  BY ConcatProperties
<1>2. Append(t, e) = t \o <<e>> /\ Append(s \o t, e) = (s \o t) \o <<e>>
  BY <1>1, AppendIsConcat
<1> QED BY <1>1, <1>2, ConcatAssociative

\* A packet moves from the front of the queue to what the client has received.
LEMMA MoveFront ==
  ASSUME NEW S, NEW s \in Seq(S), NEW t \in Seq(S), t # <<>>
  PROVE  /\ Append(s, Head(t)) \o Tail(t) = s \o t
         /\ Len(s) < Len(s \o t)
         /\ (s \o t)[Len(s) + 1] = Head(t)
<1>1. /\ Head(t) = t[1] /\ Head(t) \in S /\ Tail(t) \in Seq(S)
      /\ Len(t) \in Nat \ {0} /\ Len(s) \in Nat
  BY TailEffect, LenProperties
<1>2. <<Head(t)>> \in Seq(S)
  BY <1>1
<1>3. Append(s, Head(t)) = s \o <<Head(t)>>
  BY <1>1, AppendIsConcat
<1>4. t = <<Head(t)>> \o Tail(t)
  <2>1. t = <<t[1]>> \o SubSeq(t, 2, Len(t)) 
    <3>1. 1 \in 1 .. Len(t) /\ Len(t) \in 1 .. Len(t) /\ 1 + 1 = 2
      BY <1>1
    <3> QED BY <3>1, SubSeqRecursiveFirst, SubSeqFull
  <2> QED BY <1>1, <2>1, TailIsSubSeq
<1>5. Append(s, Head(t)) \o Tail(t) = s \o t
  <2>1. (s \o <<Head(t)>>) \o Tail(t) = s \o (<<Head(t)>> \o Tail(t))
    BY <1>1, <1>2, ConcatAssociative
  <2> QED BY <1>3, <1>4, <2>1
<1>6. /\ Len(s \o t) = Len(s) + Len(t)
      /\ \A i \in 1 .. Len(s) + Len(t) : (s \o t)[i] = IF i <= Len(s) THEN s[i] ELSE t[i - Len(s)]
  BY ConcatProperties
<1>7. (s \o t)[Len(s) + 1] = t[1]
  <2>1. /\ Len(s) + 1 \in 1 .. Len(s) + Len(t) /\ ~ (Len(s) + 1 <= Len(s))
        /\ (Len(s) + 1) - Len(s) = 1
    BY <1>1
  <2> QED BY <1>6, <2>1
<1> QED BY <1>1, <1>5, <1>6, <1>7

LEMMA StreamInits == WriterInit => Stream!StreamInit
<1> SUFFICES ASSUME WriterInit PROVE Stream!StreamInit
  OBVIOUS
<1>1. wire = <<>> /\ queue = <<>> /\ open = TRUE
  BY DEF WriterInit
<1>2. Buffers(wire) = <<>>
  <2>1. wire \in Seq(Wire) /\ Len(wire) = 0
    BY <1>1
  <2>2. Buffers(wire) \in Seq(Buffer) /\ Len(Buffers(wire)) = 0
    BY <2>1, BuffersOf
  <2> QED BY <2>2, EmptySeq
<1>3. Buffers(wire) \o queue = <<>>
  <2>1. <<>> \in Seq(Buffer)
    OBVIOUS
  <2> QED BY <1>1, <1>2, <2>1, ConcatEmptySeq
<1> QED BY <1>1, <1>2, <1>3 DEF Stream!StreamInit

LEMMA AcceptStep ==
  ASSUME Inv, NEW t \in Thread, NEW p \in Packet, WritePacket(t, p)
  PROVE  Stream!Accept
<1> DEFINE e == [packet |-> p, seq |-> NextSequence, length |-> Length(p)]
<1>1. open /\ queue' = Append(queue, e) /\ UNCHANGED <<wire, open>>
  BY DEF WritePacket
<1>2. queue \in Seq(Buffer) /\ wire \in Seq(Wire) /\ outSeq \in 0 .. SeqModulus - 1
  BY DEF Inv, WriterTypeOK
<1>3. e \in Buffer
  <2>1. NextSequence \in 0 .. SeqModulus - 1
    BY <1>2, ModuloRange, WriterAssumption DEF NextSequence
  <2> QED BY <2>1 DEF Buffer
<1>4. Buffers(wire)' = Buffers(wire)
  BY <1>1 DEF Buffers
<1> HIDE DEF e
<1>5. Buffers(wire) \o Append(queue, e) = Append(Buffers(wire) \o queue, e)
  BY <1>2, <1>3, BuffersOf, AppendToConcat
<1>6. (Buffers(wire) \o queue)' = Append(Buffers(wire) \o queue, e)
  BY <1>1, <1>4, <1>5
<1> QED BY <1>1, <1>3, <1>4, <1>6 DEF Stream!Accept

LEMMA DeliverStep ==
  ASSUME Inv, OnWrite
  PROVE  Stream!Deliver
<1>1. PICK w \in Wire :
        /\ w.buffer = Head(queue) /\ wire' = Append(wire, w)
        /\ queue # <<>> /\ queue' = Tail(queue) /\ UNCHANGED open
  BY OnWriteEffect
<1>2. queue \in Seq(Buffer) /\ wire \in Seq(Wire)
  BY DEF Inv, WriterTypeOK
<1>3. Buffers(wire)' = Append(Buffers(wire), Head(queue))
  <2>1. Buffers(wire)' = Buffers(Append(wire, w))
    BY <1>1 DEF Buffers
  <2> QED BY <1>1, <1>2, <2>1, BuffersAppend
<1>4. /\ Append(Buffers(wire), Head(queue)) \o Tail(queue) = Buffers(wire) \o queue
      /\ Len(Buffers(wire)) < Len(Buffers(wire) \o queue)
      /\ (Buffers(wire) \o queue)[Len(Buffers(wire)) + 1] = Head(queue)
  BY <1>1, <1>2, BuffersOf, MoveFront
<1>5. (Buffers(wire) \o queue)' = Buffers(wire) \o queue
  BY <1>1, <1>3, <1>4
<1> QED BY <1>1, <1>3, <1>4, <1>5 DEF Stream!Deliver

\* Steps that neither accept nor deliver close the socket, or do not concern
\* the stream.
LEMMA OtherStep ==
  ASSUME UNCHANGED <<queue, wire>>, open' = open \/ (open /\ open' = FALSE)
  PROVE  Stream!Close \/ UNCHANGED Stream!streamVars
<1>1. Buffers(wire)' = Buffers(wire) /\ (Buffers(wire) \o queue)' = Buffers(wire) \o queue
  BY DEF Buffers
<1> QED BY <1>1 DEF Stream!Close, Stream!streamVars

LEMMA StreamSteps == Inv /\ [WriterNext]_writerVars => [Stream!StreamNext]_Stream!streamVars
<1> SUFFICES ASSUME Inv, [WriterNext]_writerVars
             PROVE  [Stream!StreamNext]_Stream!streamVars
  OBVIOUS
<1>1. CASE \E t \in Thread, p \in Packet : WritePacket(t, p)
  BY <1>1, AcceptStep DEF Stream!StreamNext
<1>2. CASE OnWrite
  BY <1>2, DeliverStep DEF Stream!StreamNext
<1>3. CASE (\E t \in Thread : TakeFront(t) \/ BeginWrite(t)) \/ SetupEncryptCipher \/ UNCHANGED writerVars
  <2>1. UNCHANGED <<queue, wire, open>>
    BY <1>3 DEF TakeFront, BeginWrite, SetupEncryptCipher, writerVars
  <2> QED BY <2>1, OtherStep DEF Stream!StreamNext
<1>4. CASE OnWriteError \/ CloseSocket
  <2>1. UNCHANGED <<queue, wire>> /\ open' = FALSE /\ open \in BOOLEAN
    BY <1>4 DEF OnWriteError, CloseSocket, Inv, WriterTypeOK
  <2> QED BY <2>1, OtherStep DEF Stream!StreamNext
<1> QED BY <1>1, <1>2, <1>3, <1>4 DEF WriterNext

\* Packets reach the client in the order in which they were accepted, each once.
THEOREM StreamImplemented == WriterSafe => ImplementsStream
<1>1. WriterInit => Stream!StreamInit
  BY StreamInits
<1>2. Inv /\ [WriterNext]_writerVars => [Stream!StreamNext]_Stream!streamVars
  BY StreamSteps
<1> QED BY <1>1, <1>2, Consistency, PTL DEF WriterSafe, ImplementsStream, Stream!StreamSafe

=============================================================================
