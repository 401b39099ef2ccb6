---------------------------- MODULE PacketWriter ----------------------------
(***************************************************************************)
(* The outgoing side of a TCPConnection.  Any thread may call WritePacket: *)
(* the TCP thread from the packet handlers, the tick and console threads   *)
(* from what they tell all users.  Only the queue is protected by          *)
(* _outgoingMutex; that a single thread at a time runs asyncWrite, and     *)
(* that a packet in the queue always has one, rests on who finds the queue *)
(* empty.  One action is one critical section, or the code between two.    *)
(*                                                                         *)
(* Simplifications: a buffer is a packet with the header fields that are   *)
(* computed here; the completion of async_write and the delivery of the    *)
(* buffer are one step; WritePacket looks at the socket, before it locks,  *)
(* in the same step in which it pushes; EVP_EncryptUpdate does not fail;   *)
(* the ciphers are set up by one run of SendLoginPackets.  The definitions *)
(* named Bug... are faulty variants of the one that follows: the           *)
(* properties must tell the two apart.                                     *)
(***************************************************************************)
EXTENDS Integers, Sequences

CONSTANTS
  Thread,
  TCPThread,      \* the thread that runs the completion handlers
  Packet,
  EncryptKey,     \* Packet_Crypt with the key the server will encrypt with
  DecryptKey,     \* Packet_Crypt with the key the client will encrypt with
  Size,           \* payload of each packet, in bytes
  SeqModulus,     \* 2^8: values of an unsigned char
  MaxPackets      \* bounds the packets accepted

HeaderSize    == 4
MaxBufferSize == 65536    \* TCP_PACKET_MAX_SIZE
LengthModulus == 65536    \* 2^16: values of _length

ASSUME WriterAssumption ==
  /\ TCPThread \in Thread
  /\ {EncryptKey, DecryptKey} \subseteq Packet
  /\ EncryptKey # DecryptKey
  /\ Size \in [Packet -> Nat]
  /\ Size[EncryptKey] + HeaderSize <= MaxBufferSize
  /\ SeqModulus \in Nat \ {0}
  /\ MaxPackets \in Nat

Length(p) == Size[p] % LengthModulus

Buffer == [packet : Packet, seq : 0 .. SeqModulus - 1, length : {Length(p) : p \in Packet}]
Wire == [buffer : Buffer, encrypted : BOOLEAN]

VARIABLES
  queue,     \* _outgoingPackets
  outSeq,    \* _outgoingSequence
  pc,        \* "call" asyncWrite, "send" a buffer taken from the queue, or "idle"
  taken,     \* the buffer each thread in "send" has copied
  inFlight,  \* writes begun and not completed
  cipher,    \* "none", "failed", "ready" when _encryptCipher.ctx is set, and
             \* "announced" when EncryptKey was pushed
  encrypt,   \* _encrypt
  wire,      \* what the client has received
  open       \* the socket is open

writerVars == <<queue, outSeq, pc, taken, inFlight, cipher, encrypt, wire, open>>

WriterTypeOK ==
  /\ queue \in Seq(Buffer)
  /\ outSeq \in 0 .. SeqModulus - 1
  /\ pc \in [Thread -> {"idle", "call", "send"}]
  /\ taken \in [Thread -> Buffer]
  /\ \A w \in inFlight : w \in Wire
  /\ cipher \in {"none", "failed", "ready", "announced"}
  /\ encrypt \in BOOLEAN
  /\ wire \in Seq(Wire)
  /\ open \in BOOLEAN

NoBuffer == [packet |-> EncryptKey, seq |-> 0, length |-> Length(EncryptKey)]

WriterInit ==
  /\ queue = <<>>
  /\ outSeq = 0
  /\ pc = [t \in Thread |-> "idle"]
  /\ taken = [t \in Thread |-> NoBuffer]
  /\ inFlight = {}
  /\ cipher = "none"
  /\ encrypt = FALSE
  /\ wire = <<>>
  /\ open = TRUE

-----------------------------------------------------------------------------
IsKey(p) == p \in {EncryptKey, DecryptKey}

\* SendLoginPackets announces the key of the server, if it has one, and then
\* the key of the client.
MayPush(t, p) ==
  /\ p = EncryptKey => t = TCPThread /\ cipher = "ready"
  /\ p = DecryptKey => t = TCPThread /\ cipher \in {"announced", "failed"}

SetupEncryptCipher ==
  /\ pc[TCPThread] = "idle"
  /\ cipher = "none"
  /\ cipher' \in {"ready", "failed"}
  /\ UNCHANGED <<queue, outSeq, pc, taken, inFlight, encrypt, wire, open>>

BugNextSequenceFromOne == (outSeq % SeqModulus) + 1
NextSequence == (outSeq + 1) % SeqModulus

\* The size check of WritePacket counts the header.
BugFitsAlways(p) == TRUE
Fits(p) == Size[p] + HeaderSize <= MaxBufferSize

\* queueIdle of WritePacket: nobody serves the queue.
BugQueueIdleAlways == TRUE
QueueIdle == queue = <<>>

\* The critical section of WritePacket.  A packet that does not fit is
\* dropped and its sequence number used again.
WritePacket(t, p) ==
  /\ pc[t] = "idle"
  /\ open
  /\ MayPush(t, p)
  /\ Len(wire) + Len(queue) < MaxPackets
  /\ Fits(p)
  /\ outSeq' = NextSequence
  /\ queue' = Append(queue, [packet |-> p, seq |-> NextSequence, length |-> Length(p)])
  /\ pc' = [pc EXCEPT ![t] = IF QueueIdle THEN "call" ELSE "idle"]
  /\ cipher' = IF p = EncryptKey THEN "announced" ELSE cipher
  /\ UNCHANGED <<taken, inFlight, encrypt, wire, open>>

\* asyncWrite up to the end of its critical section.
TakeFront(t) ==
  /\ pc[t] = "call"
  /\ IF queue = <<>>
     THEN pc' = [pc EXCEPT ![t] = "idle"] /\ UNCHANGED taken
     ELSE /\ pc' = [pc EXCEPT ![t] = "send"]
          /\ taken' = [taken EXCEPT ![t] = Head(queue)]
  /\ UNCHANGED <<queue, outSeq, inFlight, cipher, encrypt, wire, open>>

\* A Crypt packet switches encryption on once _encryptCipher has a context.
BugSwitchesOnAnyPacket(p) == cipher \in {"ready", "announced"}
SwitchesOn(p) == cipher \in {"ready", "announced"} /\ IsKey(p)

\* The rest of asyncWrite.  The packet that switches encryption on is not yet
\* encrypted.
BeginWrite(t) ==
  /\ pc[t] = "send"
  /\ inFlight' = inFlight \union {[buffer |-> taken[t], encrypted |-> encrypt]}
  /\ encrypt' = (encrypt \/ SwitchesOn(taken[t].packet))
  /\ pc' = [pc EXCEPT ![t] = "idle"]
  /\ UNCHANGED <<queue, outSeq, taken, cipher, wire, open>>

\* queueIdle of onWrite, of what is left after the pop.
BugGoesOnWithTwo(rest) == Len(rest) > 1
GoesOn(rest) == rest # <<>>

\* onWrite of a write that succeeded: the TCP thread pops the front and goes
\* on with the next buffer.
OnWrite ==
  /\ pc[TCPThread] = "idle"
  /\ \E w \in inFlight :
       /\ inFlight' = inFlight \ {w}
       /\ wire' = Append(wire, w)
  /\ queue' = Tail(queue)
  /\ pc' = [pc EXCEPT ![TCPThread] = IF GoesOn(Tail(queue)) THEN "call" ELSE "idle"]
  /\ UNCHANGED <<outSeq, taken, cipher, encrypt, open>>

\* onWrite of a write that failed: the user is disconnected and the front
\* stays where it is, so that no thread finds the queue empty again.
OnWriteError ==
  /\ pc[TCPThread] = "idle"
  /\ \E w \in inFlight : inFlight' = inFlight \ {w}
  /\ open' = FALSE
  /\ UNCHANGED <<queue, outSeq, pc, taken, cipher, encrypt, wire>>

\* DisconnectClient, or a lost connection.
CloseSocket ==
  /\ open
  /\ open' = FALSE
  /\ UNCHANGED <<queue, outSeq, pc, taken, inFlight, cipher, encrypt, wire>>

WriterStep(t) == TakeFront(t) \/ BeginWrite(t)

WriterNext ==
  \/ \E t \in Thread :
       \/ \E p \in Packet : WritePacket(t, p)
       \/ TakeFront(t)
       \/ BeginWrite(t)
  \/ SetupEncryptCipher
  \/ OnWrite
  \/ OnWriteError
  \/ CloseSocket

WriterSafe == WriterInit /\ [][WriterNext]_writerVars

\* Threads run on, and a write on a socket completes as long as the client
\* reads: nothing else makes the code give up a write, it has no timeout.
WriterSpec ==
  /\ WriterSafe
  /\ \A t \in Thread : WF_writerVars(WriterStep(t))
  /\ WF_writerVars(OnWrite)

-----------------------------------------------------------------------------
(* Properties.                                                             *)

Writing(t) == pc[t] \in {"call", "send"}

\* One writer: asyncWrite is never run by two threads at once, nor while a
\* write is in flight; overlapping writes would interleave their bytes.
OneWriter ==
  /\ \A s, t \in Thread : Writing(s) /\ Writing(t) => s = t
  /\ \A t \in Thread : Writing(t) => inFlight = {}
  /\ \A v, w \in inFlight : v = w

\* No wakeup is lost: while the socket is open, a queue that is not empty has
\* a thread or a write in flight that will come back to it.
QueueIsServed ==
  open /\ queue # <<>> => inFlight # {} \/ \E t \in Thread : Writing(t)

\* The client can tell the packets of the stream apart: sequence numbers are
\* contiguous, although packets are dropped for their size and the number
\* wraps around, and the 16-bit length field is the size of what follows,
\* for every packet that passes the check against TCP_PACKET_MAX_SIZE.
FramesExact ==
  \A i \in DOMAIN wire :
    /\ wire[i].buffer.seq = i % SeqModulus
    /\ wire[i].buffer.length = Size[wire[i].buffer.packet]

\* The client decrypts from the packet after the one with the key on: what it
\* receives is encrypted exactly from there.
EncryptedAfterKey ==
  \A i \in DOMAIN wire :
    wire[i].encrypted <=> \E j \in 1 .. i - 1 : wire[j].buffer.packet = EncryptKey

\* The writer implements the stream.
Buffers(ws) == [i \in DOMAIN ws |-> ws[i].buffer]

Stream == INSTANCE PacketStream WITH
  accepted <- Buffers(wire) \o queue,
  delivered <- Buffers(wire)

\* Handlers may rely on packets arriving in order, each once.
ImplementsStream == Stream!StreamSafe

\* Every packet accepted on a connection that stays open arrives.
DeliversStream == Stream!StreamLive
=============================================================================
