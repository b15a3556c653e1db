--------------------------- MODULE ShmRingBufferProofs --------------------------
(***************************************************************************)
(* Proofs about ShmRingBuffer, for any number of readers, chunks and         *)
(* messages.                                                               *)
(*                                                                         *)
(* Message n (counted from 0) goes to chunk n % MaxChunks.  The invariant    *)
(* says what each chunk, flag and socket holds in terms of two numbers: how   *)
(* many messages were written, and how many each reader is done with in the  *)
(* ring.                                                                   *)
(***************************************************************************)
EXTENDS ShmRingBuffer, SequenceTheorems, FiniteSetTheorems, TLAPS

Slot(n) == n % MaxChunks

(* messages whose chunk reader r has released                               *)
Taken(r) == Len(received[r]) + IF reader[r].pc = "recv" THEN 1 ELSE 0

(* the oldest message the ring may still hold                               *)
Oldest == Len(sent) - MaxChunks + IF Writing THEN 1 ELSE 0

(* messages whose overflow, if any, is on the socket or was received          *)
PublishedUpTo == Len(sent) - IF writer.pc = "send" THEN 1 ELSE 0

-------------------------------------------------------------------------------
(* Handshake: nobody is past it before the writer is.                        *)
HandshakeInv ==
  /\ \A r \in Reader : r \notin subscribed <=> reader[r].pc = "connect"
  /\ writer.pc = "wait_ready" =>
       /\ sent = <<>>
       /\ \A r \in Reader : reader[r].pc \in {"connect", "wait_ready"} /\ socket[r] = <<>>
  /\ writer.pc # "wait_ready" => subscribed = Reader
  /\ \A r \in Reader : reader[r].pc \in {"connect", "wait_ready"} => received[r] = <<>>

(* The indices follow the counts, no reader is ahead of the writer, and none   *)
(* is a whole ring behind.                                                  *)
PositionInv ==
  /\ writer.idx = Slot(Len(sent))
  /\ \A r \in Reader :
       /\ reader[r].idx = Slot(Taken(r))
       /\ Taken(r) <= Len(sent)
       /\ Oldest <= Taken(r)

(* What enqueue holds, and the numbering of messages.                        *)
ObjectInv ==
  /\ \A j \in 1..Len(sent) : sent[j].id = j
  /\ writer.pc = "acquire" \/ Writing =>
       writer.obj \in Message /\ writer.obj.id = Len(sent) + 1
  /\ writer.pc = "send" => sent # <<>> /\ writer.obj = sent[Len(sent)] /\ writer.obj.large
  /\ writer.pc = "body" => ~writer.obj.large

(* The chunk of every message the ring still holds is published whole, and   *)
(* its read flags say who is done with it.                                  *)
HeldOK(n) ==
  /\ written[Slot(n)] = 1
  /\ \A r \in Reader : readFlag[Slot(n)][r] = IF n < Taken(r) THEN 1 ELSE 0
  /\ overflow[Slot(n)] = IF sent[n + 1].large THEN 1 ELSE 0
  /\ ~sent[n + 1].large => body[Slot(n)] = sent[n + 1]

HeldInv == \A n \in 0..(Len(sent) - 1) : Oldest <= n => HeldOK(n)

(* The chunks of the first round that no message has reached.                *)
FreshInv ==
  \A c \in Chunk : Len(sent) <= c => written[c] = 0

(* The chunk being filled: invisible, complete and unread when it is marked.  *)
FillingInv ==
  /\ Writing => written[writer.idx] = 0
  /\ writer.pc \in {"body", "reset", "mark"} =>
       overflow[writer.idx] = IF writer.obj.large THEN 1 ELSE 0
  /\ writer.pc \in {"reset", "mark"} /\ ~writer.obj.large => body[writer.idx] = writer.obj
  /\ writer.pc = "reset" => \A r \in 1..writer.reset : readFlag[writer.idx][r] = 0
  /\ writer.pc = "mark" => \A r \in Reader : readFlag[writer.idx][r] = 0
  /\ writer.pc # "reset" => writer.reset = 0

(* A reader inside acquire_read is at a message it is owed, and carries it.   *)
ReadingOK(r) ==
  /\ reader[r].pc # "dead"
  /\ reader[r].pc \in {"check", "header", "body", "release"} => readFlag[reader[r].idx][r] = 0
  /\ Reading(r) => Taken(r) < Len(sent)
  /\ reader[r].pc = "body" => ~sent[Taken(r) + 1].large /\ reader[r].overflow = 0
  /\ reader[r].pc = "release" =>
       /\ reader[r].overflow = IF sent[Taken(r) + 1].large THEN 1 ELSE 0
       /\ ~sent[Taken(r) + 1].large => reader[r].obj = sent[Taken(r) + 1]
  /\ reader[r].pc = "recv" => sent[Len(received[r]) + 1].large

ReadingInv == \A r \in Reader : ReadingOK(r)

(* Dequeued so far: a prefix of what was enqueued and, if it overflowed,       *)
(* published.                                                              *)
ReceivedInv ==
  \A r \in Reader :
    /\ Len(received[r]) <= PublishedUpTo
    /\ \A j \in 1..Len(received[r]) : received[r][j] = sent[j]

(* The socket of a reader: the ready message while it waits for it, then the  *)
(* overflowing messages it has not received, each once and in order.         *)
SocketOK(r) ==
  /\ \A i, k \in 1..Len(socket[r]) : i < k => socket[r][i].id < socket[r][k].id
  /\ \A i \in 1..Len(socket[r]) :
       \/ socket[r][i] = READY /\ reader[r].pc = "wait_ready"
       \/ \E j \in (Len(received[r]) + 1)..PublishedUpTo :
             socket[r][i] = sent[j] /\ sent[j].large
  /\ \A j \in (Len(received[r]) + 1)..PublishedUpTo :
       sent[j].large => \E i \in 1..Len(socket[r]) : socket[r][i] = sent[j]
  /\ reader[r].pc = "wait_ready" /\ writer.pc # "wait_ready" =>
       \E i \in 1..Len(socket[r]) : socket[r][i] = READY

SocketInv == \A r \in Reader : SocketOK(r)

RingInv ==
  /\ RingTypeOK
  /\ HandshakeInv /\ PositionInv /\ ObjectInv
  /\ HeldInv /\ FreshInv /\ FillingInv
  /\ ReadingInv /\ ReceivedInv /\ SocketInv

-------------------------------------------------------------------------------
(* Arithmetic of the ring: facts of division that the SMT solver does not     *)
(* know for a divisor that is not a numeral.                                *)
LEMMA Division ==
  ASSUME NEW n \in Nat, NEW M \in Nat \ {0}
  PROVE  /\ n \div M \in Nat /\ n % M \in 0..(M - 1)
         /\ n = M * (n \div M) + (n % M)
<1>1. n \div M \in Nat
  BY SMT
<1>2. n % M \in 0..(M - 1)
  BY SMT
<1>3. n = M * (n \div M) + (n % M)
  BY SMT
<1>. QED
  BY <1>1, <1>2, <1>3

LEMMA SmallMultiple ==
  ASSUME NEW d \in Int, NEW M \in Nat \ {0}, -M < M * d, M * d < M
  PROVE  d = 0
<1>1. CASE d >= 1
  BY <1>1, M * d >= M, SMT
<1>2. CASE d <= -1
  BY <1>2, M * d <= -M, SMT
<1>. QED
  BY <1>1, <1>2, SMT

LEMMA UniqueRemainder ==
  ASSUME NEW n \in Nat, NEW q \in Int, NEW s \in Int, NEW M \in Nat \ {0},
         0 <= s, s < M, n = M * q + s
  PROVE  n % M = s
<1> DEFINE p == n \div M
           t == n % M
<1>1. p \in Nat /\ t \in 0..(M - 1) /\ n = M * p + t
  BY Division
<1> HIDE DEF p, t
<1>2. M * (p - q) = M * p - M * q
  BY <1>1, SMT
<1>3. M * (p - q) = s - t
  BY <1>1, <1>2, SMT
<1>4. p - q = 0
  BY <1>1, <1>3, SmallMultiple
<1>5. t = s
  BY <1>1, <1>4, SMT
<1>. QED
  BY <1>5 DEF t

LEMMA SlotType == \A n \in Nat : Slot(n) \in Chunk
<1> SUFFICES ASSUME NEW n \in Nat PROVE Slot(n) \in Chunk
  OBVIOUS
<1>. QED
  BY RingAssumption, Division DEF Slot, Chunk

LEMMA SlotSmall == \A n \in Nat : n < MaxChunks => Slot(n) = n
BY RingAssumption, SMT DEF Slot

(* Messages closer than a ring have chunks of their own.                     *)
LEMMA SlotApart ==
  ASSUME NEW a \in Nat, NEW b \in Nat, a < b, b < a + MaxChunks
  PROVE  Slot(a) # Slot(b)
<1> SUFFICES ASSUME Slot(a) = Slot(b) PROVE FALSE
  OBVIOUS
<1> DEFINE p == a \div MaxChunks
           q == b \div MaxChunks
           s == a % MaxChunks
<1>0. s \in 0..(MaxChunks - 1)
  BY RingAssumption, Division
<1>1. p \in Nat /\ q \in Nat /\ s \in Int
  <2>1. p \in Nat
    BY RingAssumption, Division
  <2>2. q \in Nat
    BY RingAssumption, Division
  <2>. QED
    BY <1>0, <2>1, <2>2, RingAssumption
<1>2. a = MaxChunks * p + s /\ b = MaxChunks * q + s
  BY RingAssumption, Division DEF Slot
<1> HIDE DEF p, q, s
<1>3. MaxChunks * (q - p) = MaxChunks * q - MaxChunks * p
  BY <1>1, RingAssumption, SMT
<1>4. MaxChunks * (q - p) = b - a
  BY <1>1, <1>2, <1>3, RingAssumption, SMT
<1>5. q - p = 0
  BY <1>1, <1>4, RingAssumption, SmallMultiple
<1>. QED
  BY <1>1, <1>2, <1>5, RingAssumption, SMT

(* A message goes where the message a ring before it went.                   *)
LEMMA SlotWraps == \A n \in Nat : Slot(n + MaxChunks) = Slot(n)
<1> SUFFICES ASSUME NEW n \in Nat PROVE (n + MaxChunks) % MaxChunks = n % MaxChunks
  BY DEF Slot
<1>1. PICK q \in Nat, s \in 0..(MaxChunks - 1) : s = n % MaxChunks /\ n = MaxChunks * q + s
  BY RingAssumption, Division
<1>2. MaxChunks * (q + 1) = MaxChunks * q + MaxChunks
  BY RingAssumption, SMT
<1>3. n + MaxChunks = MaxChunks * (q + 1) + s
  BY <1>1, <1>2, RingAssumption, SMT
<1>4. (n + MaxChunks) % MaxChunks = s
  BY <1>3, UniqueRemainder, RingAssumption, n + MaxChunks \in Nat, q + 1 \in Int,
     s \in Int, 0 <= s, s < MaxChunks
<1>. QED
  BY <1>1, <1>4

(* The next index is the chunk of the next message.                          *)
LEMMA SlotNext == \A n \in Nat : NextIdx(Slot(n)) = Slot(n + 1)
<1> SUFFICES ASSUME NEW n \in Nat PROVE ((n % MaxChunks) + 1) % MaxChunks = (n + 1) % MaxChunks
  BY DEF Slot, NextIdx
<1>1. PICK q \in Nat, s \in 0..(MaxChunks - 1) : s = n % MaxChunks /\ n = MaxChunks * q + s
  BY RingAssumption, Division
<1>2. s + 1 \in Nat /\ n + 1 \in Nat
  BY RingAssumption
<1>3. CASE s + 1 < MaxChunks
  <2>1. (s + 1) % MaxChunks = s + 1
    BY <1>3, <1>2, SlotSmall DEF Slot
  <2>2. ASSUME NEW m \in Nat, NEW t \in Int, m = n + 1, t = s + 1
        PROVE  m % MaxChunks = t
    <3>1. m = MaxChunks * q + t
      BY <1>1, <2>2, RingAssumption, SMT
    <3>2. 0 <= t /\ t < MaxChunks
      BY <1>3, <2>2, RingAssumption
    <3>. QED
      BY <3>1, <3>2, UniqueRemainder, RingAssumption, q \in Int
  <2>3. (n + 1) % MaxChunks = s + 1
    BY <2>2, <1>2, s + 1 \in Int
  <2>. QED
    BY <1>1, <2>1, <2>3
<1>4. CASE s + 1 = MaxChunks
  <2>1. MaxChunks * (q + 1) = MaxChunks * q + MaxChunks
    BY RingAssumption, SMT
  <2>2. n + 1 = MaxChunks * (q + 1) + 0
    BY <1>1, <1>4, <2>1, RingAssumption, SMT
  <2>3. (n + 1) % MaxChunks = 0
    BY <2>2, <1>2, UniqueRemainder, RingAssumption, q + 1 \in Int, 0 < MaxChunks,
       0 \in Int, 0 <= 0, Zenon
  <2>4. s + 1 = MaxChunks * 1 + 0
    BY <1>4, RingAssumption, SMT
  <2>5. (s + 1) % MaxChunks = 0
    BY <2>4, <1>2, UniqueRemainder, RingAssumption, 0 < MaxChunks
  <2>. QED
    BY <1>1, <2>3, <2>5
<1>. QED
  BY <1>3, <1>4, RingAssumption, SMT

-------------------------------------------------------------------------------
LEMMA InitInv == Init => RingInv
<1> SUFFICES ASSUME Init PROVE RingInv
  OBVIOUS
<1> USE RingAssumption DEF Init, Reader, Chunk
<1>1. \A r \in Reader : /\ received[r] = <<>> /\ socket[r] = <<>> /\ Len(received[r]) = 0
                        /\ reader[r].pc = "connect" /\ Taken(r) = 0
  BY DEF Taken
<1>2. Len(sent) = 0 /\ Slot(0) = 0 /\ Oldest <= 0
  BY SlotSmall DEF Oldest, Writing
<1>3. RingTypeOK
  BY DEF RingTypeOK, WriterState, ReaderState
<1>4. HandshakeInv /\ PositionInv /\ ObjectInv
  BY <1>1, <1>2 DEF HandshakeInv, PositionInv, ObjectInv, Writing
<1>5. HeldInv /\ FreshInv /\ FillingInv
  BY <1>1, <1>2 DEF HeldInv, HeldOK, FreshInv, FillingInv, Writing
<1>6. ReadingInv /\ ReceivedInv
  BY <1>1, <1>2 DEF ReadingInv, ReadingOK, ReceivedInv, Reading, PublishedUpTo
<1>7. SocketInv
  BY <1>1, <1>2 DEF SocketInv, SocketOK, PublishedUpTo
<1>. QED
  BY <1>3, <1>4, <1>5, <1>6, <1>7 DEF RingInv

(* The counts are natural numbers.                                          *)
LEMMA Counts ==
  ASSUME RingTypeOK
  PROVE  /\ Len(sent) \in Nat
         /\ \A r \in Reader : Len(received[r]) \in Nat /\ Taken(r) \in Nat
         /\ Oldest \in Int /\ PublishedUpTo \in Int /\ PublishedUpTo <= Len(sent)
BY RingAssumption DEF RingTypeOK, Taken, Oldest, PublishedUpTo

(* What a reader receives from its socket is what it waits for.              *)
LEMMA HeadIsReady ==
  ASSUME RingInv, NEW r \in Reader, reader[r].pc = "wait_ready", socket[r] # <<>>
  PROVE  Head(socket[r]) = READY /\ writer.pc # "wait_ready"
<1> USE DEF RingInv
<1>1. writer.pc # "wait_ready"
  BY DEF HandshakeInv
<1>2. socket[r] \in Seq(Message \cup {READY})
  BY DEF RingTypeOK
<1>3. PICK i \in 1..Len(socket[r]) : socket[r][i] = READY
  BY <1>1 DEF SocketInv, SocketOK
<1>4. 1 \in 1..Len(socket[r]) /\ Head(socket[r]) = socket[r][1]
  BY <1>2, <1>3
<1>5. socket[r][1] # READY => socket[r][1].id >= 1
  BY <1>2, <1>4 DEF Message
<1>6. 1 < i => socket[r][1].id < 0
  BY <1>3, <1>4 DEF SocketInv, SocketOK, READY
<1>7. i = 1
  BY <1>4, <1>5, <1>6, <1>3, <1>2 DEF READY, Message
<1>. QED
  BY <1>1, <1>3, <1>4, <1>7

LEMMA HeadIsOwed ==
  ASSUME RingInv, NEW r \in Reader, reader[r].pc = "recv", socket[r] # <<>>
  PROVE  /\ Len(received[r]) + 1 <= PublishedUpTo
         /\ Len(received[r]) + 1 \in 1..Len(sent)
         /\ Head(socket[r]) = sent[Len(received[r]) + 1]
         /\ Head(socket[r]) \in Message
<1> USE DEF RingInv
<1> DEFINE L == Len(received[r])
<1>1. socket[r] \in Seq(Message \cup {READY}) /\ sent \in Seq(Message)
  BY DEF RingTypeOK
<1>2. L \in Nat /\ Len(sent) \in Nat /\ PublishedUpTo \in Int /\ PublishedUpTo <= Len(sent)
  BY Counts
<1>3. 1 \in 1..Len(socket[r]) /\ Head(socket[r]) = socket[r][1]
  BY <1>1
<1>4. PICK j \in (L + 1)..PublishedUpTo : socket[r][1] = sent[j] /\ sent[j].large
  BY <1>3 DEF SocketInv, SocketOK
<1>5. L + 1 <= PublishedUpTo /\ L + 1 \in 1..Len(sent) /\ j \in 1..Len(sent)
  BY <1>2, <1>4
<1>6. sent[L + 1].large
  BY DEF ReadingInv, ReadingOK, ReadingOK
<1>7. PICK i \in 1..Len(socket[r]) : socket[r][i] = sent[L + 1]
  BY <1>2, <1>5, <1>6 DEF SocketInv, SocketOK
<1>8. sent[j].id = j /\ sent[L + 1].id = L + 1
  BY <1>5 DEF ObjectInv
<1>9. 1 < i => socket[r][1].id < socket[r][i].id
  BY <1>3, <1>7 DEF SocketInv, SocketOK
<1>10. i = 1
  BY <1>2, <1>3, <1>4, <1>5, <1>7, <1>8, <1>9
<1>. QED
  BY <1>1, <1>3, <1>5, <1>7, <1>10

-------------------------------------------------------------------------------
(* The steps of the writer.                                                 *)
LEMMA WriterReadyKeeps == ASSUME RingInv, WriterReady PROVE RingInv'
<1> USE DEF RingInv
<1>1. /\ writer' = [writer EXCEPT !.pc = "idle"] /\ writer.pc = "wait_ready"
      /\ UNCHANGED <<written, readFlag, overflow, body, subscribed, reader, sent, received>>
      /\ sent = <<>> /\ Len(sent) = 0 /\ subscribed = Reader
      /\ \A r \in Reader : /\ socket[r] = <<>> /\ reader[r].pc = "wait_ready"
                           /\ received[r] = <<>> /\ Len(received[r]) = 0
  BY DEF WriterReady, HandshakeInv
<1>2. /\ socket' \in [Reader -> Seq(Message \cup {READY})]
      /\ \A r \in Reader : Len(socket'[r]) = 1 /\ socket'[r][1] = READY
  <2>1. socket' = [r \in Reader |-> Append(<<>>, READY)]
    BY <1>1, Zenon DEF WriterReady, Published
  <2>. QED
    BY <2>1
<1>3. writer'.pc = "idle" /\ writer'.idx = writer.idx /\ writer'.reset = writer.reset
  BY <1>1 DEF RingTypeOK, WriterState
<1>4. /\ Oldest' = Oldest /\ PublishedUpTo' = 0
      /\ \A r \in Reader : Taken(r)' = Taken(r)
  BY <1>1, <1>3 DEF Oldest, Writing, PublishedUpTo, Taken
<1>5. RingTypeOK'
  <2>1. writer' \in WriterState
    BY <1>1 DEF RingTypeOK, WriterState
  <2>. QED
    BY <2>1, <1>1, <1>2 DEF RingTypeOK
<1>6. HandshakeInv' /\ PositionInv' /\ ObjectInv'
  BY <1>1, <1>3, <1>4 DEF HandshakeInv, PositionInv, ObjectInv, Writing
<1>7. HeldInv' /\ FreshInv' /\ FillingInv'
  BY <1>1, <1>3, <1>4 DEF HeldInv, HeldOK, FreshInv, FillingInv, Writing
<1>8. ReadingInv' /\ ReceivedInv'
  BY <1>1, <1>4 DEF ReadingInv, ReadingOK, ReceivedInv, Reading
<1>9. SocketInv'
  BY <1>1, <1>2, <1>3, <1>4 DEF SocketInv, SocketOK
<1>. QED
  BY <1>5, <1>6, <1>7, <1>8, <1>9

LEMMA BeginEnqueueKeeps ==
  ASSUME RingInv, NEW large \in BOOLEAN, BeginEnqueue(large) PROVE RingInv'
<1> USE DEF RingInv
<1>1. /\ writer.pc = "idle" /\ Len(sent) < MaxMessages
      /\ UNCHANGED <<written, readFlag, overflow, body, subscribed, socket, reader, sent, received>>
  BY DEF BeginEnqueue, shared
<1>2. /\ writer'.pc = "acquire" /\ writer'.idx = writer.idx /\ writer'.reset = writer.reset
      /\ writer'.obj = [id |-> Len(sent) + 1, large |-> large]
  BY DEF RingTypeOK, WriterState, BeginEnqueue
<1>3. writer'.obj \in Message /\ writer'.obj.id = Len(sent) + 1
  BY <1>1, <1>2, Counts, RingAssumption DEF Message
<1>4. /\ Oldest' = Oldest /\ PublishedUpTo' = PublishedUpTo
      /\ \A r \in Reader : Taken(r)' = Taken(r)
  BY <1>1, <1>2 DEF Oldest, Writing, PublishedUpTo, Taken
<1>5. RingTypeOK'
  <2>1. writer' \in WriterState
    BY <1>3 DEF RingTypeOK, BeginEnqueue, WriterState
  <2>. QED
    BY <2>1, <1>1 DEF RingTypeOK
<1>6. HandshakeInv' /\ PositionInv' /\ ObjectInv'
  BY <1>1, <1>2, <1>3, <1>4 DEF HandshakeInv, PositionInv, ObjectInv, Writing
<1>7. HeldInv' /\ FreshInv' /\ FillingInv'
  BY <1>1, <1>2, <1>4 DEF HeldInv, HeldOK, FreshInv, FillingInv, Writing
<1>8. ReadingInv' /\ ReceivedInv'
  BY <1>1, <1>4 DEF ReadingInv, ReadingOK, ReceivedInv, Reading
<1>9. SocketInv'
  <2> SUFFICES ASSUME NEW r \in Reader PROVE SocketOK(r)'
    BY DEF SocketInv, SocketOK
  <2>. QED
    BY <1>1, <1>2, <1>4 DEF SocketInv, SocketOK
<1>. QED
  BY <1>5, <1>6, <1>7, <1>8, <1>9

(* The chunk the writer is at is not the chunk of a message the ring holds,   *)
(* once acquire_write has taken it.                                         *)
LEMMA HeldElsewhere ==
  ASSUME RingInv, NEW n \in 0..(Len(sent) - 1), n > Len(sent) - MaxChunks
  PROVE  Slot(n) \in Chunk /\ Slot(n) # writer.idx
<1>1. n \in Nat /\ Len(sent) \in Nat /\ n < Len(sent) /\ Len(sent) < n + MaxChunks
  BY Counts, RingAssumption DEF RingInv
<1>. QED
  BY <1>1, SlotApart, SlotType DEF RingInv, PositionInv

(* acquire_write returns only when every reader is done with the message the  *)
(* chunk held.                                                             *)
LEMMA AllDone ==
  ASSUME RingInv, AcquireWrite, NEW r \in Reader
  PROVE  Len(sent) - MaxChunks < Taken(r)
<1> USE RingAssumption DEF RingInv
<1> DEFINE n == Len(sent) - MaxChunks
<1>1. Len(sent) \in Nat /\ Taken(r) \in Nat /\ n \in Int
  BY Counts
<1>2. CASE Len(sent) < MaxChunks
  BY <1>1, <1>2
<1>3. CASE Len(sent) >= MaxChunks
  <2>1. n \in 0..(Len(sent) - 1) /\ n + MaxChunks = Len(sent) /\ n \in Nat
    BY <1>1, <1>3
  <2>2. Oldest <= n
    BY <1>1 DEF Oldest, Writing, AcquireWrite
  <2>3. writer.idx = Slot(n)
    BY <2>1, SlotWraps DEF PositionInv
  <2> HIDE DEF n
  <2>4. written[writer.idx] = 1 /\ readFlag[writer.idx][r] = IF n < Taken(r) THEN 1 ELSE 0
    BY <2>1, <2>2, <2>3 DEF HeldInv, HeldOK
  <2>5. Cardinality({q \in Reader : readFlag[writer.idx][q] = 1}) = NReader
    BY <2>4 DEF AcquireWrite, ReadCount
  <2>6. IsFiniteSet(Reader) /\ Cardinality(Reader) = NReader
    BY FS_Interval DEF Reader
  <2>7. {q \in Reader : readFlag[writer.idx][q] = 1} = Reader
    BY <2>5, <2>6, FS_Subset
  <2>8. n < Taken(r)
    BY <2>4, <2>7
  <2>. QED
    BY <2>8 DEF n
<1>. QED
  BY <1>1, <1>2, <1>3

LEMMA AcquireWriteKeeps == ASSUME RingInv, AcquireWrite PROVE RingInv'
<1> USE DEF RingInv
<1>1. /\ writer.pc = "acquire"
      /\ UNCHANGED <<readFlag, overflow, body, subscribed, socket, reader, sent, received>>
      /\ written' = [written EXCEPT ![writer.idx] = 0]
  BY DEF AcquireWrite
<1>2. /\ writer'.pc = "header" /\ writer'.idx = writer.idx /\ writer'.reset = writer.reset
      /\ writer'.obj = writer.obj
  BY DEF RingTypeOK, WriterState, AcquireWrite
<1>3. /\ Oldest' = Len(sent) - MaxChunks + 1 /\ Oldest = Len(sent) - MaxChunks
      /\ PublishedUpTo' = PublishedUpTo
      /\ \A r \in Reader : Taken(r)' = Taken(r)
  BY <1>1, <1>2, Counts, RingAssumption DEF Oldest, Writing, PublishedUpTo, Taken
<1>4. Len(sent) \in Nat /\ MaxChunks \in Nat /\ \A r \in Reader : Taken(r) \in Nat
  BY Counts, RingAssumption
<1>5. RingTypeOK'
  <2>1. written' \in [Chunk -> {0, 1}]
    BY <1>1 DEF RingTypeOK
  <2>2. writer' \in WriterState
    BY DEF RingTypeOK, AcquireWrite, WriterState
  <2>. QED
    BY <2>1, <2>2, <1>1 DEF RingTypeOK
<1>6. PositionInv'
  BY <1>1, <1>2, <1>3, <1>4, AllDone DEF PositionInv
<1>7. HandshakeInv' /\ ObjectInv'
  BY <1>1, <1>2 DEF HandshakeInv, ObjectInv, Writing
<1>8. HeldInv'
  <2> SUFFICES ASSUME NEW n \in 0..(Len(sent) - 1), Oldest' <= n
               PROVE  HeldOK(n)'
    BY <1>1 DEF HeldInv, HeldOK
  <2>1. n > Len(sent) - MaxChunks /\ Oldest <= n
    BY <1>3, <1>4
  <2>2. written'[Slot(n)] = written[Slot(n)]
    BY <2>1, <1>1, HeldElsewhere DEF RingTypeOK
  <2>. QED
    BY <2>1, <2>2, <1>1, <1>3 DEF HeldInv, HeldOK
<1>9. FreshInv' /\ FillingInv'
  BY <1>1, <1>2 DEF FreshInv, FillingInv, Writing, RingTypeOK, WriterState
<1>10. ReadingInv' /\ ReceivedInv'
  BY <1>1, <1>3 DEF ReadingInv, ReadingOK, ReceivedInv, Reading
<1>11. SocketInv'
  <2> SUFFICES ASSUME NEW r \in Reader PROVE SocketOK(r)'
    BY DEF SocketInv
  <2>. QED
    BY <1>1, <1>2, <1>3 DEF SocketInv, SocketOK
<1>. QED
  BY <1>5, <1>6, <1>7, <1>8, <1>9, <1>10, <1>11

LEMMA WriteHeaderKeeps == ASSUME RingInv, WriteHeader PROVE RingInv'
<1> USE DEF RingInv
<1>1. /\ writer.pc = "header" /\ Writing /\ Writing'
      /\ UNCHANGED <<written, readFlag, body, subscribed, socket, reader, sent, received>>
      /\ overflow' = [overflow EXCEPT ![writer.idx] = IF writer.obj.large THEN 1 ELSE 0]
  BY DEF WriteHeader, Writing, RingTypeOK, WriterState
<1>2. /\ writer'.pc = (IF writer.obj.large THEN "reset" ELSE "body")
      /\ writer'.idx = writer.idx /\ writer'.reset = writer.reset
      /\ writer'.obj = writer.obj
  BY DEF RingTypeOK, WriterState, WriteHeader
<1>3. /\ Oldest' = Oldest /\ Oldest = Len(sent) - MaxChunks + 1
      /\ PublishedUpTo' = PublishedUpTo
      /\ \A r \in Reader : Taken(r)' = Taken(r)
  BY <1>1, <1>2 DEF Oldest, PublishedUpTo, Taken
<1>4. Len(sent) \in Nat /\ MaxChunks \in Nat
  BY Counts, RingAssumption
<1>5. RingTypeOK'
  <2>1. overflow' \in [Chunk -> {0, 1}]
    BY <1>1 DEF RingTypeOK
  <2>2. writer' \in WriterState
    BY DEF RingTypeOK, WriteHeader, WriterState
  <2>. QED
    BY <2>1, <2>2, <1>1 DEF RingTypeOK
<1>6. HandshakeInv' /\ PositionInv' /\ ObjectInv'
  BY <1>1, <1>2, <1>3 DEF HandshakeInv, PositionInv, ObjectInv
<1>7. HeldInv'
  <2> SUFFICES ASSUME NEW n \in 0..(Len(sent) - 1), Oldest <= n
               PROVE  HeldOK(n)'
    BY <1>1, <1>3 DEF HeldInv
  <2>1. overflow'[Slot(n)] = overflow[Slot(n)]
    BY <1>1, <1>3, <1>4, HeldElsewhere DEF RingTypeOK
  <2>. QED
    BY <2>1, <1>1, <1>3 DEF HeldInv, HeldOK
<1>8. FreshInv' /\ FillingInv'
  BY <1>1, <1>2 DEF FreshInv, FillingInv, RingTypeOK, WriterState
<1>9. ReadingInv' /\ ReceivedInv'
  BY <1>1, <1>3 DEF ReadingInv, ReadingOK, ReceivedInv, Reading
<1>10. SocketInv'
  <2> SUFFICES ASSUME NEW r \in Reader PROVE SocketOK(r)'
    BY DEF SocketInv
  <2>. QED
    BY <1>1, <1>2, <1>3 DEF SocketInv, SocketOK
<1>. QED
  BY <1>5, <1>6, <1>7, <1>8, <1>9, <1>10

LEMMA WriteBodyKeeps == ASSUME RingInv, WriteBody PROVE RingInv'
<1> USE DEF RingInv
<1>1. /\ writer.pc = "body" /\ Writing /\ Writing' /\ ~writer.obj.large
      /\ UNCHANGED <<written, readFlag, overflow, subscribed, socket, reader, sent, received>>
      /\ body' = [body EXCEPT ![writer.idx] = writer.obj]
  BY DEF WriteBody, Writing, RingTypeOK, WriterState, ObjectInv
<1>2. /\ writer'.pc = "reset" /\ writer'.idx = writer.idx /\ writer'.reset = writer.reset
      /\ writer'.obj = writer.obj
  BY DEF RingTypeOK, WriterState, WriteBody
<1>3. /\ Oldest' = Oldest /\ Oldest = Len(sent) - MaxChunks + 1
      /\ PublishedUpTo' = PublishedUpTo
      /\ \A r \in Reader : Taken(r)' = Taken(r)
  BY <1>1, <1>2 DEF Oldest, PublishedUpTo, Taken
<1>4. Len(sent) \in Nat /\ MaxChunks \in Nat
  BY Counts, RingAssumption
<1>5. RingTypeOK'
  <2>1. body' \in [Chunk -> Message \cup {NoMessage}]
    BY <1>1 DEF RingTypeOK, WriterState
  <2>2. writer' \in WriterState
    BY DEF RingTypeOK, WriteBody, WriterState
  <2>. QED
    BY <2>1, <2>2, <1>1 DEF RingTypeOK
<1>6. HandshakeInv' /\ PositionInv' /\ ObjectInv'
  BY <1>1, <1>2, <1>3 DEF HandshakeInv, PositionInv, ObjectInv
<1>7. HeldInv'
  <2> SUFFICES ASSUME NEW n \in 0..(Len(sent) - 1), Oldest <= n
               PROVE  HeldOK(n)'
    BY <1>1, <1>3 DEF HeldInv
  <2>1. body'[Slot(n)] = body[Slot(n)]
    BY <1>1, <1>3, <1>4, HeldElsewhere DEF RingTypeOK
  <2>. QED
    BY <2>1, <1>1, <1>3 DEF HeldInv, HeldOK
<1>8. FreshInv' /\ FillingInv'
  BY <1>1, <1>2 DEF FreshInv, FillingInv, RingTypeOK, WriterState
<1>9. ReadingInv' /\ ReceivedInv'
  BY <1>1, <1>3 DEF ReadingInv, ReadingOK, ReceivedInv, Reading
<1>10. SocketInv'
  <2> SUFFICES ASSUME NEW r \in Reader PROVE SocketOK(r)'
    BY DEF SocketInv
  <2>. QED
    BY <1>1, <1>2, <1>3 DEF SocketInv, SocketOK
<1>. QED
  BY <1>5, <1>6, <1>7, <1>8, <1>9, <1>10

LEMMA ResetFlagKeeps == ASSUME RingInv, ResetFlag PROVE RingInv'
<1> USE DEF RingInv
<1> DEFINE q == writer.reset + 1
<1>0. q \in Reader /\ writer.reset \in 0..(NReader - 1) /\ writer.idx \in Chunk
  BY RingAssumption DEF RingTypeOK, WriterState, Reader
<1>1. /\ writer.pc = "reset" /\ Writing /\ Writing'
      /\ UNCHANGED <<written, overflow, body, subscribed, socket, reader, sent, received>>
      /\ readFlag' = [readFlag EXCEPT ![writer.idx][q] = 0]
  BY DEF ResetFlag, Writing, RingTypeOK, WriterState
<1>2. /\ writer'.pc = (IF q = NReader THEN "mark" ELSE "reset")
      /\ writer'.idx = writer.idx /\ writer'.reset = (IF q = NReader THEN 0 ELSE q)
      /\ writer'.obj = writer.obj
  BY DEF RingTypeOK, WriterState, ResetFlag
<1>3. /\ Oldest' = Oldest /\ Oldest = Len(sent) - MaxChunks + 1
      /\ PublishedUpTo' = PublishedUpTo
      /\ \A r \in Reader : Taken(r)' = Taken(r)
  BY <1>1, <1>2 DEF Oldest, PublishedUpTo, Taken
<1>4. Len(sent) \in Nat /\ MaxChunks \in Nat
  BY Counts, RingAssumption
<1>5. RingTypeOK'
  <2>1. readFlag' \in [Chunk -> [Reader -> {0, 1}]]
    BY <1>1 DEF RingTypeOK
  <2>2. writer' \in WriterState
    <3>1. (IF q = NReader THEN 0 ELSE q) \in 0..(NReader - 1)
      BY <1>0, RingAssumption DEF Reader
    <3>. QED
      BY <3>1 DEF RingTypeOK, ResetFlag, WriterState
  <2>. QED
    BY <2>1, <2>2, <1>1 DEF RingTypeOK
<1>6. HandshakeInv' /\ PositionInv' /\ ObjectInv'
  BY <1>1, <1>2, <1>3 DEF HandshakeInv, PositionInv, ObjectInv
<1>7. HeldInv'
  <2> SUFFICES ASSUME NEW n \in 0..(Len(sent) - 1), Oldest <= n
               PROVE  HeldOK(n)'
    BY <1>1, <1>3 DEF HeldInv
  <2>1. readFlag'[Slot(n)] = readFlag[Slot(n)]
    BY <1>1, <1>3, <1>4, HeldElsewhere DEF RingTypeOK
  <2>. QED
    BY <2>1, <1>1, <1>3 DEF HeldInv, HeldOK
<1>8. FreshInv'
  BY <1>1 DEF FreshInv
<1>9. \A r \in 1..q : readFlag'[writer.idx][r] = 0
  <2> SUFFICES ASSUME NEW r \in 1..q PROVE readFlag'[writer.idx][r] = 0
    OBVIOUS
  <2>1. r \in Reader /\ (r = q \/ r \in 1..writer.reset)
    BY <1>0, RingAssumption DEF Reader
  <2>2. r # q => readFlag[writer.idx][r] = 0
    BY <2>1, <1>1 DEF FillingInv
  <2>. QED
    BY <2>1, <2>2, <1>0, <1>1 DEF RingTypeOK
<1>10. FillingInv'
  BY <1>0, <1>1, <1>2, <1>9 DEF FillingInv, Reader
<1>11. ReadingInv' /\ ReceivedInv'
  <2>1. \A c \in Chunk, r \in Reader : readFlag[c][r] = 0 => readFlag'[c][r] = 0
    BY <1>0, <1>1 DEF RingTypeOK
  <2>2. \A r \in Reader : reader[r].idx \in Chunk
    BY DEF RingTypeOK, ReaderState
  <2>. QED
    BY <2>1, <2>2, <1>1, <1>3 DEF ReadingInv, ReadingOK, ReceivedInv, Reading
<1>12. SocketInv'
  <2> SUFFICES ASSUME NEW r \in Reader PROVE SocketOK(r)'
    BY DEF SocketInv
  <2>. QED
    BY <1>1, <1>2, <1>3, SMTT(30) DEF SocketInv, SocketOK
<1>. QED
  BY <1>5, <1>6, <1>7, <1>8, <1>10, <1>11, <1>12

LEMMA MarkWrittenKeeps == ASSUME RingInv, MarkWritten PROVE RingInv'
<1> USE DEF RingInv
<1> DEFINE W == Len(sent)
<1>1. /\ writer.pc = "mark" /\ Writing /\ ~Writing'
      /\ UNCHANGED <<readFlag, overflow, body, subscribed, socket, reader, received>>
      /\ written' = [written EXCEPT ![writer.idx] = 1]
      /\ writer.obj \in Message /\ writer.obj.id = W + 1
      /\ sent' = Append(sent, writer.obj)
  BY DEF MarkWritten, Writing, RingTypeOK, WriterState, ObjectInv
<1>2. /\ writer'.pc = (IF writer.obj.large THEN "send" ELSE "idle")
      /\ writer'.idx = NextIdx(writer.idx) /\ writer'.reset = writer.reset
      /\ writer'.obj = writer.obj
  BY DEF RingTypeOK, WriterState, MarkWritten
<1>3. W \in Nat /\ MaxChunks \in Nat \ {0} /\ writer.idx \in Chunk
  BY Counts, RingAssumption DEF RingTypeOK, WriterState
<1>4. /\ sent' \in Seq(Message) /\ Len(sent') = W + 1
      /\ sent'[W + 1] = writer.obj
      /\ \A j \in 1..W : sent'[j] = sent[j]
  BY <1>1 DEF RingTypeOK
<1>5. /\ writer.idx = Slot(W) /\ writer'.idx = Slot(W + 1) /\ writer'.idx \in Chunk
  BY <1>2, <1>3, SlotNext, SlotType DEF PositionInv
<1>6. /\ Oldest' = Oldest /\ Oldest = W - MaxChunks + 1
      /\ PublishedUpTo = W
      /\ PublishedUpTo' = IF writer.obj.large THEN W ELSE W + 1
      /\ \A r \in Reader : Taken(r)' = Taken(r) /\ Taken(r) \in Nat /\ Len(received[r]) \in Nat
  <2>1. Oldest' = Oldest /\ Oldest = W - MaxChunks + 1
    BY <1>1, <1>3, <1>4 DEF Oldest
  <2>2. PublishedUpTo = W
    BY <1>1, <1>3 DEF PublishedUpTo
  <2>3. PublishedUpTo' = IF writer.obj.large THEN W ELSE W + 1
    <3>1. CASE writer.obj.large
      BY <3>1, <1>2, <1>3, <1>4 DEF PublishedUpTo
    <3>2. CASE ~writer.obj.large
      BY <3>2, <1>2, <1>3, <1>4 DEF PublishedUpTo
    <3>. QED
      BY <3>1, <3>2
  <2>4. \A r \in Reader : Taken(r)' = Taken(r) /\ Taken(r) \in Nat /\ Len(received[r]) \in Nat
    BY <1>1, Counts DEF Taken
  <2>. QED
    BY <2>1, <2>2, <2>3, <2>4
<1> HIDE DEF W
<1>7. RingTypeOK'
  <2>1. written' \in [Chunk -> {0, 1}]
    BY <1>1 DEF RingTypeOK
  <2>2. writer' \in WriterState
    BY <1>5 DEF RingTypeOK, MarkWritten, WriterState
  <2>. QED
    BY <2>1, <2>2, <1>1, <1>4 DEF RingTypeOK
<1>8. HandshakeInv'
  BY <1>1, <1>2 DEF HandshakeInv
<1>9. PositionInv'
  BY <1>1, <1>3, <1>4, <1>5, <1>6 DEF PositionInv, W
<1>10. ObjectInv'
  BY <1>1, <1>2, <1>3, <1>4 DEF ObjectInv, W
<1>11. HeldInv'
  <2> SUFFICES ASSUME NEW n \in 0..W, Oldest <= n
               PROVE  HeldOK(n)'
    BY <1>3, <1>4, <1>6 DEF HeldInv
  <2>1. CASE n = W
    <3>1. \A r \in Reader : readFlag[writer.idx][r] = 0 /\ ~(W < Taken(r))
      BY <1>1, <1>3, <1>6 DEF FillingInv, PositionInv, W
    <3>2. /\ overflow[writer.idx] = IF writer.obj.large THEN 1 ELSE 0
          /\ ~writer.obj.large => body[writer.idx] = writer.obj
      BY <1>1 DEF FillingInv
    <3>3. written'[writer.idx] = 1
      BY <1>1, <1>3 DEF RingTypeOK
    <3>. QED
      BY <2>1, <3>1, <3>2, <3>3, <1>1, <1>4, <1>5, <1>6 DEF HeldOK
  <2>2. CASE n # W
    <3>1. n \in 0..(W - 1) /\ n > W - MaxChunks /\ n + 1 \in 1..W
      BY <2>2, <1>3, <1>6
    <3>2. written'[Slot(n)] = written[Slot(n)]
      BY <3>1, <1>1, HeldElsewhere DEF RingTypeOK, W
    <3>3. HeldOK(n)
      BY <3>1 DEF HeldInv, W
    <3>. QED
      BY <3>1, <3>2, <3>3, <1>1, <1>4, <1>6 DEF HeldOK
  <2>. QED
    BY <2>1, <2>2
<1>12. FreshInv'
  <2> SUFFICES ASSUME NEW c \in Chunk, W + 1 <= c
               PROVE  written'[c] = 0
    BY <1>4 DEF FreshInv
  <2>1. W < MaxChunks /\ c # W /\ W <= c
    BY <1>3 DEF Chunk
  <2>2. writer.idx = W
    BY <2>1, <1>3, <1>5, SlotSmall
  <2>. QED
    BY <2>1, <2>2, <1>1 DEF FreshInv, RingTypeOK, W
<1>13. FillingInv'
  BY <1>1, <1>2 DEF FillingInv, Writing
<1>14. ReadingInv' /\ ReceivedInv'
  <2>1. \A r \in Reader : ReadingOK(r)'
    <3> SUFFICES ASSUME NEW r \in Reader PROVE ReadingOK(r)'
      OBVIOUS
    <3>1. ReadingOK(r) /\ Taken(r) <= W /\ Taken(r)' = Taken(r)
      BY <1>6 DEF ReadingInv, PositionInv, W
    <3>2. Reading(r) => Taken(r) + 1 \in 1..W
      BY <3>1, <1>6, <1>3 DEF ReadingOK, W
    <3>3. reader[r].pc = "recv" => Len(received[r]) + 1 \in 1..W
      BY <3>1, <1>6, <1>3 DEF Taken
    <3>. QED
      BY <3>1, <3>2, <3>3, <1>1, <1>3, <1>4, <1>6 DEF ReadingOK, Reading, W
  <2>2. ReceivedInv'
    BY <1>1, <1>3, <1>4, <1>6 DEF ReceivedInv
  <2>. QED
    BY <2>1, <2>2 DEF ReadingInv
<1>15. SocketInv'
  <2> SUFFICES ASSUME NEW r \in Reader PROVE SocketOK(r)'
    BY DEF SocketInv
  <2> DEFINE L == Len(received[r])
  <2>1. \A j \in (L + 1)..PublishedUpTo :
           j \in 1..W /\ j \in (L + 1)..PublishedUpTo' /\ sent'[j] = sent[j]
    BY <1>3, <1>4, <1>6
  <2>2. \A j \in (L + 1)..PublishedUpTo' :
           sent'[j].large => j \in (L + 1)..PublishedUpTo
    BY <1>3, <1>4, <1>6
  <2>3. SocketOK(r)
    BY DEF SocketInv
  <2>4. \A i \in 1..Len(socket[r]) :
           \/ socket[r][i] = READY /\ reader[r].pc = "wait_ready"
           \/ \E j \in (L + 1)..PublishedUpTo' : socket[r][i] = sent'[j] /\ sent'[j].large
    BY <2>1, <2>3 DEF SocketOK
  <2>5. \A j \in (L + 1)..PublishedUpTo' :
           sent'[j].large => \E i \in 1..Len(socket[r]) : socket[r][i] = sent'[j]
    BY <2>1, <2>2, <2>3 DEF SocketOK
  <2>. QED
    BY <2>3, <2>4, <2>5, <1>1, <1>2, ZenonT(60) DEF SocketOK
<1>. QED
  BY <1>7, <1>8, <1>9, <1>10, <1>11, <1>12, <1>13, <1>14, <1>15

LEMMA SendOverflowKeeps == ASSUME RingInv, SendOverflow PROVE RingInv'
<1> USE DEF RingInv
<1> DEFINE W == Len(sent)
<1>1. /\ writer.pc = "send" /\ ~Writing /\ ~Writing' /\ writer' = [writer EXCEPT !.pc = "idle"]
      /\ UNCHANGED <<written, readFlag, overflow, body, subscribed, reader, sent, received>>
      /\ writer'.pc = "idle" /\ writer'.idx = writer.idx /\ writer'.reset = writer.reset
  BY DEF SendOverflow, Writing, RingTypeOK, WriterState
<1>2. W \in Nat \ {0} /\ writer.obj = sent[W] /\ sent[W].large /\ sent[W].id = W
  BY <1>1 DEF ObjectInv, RingTypeOK
<1>3. sent[W] \in Message
  BY <1>2 DEF RingTypeOK
<1>4. /\ Oldest' = Oldest /\ PublishedUpTo' = W /\ PublishedUpTo = W - 1
      /\ \A r \in Reader : Taken(r)' = Taken(r)
  BY <1>1 DEF Oldest, PublishedUpTo, Taken
<1>5. socket' = [r \in Reader |-> Append(socket[r], sent[W])]
  BY <1>1, <1>2 DEF SendOverflow, Published, HandshakeInv
<1> HIDE DEF W
<1>6. RingTypeOK'
  <2>1. socket' \in [Reader -> Seq(Message \cup {READY})]
    BY <1>3, <1>5 DEF RingTypeOK
  <2>2. writer' \in WriterState
    BY <1>1 DEF RingTypeOK, WriterState
  <2>. QED
    BY <2>1, <2>2, <1>1 DEF RingTypeOK
<1>7. HandshakeInv' /\ PositionInv' /\ ObjectInv'
  BY <1>1, <1>4 DEF HandshakeInv, PositionInv, ObjectInv
<1>8. HeldInv' /\ FreshInv' /\ FillingInv'
  BY <1>1, <1>4 DEF HeldInv, HeldOK, FreshInv, FillingInv
<1>9. ReadingInv'
  BY <1>1, <1>4 DEF ReadingInv, ReadingOK, Reading
<1>10. \A r \in Reader : Len(received[r]) \in Nat /\ Len(received[r]) <= W - 1
  BY <1>4, Counts DEF ReceivedInv
<1>11. ReceivedInv'
  BY <1>1, <1>2, <1>4, <1>10 DEF ReceivedInv
<1>12. SocketInv'
  <2> SUFFICES ASSUME NEW r \in Reader PROVE SocketOK(r)'
    BY DEF SocketInv
  <2> DEFINE S == socket[r]
             L == Len(received[r])
  <2>1. S \in Seq(Message \cup {READY}) /\ L \in Nat /\ L < W /\ received'[r] = received[r]
    BY <1>1, <1>2, <1>10 DEF RingTypeOK
  <2>2. /\ Len(S) \in Nat /\ Len(socket'[r]) = Len(S) + 1 /\ socket'[r][Len(S) + 1] = sent[W]
        /\ \A i \in 1..Len(S) : socket'[r][i] = S[i]
    BY <2>1, <1>3, <1>5
  <2>3. \A i \in 1..Len(S) : S[i].id < W
    <3> SUFFICES ASSUME NEW i \in 1..Len(S) PROVE S[i].id < W
      OBVIOUS
    <3>1. CASE S[i] = READY
      BY <3>1, <1>2 DEF READY
    <3>2. ASSUME NEW j \in (L + 1)..(W - 1), S[i] = sent[j] PROVE S[i].id < W
      <4>1. j \in 1..W /\ j < W
        BY <1>2, <2>1
      <4>. QED
        BY <4>1, <3>2 DEF ObjectInv, W
    <3>. QED
      BY <3>1, <3>2, <1>4 DEF SocketInv, SocketOK
  <2> HIDE DEF S, L
  <2>4. SocketOK(r)
    BY DEF SocketInv
  <2>5. \A i, k \in 1..Len(socket'[r]) : i < k => socket'[r][i].id < socket'[r][k].id
    <3> SUFFICES ASSUME NEW i \in 1..Len(socket'[r]), NEW k \in 1..Len(socket'[r]), i < k
                 PROVE  socket'[r][i].id < socket'[r][k].id
      OBVIOUS
    <3>1. i \in 1..Len(S)
      BY <2>2
    <3>2. CASE k = Len(S) + 1
      BY <3>1, <3>2, <2>2, <2>3, <1>2
    <3>3. CASE k \in 1..Len(S)
      BY <3>1, <3>3, <2>2, <2>4 DEF SocketOK, S
    <3>. QED
      BY <3>2, <3>3, <2>2
  <2>6. ASSUME NEW i \in 1..Len(socket'[r])
        PROVE  \/ socket'[r][i] = READY /\ reader'[r].pc = "wait_ready"
               \/ \E j \in (L + 1)..W : socket'[r][i] = sent[j] /\ sent[j].large
    <3>1. CASE i = Len(S) + 1
      BY <3>1, <2>1, <2>2, <1>2
    <3>2. CASE i \in 1..Len(S)
      BY <3>2, <2>1, <2>2, <2>4, <1>1, <1>2, <1>4 DEF SocketOK, S, L
    <3>. QED
      BY <3>1, <3>2, <2>2
  <2>7. ASSUME NEW j \in (L + 1)..W, sent[j].large
        PROVE  \E i \in 1..Len(socket'[r]) : socket'[r][i] = sent[j]
    <3>1. CASE j = W
      BY <3>1, <2>2
    <3>2. CASE j # W
      BY <3>2, <2>7, <2>1, <2>2, <2>4, <1>2, <1>4, SMTT(30) DEF SocketOK, S, L
    <3>. QED
      BY <3>1, <3>2
  <2>8. reader'[r].pc = "wait_ready" => \E i \in 1..Len(socket'[r]) : socket'[r][i] = READY
    BY <2>2, <2>4, <1>1 DEF SocketOK, S
  <2>. QED
    BY <2>5, <2>6, <2>7, <2>8, <1>1, <1>4 DEF SocketOK, L
<1>. QED
  BY <1>6, <1>7, <1>8, <1>9, <1>11, <1>12

-------------------------------------------------------------------------------
(* The steps of the readers.                                                *)
Polling == {"poll", "check", "header", "body", "release"}

(* A reader that loads from shared memory changes its own state only.        *)
LEMMA LoadKeeps ==
  ASSUME RingInv, NEW p \in Reader,
         UNCHANGED <<shared, writer, sent, received>>,
         reader' \in [Reader -> ReaderState],
         \A r \in Reader \ {p} : reader'[r] = reader[r],
         reader'[p].idx = reader[p].idx,
         reader[p].pc \in Polling, reader'[p].pc \in Polling,
         ReadingOK(p)'
  PROVE  RingInv'
<1> USE DEF RingInv
<1>1. UNCHANGED <<written, readFlag, overflow, body, subscribed, socket, writer, sent, received>>
  BY DEF shared
<1>2. \A r \in Reader :
        /\ reader'[r].idx = reader[r].idx
        /\ reader'[r].pc = reader[r].pc \/ (reader[r].pc \in Polling /\ reader'[r].pc \in Polling)
  OBVIOUS
<1>3. Oldest' = Oldest /\ PublishedUpTo' = PublishedUpTo /\ \A r \in Reader : Taken(r)' = Taken(r)
  BY <1>1, <1>2 DEF Oldest, PublishedUpTo, Taken, Writing, Polling
<1>4. RingTypeOK'
  BY <1>1 DEF RingTypeOK
<1>5. HandshakeInv'
  BY <1>1, <1>2 DEF HandshakeInv, Polling
<1>6. PositionInv' /\ ObjectInv'
  BY <1>1, <1>2, <1>3 DEF PositionInv, ObjectInv, Writing
<1>7. HeldInv' /\ FreshInv' /\ FillingInv'
  BY <1>1, <1>3 DEF HeldInv, HeldOK, FreshInv, FillingInv, Writing
<1>8. ReadingInv'
  <2> SUFFICES ASSUME NEW r \in Reader, r # p PROVE ReadingOK(r)'
    BY DEF ReadingInv
  <2>1. reader'[r] = reader[r] /\ ReadingOK(r)
    BY DEF ReadingInv
  <2>. QED
    BY <2>1, <1>1, <1>3 DEF ReadingOK, Reading
<1>9. ReceivedInv'
  BY <1>1, <1>3 DEF ReceivedInv
<1>10. SocketInv'
  <2> SUFFICES ASSUME NEW r \in Reader PROVE SocketOK(r)'
    BY DEF SocketInv
  <2>1. reader'[r].pc = "wait_ready" <=> reader[r].pc = "wait_ready"
    BY <1>2 DEF Polling
  <2>. QED
    BY <2>1, <1>1, <1>3 DEF SocketInv, SocketOK
<1>. QED
  BY <1>4, <1>5, <1>6, <1>7, <1>8, <1>9, <1>10

LEMMA PollReadFlagKeeps ==
  ASSUME RingInv, NEW r \in Reader, PollReadFlag(r) PROVE RingInv'
<1> USE DEF RingInv
<1>1. /\ reader[r].pc = "poll" /\ readFlag[reader[r].idx][r] = 0
      /\ UNCHANGED <<shared, writer, sent, received>> /\ readFlag' = readFlag
      /\ reader' \in [Reader -> ReaderState]
      /\ \A q \in Reader \ {r} : reader'[q] = reader[q]
      /\ reader'[r].idx = reader[r].idx /\ reader'[r].pc = "check"
  BY SMTT(30), ZenonT(60) DEF PollReadFlag, RingTypeOK, ReaderState, shared
<1>2. ReadingOK(r)'
  BY <1>1 DEF ReadingOK, Reading
<1>. QED
  BY <1>1, <1>2, LoadKeeps DEF Polling

(* A chunk that is unread by r and marked is one of a message r is owed.      *)
LEMMA PollWrittenKeeps ==
  ASSUME RingInv, NEW r \in Reader, PollWritten(r) PROVE RingInv'
<1> USE DEF RingInv
<1>1. /\ reader[r].pc = "check" /\ received' = received
      /\ UNCHANGED <<shared, writer, sent, received>> /\ readFlag' = readFlag
      /\ reader' \in [Reader -> ReaderState]
      /\ \A q \in Reader \ {r} : reader'[q] = reader[q]
      /\ reader'[r].idx = reader[r].idx
      /\ reader'[r].pc = IF written[reader[r].idx] = 1 THEN "header" ELSE "poll"
  BY SMTT(30), ZenonT(60) DEF PollWritten, RingTypeOK, ReaderState, shared
<1>2. readFlag[reader[r].idx][r] = 0
  BY <1>1 DEF ReadingInv, ReadingOK
<1>3. written[reader[r].idx] = 1 => Taken(r) < Len(sent)
  <2> SUFFICES ASSUME Taken(r) = Len(sent) PROVE written[reader[r].idx] = 0
    BY Counts DEF PositionInv
  <2>1. reader[r].idx = writer.idx /\ Len(sent) \in Nat /\ Taken(r) \in Nat
    BY Counts DEF PositionInv
  <2>2. CASE Writing
    BY <2>1, <2>2 DEF FillingInv
  <2>3. CASE Len(sent) < MaxChunks
    BY <2>1, <2>3, SlotSmall, RingAssumption DEF PositionInv, FreshInv, Chunk
  <2>4. CASE ~Writing /\ Len(sent) >= MaxChunks
    <3> DEFINE n == Len(sent) - MaxChunks
    <3>1. n \in 0..(Len(sent) - 1) /\ n \in Nat /\ n + MaxChunks = Len(sent) /\ n < Taken(r)
      BY <2>1, <2>4, RingAssumption
    <3>2. Oldest <= n
      BY <2>4, <2>1, RingAssumption DEF Oldest
    <3>3. Slot(n) = writer.idx
      BY <3>1, SlotWraps DEF PositionInv
    <3> HIDE DEF n
    <3>4. readFlag[writer.idx][r] = 1
      BY <3>1, <3>2, <3>3 DEF HeldInv, HeldOK
    <3>. QED
      BY <3>4, <1>2, <2>1
  <2>. QED
    BY <2>2, <2>3, <2>4, <2>1, RingAssumption
<1>4. Taken(r)' = Taken(r) /\ sent' = sent
  BY <1>1 DEF Taken
<1>5. ReadingOK(r)'
  BY <1>1, <1>2, <1>3, <1>4 DEF ReadingOK, Reading
<1>. QED
  BY <1>1, <1>5, LoadKeeps DEF Polling

(* The chunk a reader is inside of holds the message it is owed.             *)
LEMMA InsideOwed ==
  ASSUME RingInv, NEW r \in Reader, Reading(r)
  PROVE  /\ Taken(r) \in 0..(Len(sent) - 1) /\ Taken(r) + 1 \in 1..Len(sent)
         /\ reader[r].idx = Slot(Taken(r)) /\ HeldOK(Taken(r))
         /\ Taken(r) = Len(received[r])
<1>1. Taken(r) \in 0..(Len(sent) - 1) /\ Taken(r) + 1 \in 1..Len(sent)
  BY Counts DEF RingInv, ReadingInv, ReadingOK
<1>2. Oldest <= Taken(r) /\ reader[r].idx = Slot(Taken(r))
  BY DEF RingInv, PositionInv
<1>3. Taken(r) = Len(received[r])
  <2>1. Len(received[r]) \in Nat /\ reader[r].pc # "recv"
    BY Counts DEF RingInv, Reading
  <2>. QED
    BY <2>1 DEF Taken
<1>. QED
  BY <1>1, <1>2, <1>3 DEF RingInv, HeldInv

LEMMA ReadHeaderKeeps ==
  ASSUME RingInv, NEW r \in Reader, ReadHeader(r) PROVE RingInv'
<1> USE DEF RingInv
<1> DEFINE over == overflow[reader[r].idx]
<1>1. /\ reader[r].pc = "header" /\ received' = received /\ over \in {0, 1}
      /\ UNCHANGED <<shared, writer, sent, received>> /\ readFlag' = readFlag
      /\ reader' \in [Reader -> ReaderState]
      /\ \A q \in Reader \ {r} : reader'[q] = reader[q]
      /\ reader'[r].idx = reader[r].idx /\ reader'[r].overflow = over
      /\ reader'[r].pc = IF over = 1 THEN "release" ELSE "body"
  BY SMTT(30), ZenonT(60) DEF ReadHeader, RingTypeOK, ReaderState, shared
<1>2. readFlag[reader[r].idx][r] = 0 /\ Taken(r) < Len(sent)
  BY <1>1 DEF ReadingInv, ReadingOK, Reading
<1>3. over = IF sent[Taken(r) + 1].large THEN 1 ELSE 0
  BY <1>1, InsideOwed DEF Reading, HeldOK
<1>4. Taken(r)' = Taken(r) /\ sent' = sent
  BY <1>1 DEF Taken
<1>5. ReadingOK(r)'
  BY <1>1, <1>2, <1>3, <1>4 DEF ReadingOK, Reading
<1>. QED
  BY <1>1, <1>5, LoadKeeps DEF Polling

LEMMA ReadBodyKeeps ==
  ASSUME RingInv, NEW r \in Reader, ReadBody(r) PROVE RingInv'
<1> USE DEF RingInv
<1>1. /\ reader[r].pc = "body" /\ received' = received
      /\ UNCHANGED <<shared, writer, sent, received>> /\ readFlag' = readFlag
      /\ reader' \in [Reader -> ReaderState]
      /\ \A q \in Reader \ {r} : reader'[q] = reader[q]
      /\ reader'[r].idx = reader[r].idx /\ reader'[r].overflow = reader[r].overflow
      /\ reader'[r].obj = body[reader[r].idx] /\ reader'[r].pc = "release"
  BY DEF ReadBody, RingTypeOK, ReaderState, shared
<1>2. /\ readFlag[reader[r].idx][r] = 0 /\ Taken(r) < Len(sent)
      /\ ~sent[Taken(r) + 1].large /\ reader[r].overflow = 0
  BY <1>1 DEF ReadingInv, ReadingOK, Reading
<1>3. body[reader[r].idx] = sent[Taken(r) + 1]
  BY <1>1, <1>2, InsideOwed DEF Reading, HeldOK
<1>4. Taken(r)' = Taken(r) /\ sent' = sent
  BY <1>1 DEF Taken
<1>5. ReadingOK(r)'
  BY <1>1, <1>2, <1>3, <1>4 DEF ReadingOK, Reading
<1>. QED
  BY <1>1, <1>5, LoadKeeps DEF Polling

LEMMA SubscribeKeeps ==
  ASSUME RingInv, NEW p \in Reader, Subscribe(p) PROVE RingInv'
<1> USE DEF RingInv
<1>1. /\ reader[p].pc = "connect" /\ subscribed' = subscribed \cup {p}
      /\ UNCHANGED <<written, readFlag, overflow, body, socket, writer, sent, received>>
      /\ reader' \in [Reader -> ReaderState]
      /\ \A q \in Reader \ {p} : reader'[q] = reader[q]
      /\ reader'[p].idx = reader[p].idx /\ reader'[p].pc = "wait_ready"
  BY DEF Subscribe, RingTypeOK, ReaderState
<1>2. writer.pc = "wait_ready" /\ sent = <<>>
  BY <1>1 DEF HandshakeInv
<1>3. Oldest' = Oldest /\ PublishedUpTo' = PublishedUpTo /\ \A r \in Reader : Taken(r)' = Taken(r)
  BY <1>1 DEF Oldest, PublishedUpTo, Taken, Writing
<1>4. RingTypeOK'
  BY <1>1 DEF RingTypeOK
<1>5. HandshakeInv'
  BY <1>1, <1>2 DEF HandshakeInv
<1>6. PositionInv' /\ ObjectInv'
  BY <1>1, <1>3 DEF PositionInv, ObjectInv, Writing
<1>7. HeldInv' /\ FreshInv' /\ FillingInv'
  BY <1>1, <1>3 DEF HeldInv, HeldOK, FreshInv, FillingInv, Writing
<1>8. ReadingInv' /\ ReceivedInv'
  BY <1>1, <1>3 DEF ReadingInv, ReadingOK, Reading, ReceivedInv
<1>9. SocketInv'
  <2> SUFFICES ASSUME NEW r \in Reader PROVE SocketOK(r)'
    BY DEF SocketInv
  <2>1. socket[r] = <<>> /\ Len(socket[r]) = 0
    BY <1>2 DEF HandshakeInv
  <2>2. SocketOK(r)
    BY DEF SocketInv
  <2>. QED
    BY <2>1, <2>2, <1>1, <1>2, <1>3 DEF SocketOK
<1>. QED
  BY <1>4, <1>5, <1>6, <1>7, <1>8, <1>9

LEMMA ReaderReadyKeeps ==
  ASSUME RingInv, NEW p \in Reader, ReaderReady(p) PROVE RingInv'
<1> USE DEF RingInv
<1>1. /\ reader[p].pc = "wait_ready" /\ socket[p] # <<>>
      /\ Head(socket[p]) = READY /\ writer.pc # "wait_ready"
  BY HeadIsReady DEF ReaderReady
<1>2. /\ UNCHANGED <<written, readFlag, overflow, body, subscribed, writer, sent, received>>
      /\ reader' \in [Reader -> ReaderState]
      /\ \A q \in Reader \ {p} : reader'[q] = reader[q]
      /\ reader'[p].idx = reader[p].idx /\ reader'[p].pc = "poll"
  BY <1>1, ZenonT(60) DEF ReaderReady, RingTypeOK, ReaderState
<1>3. /\ socket' = [socket EXCEPT ![p] = Tail(socket[p])]
      /\ socket[p] \in Seq(Message \cup {READY})
  BY DEF ReaderReady, RingTypeOK
<1>4. Oldest' = Oldest /\ PublishedUpTo' = PublishedUpTo /\ \A r \in Reader : Taken(r)' = Taken(r)
  BY <1>1, <1>2 DEF Oldest, PublishedUpTo, Taken, Writing
<1>5. RingTypeOK'
  <2>1. Tail(socket[p]) \in Seq(Message \cup {READY})
    BY <1>1, <1>3, HeadTailProperties
  <2>. QED
    BY <2>1, <1>2, <1>3 DEF RingTypeOK
<1>6. HandshakeInv' /\ PositionInv' /\ ObjectInv'
  BY <1>1, <1>2, <1>4 DEF HandshakeInv, PositionInv, ObjectInv, Writing
<1>7. HeldInv' /\ FreshInv' /\ FillingInv'
  BY <1>2, <1>4 DEF HeldInv, HeldOK, FreshInv, FillingInv, Writing
<1>8. ReadingInv' /\ ReceivedInv'
  BY <1>2, <1>4 DEF ReadingInv, ReadingOK, Reading, ReceivedInv
<1>9. SocketOK(p)'
  <2> DEFINE S == socket[p]
             L == Len(received[p])
  <2>1. SocketOK(p) /\ L \in Nat /\ PublishedUpTo \in Int /\ PublishedUpTo <= Len(sent)
    BY Counts DEF SocketInv
  <2>2. /\ Len(S) \in Nat \ {0} /\ S[1] = READY
        /\ Len(socket'[p]) = Len(S) - 1
        /\ \A i \in 1..(Len(S) - 1) : socket'[p][i] = S[i + 1]
    BY <1>1, <1>3 DEF RingTypeOK
  <2> HIDE DEF S
  <2>3. ASSUME NEW i \in 2..Len(S)
        PROVE  \E j \in (L + 1)..PublishedUpTo : S[i] = sent[j] /\ sent[j].large
    <3>1. 1 \in 1..Len(S) /\ i \in 1..Len(S) /\ 1 < i
      BY <2>2
    <3>2. S[1].id < S[i].id
      BY <3>1, <2>1 DEF SocketOK, S
    <3>3. S[i] # READY
      BY <3>2, <2>2 DEF READY
    <3>. QED
      BY <3>1, <3>3, <2>1 DEF SocketOK, S
  <2>4. \A i, k \in 1..Len(socket'[p]) : i < k => socket'[p][i].id < socket'[p][k].id
    <3> SUFFICES ASSUME NEW i \in 1..Len(socket'[p]), NEW k \in 1..Len(socket'[p]), i < k
                 PROVE  socket'[p][i].id < socket'[p][k].id
      OBVIOUS
    <3>1. i + 1 \in 1..Len(S) /\ k + 1 \in 1..Len(S) /\ i + 1 < k + 1
      BY <2>2
    <3>2. socket'[p][i] = S[i + 1] /\ socket'[p][k] = S[k + 1]
      BY <2>2
    <3>. QED
      BY <3>1, <3>2, <2>1 DEF SocketOK, S
  <2>5. \A i \in 1..Len(socket'[p]) :
           \E j \in (L + 1)..PublishedUpTo : socket'[p][i] = sent[j] /\ sent[j].large
    BY <2>2, <2>3
  <2>6. ASSUME NEW j \in (L + 1)..PublishedUpTo, sent[j].large
        PROVE  \E i \in 1..Len(socket'[p]) : socket'[p][i] = sent[j]
    <3>1. PICK i \in 1..Len(S) : S[i] = sent[j]
      BY <2>1, <2>6 DEF SocketOK, S
    <3>2. sent[j].id = j /\ j >= 1
      BY <2>1 DEF ObjectInv
    <3>3. i # 1
      BY <3>1, <3>2, <2>2 DEF READY
    <3>4. i - 1 \in 1..Len(socket'[p]) /\ socket'[p][i - 1] = sent[j]
      BY <3>1, <3>3, <2>2
    <3>. QED
      BY <3>4
  <2>. QED
    BY <2>4, <2>5, <2>6, <1>2, <1>4 DEF SocketOK
<1>10. SocketInv'
  <2> SUFFICES ASSUME NEW r \in Reader, r # p PROVE SocketOK(r)'
    BY <1>9 DEF SocketInv
  <2>1. socket'[r] = socket[r] /\ reader'[r] = reader[r] /\ SocketOK(r)
    BY <1>2, <1>3 DEF SocketInv, RingTypeOK
  <2>. QED
    BY <2>1, <1>2, <1>4 DEF SocketOK
<1>. QED
  BY <1>5, <1>6, <1>7, <1>8, <1>10

(* The end of acquire_read: the flag of this reader alone, in the chunk of     *)
(* the message it took.                                                    *)
LEMMA ReleaseReadKeeps ==
  ASSUME RingInv, NEW p \in Reader, ReleaseRead(p) PROVE RingInv'
<1> USE DEF RingInv
<1> DEFINE T == Taken(p)
           W == Len(sent)
           idx == reader[p].idx
           over == reader[p].overflow = 1
<1>1. /\ reader[p].pc = "release" /\ Reading(p) /\ idx \in Chunk
      /\ UNCHANGED <<written, overflow, body, subscribed, socket, writer, sent>>
      /\ readFlag' = [readFlag EXCEPT ![idx][p] = 1]
  BY DEF ReleaseRead, Reading, RingTypeOK, ReaderState
<1>2. /\ T \in 0..(W - 1) /\ T + 1 \in 1..W /\ idx = Slot(T) /\ HeldOK(T)
      /\ T = Len(received[p]) /\ T \in Nat /\ W \in Nat /\ Oldest \in Int
  BY <1>1, InsideOwed, Counts
<1>3. /\ over <=> sent[T + 1].large
      /\ ~over => reader[p].obj = sent[T + 1]
  BY <1>1 DEF ReadingInv, ReadingOK
<1>4. sent[T + 1] \in Message
  BY <1>2 DEF RingTypeOK
<1>5. NextIdx(idx) = Slot(T + 1) /\ Slot(T + 1) \in Chunk
  <2> HIDE DEF T, idx
  <2>1. NextIdx(Slot(T)) = Slot(T + 1)
    BY <1>2, SlotNext
  <2>2. T + 1 \in Nat
    BY <1>2
  <2>. QED
    BY <1>2, <2>1, <2>2, SlotType
<1>6. /\ reader' \in [Reader -> ReaderState]
      /\ \A q \in Reader \ {p} : reader'[q] = reader[q]
      /\ reader'[p].idx = Slot(T + 1) /\ reader'[p].pc = IF over THEN "recv" ELSE "poll"
  <2>1. reader' = [reader EXCEPT ![p].idx = Slot(T + 1), ![p].pc = IF over THEN "recv" ELSE "poll"]
    BY <1>5 DEF ReleaseRead
  <2> HIDE DEF T, over
  <2>. QED
    BY <2>1, <1>5, ZenonT(60) DEF RingTypeOK, ReaderState
<1>7. /\ received' \in [Reader -> Seq(Message)]
      /\ received' = IF over THEN received ELSE [received EXCEPT ![p] = Append(received[p], sent[T + 1])]
      /\ \A q \in Reader \ {p} : received'[q] = received[q]
      /\ Len(received'[p]) = IF over THEN T ELSE T + 1
      /\ \A j \in 1..T : received'[p][j] = received[p][j]
      /\ ~over => received'[p][T + 1] = sent[T + 1]
  <2>1. CASE over
    BY <2>1, <1>2 DEF ReleaseRead, RingTypeOK
  <2>2. CASE ~over
    <3>1. received' = [received EXCEPT ![p] = Append(received[p], sent[T + 1])]
      BY <2>2, <1>3 DEF ReleaseRead
    <3>2. received[p] \in Seq(Message)
      BY DEF RingTypeOK
    <3>. QED
      BY <2>2, <3>1, <3>2, <1>2, <1>4, AppendProperties DEF RingTypeOK
  <2>. QED
    BY <2>1, <2>2
<1>8. /\ Oldest' = Oldest /\ PublishedUpTo' = PublishedUpTo
      /\ \A q \in Reader \ {p} : Taken(q)' = Taken(q)
  BY <1>1, <1>6, <1>7 DEF Oldest, PublishedUpTo, Taken, Writing
<1>9. Taken(p)' = T + 1
  <2>1. CASE over
    BY <2>1, <1>2, <1>6, <1>7 DEF Taken
  <2>2. CASE ~over
    BY <2>2, <1>2, <1>6, <1>7 DEF Taken
  <2>. QED
    BY <2>1, <2>2
<1> HIDE DEF T, W, idx, over
<1>10. RingTypeOK'
  <2>1. readFlag' \in [Chunk -> [Reader -> {0, 1}]]
    BY <1>1 DEF RingTypeOK
  <2>. QED
    BY <2>1, <1>1, <1>6, <1>7 DEF RingTypeOK
<1>11. HandshakeInv'
  BY <1>1, <1>6, <1>7 DEF HandshakeInv
<1>12. PositionInv'
  <2> SUFFICES ASSUME NEW r \in Reader
               PROVE  /\ reader'[r].idx = Slot(Taken(r)')
                      /\ Taken(r)' <= W /\ Oldest <= Taken(r)'
    BY <1>1, <1>8 DEF PositionInv, W
  <2>1. CASE r = p
    BY <2>1, <1>2, <1>6, <1>9 DEF PositionInv, T
  <2>2. CASE r # p
    BY <2>2, <1>6, <1>8 DEF PositionInv, W
  <2>. QED
    BY <2>1, <2>2
<1>13. ObjectInv' /\ FreshInv'
  BY <1>1 DEF ObjectInv, FreshInv, Writing
<1>14. HeldInv'
  <2> SUFFICES ASSUME NEW n \in 0..(W - 1), Oldest <= n PROVE HeldOK(n)'
    BY <1>1, <1>8 DEF HeldInv, W
  <2>1. HeldOK(n) /\ Slot(n) \in Chunk
    BY SlotType, <1>2 DEF HeldInv, W
  <2>2. ASSUME NEW r \in Reader
        PROVE  readFlag'[Slot(n)][r] = IF n < Taken(r)' THEN 1 ELSE 0
    <3>1. CASE r # p
      BY <3>1, <2>1, <1>1, <1>8 DEF HeldOK, RingTypeOK
    <3>2. CASE r = p /\ n = T
      BY <3>2, <2>1, <1>1, <1>2, <1>9 DEF RingTypeOK
    <3>3. CASE r = p /\ n # T
      <4>1. W - MaxChunks <= Oldest /\ Oldest <= T /\ MaxChunks \in Nat
        BY RingAssumption, <1>2 DEF Oldest, PositionInv, T, W
      <4>2. n \in Nat /\ (n < T => T < n + MaxChunks) /\ (T < n => n < T + MaxChunks)
        BY <4>1, <1>2
      <4>3. Slot(n) # Slot(T)
        BY <3>3, <4>2, <1>2, SlotApart
      <4>4. readFlag'[Slot(n)][p] = readFlag[Slot(n)][p]
        BY <4>3, <2>1, <1>1, <1>2 DEF RingTypeOK
      <4>5. n < T <=> n < T + 1
        BY <3>3, <4>2, <1>2
      <4>. QED
        BY <3>3, <4>4, <4>5, <2>1, <1>9 DEF HeldOK, T
    <3>. QED
      BY <3>1, <3>2, <3>3
  <2>. QED
    BY <2>1, <2>2, <1>1 DEF HeldOK
<1>15. FillingInv'
  <2>1. CASE Writing
    <3>1. T > W - MaxChunks
      BY <2>1, <1>2, RingAssumption DEF Oldest, PositionInv, T, W
    <3>2. idx # writer.idx
      BY <3>1, <1>2, HeldElsewhere DEF W
    <3>3. readFlag'[writer.idx] = readFlag[writer.idx]
      BY <3>2, <1>1 DEF RingTypeOK, WriterState
    <3>. QED
      BY <3>3, <1>1 DEF FillingInv, Writing
  <2>2. CASE ~Writing
    BY <2>2, <1>1 DEF FillingInv, Writing
  <2>. QED
    BY <2>1, <2>2
<1>16. ReadingInv'
  <2>1. ReadingOK(p)'
    BY <1>1, <1>2, <1>3, <1>6, <1>7 DEF ReadingOK, Reading
  <2>2. ASSUME NEW r \in Reader, r # p PROVE ReadingOK(r)'
    <3>1. /\ reader'[r] = reader[r] /\ received'[r] = received[r] /\ ReadingOK(r)
          /\ Taken(r)' = Taken(r)
      BY <2>2, <1>6, <1>7, <1>8 DEF ReadingInv
    <3>2. readFlag'[reader[r].idx][r] = readFlag[reader[r].idx][r]
      BY <2>2, <1>1 DEF RingTypeOK, ReaderState
    <3>. QED
      BY <3>1, <3>2, <1>1 DEF ReadingOK, Reading
  <2>. QED
    BY <2>1, <2>2 DEF ReadingInv
<1>17. ReceivedInv' /\ SocketInv'
  <2>1. ASSUME NEW r \in Reader, r # p
        PROVE  /\ Len(received'[r]) <= PublishedUpTo
               /\ \A j \in 1..Len(received'[r]) : received'[r][j] = sent[j]
               /\ SocketOK(r)'
    <3>1. received'[r] = received[r] /\ reader'[r] = reader[r] /\ SocketOK(r)
      BY <2>1, <1>6, <1>7 DEF SocketInv
    <3>2. SocketOK(r)'
      BY <3>1, <1>1, <1>8 DEF SocketOK
    <3>. QED
      BY <3>1, <3>2 DEF ReceivedInv
  <2>2. T <= PublishedUpTo /\ \A j \in 1..T : received[p][j] = sent[j]
    BY <1>2 DEF ReceivedInv
  <2>3. ~over => T + 1 <= PublishedUpTo
    <3>1. CASE writer.pc = "send"
      <4>1. sent[W].large
        BY <3>1 DEF ObjectInv, W
      <4>2. over \/ T + 1 # W
        BY <4>1, <1>3
      <4>. QED
        BY <3>1, <4>2, <1>2 DEF PublishedUpTo, W
    <3>2. CASE writer.pc # "send"
      BY <3>2, <1>2 DEF PublishedUpTo, W
    <3>. QED
      BY <3>1, <3>2
  <2>4. /\ Len(received'[p]) <= PublishedUpTo
        /\ \A j \in 1..Len(received'[p]) : received'[p][j] = sent[j]
    <3>1. CASE over
      BY <3>1, <2>2, <1>7
    <3>2. CASE ~over
      <4> SUFFICES ASSUME NEW j \in 1..(T + 1) PROVE received'[p][j] = sent[j]
        BY <3>2, <2>3, <1>7
      <4>1. j = T + 1 \/ j \in 1..T
        BY <1>2
      <4>. QED
        BY <4>1, <3>2, <2>2, <1>7
    <3>. QED
      BY <3>1, <3>2
  <2>5. SocketOK(p)'
    <3> DEFINE L == Len(received[p])
    <3>1. SocketOK(p) /\ L = T /\ PublishedUpTo \in Int
      BY <1>2, Counts DEF SocketInv
    <3>2. \A j \in (T + 1)..PublishedUpTo :
             sent[j].large => j \in (Len(received'[p]) + 1)..PublishedUpTo
      <4> SUFFICES ASSUME NEW j \in (T + 1)..PublishedUpTo, sent[j].large
                   PROVE  j \in (Len(received'[p]) + 1)..PublishedUpTo
        OBVIOUS
      <4>1. CASE over
        BY <4>1, <1>7
      <4>2. CASE ~over
        <5>1. j # T + 1
          BY <4>2, <1>3
        <5>. QED
          BY <5>1, <4>2, <1>2, <1>7, <3>1
      <4>. QED
        BY <4>1, <4>2
    <3>3. \A j \in (Len(received'[p]) + 1)..PublishedUpTo : j \in (T + 1)..PublishedUpTo
      BY <1>2, <1>7, <3>1
    <3>4. \A i \in 1..Len(socket[p]) :
             \E j \in (Len(received'[p]) + 1)..PublishedUpTo : socket[p][i] = sent[j] /\ sent[j].large
      BY <3>1, <3>2, <1>1 DEF SocketOK
    <3>5. \A j \in (Len(received'[p]) + 1)..PublishedUpTo :
             sent[j].large => \E i \in 1..Len(socket[p]) : socket[p][i] = sent[j]
      BY <3>1, <3>3 DEF SocketOK
    <3>. QED
      BY <3>1, <3>4, <3>5, <1>1, <1>6, <1>8 DEF SocketOK
  <2>. QED
    BY <2>1, <2>4, <2>5, <1>1, <1>8 DEF ReceivedInv, SocketInv
<1>. QED
  BY <1>10, <1>11, <1>12, <1>13, <1>14, <1>15, <1>16, <1>17

LEMMA ReceiveOverflowKeeps ==
  ASSUME RingInv, NEW p \in Reader, ReceiveOverflow(p) PROVE RingInv'
<1> USE DEF RingInv
<1> DEFINE L == Len(received[p])
           S == socket[p]
<1>1. /\ reader[p].pc = "recv" /\ S # <<>> /\ S \in Seq(Message \cup {READY})
      /\ UNCHANGED <<written, readFlag, overflow, body, subscribed, writer, sent>>
      /\ socket' = [socket EXCEPT ![p] = Tail(S)]
      /\ received' = [received EXCEPT ![p] = Append(received[p], Head(S))]
  BY DEF ReceiveOverflow, RingTypeOK
<1>2. /\ L + 1 <= PublishedUpTo /\ L + 1 \in 1..Len(sent)
      /\ Head(S) = sent[L + 1] /\ Head(S) \in Message
  BY <1>1, HeadIsOwed
<1>3. L \in Nat /\ Len(sent) \in Nat /\ PublishedUpTo \in Int /\ PublishedUpTo <= Len(sent)
  BY Counts
<1>4. /\ reader' \in [Reader -> ReaderState]
      /\ \A q \in Reader \ {p} : reader'[q] = reader[q]
      /\ reader'[p].idx = reader[p].idx /\ reader'[p].pc = "poll"
  BY <1>2, ZenonT(60) DEF ReceiveOverflow, RingTypeOK, ReaderState
<1>5. /\ received' \in [Reader -> Seq(Message)]
      /\ \A q \in Reader \ {p} : received'[q] = received[q]
      /\ Len(received'[p]) = L + 1
      /\ \A j \in 1..L : received'[p][j] = received[p][j]
      /\ received'[p][L + 1] = sent[L + 1]
  <2>1. received[p] \in Seq(Message)
    BY DEF RingTypeOK
  <2>. QED
    BY <2>1, <1>1, <1>2, AppendProperties DEF RingTypeOK
<1>6. /\ Len(S) \in Nat \ {0} /\ S[1] = sent[L + 1]
      /\ socket' \in [Reader -> Seq(Message \cup {READY})]
      /\ Len(socket'[p]) = Len(S) - 1
      /\ \A i \in 1..(Len(S) - 1) : socket'[p][i] = S[i + 1]
  <2>1. Tail(S) \in Seq(Message \cup {READY})
    BY <1>1, HeadTailProperties
  <2>. QED
    BY <2>1, <1>1, <1>2, HeadTailProperties DEF RingTypeOK
<1>7. Oldest' = Oldest /\ PublishedUpTo' = PublishedUpTo
  BY <1>1 DEF Oldest, PublishedUpTo, Writing
<1>8. \A r \in Reader : Taken(r)' = Taken(r)
  <2>1. Taken(p)' = Taken(p)
    BY <1>1, <1>3, <1>4, <1>5 DEF Taken
  <2>2. \A r \in Reader \ {p} : Taken(r)' = Taken(r)
    BY <1>4, <1>5 DEF Taken
  <2>. QED
    BY <2>1, <2>2
<1> HIDE DEF L, S
<1>9. RingTypeOK'
  BY <1>1, <1>4, <1>5, <1>6 DEF RingTypeOK
<1>10. HandshakeInv'
  <2>1. writer.pc # "wait_ready"
    BY <1>1 DEF HandshakeInv
  <2>. QED
    BY <2>1, <1>1, <1>4, <1>5 DEF HandshakeInv
<1>11. PositionInv' /\ ObjectInv'
  BY <1>1, <1>4, <1>7, <1>8 DEF PositionInv, ObjectInv, Writing
<1>12. HeldInv' /\ FreshInv' /\ FillingInv'
  BY <1>1, <1>7, <1>8 DEF HeldInv, HeldOK, FreshInv, FillingInv, Writing
<1>13. ReadingInv'
  <2> SUFFICES ASSUME NEW r \in Reader PROVE ReadingOK(r)'
    BY DEF ReadingInv
  <2>1. CASE r = p
    BY <2>1, <1>4 DEF ReadingOK, Reading
  <2>2. CASE r # p
    <3>1. reader'[r] = reader[r] /\ received'[r] = received[r] /\ ReadingOK(r)
      BY <2>2, <1>4, <1>5 DEF ReadingInv
    <3>. QED
      BY <3>1, <1>1, <1>8 DEF ReadingOK, Reading
  <2>. QED
    BY <2>1, <2>2
<1>14. ReceivedInv'
  <2> SUFFICES ASSUME NEW r \in Reader
               PROVE  /\ Len(received'[r]) <= PublishedUpTo
                      /\ \A j \in 1..Len(received'[r]) : received'[r][j] = sent[j]
    BY <1>1, <1>7 DEF ReceivedInv
  <2>1. CASE r = p
    <3> SUFFICES ASSUME NEW j \in 1..(L + 1) PROVE received'[p][j] = sent[j]
      BY <2>1, <1>2, <1>5
    <3>1. j = L + 1 \/ j \in 1..L
      BY <1>3
    <3>2. \A k \in 1..L : received[p][k] = sent[k]
      BY DEF ReceivedInv, L
    <3>. QED
      BY <3>1, <3>2, <1>5
  <2>2. CASE r # p
    BY <2>2, <1>5 DEF ReceivedInv
  <2>. QED
    BY <2>1, <2>2
<1>15. SocketOK(p)'
  <2>1. SocketOK(p)
    BY DEF SocketInv
  <2>2. \A j \in 1..Len(sent) : sent[j].id = j
    BY DEF ObjectInv
  <2>3. ASSUME NEW i \in 2..Len(S)
        PROVE  \E j \in (L + 2)..PublishedUpTo : S[i] = sent[j] /\ sent[j].large
    <3>1. 1 \in 1..Len(S) /\ i \in 1..Len(S) /\ 1 < i
      BY <1>6
    <3>2. S[1].id < S[i].id
      BY <3>1, <2>1 DEF SocketOK, S
    <3>3. PICK j \in (L + 1)..PublishedUpTo : S[i] = sent[j] /\ sent[j].large
      BY <3>1, <2>1, <1>1 DEF SocketOK, S, L
    <3>4. j \in 1..Len(sent)
      BY <1>3
    <3>5. L + 1 < j
      BY <3>2, <3>3, <3>4, <2>2, <1>2, <1>6
    <3>. QED
      BY <3>3, <3>5, <1>3
  <2>4. \A i, k \in 1..Len(socket'[p]) : i < k => socket'[p][i].id < socket'[p][k].id
    <3> SUFFICES ASSUME NEW i \in 1..Len(socket'[p]), NEW k \in 1..Len(socket'[p]), i < k
                 PROVE  socket'[p][i].id < socket'[p][k].id
      OBVIOUS
    <3>1. i + 1 \in 1..Len(S) /\ k + 1 \in 1..Len(S) /\ i + 1 < k + 1
      BY <1>6
    <3>2. socket'[p][i] = S[i + 1] /\ socket'[p][k] = S[k + 1]
      BY <1>6
    <3>. QED
      BY <3>1, <3>2, <2>1 DEF SocketOK, S
  <2>5. \A i \in 1..Len(socket'[p]) :
           \E j \in (L + 2)..PublishedUpTo : socket'[p][i] = sent[j] /\ sent[j].large
    <3> SUFFICES ASSUME NEW i \in 1..Len(socket'[p])
                 PROVE  \E j \in (L + 2)..PublishedUpTo :
                          socket'[p][i] = sent[j] /\ sent[j].large
      OBVIOUS
    <3>1. i + 1 \in 2..Len(S) /\ socket'[p][i] = S[i + 1]
      BY <1>6
    <3>. QED
      BY <3>1, <2>3
  <2>6. ASSUME NEW j \in (L + 2)..PublishedUpTo, sent[j].large
        PROVE  \E i \in 1..Len(socket'[p]) : socket'[p][i] = sent[j]
    <3>0. j \in (L + 1)..PublishedUpTo /\ j \in 1..Len(sent)
      BY <1>3
    <3>1. PICK i \in 1..Len(S) : S[i] = sent[j]
      BY <3>0, <2>1, <2>6 DEF SocketOK, S, L
    <3>2. i # 1
      BY <3>0, <3>1, <2>2, <1>2, <1>3, <1>6
    <3>3. i - 1 \in 1..Len(socket'[p]) /\ socket'[p][i - 1] = sent[j]
      BY <3>1, <3>2, <1>6
    <3>. QED
      BY <3>3
  <2>7. ((Len(received[p]) + 1)..PublishedUpTo)' = (L + 2)..PublishedUpTo
    BY <1>3, <1>5, <1>7
  <2>8. (\A i \in 1..Len(socket[p]) :
           \E j \in (Len(received[p]) + 1)..PublishedUpTo : socket[p][i] = sent[j] /\ sent[j].large)'
    <3>1. \A j \in (L + 2)..PublishedUpTo : j \in ((Len(received[p]) + 1)..PublishedUpTo)'
      BY <2>7
    <3>2. sent' = sent
      BY <1>1
    <3>. QED
      BY <2>5, <3>1, <3>2
  <2>9. (\A j \in (Len(received[p]) + 1)..PublishedUpTo :
           sent[j].large => \E i \in 1..Len(socket[p]) : socket[p][i] = sent[j])'
    BY <2>6, <2>7, <1>1
  <2>. QED
    BY <2>4, <2>8, <2>9, <1>4 DEF SocketOK
<1>16. SocketInv'
  <2> SUFFICES ASSUME NEW r \in Reader, r # p PROVE SocketOK(r)'
    BY <1>15 DEF SocketInv
  <2>1. socket'[r] = socket[r] /\ reader'[r] = reader[r] /\ received'[r] = received[r] /\ SocketOK(r)
    BY <1>1, <1>4, <1>5 DEF SocketInv, RingTypeOK
  <2>. QED
    BY <2>1, <1>1, <1>7 DEF SocketOK
<1>. QED
  BY <1>9, <1>10, <1>11, <1>12, <1>13, <1>14, <1>16

-------------------------------------------------------------------------------
LEMMA StutterKeeps == ASSUME RingInv, UNCHANGED vars PROVE RingInv'
BY DEF RingInv, vars, RingTypeOK, HandshakeInv, PositionInv, ObjectInv, HeldInv, HeldOK, FreshInv,
       FillingInv, ReadingInv, ReadingOK, Reading, ReceivedInv, SocketInv, SocketOK, Taken, Oldest,
       PublishedUpTo, Writing

(* Every step of the writer and of the readers preserves the invariant.       *)
LEMMA NextKeeps == ASSUME RingInv, [Next]_vars PROVE RingInv'
<1>1. CASE WriterStep
  BY <1>1, WriterReadyKeeps, AcquireWriteKeeps, WriteHeaderKeeps, WriteBodyKeeps, ResetFlagKeeps,
     MarkWrittenKeeps, SendOverflowKeeps DEF WriterStep
<1>2. ASSUME NEW large \in BOOLEAN, BeginEnqueue(large) PROVE RingInv'
  BY <1>2, BeginEnqueueKeeps
<1>3. ASSUME NEW r \in Reader, ReaderStep(r) PROVE RingInv'
  BY <1>3, SubscribeKeeps, ReaderReadyKeeps, PollReadFlagKeeps, PollWrittenKeeps, ReadHeaderKeeps,
     ReadBodyKeeps, ReleaseReadKeeps, ReceiveOverflowKeeps DEF ReaderStep
<1>4. CASE UNCHANGED vars
  BY <1>4, StutterKeeps
<1>. QED
  BY <1>1, <1>2, <1>3, <1>4 DEF Next

(* The inductive invariant holds of the ring, whatever its size.             *)
THEOREM RingInvariant == Spec => []RingInv
<1>. QED
  BY InitInv, NextKeeps, PTL DEF Spec

(* Every flag, index and message stays in its domain: in particular no       *)
(* dequeue of ShmRingBuffer ever returns the ready message of the handshake.  *)
THEOREM RingTypeCorrect == Spec => []RingTypeOK
<1>1. RingInv => RingTypeOK
  BY DEF RingInv
<1>. QED
  BY <1>1, RingInvariant, PTL

(* acquire_write and acquire_read exclude each other on a chunk without a     *)
(* lock: a reader inside acquire_read finds the whole of the next message it  *)
(* is owed, for any number of readers and chunks.                           *)
THEOREM RingNoTornRead == Spec => []NoTornRead
<1>1. ASSUME RingInv PROVE NoTornRead
  <2> SUFFICES ASSUME NEW r \in Reader, Reading(r)
               PROVE  /\ ~(Writing /\ writer.idx = reader[r].idx)
                      /\ Len(received[r]) < Len(sent)
                      /\ LET m == sent[Len(received[r]) + 1] IN
                           IF m.large THEN overflow[reader[r].idx] = 1
                           ELSE overflow[reader[r].idx] = 0 /\ body[reader[r].idx] = m
    BY DEF NoTornRead
  <2>1. /\ Taken(r) \in 0..(Len(sent) - 1) /\ reader[r].idx = Slot(Taken(r))
        /\ HeldOK(Taken(r)) /\ Taken(r) = Len(received[r])
    BY <1>1, InsideOwed
  <2>2. Oldest <= Taken(r) /\ Len(sent) \in Nat /\ MaxChunks \in Nat
    BY <1>1, Counts, RingAssumption DEF RingInv, PositionInv
  <2>3. Writing => writer.idx # reader[r].idx
    BY <1>1, <2>1, <2>2, HeldElsewhere DEF Oldest
  <2>. QED
    BY <2>1, <2>2, <2>3 DEF HeldOK
<1>. QED
  BY <1>1, RingInvariant, PTL

-------------------------------------------------------------------------------
(* Appending to a sequence appends to each of its ends.                      *)
LEMMA EndOfAppend ==
  ASSUME NEW S, NEW s \in Seq(S), NEW e \in S, NEW l \in 0..Len(s)
  PROVE  SubSeq(Append(s, e), l + 1, Len(s) + 1) = Append(SubSeq(s, l + 1, Len(s)), e)
<1> DEFINE t == Append(s, e)
           a == SubSeq(t, l + 1, Len(s) + 1)
           b == SubSeq(s, l + 1, Len(s))
<1>1. t \in Seq(S) /\ Len(t) = Len(s) + 1 /\ t[Len(s) + 1] = e /\ \A i \in 1..Len(s) : t[i] = s[i]
  BY AppendProperties
<1>2. a \in Seq(S) /\ Len(a) = Len(s) + 1 - l /\ \A i \in 1..(Len(s) + 1 - l) : a[i] = t[l + i]
  BY <1>1
<1>3. b \in Seq(S) /\ Len(b) = Len(s) - l /\ \A i \in 1..(Len(s) - l) : b[i] = s[l + i]
  OBVIOUS
<1> HIDE DEF a, b, t
<1>4. /\ Append(b, e) \in Seq(S) /\ Len(Append(b, e)) = Len(s) + 1 - l
      /\ Append(b, e)[Len(s) - l + 1] = e
      /\ \A i \in 1..(Len(s) - l) : Append(b, e)[i] = s[l + i]
  BY <1>3, AppendProperties
<1>5. \A i \in 1..Len(a) : a[i] = Append(b, e)[i]
  <2> SUFFICES ASSUME NEW i \in 1..Len(a) PROVE a[i] = Append(b, e)[i]
    OBVIOUS
  <2>0. Len(s) \in Nat /\ i \in 1..(Len(s) + 1 - l)
    BY <1>2
  <2>1. CASE i = Len(s) - l + 1
    <3>1. l + i = Len(s) + 1
      BY <2>0, <2>1
    <3>. QED
      BY <2>0, <2>1, <3>1, <1>1, <1>2, <1>4
  <2>2. CASE i \in 1..(Len(s) - l)
    <3>1. l + i \in 1..Len(s)
      BY <2>0, <2>2
    <3>2. a[i] = t[l + i]
      BY <2>0, <1>2
    <3>3. t[l + i] = s[l + i]
      BY <3>1, <1>1
    <3>4. Append(b, e)[i] = s[l + i]
      BY <2>2, <1>4
    <3>. QED
      BY <3>2, <3>3, <3>4
  <2>3. i = Len(s) - l + 1 \/ i \in 1..(Len(s) - l)
    BY <2>0
  <2>. QED
    BY <2>1, <2>2, <2>3
<1>6. a = Append(b, e)
  BY <1>2, <1>4, <1>5, SeqEqual
<1>. QED
  BY <1>6 DEF a, b, t

(* A step that leaves the histories alone leaves the queue alone.            *)
LEMMA QuietRefines ==
  ASSUME UNCHANGED <<sent, received>>
  PROVE  /\ \A r \in Reader : Undelivered(r)' = Undelivered(r) /\ LastReceived(r)' = LastReceived(r)
BY DEF Undelivered, LastReceived

(* Marking a message as written is its enqueue.                              *)
LEMMA MarkRefines ==
  ASSUME RingInv, MarkWritten
  PROVE  /\ writer.obj \in Message
         /\ \A r \in Reader : Undelivered(r)' = Append(Undelivered(r), writer.obj)
         /\ \A r \in Reader : LastReceived(r)' = LastReceived(r)
<1>1. /\ writer.obj \in Message /\ sent \in Seq(Message)
      /\ sent' = Append(sent, writer.obj) /\ received' = received
  BY DEF RingInv, RingTypeOK, ObjectInv, MarkWritten, Writing
<1>2. Len(sent') = Len(sent) + 1
  BY <1>1
<1>3. ASSUME NEW r \in Reader
      PROVE  Undelivered(r)' = Append(Undelivered(r), writer.obj)
  <2>1. Len(received[r]) \in 0..Len(sent)
    BY Counts DEF RingInv, ReceivedInv
  <2>. QED
    BY <2>1, <1>1, <1>2, EndOfAppend DEF Undelivered
<1>. QED
  BY <1>1, <1>3 DEF LastReceived

(* The step in which r dequeues the next message is its dequeue.             *)
LEMMA TakeRefines ==
  ASSUME RingInv, NEW p \in Reader, Len(received[p]) + 1 \in 1..Len(sent),
         received' = [received EXCEPT ![p] = Append(received[p], sent[Len(received[p]) + 1])],
         sent' = sent
  PROVE  /\ Undelivered(p) # <<>>
         /\ Undelivered(p)' = Tail(Undelivered(p)) /\ LastReceived(p)' = Head(Undelivered(p))
         /\ \A r \in Reader \ {p} :
               Undelivered(r)' = Undelivered(r) /\ LastReceived(r)' = LastReceived(r)
<1> DEFINE L == Len(received[p])
<1>1. /\ sent \in Seq(Message) /\ received[p] \in Seq(Message) /\ sent[L + 1] \in Message
      /\ L \in Nat /\ received \in [Reader -> Seq(Message)]
  BY DEF RingInv, RingTypeOK
<1>2. /\ received'[p] # <<>> /\ Len(received'[p]) = L + 1 /\ received'[p][L + 1] = sent[L + 1]
      /\ \A r \in Reader \ {p} : received'[r] = received[r]
  BY <1>1, AppendProperties
<1>3. /\ Head(SubSeq(sent, L + 1, Len(sent))) = sent[L + 1]
      /\ Tail(SubSeq(sent, L + 1, Len(sent))) = SubSeq(sent, L + 2, Len(sent))
  <2>1. L + 1 \in 1..Len(sent) /\ Len(sent) \in (L + 1)..Len(sent) /\ L + 1 + 1 = L + 2
    BY <1>1
  <2>. QED
    BY <2>1, <1>1, HeadTailOfSubSeq
<1>4. Undelivered(p) # <<>>
  <2>1. Len(Undelivered(p)) = Len(sent) - L
    BY <1>1 DEF Undelivered
  <2>. QED
    BY <2>1, <1>1
<1>5. Undelivered(p)' = SubSeq(sent, L + 2, Len(sent))
  BY <1>1, <1>2 DEF Undelivered
<1>6. Undelivered(p)' = Tail(Undelivered(p))
  BY <1>3, <1>5 DEF Undelivered
<1>7. LastReceived(p)' = Head(Undelivered(p))
  BY <1>2, <1>3 DEF Undelivered, LastReceived
<1>8. \A r \in Reader \ {p} :
         Undelivered(r)' = Undelivered(r) /\ LastReceived(r)' = LastReceived(r)
  BY <1>2 DEF Undelivered, LastReceived
<1>. QED
  BY <1>4, <1>6, <1>7, <1>8

(* The ring buffer and the socket implement the broadcast queue: marking a     *)
(* chunk is the enqueue, the end of acquire_read or the receive of an         *)
(* overflow is the dequeue of that reader, and every other step is invisible.  *)
(* So every reader dequeues every message once, in the order of the enqueues.*)
THEOREM RingImplementsQueue == Spec => Queue!QueueSafety
<1>1. Init => Queue!QueueInit
  <2> SUFFICES ASSUME Init PROVE Queue!QueueInit
    OBVIOUS
  <2>1. \A r \in Reader : Undelivered(r) = <<>> /\ LastReceived(r) = NoMessage
    BY SubSeqEmpty DEF Init, Undelivered, LastReceived
  <2>. QED
    BY <2>1 DEF Queue!QueueInit
<1>2. ASSUME RingInv, [Next]_vars PROVE [Queue!QueueNext]_(Queue!queueVars)
  <2>1. CASE UNCHANGED <<sent, received>>
    <3>1. \A r \in Reader : Undelivered(r)' = Undelivered(r) /\ LastReceived(r)' = LastReceived(r)
      BY <2>1, QuietRefines
    <3>. QED
      BY <3>1 DEF Queue!queueVars
  <2>2. CASE MarkWritten
    <3>1. Queue!Enqueue(writer.obj)
      BY <2>2, <1>2, MarkRefines DEF Queue!Enqueue
    <3>. QED
      BY <3>1, <2>2, <1>2, MarkRefines DEF Queue!QueueNext
  <2>3. ASSUME NEW p \in Reader, Len(received[p]) + 1 \in 1..Len(sent),
               received' = [received EXCEPT ![p] = Append(received[p], sent[Len(received[p]) + 1])],
               sent' = sent
        PROVE  [Queue!QueueNext]_(Queue!queueVars)
    <3>1. Queue!Dequeue(p)
      BY <2>3, <1>2, TakeRefines DEF Queue!Dequeue
    <3>. QED
      BY <3>1 DEF Queue!QueueNext
  <2>4. ASSUME NEW p \in Reader, ReleaseRead(p) PROVE [Queue!QueueNext]_(Queue!queueVars)
    <3>1. sent' = sent /\ Reading(p)
      BY <2>4 DEF ReleaseRead, Reading
    <3>2. CASE reader[p].overflow = 1
      BY <3>1, <3>2, <2>1, <2>4 DEF ReleaseRead
    <3>3. CASE reader[p].overflow # 1
      <4>1. Taken(p) = Len(received[p]) /\ Len(received[p]) + 1 \in 1..Len(sent)
        BY <3>1, <1>2, InsideOwed
      <4>2. reader[p].obj = sent[Len(received[p]) + 1]
        BY <3>3, <4>1, <1>2, <2>4 DEF RingInv, ReadingInv, ReadingOK, ReleaseRead
      <4>3. received' = [received EXCEPT ![p] = Append(received[p], sent[Len(received[p]) + 1])]
        BY <3>3, <4>2, <2>4 DEF ReleaseRead
      <4>. QED
        BY <4>1, <4>3, <3>1, <2>3
    <3>. QED
      BY <3>2, <3>3
  <2>5. ASSUME NEW p \in Reader, ReceiveOverflow(p) PROVE [Queue!QueueNext]_(Queue!queueVars)
    <3>1. /\ Len(received[p]) + 1 \in 1..Len(sent)
          /\ Head(socket[p]) = sent[Len(received[p]) + 1]
      BY <2>5, <1>2, HeadIsOwed DEF ReceiveOverflow
    <3>2. /\ received' = [received EXCEPT ![p] = Append(received[p], sent[Len(received[p]) + 1])]
          /\ sent' = sent
      BY <3>1, <2>5 DEF ReceiveOverflow
    <3>. QED
      BY <3>1, <3>2, <2>3
  <2>6. CASE WriterStep
    BY <2>6, <2>1, <2>2 DEF WriterStep, WriterReady, AcquireWrite, WriteHeader, WriteBody, ResetFlag,
                            SendOverflow
  <2>7. ASSUME NEW large \in BOOLEAN, BeginEnqueue(large) PROVE UNCHANGED <<sent, received>>
    BY <2>7 DEF BeginEnqueue
  <2>8. ASSUME NEW p \in Reader, ReaderStep(p) PROVE [Queue!QueueNext]_(Queue!queueVars)
    BY <2>8, <2>1, <2>4, <2>5 DEF ReaderStep, Subscribe, ReaderReady, PollReadFlag, PollWritten,
                                  ReadHeader, ReadBody
  <2>. QED
    BY <1>2, <2>1, <2>6, <2>7, <2>8 DEF Next, vars
<1>. QED
  BY <1>1, <1>2, RingInvariant, PTL DEF Spec, Queue!QueueSafety

===============================================================================
