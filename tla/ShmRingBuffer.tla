----------------------------- MODULE ShmRingBuffer ------------------------------
(***************************************************************************)
(* MessageQueue over a ShmRingBuffer, one writer and local readers: a ring  *)
(* of chunks in shared memory with one written flag and one read flag per   *)
(* reader, no lock, and a publish-subscribe socket for messages that do not *)
(* fit a chunk.                                                            *)
(*                                                                         *)
(* Every load and store of a flag, of the header byte and of the body of a  *)
(* chunk is a step of its own.  The processor keeps the order of the stores *)
(* of one process and of its loads (x86), which is what the code relies on. *)
(***************************************************************************)
EXTENDS Integers, Sequences, FiniteSets

CONSTANTS
  NReader,          (* n_local_reader                                       *)
  MaxChunks,        (* max_chunks                                           *)
  MaxMessages       (* bound: messages enqueued in a behaviour              *)

ASSUME RingAssumption ==
  /\ NReader \in Nat \ {0} /\ MaxChunks \in Nat \ {0} /\ MaxMessages \in Nat

Reader == 1..NReader
Chunk == 0..(MaxChunks - 1)
(* a message is its number and whether it overflows a chunk                 *)
Message == [id : 1..MaxMessages, large : BOOLEAN]
READY == [id |-> 0, large |-> FALSE]
NoMessage == [id |-> -1, large |-> FALSE]

VARIABLES
  written,          (* metadata_buffer[0] of each chunk                     *)
  readFlag,         (* metadata_buffer[1..n] of each chunk                  *)
  overflow,         (* buf[0] of each chunk                                 *)
  body,             (* buf[1..] of each chunk                               *)
  subscribed,       (* readers whose subscription reached local_socket      *)
  socket,           (* socket[r]: published to r and not received           *)
  writer,           (* the writer: pc, current_idx, the object it enqueues, *)
                    (* and the read flags it has reset                      *)
  reader,           (* each reader: pc, current_idx, overflow, obj          *)
  sent,             (* history: the messages marked as written              *)
  received          (* history: the messages each dequeue returned          *)

shared == <<written, readFlag, overflow, body, subscribed, socket>>
vars == <<written, readFlag, overflow, body, subscribed, socket,
          writer, reader, sent, received>>

Init ==
  /\ written = [c \in Chunk |-> 0]
  /\ readFlag = [c \in Chunk |-> [r \in Reader |-> 0]]
  /\ overflow = [c \in Chunk |-> 0]
  /\ body = [c \in Chunk |-> NoMessage]
  /\ subscribed = {}
  /\ socket = [r \in Reader |-> <<>>]
  /\ writer = [pc |-> "wait_ready", idx |-> 0, obj |-> NoMessage, reset |-> 0]
  /\ reader = [r \in Reader |-> [pc |-> "connect", idx |-> 0, overflow |-> 0, obj |-> NoMessage]]
  /\ sent = <<>>
  /\ received = [r \in Reader |-> <<>>]

(* Variant: the index grows past the ring.                                  *)
NextIdxGrows(idx) == idx + 1
NextIdx(idx) == (idx + 1) % MaxChunks

(* A publisher drops what it sends for those who have not subscribed.       *)
Published(m) ==
  [r \in Reader |-> IF r \in subscribed THEN Append(socket[r], m) ELSE socket[r]]

(* Variant: sum(metadata_buffer), the written flag included.                 *)
ReadCountOfAll(c) == written[c] + Cardinality({r \in Reader : readFlag[c][r] = 1})
ReadCount(c) == Cardinality({r \in Reader : readFlag[c][r] = 1})

-------------------------------------------------------------------------------
(* Variant: the writer waits for the first subscription only.                *)
WriterReadyAtFirst ==
  /\ writer.pc = "wait_ready"
  /\ subscribed # {}
  /\ socket' = Published(READY)
  /\ writer' = [writer EXCEPT !.pc = "idle"]
  /\ UNCHANGED <<written, readFlag, overflow, body, subscribed, reader, sent, received>>

(* wait_until_ready: the writer takes one subscription per local reader.    *)
WriterReady ==
  /\ writer.pc = "wait_ready"
  /\ subscribed = Reader
  /\ socket' = Published(READY)
  /\ writer' = [writer EXCEPT !.pc = "idle"]
  /\ UNCHANGED <<written, readFlag, overflow, body, subscribed, reader, sent, received>>

(* enqueue(obj): serialise, and enter acquire_write.                        *)
BeginEnqueue(large) ==
  /\ writer.pc = "idle"
  /\ Len(sent) < MaxMessages
  /\ writer' = [writer EXCEPT !.pc = "acquire", !.obj = [id |-> Len(sent) + 1, large |-> large]]
  /\ UNCHANGED <<shared, reader, sent, received>>

(* acquire_write spins until the chunk is unwritten or read by everyone.    *)
(* The flags are read one after the other, but only this process ever       *)
(* clears them, so a full count stays full.                                *)
AcquireWrite ==
  /\ writer.pc = "acquire"
  /\ ~(written[writer.idx] = 1 /\ ReadCount(writer.idx) # NReader)
  /\ written' = [written EXCEPT ![writer.idx] = 0]
  /\ writer' = [writer EXCEPT !.pc = "header"]
  /\ UNCHANGED <<readFlag, overflow, body, subscribed, socket, reader, sent, received>>

(* buf[0] = 1 or 0                                                         *)
WriteHeader ==
  /\ writer.pc = "header"
  /\ overflow' = [overflow EXCEPT ![writer.idx] = IF writer.obj.large THEN 1 ELSE 0]
  /\ writer' = [writer EXCEPT !.pc = IF writer.obj.large THEN "reset" ELSE "body"]
  /\ UNCHANGED <<written, readFlag, body, subscribed, socket, reader, sent, received>>

WriteBody ==
  /\ writer.pc = "body"
  /\ body' = [body EXCEPT ![writer.idx] = writer.obj]
  /\ writer' = [writer EXCEPT !.pc = "reset"]
  /\ UNCHANGED <<written, readFlag, overflow, subscribed, socket, reader, sent, received>>

(* the read flags are set to 0 one by one                                  *)
ResetFlag ==
  LET r == writer.reset + 1 IN
  /\ writer.pc = "reset"
  /\ readFlag' = [readFlag EXCEPT ![writer.idx][r] = 0]
  /\ writer' = [writer EXCEPT !.reset = IF r = NReader THEN 0 ELSE r,
                              !.pc = IF r = NReader THEN "mark" ELSE "reset"]
  /\ UNCHANGED <<written, overflow, body, subscribed, socket, reader, sent, received>>

MarkWritten ==
  /\ writer.pc = "mark"
  /\ written' = [written EXCEPT ![writer.idx] = 1]
  /\ writer' = [writer EXCEPT !.idx = NextIdx(@), !.pc = IF writer.obj.large THEN "send" ELSE "idle"]
  /\ sent' = Append(sent, writer.obj)
  /\ UNCHANGED <<readFlag, overflow, body, subscribed, socket, reader, received>>

(* local_socket.send(serialized_obj), after the chunk is released           *)
SendOverflow ==
  /\ writer.pc = "send"
  /\ socket' = Published(writer.obj)
  /\ writer' = [writer EXCEPT !.pc = "idle"]
  /\ UNCHANGED <<written, readFlag, overflow, body, subscribed, reader, sent, received>>

-------------------------------------------------------------------------------
(* create_from_handle connects and subscribes                              *)
Subscribe(r) ==
  /\ reader[r].pc = "connect"
  /\ subscribed' = subscribed \cup {r}
  /\ reader' = [reader EXCEPT ![r].pc = "wait_ready"]
  /\ UNCHANGED <<written, readFlag, overflow, body, socket, writer, sent, received>>

(* recv = self.local_socket.recv(); assert recv == b"READY"                *)
ReaderReady(r) ==
  /\ reader[r].pc = "wait_ready"
  /\ socket[r] # <<>>
  /\ socket' = [socket EXCEPT ![r] = Tail(@)]
  /\ reader' = [reader EXCEPT ![r].pc = IF Head(socket[r]) = READY THEN "poll" ELSE "dead"]
  /\ UNCHANGED <<written, readFlag, overflow, body, subscribed, writer, sent, received>>

(* acquire_read loads the reader's own flag first; a chunk it has read is    *)
(* not looked at further.                                                  *)
PollReadFlag(r) ==
  /\ reader[r].pc = "poll"
  /\ readFlag[reader[r].idx][r] = 0
  /\ reader' = [reader EXCEPT ![r].pc = "check"]
  /\ UNCHANGED <<shared, writer, sent, received>>

PollWritten(r) ==
  /\ reader[r].pc = "check"
  /\ reader' = [reader EXCEPT ![r].pc = IF written[reader[r].idx] = 1 THEN "header" ELSE "poll"]
  /\ UNCHANGED <<shared, writer, sent, received>>

(* overflow = buf[0] == 1                                                  *)
ReadHeader(r) ==
  LET over == overflow[reader[r].idx] IN
  /\ reader[r].pc = "header"
  /\ reader' = [reader EXCEPT ![r].overflow = over, ![r].pc = IF over = 1 THEN "release" ELSE "body"]
  /\ UNCHANGED <<shared, writer, sent, received>>

(* obj = pickle.loads(buf[1:])                                             *)
ReadBody(r) ==
  /\ reader[r].pc = "body"
  /\ reader' = [reader EXCEPT ![r].obj = body[reader[r].idx], ![r].pc = "release"]
  /\ UNCHANGED <<shared, writer, sent, received>>

(* the end of acquire_read; dequeue returns unless the message overflowed    *)
ReleaseRead(r) ==
  LET over == reader[r].overflow = 1 IN
  /\ reader[r].pc = "release"
  /\ readFlag' = [readFlag EXCEPT ![reader[r].idx][r] = 1]
  /\ reader' = [reader EXCEPT ![r].idx = NextIdx(@), ![r].pc = IF over THEN "recv" ELSE "poll"]
  /\ received' = IF over THEN received ELSE [received EXCEPT ![r] = Append(@, reader[r].obj)]
  /\ UNCHANGED <<written, overflow, body, subscribed, socket, writer, sent>>

(* recv = self.local_socket.recv()                                         *)
ReceiveOverflow(r) ==
  /\ reader[r].pc = "recv"
  /\ socket[r] # <<>>
  /\ socket' = [socket EXCEPT ![r] = Tail(@)]
  /\ reader' = [reader EXCEPT ![r].obj = Head(socket[r]), ![r].pc = "poll"]
  /\ received' = [received EXCEPT ![r] = Append(@, Head(socket[r]))]
  /\ UNCHANGED <<written, readFlag, overflow, body, subscribed, writer, sent>>

-------------------------------------------------------------------------------
WriterStep ==
  \/ WriterReady \/ AcquireWrite \/ WriteHeader \/ WriteBody \/ ResetFlag \/ MarkWritten \/ SendOverflow

ReaderStep(r) ==
  \/ Subscribe(r) \/ ReaderReady(r)
  \/ PollReadFlag(r) \/ PollWritten(r) \/ ReadHeader(r) \/ ReadBody(r) \/ ReleaseRead(r)
  \/ ReceiveOverflow(r)

Next ==
  \/ WriterStep
  \/ \E large \in BOOLEAN : BeginEnqueue(large)
  \/ \E r \in Reader : ReaderStep(r)

(* Each process runs.  Nobody has to enqueue anything.                      *)
Spec ==
  /\ Init /\ [][Next]_vars
  /\ WF_vars(WriterStep)
  /\ \A r \in Reader : WF_vars(ReaderStep(r))

-------------------------------------------------------------------------------
WriterState ==
  [pc : {"wait_ready", "idle", "acquire", "header", "body", "reset", "mark", "send"},
   idx : Chunk, obj : Message \cup {NoMessage}, reset : 0..(NReader - 1)]
ReaderState ==
  [pc : {"connect", "wait_ready", "poll", "check", "header", "body", "release", "recv", "dead"},
   idx : Chunk, overflow : {0, 1}, obj : Message \cup {NoMessage}]

RingTypeOK ==
  /\ written \in [Chunk -> {0, 1}] /\ overflow \in [Chunk -> {0, 1}]
  /\ readFlag \in [Chunk -> [Reader -> {0, 1}]]
  /\ body \in [Chunk -> Message \cup {NoMessage}]
  /\ subscribed \subseteq Reader
  /\ socket \in [Reader -> Seq(Message \cup {READY})]
  /\ writer \in WriterState /\ reader \in [Reader -> ReaderState]
  /\ sent \in Seq(Message) /\ received \in [Reader -> Seq(Message)]

Writing == writer.pc \in {"header", "body", "reset", "mark"}
Reading(r) == reader[r].pc \in {"header", "body", "release"}

(* "let caller write to the buffer" / "let caller read from the buffer": no   *)
(* reader is inside acquire_read on the chunk the writer is filling, and     *)
(* what a reader is inside of is the chunk of the next message it is owed.   *)
NoTornRead ==
  \A r \in Reader : Reading(r) =>
    /\ ~(Writing /\ writer.idx = reader[r].idx)
    /\ Len(received[r]) < Len(sent)
    /\ LET m == sent[Len(received[r]) + 1] IN
         IF m.large THEN overflow[reader[r].idx] = 1
         ELSE overflow[reader[r].idx] = 0 /\ body[reader[r].idx] = m

(* The ring and the socket together implement the broadcast queue: every      *)
(* reader dequeues every enqueued message once, in order, and eventually.   *)
Undelivered(r) == SubSeq(sent, Len(received[r]) + 1, Len(sent))
LastReceived(r) == IF received[r] = <<>> THEN NoMessage ELSE received[r][Len(received[r])]

Queue == INSTANCE BroadcastQueue WITH
  inbox <- [r \in Reader |-> Undelivered(r)],
  got <- [r \in Reader |-> LastReceived(r)]

ImplementsBroadcast == Queue!QueueSpec

(* acquire_write spins without a timeout: as long as readers keep reading,    *)
(* an enqueue returns, however full the ring is.                            *)
EnqueueReturns == writer.pc = "acquire" ~> writer.pc = "idle"

===============================================================================
