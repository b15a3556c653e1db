-------------------------- MODULE AsyncLLMEngineProofs --------------------------
(***************************************************************************)
(* Proofs about AsyncLLMEngine, for any set of requests and of workers, any   *)
(* number of outputs and of faults.                                        *)
(***************************************************************************)
EXTENDS AsyncLLMEngine, SequenceTheorems, WellFoundedInduction, TLAPS

OutputItem == [n : Nat, finished : BOOLEAN]
EndItem == {STOP, CANCELLED, FAILED, INVALID}
StreamState == [queue : Seq(OutputItem \cup EndItem), finished : BOOLEAN]
TrackerState ==
  [new : Seq(Req), aborted : SUBSET Req, registered : SUBSET Req, event : BOOLEAN,
   stream : [Req -> StreamState]]

NoDuplicates(s) == \A i, j \in DOMAIN s : s[i] = s[j] => i = j

-------------------------------------------------------------------------------
(* The states of the tracker, the callers and the step.                      *)
EngineTypeOK ==
  /\ tracker \in TrackerState
  /\ client \in [Req -> {"new", "waiting", "closing", "gone"}]
  /\ received \in [Req -> Seq(OutputItem)]
  /\ verdict \in [Req -> {"open", "normal", "error"}]
  /\ unfinished \subseteq Req
  /\ produced \in [Req -> Nat] /\ \A r \in Req : produced[r] <= MaxOutputs[r]
  /\ loop \in {"none", "top", "stopping", "joining", "wait", "iterate", "dead"}
  /\ errored \in BOOLEAN /\ callback \in BOOLEAN /\ orphaned \subseteq Req
  /\ step \in [pc : {"none", "start", "adding", "executing", "done", "failed"},
               todo : Seq(Req), aborts : SUBSET Req, batch : SUBSET Req, more : BOOLEAN]

(* A step task runs inside an iteration, or outlives a loop that timed out.   *)
StepInv ==
  /\ step.pc = "none" => step.aborts = {}
  /\ step.pc = "start" => step.aborts = {} /\ loop = "iterate"
  /\ step.pc # "adding" => step.todo = <<>>
  /\ step.pc = "executing" => step.batch \subseteq unfinished
  /\ step.pc # "none" => loop = "iterate" \/ (loop = "dead" /\ errored)
  /\ loop = "iterate" => step.pc # "none"

(* A request goes from its caller to the queue of new requests, to the step,  *)
(* to the engine: each once, and it has no output before the engine has it.   *)
OnceInv ==
  /\ NoDuplicates(tracker.new) /\ NoDuplicates(step.todo)
  /\ ToSet(tracker.new) \cap ToSet(step.todo) = {}
  /\ \A r \in ToSet(tracker.new) \cup ToSet(step.todo) : r \notin unfinished /\ produced[r] = 0
  /\ \A r \in Req : client[r] = "new" =>
       /\ r \notin ToSet(tracker.new) \cup ToSet(step.todo)
       /\ r \notin unfinished /\ produced[r] = 0
       /\ received[r] = <<>> /\ verdict[r] = "open"
  /\ \A r \in unfinished : produced[r] < MaxOutputs[r]

(* Whoever the engine computes for is registered, or its abort is on the way; *)
(* whoever is registered is computed for.                                   *)
CoverInv ==
  /\ unfinished \cup ToSet(step.todo) \subseteq
       tracker.registered \cup tracker.aborted \cup step.aborts \cup orphaned
  /\ step.pc \in {"executing", "done", "failed"} =>
       unfinished \subseteq tracker.registered \cup tracker.aborted \cup orphaned
  /\ tracker.registered \cap (tracker.aborted \cup step.aborts \cup ToSet(tracker.new)) = {}
  /\ loop = "iterate" => tracker.registered \subseteq unfinished \cup ToSet(step.todo)
  /\ loop \in {"top", "stopping", "joining", "wait"} =>
       tracker.registered = {} /\ (orphaned = {} => unfinished = {})
  /\ loop = "none" => tracker.registered = {} /\ unfinished = {} /\ orphaned = {}

(* A new request is never waited for in vain.                                *)
EventInv == tracker.new # <<>> => tracker.event \/ step.pc = "start" \/ loop = "dead"

(* What the queue of a stream holds for a caller that waits for it: the        *)
(* outputs after the last one received and then, once the stream is finished,  *)
(* how it ended.                                                           *)
QueueOK(q, finished, last) ==
  /\ ~finished =>
       /\ ~last.finished
       /\ \A i \in 1..Len(q) : q[i] \in OutputItem /\ q[i].n = last.n + i /\ ~q[i].finished
  /\ finished =>
       /\ Len(q) >= 1 /\ q[Len(q)] \in EndItem
       /\ last.finished <=> Len(q) = 1 /\ q[1] = STOP
       /\ \A i \in 1..(Len(q) - 1) :
            /\ q[i] \in OutputItem /\ q[i].n = last.n + i
            /\ q[i].finished <=> i = Len(q) - 1 /\ q[Len(q)] = STOP

StreamOK(r) ==
  /\ verdict[r] = "open"
  /\ QueueOK(tracker.stream[r].queue, tracker.stream[r].finished, LastReceived(r))
  /\ r \in tracker.registered =>
       /\ ~tracker.stream[r].finished
       /\ produced[r] = LastReceived(r).n + Len(tracker.stream[r].queue)
  /\ r \in ToSet(tracker.new) => received[r] = <<>> /\ tracker.stream[r] = EmptyStream

StreamInv == \A r \in Req : client[r] = "waiting" => StreamOK(r)

EngineInv ==
  /\ EngineTypeOK
  /\ StepInv /\ OnceInv /\ CoverInv /\ EventInv /\ StreamInv

-------------------------------------------------------------------------------
(* The executor, as long as the engine has not failed.                       *)
StopSent == tasks = "none" \/ (loop = "stopping" /\ driver = "returned")
Raised == {"sent_exception", "failed"}

(* Who runs the driver, and when the callback of a failed loop is due.        *)
DriverInv ==
  /\ loop = "stopping" => tasks = "running" /\ driver \in {"stop", "returned"}
  /\ loop \in {"none", "joining", "wait"} => tasks = "none"
  /\ step.pc = "executing" => tasks # "none" /\ driver \in {"step", "forward", "returned", "raised"}
  /\ step.pc # "executing" /\ loop # "stopping" => driver = "idle"
  /\ tasks = "created" => step.pc = "executing"
  /\ loop = "dead" => callback
  /\ callback => loop \in {"dead", "top"}

(* Worker w: between the model loops of two stretches of requests, on its way  *)
(* into the loop or inside it, or out of it by an exception.                 *)
Between(w) == worker[w] = "task" /\ taskQueue[w] = 0 /\ inbox[w] = <<>>
Within(w) ==
  /\ future[w] = "pending"
  /\ \/ worker[w] = "task" /\ taskQueue[w] = 1
     \/ worker[w] \in {"loop", "forward"} /\ taskQueue[w] = 0
Broken(w) == future[w] \in Raised /\ worker[w] = "task" /\ taskQueue[w] = 0

NoStop(s) == \A i \in 1..Len(s) : s[i] # "stop"
EndsWithStop(s) ==
  s # <<>> /\ s[Len(s)] = "stop" /\ \A i \in 1..(Len(s) - 1) : s[i] # "stop"

WorkerOK(w) ==
  /\ tasks = "created" => worker[w] = "task" /\ taskQueue[w] = 0 /\ NoStop(inbox[w])
  /\ tasks = "running" /\ ~StopSent => (Within(w) /\ NoStop(inbox[w])) \/ Broken(w)
  /\ StopSent =>
       \/ Between(w) /\ future[w] \in {"none", "sent", "done"}
       \/ Within(w) /\ EndsWithStop(inbox[w])
       \/ Broken(w)

(* No model loop runs, and the workers of the last one have been awaited.      *)
Rested ==
  tasks = "none" /\ (loop \in {"none", "wait", "iterate"} \/ (loop = "top" /\ ~callback))

WorkersInv ==
  /\ \A w \in Reader : worker[w] # "dead" => WorkerOK(w)
  /\ tasks = "running" /\ ~StopSent => \A w \in Reader : future[w] \in {"pending"} \cup Raised
  /\ Rested => \A w \in Reader : future[w] \in {"none", "done"}

RunningInv == ~errored => DriverInv /\ WorkersInv

-------------------------------------------------------------------------------
(* Induction over the natural numbers for a set S: a smallest number outside  *)
(* of it would have a predecessor inside.                                    *)
LEMMA NaturalInduction ==
  ASSUME NEW S, 0 \in S, \A n \in Nat : n \in S => n + 1 \in S
  PROVE  \A n \in Nat : n \in S
<1> DEFINE T == {n \in Nat : n \notin S}
<1>1. SUFFICES ASSUME T # {} PROVE FALSE
  OBVIOUS
<1>2. PICK x \in T : \A y \in T : <<y, x>> \notin OpToRel(<, Nat)
  BY <1>1, WFMin, NatLessThanWellFounded
<1>3. x \in Nat /\ x \notin S
  OBVIOUS
<1>4. x # 0 /\ x - 1 \in Nat /\ x - 1 < x
  BY <1>3
<1>5. <<x - 1, x>> \in OpToRel(<, Nat)
  BY <1>3, <1>4 DEF OpToRel
<1>6. x - 1 \notin T
  <2> HIDE DEF T
  <2> QED
    BY <1>2, <1>5
<1>7. x - 1 \in S
  BY <1>4, <1>6
<1> QED
  BY <1>3, <1>4, <1>7

(* One entry of the recursion of TakenRequests, given the earlier ones.        *)
TakenAt(f, t, i) ==
  IF i = 0 THEN <<>>
  ELSE IF t.new[i] \in t.aborted THEN f[i - 1] ELSE Append(f[i - 1], t.new[i])

(* The recursion of TakenRequests defines a function.                         *)
LEMMA TakenExists ==
  ASSUME NEW t \in TrackerState
  PROVE  \E f : f = [i \in 0..Len(t.new) |-> TakenAt(f, t, i)]
<1> DEFINE S == {n \in Nat : \E f : f = [i \in 0..n |-> TakenAt(f, t, i)]}
<1>1. 0 \in S
  <2> DEFINE f == [i \in 0..0 |-> <<>>]
  <2>1. f = [i \in 0..0 |-> TakenAt(f, t, i)]
    BY DEF TakenAt
  <2> QED
    BY <2>1
<1>2. ASSUME NEW n \in Nat, n \in S PROVE n + 1 \in S
  <2>1. PICK g : g = [i \in 0..n |-> TakenAt(g, t, i)]
    BY <1>2
  <2> DEFINE h == [i \in 0..(n + 1) |-> IF i <= n THEN g[i] ELSE TakenAt(g, t, n + 1)]
  <2>2. ASSUME NEW i \in 0..(n + 1) PROVE h[i] = TakenAt(h, t, i)
    <3>1. i # 0 => h[i - 1] = g[i - 1]
      OBVIOUS
    <3>2. TakenAt(h, t, i) = TakenAt(g, t, i)
      BY <3>1 DEF TakenAt
    <3>3. i <= n => g[i] = TakenAt(g, t, i)
      BY <2>1
    <3> QED
      BY <3>2, <3>3
  <2>3. h = [i \in 0..(n + 1) |-> TakenAt(h, t, i)]
    BY <2>2
  <2> HIDE DEF h
  <2> QED
    BY <2>3
<1>3. Len(t.new) \in Nat
  BY DEF TrackerState
<1>4. \A n \in Nat : n \in S
  <2> HIDE DEF S
  <2> QED
    BY <1>1, <1>2, NaturalInduction
<1> QED
  BY <1>3, <1>4

LEMMA TakenValue ==
  ASSUME NEW t \in TrackerState
  PROVE  \E f : /\ f = [i \in 0..Len(t.new) |-> TakenAt(f, t, i)]
                /\ TakenRequests(t) = f[Len(t.new)]
<1> DEFINE taken[i \in 0..Len(t.new)] ==
      IF i = 0 THEN <<>>
      ELSE IF t.new[i] \in t.aborted THEN taken[i - 1] ELSE Append(taken[i - 1], t.new[i])
<1>1. TakenRequests(t) = taken[Len(t.new)]
  BY DEF TakenRequests
<1>2. taken = CHOOSE f : f = [i \in 0..Len(t.new) |-> TakenAt(f, t, i)]
  BY DEF TakenAt
<1> HIDE DEF taken
<1>3. taken = [i \in 0..Len(t.new) |-> TakenAt(taken, t, i)]
  BY <1>2, TakenExists
<1> QED
  BY <1>1, <1>3

-------------------------------------------------------------------------------
(* Sequences without duplicates.                                             *)
LEMMA ToSetMember ==
  ASSUME NEW S, NEW s \in Seq(S), NEW x
  PROVE  x \in ToSet(s) <=> \E i \in 1..Len(s) : s[i] = x
BY DEF ToSet

LEMMA ToSetType ==
  ASSUME NEW S, NEW s \in Seq(S)
  PROVE  ToSet(s) \subseteq S
BY DEF ToSet

LEMMA ToSetEmpty == ToSet(<<>>) = {} /\ NoDuplicates(<<>>)
BY DEF ToSet, NoDuplicates

LEMMA ToSetNonEmpty ==
  ASSUME NEW S, NEW s \in Seq(S)
  PROVE  ToSet(s) = {} <=> s = <<>>
<1>1. ASSUME s # <<>> PROVE s[1] \in ToSet(s)
  BY <1>1, ToSetMember
<1> QED
  BY <1>1, ToSetEmpty

LEMMA ToSetAppend ==
  ASSUME NEW S, NEW s \in Seq(S), NEW x \in S
  PROVE  /\ ToSet(Append(s, x)) = ToSet(s) \cup {x}
         /\ NoDuplicates(s) /\ x \notin ToSet(s) => NoDuplicates(Append(s, x))
<1> DEFINE a == Append(s, x)
<1>1. /\ a \in Seq(S) /\ Len(a) = Len(s) + 1 /\ a[Len(s) + 1] = x
      /\ \A i \in 1..Len(s) : a[i] = s[i]
  OBVIOUS
<1> HIDE DEF a
<1>2. ASSUME NEW y PROVE y \in ToSet(a) <=> y \in ToSet(s) \cup {x}
  <2>1. (\E i \in 1..Len(a) : a[i] = y) <=> (\E i \in 1..Len(s) : s[i] = y) \/ y = x
    <3>1. ASSUME NEW i \in 1..Len(a), a[i] = y PROVE (\E k \in 1..Len(s) : s[k] = y) \/ y = x
      <4>1. i \in 1..Len(s) \/ i = Len(s) + 1
        BY <1>1
      <4> QED
        BY <1>1, <3>1, <4>1
    <3>2. ASSUME NEW i \in 1..Len(s), s[i] = y PROVE \E k \in 1..Len(a) : a[k] = y
      BY <1>1, <3>2
    <3>3. ASSUME y = x PROVE \E k \in 1..Len(a) : a[k] = y
      <4>1. Len(s) + 1 \in 1..Len(a)
        BY <1>1
      <4> QED
        BY <1>1, <3>3, <4>1
    <3> QED
      BY <3>1, <3>2, <3>3
  <2> QED
    BY <1>1, <2>1, ToSetMember
<1>3. ASSUME NoDuplicates(s), x \notin ToSet(s) PROVE NoDuplicates(a)
  <2>1. SUFFICES ASSUME NEW i \in 1..Len(a), NEW j \in 1..Len(a), a[i] = a[j] PROVE i = j
    BY <1>1 DEF NoDuplicates
  <2>2. \A k \in 1..Len(s) : s[k] # x
    BY <1>3, ToSetMember
  <2>3. \A k, l \in 1..Len(s) : s[k] = s[l] => k = l
    BY <1>3 DEF NoDuplicates
  <2>4. /\ i \in 1..Len(s) \/ i = Len(s) + 1
        /\ j \in 1..Len(s) \/ j = Len(s) + 1
    BY <1>1
  <2> QED
    BY <1>1, <2>1, <2>2, <2>3, <2>4
<1> QED
  BY <1>2, <1>3 DEF a

LEMMA ToSetTail ==
  ASSUME NEW S, NEW s \in Seq(S), s # <<>>
  PROVE  /\ Head(s) \in S /\ Tail(s) \in Seq(S)
         /\ ToSet(s) = ToSet(Tail(s)) \cup {Head(s)}
         /\ NoDuplicates(s) => NoDuplicates(Tail(s)) /\ Head(s) \notin ToSet(Tail(s))
<1> DEFINE a == Tail(s)
<1>1. /\ a \in Seq(S) /\ Len(a) = Len(s) - 1 /\ Len(s) \in Nat \ {0} /\ Head(s) = s[1]
      /\ \A i \in 1..Len(a) : a[i] = s[i + 1]
      /\ Head(s) \in S
  OBVIOUS
<1> HIDE DEF a
<1>2. ASSUME NEW y PROVE y \in ToSet(s) <=> y \in ToSet(a) \cup {Head(s)}
  <2>1. ASSUME NEW i \in 1..Len(s), s[i] = y PROVE (\E k \in 1..Len(a) : a[k] = y) \/ y = Head(s)
    <3>1. i = 1 \/ (i - 1 \in 1..Len(a) /\ i = (i - 1) + 1)
      BY <1>1
    <3> QED
      BY <1>1, <2>1, <3>1
  <2>2. ASSUME NEW i \in 1..Len(a), a[i] = y PROVE \E k \in 1..Len(s) : s[k] = y
    <3>1. i + 1 \in 1..Len(s)
      BY <1>1
    <3> QED
      BY <1>1, <2>2, <3>1
  <2>3. ASSUME y = Head(s) PROVE \E k \in 1..Len(s) : s[k] = y
    BY <1>1, <2>3
  <2> QED
    BY <1>1, <2>1, <2>2, <2>3, ToSetMember
<1>3. ASSUME NoDuplicates(s) PROVE NoDuplicates(a) /\ Head(s) \notin ToSet(a)
  <2>1. \A k, l \in 1..Len(s) : s[k] = s[l] => k = l
    BY <1>3 DEF NoDuplicates
  <2>2. \A i \in 1..Len(a) : i + 1 \in 1..Len(s) /\ i + 1 # 1
    BY <1>1
  <2>3. ASSUME NEW i \in 1..Len(a), NEW j \in 1..Len(a), a[i] = a[j] PROVE i = j
    <3>1. i + 1 = j + 1
      BY <1>1, <2>1, <2>2, <2>3
    <3> QED
      BY <3>1
  <2>4. ASSUME NEW i \in 1..Len(a) PROVE a[i] # Head(s)
    BY <1>1, <2>1, <2>2
  <2> QED
    BY <1>1, <2>3, <2>4, ToSetMember DEF NoDuplicates
<1> QED
  BY <1>1, <1>2, <1>3 DEF a

(* What get_new_and_aborted_requests hands to the engine: the new requests     *)
(* that were not aborted, each once.                                        *)
LEMMA Taken ==
  ASSUME NEW t \in TrackerState
  PROVE  /\ TakenRequests(t) \in Seq(Req)
         /\ ToSet(TakenRequests(t)) = ToSet(t.new) \ t.aborted
         /\ NoDuplicates(t.new) => NoDuplicates(TakenRequests(t))
<1>1. PICK f : f = [i \in 0..Len(t.new) |-> TakenAt(f, t, i)] /\ TakenRequests(t) = f[Len(t.new)]
  BY TakenValue
<1>2. t.new \in Seq(Req) /\ Len(t.new) \in Nat /\ \A i \in 1..Len(t.new) : t.new[i] \in Req
  BY DEF TrackerState
<1> DEFINE Upto(n) == {r \in Req : \E i \in 1..n : t.new[i] = r}
           S == {n \in Nat : n <= Len(t.new) =>
                   /\ f[n] \in Seq(Req) /\ ToSet(f[n]) = Upto(n) \ t.aborted
                   /\ NoDuplicates(t.new) => NoDuplicates(f[n])}
<1>3. 0 \in S
  <2>1. f[0] = <<>>
    BY <1>1, <1>2 DEF TakenAt
  <2>2. Upto(0) = {}
    OBVIOUS
  <2>3. f[0] \in Seq(Req) /\ ToSet(f[0]) = {} /\ NoDuplicates(f[0])
    BY <2>1, ToSetEmpty
  <2> HIDE DEF Upto
  <2> QED
    BY <2>2, <2>3
<1>4. ASSUME NEW n \in Nat, n \in S PROVE n + 1 \in S
  <2>1. SUFFICES ASSUME n + 1 <= Len(t.new)
                 PROVE  /\ f[n + 1] \in Seq(Req) /\ ToSet(f[n + 1]) = Upto(n + 1) \ t.aborted
                        /\ NoDuplicates(t.new) => NoDuplicates(f[n + 1])
    OBVIOUS
  <2>2. /\ f[n] \in Seq(Req) /\ ToSet(f[n]) = Upto(n) \ t.aborted
        /\ NoDuplicates(t.new) => NoDuplicates(f[n])
    BY <1>2, <1>4, <2>1
  <2> DEFINE r == t.new[n + 1]
  <2>3. r \in Req /\ n + 1 \in 1..Len(t.new)
    BY <1>2, <2>1
  <2>4. f[n + 1] = IF r \in t.aborted THEN f[n] ELSE Append(f[n], r)
    <3>1. n + 1 \in 0..Len(t.new) /\ n + 1 # 0 /\ (n + 1) - 1 = n
      BY <1>2, <2>1
    <3> QED
      BY <1>1, <3>1 DEF TakenAt
  <2>5. Upto(n + 1) = Upto(n) \cup {r}
    <3>1. ASSUME NEW i \in 1..(n + 1) PROVE i \in 1..n \/ i = n + 1
      OBVIOUS
    <3>2. ASSUME NEW i \in 1..n PROVE i \in 1..(n + 1)
      OBVIOUS
    <3>3. n + 1 \in 1..(n + 1)
      OBVIOUS
    <3> QED
      BY <2>3, <3>1, <3>2, <3>3
  <2>6. ASSUME NoDuplicates(t.new) PROVE r \notin Upto(n)
    <3>1. ASSUME NEW i \in 1..n, t.new[i] = t.new[n + 1] PROVE FALSE
      <4>1. i \in 1..Len(t.new) /\ i # n + 1
        BY <1>2, <2>1
      <4> QED
        BY <1>2, <2>3, <2>6, <3>1, <4>1 DEF NoDuplicates
    <3> QED
      BY <3>1
  <2> HIDE DEF Upto, r
  <2>7. CASE r \in t.aborted
    BY <2>2, <2>4, <2>5, <2>7
  <2>8. CASE r \notin t.aborted
    <3>1. f[n + 1] = Append(f[n], r)
      BY <2>4, <2>8
    <3>2. ToSet(f[n + 1]) = ToSet(f[n]) \cup {r}
      BY <2>2, <2>3, <3>1, ToSetAppend
    <3>3. NoDuplicates(f[n]) /\ r \notin ToSet(f[n]) => NoDuplicates(f[n + 1])
      BY <2>2, <2>3, <3>1, ToSetAppend
    <3>4. f[n + 1] \in Seq(Req)
      BY <2>2, <2>3, <3>1
    <3> QED
      BY <2>2, <2>5, <2>6, <2>8, <3>2, <3>3, <3>4
  <2> QED
    BY <2>7, <2>8
<1>5. \A n \in Nat : n \in S
  <2> HIDE DEF S
  <2> QED
    BY <1>3, <1>4, NaturalInduction
<1>6. Len(t.new) <= Len(t.new)
  BY <1>2
<1>7. /\ TakenRequests(t) \in Seq(Req) /\ ToSet(TakenRequests(t)) = Upto(Len(t.new)) \ t.aborted
      /\ NoDuplicates(t.new) => NoDuplicates(TakenRequests(t))
  <2> HIDE DEF Upto
  <2> QED
    BY <1>1, <1>2, <1>5, <1>6
<1>8. Upto(Len(t.new)) = ToSet(t.new)
  BY <1>2, ToSetMember
<1> QED
  BY <1>7, <1>8

-------------------------------------------------------------------------------
(* The items of a stream.                                                    *)
LEMMA Items ==
  /\ OutputItem \cap EndItem = {}
  /\ \A x : IsEnd(x) <=> x \in EndItem
  /\ STOP \in EndItem /\ CANCELLED \in EndItem /\ FAILED \in EndItem /\ INVALID \in EndItem
  /\ CANCELLED # STOP /\ FAILED # STOP /\ INVALID # STOP
<1>1. OutputItem \cap EndItem = {}
  <2>1. ASSUME NEW x \in OutputItem PROVE DOMAIN x = {"n", "finished"}
    BY DEF OutputItem
  <2>2. ASSUME NEW x \in EndItem PROVE DOMAIN x = {"end"}
    BY DEF EndItem, STOP, CANCELLED, FAILED, INVALID
  <2> QED
    BY <2>1, <2>2
<1>2. \A x : IsEnd(x) <=> x \in EndItem
  BY DEF IsEnd, EndItem
<1>3. STOP \in EndItem /\ CANCELLED \in EndItem /\ FAILED \in EndItem /\ INVALID \in EndItem
  BY DEF EndItem
<1>4. CANCELLED # STOP /\ FAILED # STOP /\ INVALID # STOP
  BY DEF STOP, CANCELLED, FAILED, INVALID
<1> QED
  BY <1>1, <1>2, <1>3, <1>4

LEMMA QueueStarts ==
  ASSUME NEW last, ~last.finished
  PROVE  QueueOK(<<>>, FALSE, last)
BY DEF QueueOK

(* An output is put.                                                         *)
LEMMA QueuePuts ==
  ASSUME NEW q \in Seq(OutputItem \cup EndItem), NEW last \in OutputItem, QueueOK(q, FALSE, last),
         NEW x \in OutputItem, x.n = last.n + Len(q) + 1, ~x.finished
  PROVE  QueueOK(Append(q, x), FALSE, last)
<1> DEFINE p == Append(q, x)
<1>1. Len(p) = Len(q) + 1 /\ p[Len(q) + 1] = x /\ \A i \in 1..Len(q) : p[i] = q[i]
  OBVIOUS
<1>2. \A i \in 1..Len(p) : i \in 1..Len(q) \/ i = Len(q) + 1
  BY <1>1
<1>3. last.n \in Nat /\ Len(q) \in Nat
  BY DEF OutputItem
<1> HIDE DEF p
<1>4. ASSUME NEW i \in 1..Len(p) PROVE p[i] \in OutputItem /\ p[i].n = last.n + i /\ ~p[i].finished
  <2>1. CASE i \in 1..Len(q)
    BY <1>1, <2>1 DEF QueueOK
  <2>2. CASE i = Len(q) + 1
    <3>1. p[i] = x /\ last.n + i = last.n + Len(q) + 1
      BY <1>1, <1>3, <2>2
    <3> QED
      BY <3>1
  <2> QED
    BY <1>2, <2>1, <2>2
<1>5. ~last.finished
  BY DEF QueueOK
<1>6. QueueOK(p, FALSE, last)
  BY <1>4, <1>5 DEF QueueOK
<1> QED
  BY <1>6 DEF p

(* The stream is ended: after its last output, or early.                     *)
LEMMA QueueEnds ==
  ASSUME NEW q \in Seq(OutputItem \cup EndItem), NEW last \in OutputItem, QueueOK(q, FALSE, last)
  PROVE  /\ \A end \in EndItem : end # STOP => QueueOK(Append(q, end), TRUE, last)
         /\ \A x \in OutputItem : x.n = last.n + Len(q) + 1 /\ x.finished =>
              QueueOK(Append(Append(q, x), STOP), TRUE, last)
<1>1. ~last.finished /\ last.n \in Nat /\ Len(q) \in Nat
  BY DEF QueueOK, OutputItem
<1>2. ASSUME NEW i \in 1..Len(q) PROVE q[i] \in OutputItem /\ q[i].n = last.n + i /\ ~q[i].finished
  BY DEF QueueOK
<1>3. ASSUME NEW end \in EndItem, end # STOP PROVE QueueOK(Append(q, end), TRUE, last)
  <2> DEFINE p == Append(q, end)
  <2>1. Len(p) = Len(q) + 1 /\ p[Len(q) + 1] = end /\ \A i \in 1..Len(q) : p[i] = q[i]
    OBVIOUS
  <2> HIDE DEF p
  <2>2. Len(p) >= 1 /\ p[Len(p)] = end /\ Len(p) - 1 = Len(q)
    BY <1>1, <2>1
  <2>3. Len(p) = 1 => p[1] # STOP
    BY <1>3, <2>2
  <2>4. QueueOK(p, TRUE, last)
    BY <1>1, <1>2, <1>3, <2>1, <2>2, <2>3 DEF QueueOK
  <2> QED
    BY <2>4 DEF p
<1>4. ASSUME NEW x \in OutputItem, x.n = last.n + Len(q) + 1, x.finished
      PROVE  QueueOK(Append(Append(q, x), STOP), TRUE, last)
  <2> DEFINE p == Append(Append(q, x), STOP)
  <2>1. /\ Len(p) = Len(q) + 2 /\ p[Len(q) + 2] = STOP /\ p[Len(q) + 1] = x
        /\ \A i \in 1..Len(q) : p[i] = q[i]
    BY Items
  <2> HIDE DEF p
  <2>2. Len(p) >= 1 /\ p[Len(p)] = STOP /\ STOP \in EndItem /\ Len(p) # 1 /\ Len(p) - 1 = Len(q) + 1
    BY <1>1, <2>1, Items
  <2>3. ASSUME NEW i \in 1..(Len(p) - 1)
        PROVE  p[i] \in OutputItem /\ p[i].n = last.n + i /\ (p[i].finished <=> i = Len(p) - 1)
    <3>1. i \in 1..Len(q) \/ i = Len(q) + 1
      BY <1>1, <2>2
    <3>2. CASE i \in 1..Len(q)
      BY <1>1, <1>2, <2>1, <2>2, <3>2
    <3>3. CASE i = Len(q) + 1
      BY <1>1, <1>4, <2>1, <2>2, <3>3
    <3> QED
      BY <3>1, <3>2, <3>3
  <2>4. QueueOK(p, TRUE, last)
    BY <1>1, <2>2, <2>3 DEF QueueOK
  <2> QED
    BY <2>4 DEF p
<1> QED
  BY <1>3, <1>4

(* The caller takes an output, or the end.                                   *)
LEMMA QueueTakes ==
  ASSUME NEW q \in Seq(OutputItem \cup EndItem), q # <<>>, NEW last \in OutputItem,
         NEW finished \in BOOLEAN, QueueOK(q, finished, last)
  PROVE  /\ Head(q) \notin EndItem =>
              /\ Head(q) \in OutputItem /\ Head(q).n = last.n + 1 /\ ~last.finished
              /\ QueueOK(Tail(q), finished, Head(q))
         /\ Head(q) \in EndItem => (Head(q) = STOP <=> last.finished)
<1> DEFINE p == Tail(q)
<1>1. /\ Len(q) \in Nat \ {0} /\ Head(q) = q[1] /\ last.n \in Nat
      /\ Len(p) = Len(q) - 1 /\ \A i \in 1..Len(p) : p[i] = q[i + 1]
  BY DEF OutputItem
<1> HIDE DEF p
<1>2. ASSUME q[1] \notin EndItem
      PROVE q[1] \in OutputItem /\ q[1].n = last.n + 1 /\ ~last.finished /\ QueueOK(p, finished, q[1])
  <2>1. CASE ~finished
    <3>1. q[1] \in OutputItem /\ q[1].n = last.n + 1 /\ ~last.finished /\ ~q[1].finished
      BY <1>1, <2>1 DEF QueueOK
    <3>2. ASSUME NEW i \in 1..Len(p) PROVE p[i] \in OutputItem /\ p[i].n = q[1].n + i /\ ~p[i].finished
      <4>1. i + 1 \in 1..Len(q)
        BY <1>1
      <4>2. p[i] \in OutputItem /\ p[i].n = last.n + (i + 1) /\ ~p[i].finished
        BY <1>1, <2>1, <4>1 DEF QueueOK
      <4>3. \A k \in Nat : k + (i + 1) = (k + 1) + i
        OBVIOUS
      <4> QED
        BY <1>1, <3>1, <4>2, <4>3
    <3> QED
      BY <2>1, <3>1, <3>2 DEF QueueOK
  <2>2. CASE finished
    <3>1. q[Len(q)] \in EndItem /\ Len(q) # 1
      BY <1>1, <1>2, <2>2 DEF QueueOK
    <3>2. /\ q[1] \in OutputItem /\ q[1].n = last.n + 1 /\ ~last.finished
          /\ q[1].finished <=> 1 = Len(q) - 1 /\ q[Len(q)] = STOP
      BY <1>1, <2>2, <3>1, SMTT(30) DEF QueueOK
    <3>3. Len(p) >= 1 /\ p[Len(p)] = q[Len(q)]
      BY <1>1, <3>1
    <3>4. q[1].finished <=> Len(p) = 1 /\ p[1] = STOP
      BY <1>1, <3>1, <3>2, <3>3
    <3>5. ASSUME NEW i \in 1..(Len(p) - 1)
          PROVE  p[i] \in OutputItem /\ p[i].n = q[1].n + i
                 /\ (p[i].finished <=> i = Len(p) - 1 /\ p[Len(p)] = STOP)
      <4>1. i + 1 \in 1..(Len(q) - 1) /\ p[i] = q[i + 1]
        BY <1>1
      <4>2. /\ p[i] \in OutputItem /\ p[i].n = last.n + (i + 1)
            /\ p[i].finished <=> i + 1 = Len(q) - 1 /\ q[Len(q)] = STOP
        BY <1>1, <2>2, <4>1 DEF QueueOK
      <4>3. \A k \in Nat : k + (i + 1) = (k + 1) + i
        OBVIOUS
      <4>4. i + 1 = Len(q) - 1 <=> i = Len(p) - 1
        BY <1>1
      <4> QED
        BY <1>1, <3>2, <3>3, <4>2, <4>3, <4>4
    <3> QED
      BY <2>2, <3>1, <3>2, <3>3, <3>4, <3>5 DEF QueueOK
  <2> QED
    BY <2>1, <2>2
<1>3. ASSUME q[1] \in EndItem PROVE q[1] = STOP <=> last.finished
  <2>1. q[1] \notin OutputItem
    BY <1>3, Items
  <2>2. finished /\ Len(q) = 1
    BY <1>1, <2>1 DEF QueueOK
  <2> QED
    BY <2>2 DEF QueueOK
<1> QED
  BY <1>1, <1>2, <1>3 DEF p

-------------------------------------------------------------------------------
(* What the operators of RequestTracker return, field by field.               *)
LEMMA StreamEnds ==
  ASSUME NEW s \in StreamState, NEW end \in OutputItem \cup EndItem
  PROVE  /\ Put(s, end) \in StreamState /\ Put(s, end).finished = s.finished
         /\ s.finished => Put(s, end) = s
         /\ ~s.finished => Put(s, end).queue = Append(s.queue, end)
         /\ Finish(s, end) \in StreamState /\ Finish(s, end).finished
         /\ Finish(s, end).queue = Put(s, end).queue
<1>1. /\ Put(s, end) \in StreamState /\ Put(s, end).finished = s.finished
      /\ s.finished => Put(s, end) = s
      /\ ~s.finished => Put(s, end).queue = Append(s.queue, end)
  BY DEF StreamState, Put
<1>2. /\ Finish(s, end) \in StreamState /\ Finish(s, end).finished
      /\ Finish(s, end).queue = Put(s, end).queue
  BY <1>1 DEF StreamState, Finish
<1> QED
  BY <1>1, <1>2

LEMMA EmptyStreamType == EmptyStream \in StreamState
BY DEF EmptyStream, StreamState

LEMMA TrackerFields ==
  ASSUME NEW t \in TrackerState
  PROVE  /\ t.new \in Seq(Req) /\ t.aborted \subseteq Req /\ t.registered \subseteq Req
         /\ t.event \in BOOLEAN /\ t.stream \in [Req -> StreamState]
         /\ ToSet(t.new) \subseteq Req
         /\ \A r \in Req : /\ t.stream[r] \in StreamState
                           /\ t.stream[r].queue \in Seq(OutputItem \cup EndItem)
                           /\ t.stream[r].finished \in BOOLEAN
<1>1. /\ t.new \in Seq(Req) /\ t.aborted \subseteq Req /\ t.registered \subseteq Req
      /\ t.event \in BOOLEAN /\ t.stream \in [Req -> StreamState]
  BY DEF TrackerState
<1>2. ToSet(t.new) \subseteq Req
  BY <1>1, ToSetType
<1>3. \A r \in Req : /\ t.stream[r] \in StreamState
                     /\ t.stream[r].queue \in Seq(OutputItem \cup EndItem)
                     /\ t.stream[r].finished \in BOOLEAN
  BY <1>1 DEF StreamState
<1> QED
  BY <1>1, <1>2, <1>3

LEMMA NewTrackerFields ==
  ASSUME NEW f \in [Req -> StreamState]
  PROVE  /\ NewTracker(f) \in TrackerState
         /\ NewTracker(f).new = <<>> /\ NewTracker(f).aborted = {} /\ NewTracker(f).registered = {}
         /\ NewTracker(f).event = FALSE /\ NewTracker(f).stream = f
BY DEF NewTracker, TrackerState

LEMMA AddRequestFields ==
  ASSUME NEW t \in TrackerState, NEW r \in Req
  PROVE  LET u == AddRequest(t, r) IN
         /\ u \in TrackerState
         /\ u.new = Append(t.new, r) /\ u.aborted = t.aborted /\ u.registered = t.registered
         /\ u.event = TRUE /\ u.stream = [t.stream EXCEPT ![r] = EmptyStream]
         /\ ToSet(u.new) = ToSet(t.new) \cup {r}
         /\ NoDuplicates(t.new) /\ r \notin ToSet(t.new) => NoDuplicates(u.new)
<1> DEFINE u == AddRequest(t, r)
<1> DEFINE f == [t.stream EXCEPT ![r] = EmptyStream]
           n == Append(t.new, r)
<1>2. f \in [Req -> StreamState] /\ n \in Seq(Req)
  BY EmptyStreamType, TrackerFields
<1>3. u = [t EXCEPT !.new = n, !.event = TRUE, !.stream = f]
  BY DEF AddRequest, TrackerState
<1> HIDE DEF u, f, n
<1>4. u \in TrackerState /\ u.new = n /\ u.aborted = t.aborted /\ u.registered = t.registered
      /\ u.event = TRUE /\ u.stream = f
  BY <1>2, <1>3 DEF TrackerState
<1>1. /\ u \in TrackerState
      /\ u.new = Append(t.new, r) /\ u.aborted = t.aborted /\ u.registered = t.registered
      /\ u.event = TRUE /\ u.stream = [t.stream EXCEPT ![r] = EmptyStream]
  BY <1>4 DEF f, n
<1>5. /\ ToSet(u.new) = ToSet(t.new) \cup {r}
      /\ NoDuplicates(t.new) /\ r \notin ToSet(t.new) => NoDuplicates(u.new)
  BY <1>1, TrackerFields, ToSetAppend
<1> QED
  BY <1>1, <1>5 DEF u

LEMMA AbortRequestFields ==
  ASSUME NEW t \in TrackerState, NEW r \in Req, NEW end \in EndItem
  PROVE  LET u == AbortRequest(t, r, end) IN
         /\ u \in TrackerState
         /\ u.new = t.new /\ u.aborted = t.aborted \cup {r} /\ u.registered = t.registered \ {r}
         /\ u.event = t.event
         /\ u.stream[r] = IF r \in t.registered THEN Finish(t.stream[r], end) ELSE t.stream[r]
         /\ \A p \in Req : p # r => u.stream[p] = t.stream[p]
<1>1. t.stream \in [Req -> StreamState] /\ Finish(t.stream[r], end) \in StreamState
  BY TrackerFields, StreamEnds
<1> DEFINE s == IF r \in t.registered THEN Finish(t.stream[r], end) ELSE t.stream[r]
<1>2. s \in StreamState
  BY <1>1
<1> DEFINE f == [t.stream EXCEPT ![r] = s]
<1>3. AbortRequest(t, r, end) =
        [t EXCEPT !.aborted = @ \cup {r}, !.registered = @ \ {r}, !.stream = f]
  BY DEF AbortRequest, TrackerState
<1>6. f \in [Req -> StreamState] /\ f[r] = s /\ \A p \in Req : p # r => f[p] = t.stream[p]
  BY <1>1, <1>2
<1> HIDE DEF f, s
<1>4. LET u == AbortRequest(t, r, end) IN
      /\ u \in TrackerState
      /\ u.new = t.new /\ u.aborted = t.aborted \cup {r} /\ u.registered = t.registered \ {r}
      /\ u.event = t.event /\ u.stream = f
  BY <1>3, <1>6, ZenonT(60) DEF TrackerState
<1> QED
  BY <1>4, <1>6 DEF s

LEMMA UnreadFields ==
  ASSUME NEW t \in TrackerState, NEW r \in Req
  PROVE  LET u == Unread(t, r) IN
         /\ u \in TrackerState
         /\ u.new = t.new /\ u.aborted = t.aborted /\ u.registered = t.registered
         /\ u.event = t.event
         /\ \A p \in Req : p # r => u.stream[p] = t.stream[p]
<1>1. [t.stream[r] EXCEPT !.queue = <<>>] \in StreamState
  <2>1. ASSUME NEW s \in StreamState PROVE [s EXCEPT !.queue = <<>>] \in StreamState
    <3>1. ASSUME NEW q \in Seq(OutputItem \cup EndItem) PROVE [s EXCEPT !.queue = q] \in StreamState
      BY DEF StreamState
    <3>2. <<>> \in Seq(OutputItem \cup EndItem)
      OBVIOUS
    <3> QED
      BY <3>1, <3>2
  <2> QED
    BY <2>1, TrackerFields
<1>2. Unread(t, r) = [t EXCEPT !.stream = [t.stream EXCEPT ![r] = [t.stream[r] EXCEPT !.queue = <<>>]]]
  BY DEF Unread, TrackerState
<1> QED
  BY <1>1, <1>2 DEF TrackerState

LEMMA PropagateFields ==
  ASSUME NEW t \in TrackerState, NEW end \in EndItem
  PROVE  LET u == PropagateException(t, end) IN
         /\ u \in TrackerState
         /\ u.new = t.new /\ u.aborted = t.aborted \cup t.registered /\ u.registered = {}
         /\ u.event = t.event
         /\ \A p \in Req : u.stream[p] = IF p \in t.registered THEN Finish(t.stream[p], end) ELSE t.stream[p]
<1> DEFINE f == [r \in Req |-> IF r \in t.registered THEN Finish(t.stream[r], end) ELSE t.stream[r]]
<1>1. ASSUME NEW r \in Req PROVE t.stream[r] \in StreamState /\ Finish(t.stream[r], end) \in StreamState
  BY TrackerFields, StreamEnds
<1>2. f \in [Req -> StreamState]
  BY <1>1
<1>3. PropagateException(t, end) =
        [t EXCEPT !.aborted = @ \cup t.registered, !.registered = {}, !.stream = f]
  BY DEF PropagateException, TrackerState
<1>4. \A p \in Req : f[p] = IF p \in t.registered THEN Finish(t.stream[p], end) ELSE t.stream[p]
  OBVIOUS
<1> HIDE DEF f
<1>5. LET u == PropagateException(t, end) IN
      /\ u \in TrackerState
      /\ u.new = t.new /\ u.aborted = t.aborted \cup t.registered /\ u.registered = {}
      /\ u.event = t.event /\ u.stream = f
  BY <1>2, <1>3 DEF TrackerState
<1> QED
  BY <1>4, <1>5

(* Tracker u is tracker t after the outputs of a batch, the last ones of last. *)
Delivered(t, u, batch, last, out) ==
  /\ u \in TrackerState
  /\ u.new = t.new /\ u.aborted = t.aborted /\ u.registered = t.registered \ last
  /\ u.event = t.event
  /\ \A p \in Req : u.stream[p] =
       IF p \in batch \cap t.registered
       THEN IF p \in last THEN Finish(Put(t.stream[p], out[p]), STOP)
            ELSE Put(t.stream[p], out[p])
       ELSE t.stream[p]

LEMMA OutputsFields ==
  ASSUME NEW t \in TrackerState, NEW batch \in SUBSET Req, NEW last \in SUBSET batch,
         NEW out, \A r \in batch : out[r] \in OutputItem /\ (out[r].finished <=> r \in last)
  PROVE  Delivered(t, ProcessRequestOutputs(t, batch, out), batch, last, out)
<1> DEFINE Reg(r) == ProcessRequestOutput(t, r, out[r]).registered
           Str(r) == ProcessRequestOutput(t, r, out[r]).stream[r]
           g == {r \in t.registered : r \in batch => r \in Reg(r)}
           f == [r \in Req |-> IF r \in batch THEN Str(r) ELSE t.stream[r]]
<1>1. ASSUME NEW r \in batch
      PROVE  /\ r \in t.registered => (r \in Reg(r) <=> r \notin last)
             /\ Str(r) \in StreamState
             /\ Str(r) = IF r \in t.registered
                         THEN IF r \in last THEN Finish(Put(t.stream[r], out[r]), STOP)
                              ELSE Put(t.stream[r], out[r])
                         ELSE t.stream[r]
  <2>1. t.stream[r] \in StreamState /\ t.stream \in [Req -> StreamState] /\ r \in Req
    BY TrackerFields
  <2>2. Put(t.stream[r], out[r]) \in StreamState
    BY <2>1, StreamEnds
  <2>3. Finish(Put(t.stream[r], out[r]), STOP) \in StreamState
    BY <2>2, StreamEnds, Items
  <2>4. CASE r \notin t.registered
    BY <2>1, <2>4 DEF ProcessRequestOutput
  <2>5. CASE r \in t.registered /\ r \in last
    <3>1. ProcessRequestOutput(t, r, out[r]) =
            [t EXCEPT !.registered = @ \ {r},
                      !.stream = [t.stream EXCEPT ![r] = Finish(Put(t.stream[r], out[r]), STOP)]]
      BY <2>1, <2>5 DEF ProcessRequestOutput, TrackerState
    <3>2. Reg(r) = t.registered \ {r} /\ Str(r) = Finish(Put(t.stream[r], out[r]), STOP)
      BY <2>1, <3>1 DEF TrackerState
    <3> QED
      BY <2>3, <2>5, <3>2
  <2>6. CASE r \in t.registered /\ r \notin last
    <3>1. ProcessRequestOutput(t, r, out[r]) =
            [t EXCEPT !.stream = [t.stream EXCEPT ![r] = Put(t.stream[r], out[r])]]
      BY <2>1, <2>6 DEF ProcessRequestOutput, TrackerState
    <3>2. Reg(r) = t.registered /\ Str(r) = Put(t.stream[r], out[r])
      BY <2>1, <3>1 DEF TrackerState
    <3> QED
      BY <2>2, <2>6, <3>2
  <2> QED
    BY <2>4, <2>5, <2>6
<1>2. ProcessRequestOutputs(t, batch, out) = [t EXCEPT !.registered = g, !.stream = f]
  BY DEF ProcessRequestOutputs, TrackerState
<1> HIDE DEF Reg, Str
<1>3. g = t.registered \ last
  BY <1>1
<1>4. \A p \in Req : f[p] =
        IF p \in batch \cap t.registered
        THEN IF p \in last THEN Finish(Put(t.stream[p], out[p]), STOP) ELSE Put(t.stream[p], out[p])
        ELSE t.stream[p]
  BY <1>1
<1>5. f \in [Req -> StreamState]
  BY <1>1, TrackerFields
<1> HIDE DEF f, g
<1>6. LET u == ProcessRequestOutputs(t, batch, out) IN
      /\ u \in TrackerState
      /\ u.new = t.new /\ u.aborted = t.aborted /\ u.registered = g /\ u.event = t.event
      /\ u.stream = f
  BY <1>2, <1>3, <1>5 DEF TrackerState
<1> QED
  BY <1>3, <1>4, <1>6 DEF Delivered

LEMMA DrainedFields ==
  ASSUME NEW t \in TrackerState
  PROVE  LET u == Drained(t) IN
         /\ u \in TrackerState
         /\ u.new = <<>> /\ u.aborted = {}
         /\ u.registered = t.registered \cup (ToSet(t.new) \ t.aborted)
         /\ u.event = t.event
         /\ \A p \in Req : u.stream[p] =
              IF p \in ToSet(t.new) \cap t.aborted THEN Finish(t.stream[p], CANCELLED) ELSE t.stream[p]
<1> DEFINE f == [r \in Req |-> IF r \in ToSet(t.new) \cap t.aborted
                               THEN Finish(t.stream[r], CANCELLED) ELSE t.stream[r]]
           g == t.registered \cup ToSet(TakenRequests(t))
           none == <<>>
<1>1. ASSUME NEW r \in Req PROVE t.stream[r] \in StreamState /\ Finish(t.stream[r], CANCELLED) \in StreamState
  BY TrackerFields, StreamEnds, Items
<1>2. f \in [Req -> StreamState]
  BY <1>1
<1>3. g = t.registered \cup (ToSet(t.new) \ t.aborted)
  BY Taken
<1>4. g \subseteq Req
  BY <1>3, TrackerFields
<1>5. \A p \in Req : f[p] =
        IF p \in ToSet(t.new) \cap t.aborted THEN Finish(t.stream[p], CANCELLED) ELSE t.stream[p]
  OBVIOUS
<1>6. none \in Seq(Req)
  OBVIOUS
<1>7. Drained(t) = [t EXCEPT !.new = none, !.aborted = {}, !.registered = g, !.stream = f]
  BY DEF Drained, TrackerState
<1> HIDE DEF f, g, none
<1>8. LET u == Drained(t) IN
      /\ u \in TrackerState
      /\ u.new = none /\ u.aborted = {} /\ u.registered = g /\ u.event = t.event /\ u.stream = f
  BY <1>2, <1>4, <1>6, <1>7 DEF TrackerState
<1> QED
  BY <1>3, <1>5, <1>8 DEF none

-------------------------------------------------------------------------------
LEMMA LastReceivedType ==
  ASSUME EngineTypeOK, NEW r \in Req
  PROVE  LastReceived(r) \in OutputItem
<1>1. received[r] \in Seq(OutputItem)
  BY DEF EngineTypeOK
<1>2. CASE received[r] = <<>>
  BY <1>2 DEF LastReceived, OutputItem
<1>3. CASE received[r] # <<>>
  <2>1. Last(received[r]) = received[r][Len(received[r])] /\ Len(received[r]) \in 1..Len(received[r])
    BY <1>1, <1>3 DEF Last
  <2> QED
    BY <1>1, <1>3, <2>1 DEF LastReceived
<1> QED
  BY <1>2, <1>3

(* A caller whose stream is left alone.                                      *)
LEMMA StreamKept ==
  ASSUME NEW r \in Req, StreamOK(r),
         tracker'.stream[r] = tracker.stream[r], received'[r] = received[r], verdict'[r] = verdict[r],
         r \in tracker'.registered => r \in tracker.registered /\ produced'[r] = produced[r],
         r \in ToSet(tracker'.new) => r \in ToSet(tracker.new)
  PROVE  StreamOK(r)'
<1>1. LastReceived(r)' = LastReceived(r)
  BY DEF LastReceived
<1> QED
  BY <1>1 DEF StreamOK

(* A caller whose stream is ended early.                                     *)
LEMMA StreamEnded ==
  ASSUME EngineTypeOK, NEW r \in Req, StreamOK(r), ~tracker.stream[r].finished,
         NEW end \in EndItem, end # STOP, tracker'.stream[r] = Finish(tracker.stream[r], end),
         received'[r] = received[r], verdict'[r] = verdict[r],
         r \notin tracker'.registered, r \notin ToSet(tracker'.new)
  PROVE  StreamOK(r)'
<1>1. LastReceived(r)' = LastReceived(r)
  BY DEF LastReceived
<1>2. LastReceived(r) \in OutputItem
  BY LastReceivedType
<1>3. tracker.stream[r] \in StreamState /\ tracker.stream[r].queue \in Seq(OutputItem \cup EndItem)
  BY TrackerFields DEF EngineTypeOK
<1>4. /\ tracker'.stream[r].finished = TRUE
      /\ tracker'.stream[r].queue = Append(tracker.stream[r].queue, end)
  <2> DEFINE s == tracker.stream[r]
  <2>1. s \in StreamState /\ ~s.finished
    BY <1>3
  <2> HIDE DEF s
  <2>2. Finish(s, end) \in StreamState /\ Finish(s, end).finished
    BY <2>1, StreamEnds
  <2>3. Finish(s, end).queue = Put(s, end).queue /\ Put(s, end).queue = Append(s.queue, end)
    BY <2>1, StreamEnds
  <2>4. Finish(s, end).finished = TRUE /\ Finish(s, end).queue = Append(s.queue, end)
    BY <2>2, <2>3 DEF StreamState
  <2>5. tracker'.stream[r] = Finish(s, end)
    BY DEF s
  <2> QED
    BY <2>4, <2>5 DEF s
<1>5. QueueOK(tracker.stream[r].queue, FALSE, LastReceived(r))
  BY <1>3 DEF StreamOK, StreamState
<1>6. QueueOK(Append(tracker.stream[r].queue, end), TRUE, LastReceived(r))
  BY <1>2, <1>3, <1>5, QueueEnds
<1> QED
  BY <1>1, <1>4, <1>6 DEF StreamOK

LEMMA EngineInit == Init => EngineInv
<1> SUFFICES ASSUME Init PROVE EngineInv
  OBVIOUS
<1> DEFINE f == [r \in Req |-> EmptyStream]
<1>1. f \in [Req -> StreamState]
  BY EmptyStreamType
<1>2. /\ tracker \in TrackerState /\ tracker.new = <<>> /\ tracker.aborted = {}
      /\ tracker.registered = {} /\ tracker.event = FALSE
  BY <1>1, NewTrackerFields DEF Init
<1>3. /\ step.pc = "none" /\ step.todo = <<>> /\ step.aborts = {} /\ step.batch = {} /\ step.more = FALSE
      /\ step \in [pc : {"none", "start", "adding", "executing", "done", "failed"},
                   todo : Seq(Req), aborts : SUBSET Req, batch : SUBSET Req, more : BOOLEAN]
  <2>1. ASSUME NEW none \in Seq(Req)
        PROVE  [pc |-> "none", todo |-> none, aborts |-> {}, batch |-> {}, more |-> FALSE]
                 \in [pc : {"none", "start", "adding", "executing", "done", "failed"},
                      todo : Seq(Req), aborts : SUBSET Req, batch : SUBSET Req, more : BOOLEAN]
    OBVIOUS
  <2>2. <<>> \in Seq(Req)
    OBVIOUS
  <2> QED
    BY <2>1, <2>2 DEF Init, NoStep
<1>4. EngineTypeOK
  <2>1. received \in [Req -> Seq(OutputItem)]
    <3>1. <<>> \in Seq(OutputItem)
      OBVIOUS
    <3> QED
      BY <3>1 DEF Init
  <2>2. produced \in [Req -> Nat] /\ \A r \in Req : produced[r] <= MaxOutputs[r]
    BY OutputsAssumption DEF Init
  <2>3. /\ client \in [Req -> {"new", "waiting", "closing", "gone"}]
        /\ verdict \in [Req -> {"open", "normal", "error"}]
    BY DEF Init
  <2> QED
    BY <1>2, <1>3, <2>1, <2>2, <2>3 DEF Init, EngineTypeOK
<1>5. StepInv
  BY <1>3 DEF Init, StepInv
<1>6. OnceInv
  BY <1>2, <1>3, ToSetEmpty DEF Init, OnceInv
<1>7. CoverInv
  BY <1>2, <1>3, ToSetEmpty DEF Init, CoverInv
<1>8. EventInv
  BY <1>2 DEF EventInv
<1>9. StreamInv
  BY DEF Init, StreamInv
<1> QED
  BY <1>4, <1>5, <1>6, <1>7, <1>8, <1>9 DEF EngineInv

-------------------------------------------------------------------------------
(* The callers.                                                            *)
LEMMA GenerateKeeps ==
  ASSUME EngineInv, NEW r \in Req, Generate(r)
  PROVE  EngineInv'
<1> USE DEF EngineInv
<1>1. /\ client[r] = "new" /\ tracker \in TrackerState
      /\ UNCHANGED <<received, unfinished, produced, errored, callback, step>>
  BY DEF Generate, EngineTypeOK, engineVars
<1>2. /\ r \notin ToSet(tracker.new) \cup ToSet(step.todo) /\ r \notin unfinished /\ produced[r] = 0
      /\ received[r] = <<>> /\ verdict[r] = "open"
  BY <1>1 DEF OnceInv
<1>3. CASE IsRunning
  <2>1. /\ tracker' = AddRequest(tracker, r) /\ client' = [client EXCEPT ![r] = "waiting"]
        /\ UNCHANGED <<verdict, loop, orphaned>>
    BY <1>3 DEF Generate
  <2>2. /\ tracker' \in TrackerState
        /\ tracker'.new = Append(tracker.new, r) /\ tracker'.aborted = tracker.aborted
        /\ tracker'.registered = tracker.registered /\ tracker'.event = TRUE
        /\ tracker'.stream = [tracker.stream EXCEPT ![r] = EmptyStream]
        /\ ToSet(tracker'.new) = ToSet(tracker.new) \cup {r}
        /\ NoDuplicates(tracker'.new)
    BY <1>1, <1>2, <2>1, AddRequestFields DEF OnceInv
  <2>3. r \notin tracker.registered
    BY <1>2, <1>3 DEF CoverInv, IsRunning, EngineTypeOK
  <2>4. EngineTypeOK'
    BY <1>1, <2>1, <2>2 DEF EngineTypeOK
  <2>5. StepInv'
    BY <1>1, <2>1 DEF StepInv
  <2>6. OnceInv'
    BY <1>1, <1>2, <2>1, <2>2 DEF OnceInv, EngineTypeOK
  <2>7. CoverInv'
    BY <1>1, <2>1, <2>2, <2>3 DEF CoverInv
  <2>8. EventInv'
    BY <2>2 DEF EventInv
  <2>9. StreamInv'
    <3>1. ASSUME NEW p \in Req, p # r, client'[p] = "waiting" PROVE StreamOK(p)'
      <4>1. client[p] = "waiting" /\ tracker'.stream[p] = tracker.stream[p]
        BY <1>1, <2>1, <2>2, <3>1, TrackerFields DEF EngineTypeOK
      <4>2. StreamOK(p)
        BY <4>1 DEF StreamInv
      <4>3. p \in ToSet(tracker'.new) => p \in ToSet(tracker.new)
        BY <2>2, <3>1
      <4> QED
        BY <1>1, <2>1, <2>2, <4>1, <4>2, <4>3, StreamKept
    <3>2. StreamOK(r)'
      <4>1. tracker'.stream[r] = EmptyStream /\ r \notin tracker'.registered
        BY <1>1, <2>2, <2>3, TrackerFields
      <4>2. received'[r] = <<>> /\ verdict'[r] = "open"
        BY <1>1, <1>2, <2>1
      <4>3. ~(LastReceived(r)').finished
        BY <4>2 DEF LastReceived
      <4>4. EmptyStream.queue = <<>> /\ EmptyStream.finished = FALSE
        BY DEF EmptyStream
      <4>5. QueueOK(<<>>, FALSE, LastReceived(r)')
        BY <4>3, QueueStarts
      <4> QED
        BY <4>1, <4>2, <4>4, <4>5 DEF StreamOK
    <3> QED
      BY <3>1, <3>2 DEF StreamInv
  <2> QED
    BY <2>4, <2>5, <2>6, <2>7, <2>8, <2>9
<1>4. CASE ~IsRunning /\ ~errored
  <2>1. /\ orphaned' = orphaned \cup tracker.registered \cup tracker.aborted \cup ToSet(tracker.new)
        /\ loop' = "top" /\ tracker' = AddRequest(NewTracker(tracker.stream), r)
        /\ client' = [client EXCEPT ![r] = "waiting"] /\ UNCHANGED verdict
    BY <1>4 DEF Generate
  <2>2. /\ tracker' \in TrackerState
        /\ tracker'.aborted = {} /\ tracker'.registered = {} /\ tracker'.event = TRUE
        /\ tracker'.stream = [tracker.stream EXCEPT ![r] = EmptyStream]
        /\ ToSet(tracker'.new) = {r} /\ NoDuplicates(tracker'.new)
    <3> DEFINE t == NewTracker(tracker.stream)
    <3>1. /\ t \in TrackerState /\ t.new = <<>> /\ t.aborted = {} /\ t.registered = {}
          /\ t.stream = tracker.stream
      BY <1>1, TrackerFields, NewTrackerFields
    <3> HIDE DEF t
    <3>2. ToSet(t.new) = {} /\ NoDuplicates(t.new)
      BY <3>1, ToSetEmpty
    <3>3. tracker' = AddRequest(t, r)
      BY <2>1 DEF t
    <3> DEFINE u == AddRequest(t, r)
    <3>7. /\ u \in TrackerState /\ u.aborted = t.aborted /\ u.registered = t.registered
          /\ u.event = TRUE /\ u.stream = [t.stream EXCEPT ![r] = EmptyStream]
      BY <3>1, AddRequestFields
    <3>4. /\ u \in TrackerState /\ u.aborted = {} /\ u.registered = {} /\ u.event = TRUE
          /\ u.stream = [tracker.stream EXCEPT ![r] = EmptyStream]
      BY <3>1, <3>7
    <3>5. ToSet(u.new) = {r} /\ NoDuplicates(u.new)
      BY <3>1, <3>2, AddRequestFields, ZenonT(60)
    <3> HIDE DEF u
    <3>6. tracker' = u
      BY <3>3 DEF u
    <3> QED
      BY <3>4, <3>5, <3>6
  <2>3. loop \in {"none", "dead"} /\ step.pc = "none" /\ step.aborts = {} /\ step.todo = <<>>
    BY <1>4 DEF IsRunning, StepInv
  <2>4. EngineTypeOK'
    BY <1>1, <2>1, <2>2, TrackerFields DEF EngineTypeOK
  <2>5. StepInv'
    BY <1>1, <2>1, <2>3 DEF StepInv
  <2>6. OnceInv'
    BY <1>1, <1>2, <2>1, <2>2, <2>3, ToSetEmpty DEF OnceInv, EngineTypeOK
  <2>7. CoverInv'
    BY <1>1, <2>1, <2>2, <2>3, ToSetEmpty DEF CoverInv
  <2>8. EventInv'
    BY <2>2 DEF EventInv
  <2>9. StreamInv'
    <3>1. ASSUME NEW p \in Req, p # r, client'[p] = "waiting" PROVE StreamOK(p)'
      <4>1. client[p] = "waiting" /\ tracker'.stream[p] = tracker.stream[p]
        BY <1>1, <2>1, <2>2, <3>1, TrackerFields DEF EngineTypeOK
      <4>2. StreamOK(p)
        BY <4>1 DEF StreamInv
      <4>3. p \notin ToSet(tracker'.new) /\ p \notin tracker'.registered
        BY <2>2, <3>1
      <4> QED
        BY <1>1, <2>1, <4>1, <4>2, <4>3, StreamKept
    <3>2. StreamOK(r)'
      <4>1. tracker'.stream[r] = EmptyStream /\ r \notin tracker'.registered
        BY <1>1, <2>2, TrackerFields
      <4>2. received'[r] = <<>> /\ verdict'[r] = "open"
        BY <1>1, <1>2, <2>1
      <4>3. ~(LastReceived(r)').finished
        BY <4>2 DEF LastReceived
      <4>4. EmptyStream.queue = <<>> /\ EmptyStream.finished = FALSE
        BY DEF EmptyStream
      <4>5. QueueOK(<<>>, FALSE, LastReceived(r)')
        BY <4>3, QueueStarts
      <4> QED
        BY <4>1, <4>2, <4>4, <4>5 DEF StreamOK
    <3> QED
      BY <3>1, <3>2 DEF StreamInv
  <2> QED
    BY <2>4, <2>5, <2>6, <2>7, <2>8, <2>9
<1>5. CASE ~IsRunning /\ errored
  <2>1. /\ client' = [client EXCEPT ![r] = "gone"] /\ verdict' = [verdict EXCEPT ![r] = "error"]
        /\ UNCHANGED <<tracker, loop, orphaned>>
    BY <1>5 DEF Generate
  <2>2. EngineTypeOK' /\ StepInv' /\ CoverInv' /\ EventInv'
    BY <1>1, <2>1 DEF EngineTypeOK, StepInv, CoverInv, EventInv
  <2>3. OnceInv'
    BY <1>1, <1>2, <2>1 DEF OnceInv, EngineTypeOK
  <2>4. ASSUME NEW p \in Req, client'[p] = "waiting" PROVE StreamOK(p)'
    <3>1. p # r /\ client[p] = "waiting" /\ verdict'[p] = verdict[p]
      BY <2>1, <2>4 DEF EngineTypeOK
    <3>2. StreamOK(p)
      BY <3>1 DEF StreamInv
    <3> QED
      BY <1>1, <2>1, <3>1, <3>2, StreamKept
  <2> QED
    BY <2>2, <2>3, <2>4 DEF StreamInv
<1> QED
  BY <1>3, <1>4, <1>5

(* The requests A are aborted, if any; the engine and the step do not move.    *)
LEMMA AbortsKeep ==
  ASSUME EngineInv, NEW A \in SUBSET Req,
         tracker'.new = tracker.new, tracker'.event = tracker.event,
         tracker'.aborted = tracker.aborted \cup A, tracker'.registered = tracker.registered \ A,
         UNCHANGED <<unfinished, produced, loop, orphaned, step>>, errored => errored',
         \A p \in Req : client'[p] = "new" =>
           client[p] = "new" /\ received'[p] = received[p] /\ verdict'[p] = verdict[p]
  PROVE  StepInv' /\ OnceInv' /\ CoverInv' /\ EventInv'
<1> USE DEF EngineInv
<1>1. StepInv'
  BY DEF StepInv
<1>2. OnceInv'
  BY DEF OnceInv
<1>3. CoverInv'
  BY DEF CoverInv
<1>4. EventInv'
  BY DEF EventInv
<1> QED
  BY <1>1, <1>2, <1>3, <1>4

LEMMA ReceiveKeeps ==
  ASSUME EngineInv, NEW r \in Req, Receive(r)
  PROVE  EngineInv'
<1> USE DEF EngineInv
<1> DEFINE s == tracker.stream[r]
           item == Head(s.queue)
<1>1. /\ client[r] = "waiting" /\ s.queue # <<>>
      /\ tracker' = [tracker EXCEPT !.stream[r].queue = Tail(@)]
      /\ UNCHANGED <<unfinished, produced, loop, errored, callback, orphaned, step>>
  BY DEF Receive, engineVars, loopVars
<1>2. \/ ~IsEnd(item) /\ received' = [received EXCEPT ![r] = Append(@, item)] /\ UNCHANGED <<client, verdict>>
      \/ /\ IsEnd(item) /\ client' = [client EXCEPT ![r] = "gone"]
         /\ verdict' = [verdict EXCEPT ![r] = IF item = STOP THEN "normal" ELSE "error"]
         /\ UNCHANGED received
  BY DEF Receive
<1>3. tracker \in TrackerState /\ s \in StreamState /\ s.queue \in Seq(OutputItem \cup EndItem)
  BY TrackerFields DEF EngineTypeOK
<1>4. /\ tracker' \in TrackerState
      /\ tracker'.new = tracker.new /\ tracker'.aborted = tracker.aborted
      /\ tracker'.registered = tracker.registered /\ tracker'.event = tracker.event
      /\ tracker'.stream[r].queue = Tail(s.queue) /\ tracker'.stream[r].finished = s.finished
      /\ \A p \in Req : p # r => tracker'.stream[p] = tracker.stream[p]
  <2> DEFINE v == [s EXCEPT !.queue = Tail(s.queue)]
             f == [tracker.stream EXCEPT ![r] = v]
  <2>1. Tail(s.queue) \in Seq(OutputItem \cup EndItem)
    BY <1>1, <1>3
  <2>2. v \in StreamState /\ v.queue = Tail(s.queue) /\ v.finished = s.finished
    <3>1. ASSUME NEW x \in StreamState, NEW q \in Seq(OutputItem \cup EndItem)
          PROVE  LET y == [x EXCEPT !.queue = q] IN
                 y \in StreamState /\ y.queue = q /\ y.finished = x.finished
      BY DEF StreamState
    <3> HIDE DEF s
    <3> QED
      BY <1>3, <2>1, <3>1
  <2>3. tracker' = [tracker EXCEPT !.stream = f]
    BY <1>1, <1>3 DEF TrackerState
  <2> HIDE DEF v
  <2>4. f \in [Req -> StreamState] /\ f[r] = v /\ \A p \in Req : p # r => f[p] = tracker.stream[p]
    BY <1>3, <2>2, TrackerFields
  <2> HIDE DEF f
  <2>5. /\ tracker' \in TrackerState
        /\ tracker'.new = tracker.new /\ tracker'.aborted = tracker.aborted
        /\ tracker'.registered = tracker.registered /\ tracker'.event = tracker.event
        /\ tracker'.stream = f
    BY <1>3, <2>3, <2>4 DEF TrackerState
  <2> QED
    BY <2>2, <2>4, <2>5
<1>5. StreamOK(r)
  BY <1>1 DEF StreamInv
<1>6. r \notin ToSet(tracker.new)
  <2>1. EmptyStream.queue = <<>>
    BY DEF EmptyStream
  <2> QED
    BY <1>1, <1>5, <2>1 DEF StreamOK
<1>7. LastReceived(r) \in OutputItem
  BY LastReceivedType
<1>8. QueueOK(s.queue, s.finished, LastReceived(r)) /\ s.finished \in BOOLEAN
  BY <1>3, <1>5, TrackerFields DEF StreamOK
<1>9. /\ item \notin EndItem =>
            /\ item \in OutputItem /\ item.n = LastReceived(r).n + 1 /\ ~LastReceived(r).finished
            /\ QueueOK(Tail(s.queue), s.finished, item)
      /\ item \in EndItem => (item = STOP <=> LastReceived(r).finished)
  <2> HIDE DEF s
  <2> QED
    BY <1>1, <1>3, <1>7, <1>8, QueueTakes
<1>10. /\ ~IsEnd(item) => item \in OutputItem
       /\ \A p \in Req : p # r => /\ client'[p] = client[p] /\ received'[p] = received[p]
                                  /\ verdict'[p] = verdict[p]
       /\ client'[r] # "new"
  <2>1. ~IsEnd(item) => item \in OutputItem
    BY <1>9, Items
  <2> HIDE DEF item
  <2> QED
    BY <1>1, <1>2, <2>1 DEF EngineTypeOK
<1>11. EngineTypeOK'
  <2>1. received' \in [Req -> Seq(OutputItem)]
    <3> HIDE DEF item
    <3>1. CASE IsEnd(item)
      BY <1>2, <3>1 DEF EngineTypeOK
    <3>2. CASE ~IsEnd(item)
      <4>1. item \in OutputItem /\ received[r] \in Seq(OutputItem)
        BY <1>10, <3>2 DEF EngineTypeOK
      <4>2. Append(received[r], item) \in Seq(OutputItem)
        BY <4>1
      <4> QED
        BY <1>2, <3>2, <4>2 DEF EngineTypeOK
    <3> QED
      BY <3>1, <3>2
  <2>2. /\ client' \in [Req -> {"new", "waiting", "closing", "gone"}]
        /\ verdict' \in [Req -> {"open", "normal", "error"}]
    <3> HIDE DEF item
    <3> QED
      BY <1>2 DEF EngineTypeOK
  <2> QED
    BY <1>1, <1>4, <2>1, <2>2 DEF EngineTypeOK
<1>12. StepInv' /\ OnceInv' /\ CoverInv' /\ EventInv'
  <2>1. tracker'.aborted = tracker.aborted \cup {} /\ tracker'.registered = tracker.registered \ {}
    BY <1>4
  <2>2. \A p \in Req : client'[p] = "new" =>
          client[p] = "new" /\ received'[p] = received[p] /\ verdict'[p] = verdict[p]
    BY <1>10
  <2>3. {} \in SUBSET Req
    OBVIOUS
  <2> QED
    BY <1>1, <1>4, <2>1, <2>2, <2>3, AbortsKeep
<1>13. StreamInv'
  <2>1. ASSUME NEW p \in Req, p # r, client'[p] = "waiting" PROVE StreamOK(p)'
    <3>1. StreamOK(p)
      BY <1>10, <2>1 DEF StreamInv
    <3> QED
      BY <1>1, <1>4, <1>10, <2>1, <3>1, StreamKept
  <2>2. ASSUME client'[r] = "waiting" PROVE StreamOK(r)'
    <3> HIDE DEF item
    <3>1. ~IsEnd(item) /\ received' = [received EXCEPT ![r] = Append(@, item)] /\ UNCHANGED <<client, verdict>>
      BY <1>2, <2>2 DEF EngineTypeOK
    <3>2. item \in OutputItem /\ received[r] \in Seq(OutputItem)
      BY <1>10, <3>1 DEF EngineTypeOK
    <3>3. received'[r] = Append(received[r], item)
      BY <3>1 DEF EngineTypeOK
    <3>4. LastReceived(r)' = item
      <4> DEFINE a == Append(received[r], item)
      <4>1. a # <<>> /\ a[Len(a)] = item
        BY <3>2
      <4> HIDE DEF a
      <4>2. received'[r] = a
        BY <3>3 DEF a
      <4> QED
        BY <4>1, <4>2 DEF LastReceived, Last
    <3>5. item \notin EndItem
      BY <3>1, Items
    <3>6. item.n = LastReceived(r).n + 1 /\ QueueOK(Tail(s.queue), s.finished, item)
      BY <1>9, <3>5
    <3>7. Len(Tail(s.queue)) = Len(s.queue) - 1 /\ Len(s.queue) \in Nat
      BY <1>1, <1>3
    <3>8. r \in tracker'.registered =>
            ~tracker'.stream[r].finished /\ produced'[r] = item.n + Len(tracker'.stream[r].queue)
      <4>1. r \in tracker.registered => ~s.finished /\ produced[r] = LastReceived(r).n + Len(s.queue)
        BY <1>5 DEF StreamOK
      <4>2. LastReceived(r).n \in Nat
        BY <1>7 DEF OutputItem
      <4>3. ASSUME r \in tracker.registered PROVE produced[r] = item.n + (Len(s.queue) - 1)
        <5> HIDE DEF s
        <5> QED
          BY <3>6, <3>7, <4>1, <4>2, <4>3
      <4> HIDE DEF s
      <4> QED
        BY <1>1, <1>4, <3>7, <4>1, <4>3
    <3>9. verdict'[r] = "open"
      BY <1>5, <3>1 DEF StreamOK
    <3>10. r \notin ToSet(tracker'.new)
      BY <1>4, <1>6
    <3> QED
      BY <1>4, <3>4, <3>6, <3>8, <3>9, <3>10 DEF StreamOK
  <2> QED
    BY <2>1, <2>2 DEF StreamInv
<1> QED
  BY <1>11, <1>12, <1>13

(* A caller leaves, and its request is aborted if any of A.                    *)
LEMMA LeavingKeeps ==
  ASSUME EngineInv, NEW r \in Req, NEW A \in SUBSET {r}, NEW there \in {"closing", "gone"},
         client[r] # "new", client' = [client EXCEPT ![r] = there], tracker' \in TrackerState,
         tracker'.new = tracker.new, tracker'.event = tracker.event,
         tracker'.aborted = tracker.aborted \cup A, tracker'.registered = tracker.registered \ A,
         \A p \in Req : p # r => tracker'.stream[p] = tracker.stream[p],
         UNCHANGED <<received, verdict, unfinished, produced, loop, errored, callback, orphaned, step>>
  PROVE  EngineInv'
<1> USE DEF EngineInv
<1>1. EngineTypeOK'
  BY DEF EngineTypeOK
<1>2. \A p \in Req : client'[p] = "new" \/ client'[p] = "waiting" => p # r /\ client'[p] = client[p]
  BY DEF EngineTypeOK
<1>3. StepInv' /\ OnceInv' /\ CoverInv' /\ EventInv'
  <2>1. A \in SUBSET Req
    OBVIOUS
  <2> QED
    BY <1>2, <2>1, AbortsKeep
<1>4. ASSUME NEW p \in Req, client'[p] = "waiting" PROVE StreamOK(p)'
  <2>1. p # r /\ client[p] = "waiting" /\ tracker'.stream[p] = tracker.stream[p]
    BY <1>2, <1>4
  <2>2. StreamOK(p)
    BY <2>1 DEF StreamInv
  <2>3. p \in tracker'.registered => p \in tracker.registered
    OBVIOUS
  <2> QED
    BY <2>1, <2>2, <2>3, StreamKept
<1> QED
  BY <1>1, <1>3, <1>4 DEF StreamInv

(* What Unread leaves of an abort.                                           *)
LEMMA UnreadAfterAbort ==
  ASSUME NEW t \in TrackerState, NEW r \in Req, NEW end \in EndItem
  PROVE  LET u == Unread(AbortRequest(t, r, end), r) IN
         /\ u \in TrackerState /\ u.new = t.new /\ u.event = t.event
         /\ u.aborted = t.aborted \cup {r} /\ u.registered = t.registered \ {r}
         /\ \A p \in Req : p # r => u.stream[p] = t.stream[p]
<1> DEFINE v == AbortRequest(t, r, end)
<1>1. /\ v \in TrackerState /\ v.new = t.new /\ v.event = t.event
      /\ v.aborted = t.aborted \cup {r} /\ v.registered = t.registered \ {r}
      /\ \A p \in Req : p # r => v.stream[p] = t.stream[p]
  BY AbortRequestFields
<1> HIDE DEF v
<1>2. LET u == Unread(v, r) IN
      /\ u \in TrackerState /\ u.new = v.new /\ u.event = v.event
      /\ u.aborted = v.aborted /\ u.registered = v.registered
      /\ \A p \in Req : p # r => u.stream[p] = v.stream[p]
  BY <1>1, UnreadFields
<1> QED
  BY <1>1, <1>2 DEF v

LEMMA ClientKeeps ==
  ASSUME EngineInv, NEW r \in Req, ClientStep(r)
  PROVE  EngineInv'
<1>1. CASE Generate(r)
  BY <1>1, GenerateKeeps
<1>2. CASE Receive(r)
  BY <1>2, ReceiveKeeps
<1>3. tracker \in TrackerState
  BY DEF EngineInv, EngineTypeOK
<1>4. CASE CancelWaiting(r)
  <2>1. /\ client[r] # "new" /\ client' = [client EXCEPT ![r] = "gone"]
        /\ tracker' = Unread(IF IsRunning THEN AbortRequest(tracker, r, CANCELLED) ELSE tracker, r)
        /\ UNCHANGED <<received, verdict, unfinished, produced, loop, errored, callback, orphaned, step>>
    BY <1>4 DEF CancelWaiting, engineVars, loopVars
  <2> DEFINE A == IF IsRunning THEN {r} ELSE {}
  <2>2. /\ tracker' \in TrackerState /\ tracker'.new = tracker.new /\ tracker'.event = tracker.event
        /\ tracker'.aborted = tracker.aborted \cup A /\ tracker'.registered = tracker.registered \ A
        /\ \A p \in Req : p # r => tracker'.stream[p] = tracker.stream[p]
    <3>1. CASE IsRunning
      <4>1. tracker' = Unread(AbortRequest(tracker, r, CANCELLED), r) /\ A = {r}
        BY <2>1, <3>1
      <4>2. CANCELLED \in EndItem
        BY Items
      <4> DEFINE u == Unread(AbortRequest(tracker, r, CANCELLED), r)
      <4>3. /\ u \in TrackerState /\ u.new = tracker.new /\ u.event = tracker.event
            /\ u.aborted = tracker.aborted \cup {r} /\ u.registered = tracker.registered \ {r}
            /\ \A p \in Req : p # r => u.stream[p] = tracker.stream[p]
        BY <1>3, <4>2, UnreadAfterAbort
      <4> HIDE DEF A, u
      <4> QED
        BY <4>1, <4>3 DEF u
    <3>2. CASE ~IsRunning
      <4>1. tracker' = Unread(tracker, r) /\ A = {}
        BY <2>1, <3>2
      <4> HIDE DEF A
      <4> QED
        BY <1>3, <4>1, UnreadFields
    <3> QED
      BY <3>1, <3>2
  <2>3. A \in SUBSET {r}
    OBVIOUS
  <2> HIDE DEF A
  <2> QED
    BY <2>1, <2>2, <2>3, LeavingKeeps
<1>5. CASE CloseYielded(r)
  <2>1. /\ client[r] # "new" /\ client' = [client EXCEPT ![r] = "closing"]
        /\ UNCHANGED <<tracker, received, verdict, unfinished, produced, loop, errored, callback, orphaned, step>>
    BY <1>5 DEF CloseYielded, engineVars, loopVars
  <2>2. {} \in SUBSET {r} /\ tracker.aborted = tracker.aborted \cup {} /\ tracker.registered = tracker.registered \ {}
    OBVIOUS
  <2> QED
    BY <1>3, <2>1, <2>2, LeavingKeeps
<1>6. CASE CollectGenerator(r)
  <2> DEFINE aborts == r \notin orphaned
             A == IF aborts THEN {r} ELSE {}
  <2>1. /\ client[r] # "new" /\ client' = [client EXCEPT ![r] = "gone"]
        /\ tracker' = Unread(IF aborts THEN AbortRequest(tracker, r, STOP) ELSE tracker, r)
        /\ UNCHANGED <<received, verdict, unfinished, produced, loop, errored, callback, orphaned, step>>
    BY <1>6 DEF CollectGenerator, engineVars, loopVars
  <2>2. /\ tracker' \in TrackerState /\ tracker'.new = tracker.new /\ tracker'.event = tracker.event
        /\ tracker'.aborted = tracker.aborted \cup A /\ tracker'.registered = tracker.registered \ A
        /\ \A p \in Req : p # r => tracker'.stream[p] = tracker.stream[p]
    <3>1. CASE aborts
      <4>1. tracker' = Unread(AbortRequest(tracker, r, STOP), r) /\ A = {r}
        BY <2>1, <3>1
      <4>2. STOP \in EndItem
        BY Items
      <4> DEFINE u == Unread(AbortRequest(tracker, r, STOP), r)
      <4>3. /\ u \in TrackerState /\ u.new = tracker.new /\ u.event = tracker.event
            /\ u.aborted = tracker.aborted \cup {r} /\ u.registered = tracker.registered \ {r}
            /\ \A p \in Req : p # r => u.stream[p] = tracker.stream[p]
        BY <1>3, <4>2, UnreadAfterAbort
      <4> HIDE DEF A, u
      <4> QED
        BY <4>1, <4>3 DEF u
    <3>2. CASE ~aborts
      <4>1. tracker' = Unread(tracker, r) /\ A = {}
        BY <2>1, <3>2
      <4> HIDE DEF A
      <4> QED
        BY <1>3, <4>1, UnreadFields
    <3> QED
      BY <3>1, <3>2
  <2>3. A \in SUBSET {r}
    OBVIOUS
  <2> HIDE DEF A
  <2> QED
    BY <2>1, <2>2, <2>3, LeavingKeeps
<1> QED
  BY <1>1, <1>2, <1>4, <1>5, <1>6 DEF ClientStep

-------------------------------------------------------------------------------
(* The loop.                                                               *)

(* Everything but the loop, the step and the error flags is left alone.        *)
LEMMA StreamsKept ==
  ASSUME EngineInv, UNCHANGED <<client, received, verdict, produced>>,
         tracker'.stream = tracker.stream, tracker'.registered = tracker.registered,
         tracker'.new = tracker.new
  PROVE  StreamInv'
<1> SUFFICES ASSUME NEW p \in Req, client'[p] = "waiting" PROVE StreamOK(p)'
  BY DEF StreamInv
<1>1. StreamOK(p)
  BY DEF StreamInv, EngineInv
<1> QED
  BY <1>1, StreamKept

LEMMA NoStepFields ==
  /\ NoStep.pc = "none" /\ NoStep.todo = <<>> /\ NoStep.aborts = {}
  /\ NewStep.pc = "start" /\ NewStep.todo = <<>> /\ NewStep.aborts = {}
  /\ {NoStep, NewStep} \subseteq
       [pc : {"none", "start", "adding", "executing", "done", "failed"},
        todo : Seq(Req), aborts : SUBSET Req, batch : SUBSET Req, more : BOOLEAN]
<1>1. ASSUME NEW none \in Seq(Req), NEW pc \in {"none", "start"}
      PROVE  [pc |-> pc, todo |-> none, aborts |-> {}, batch |-> {}, more |-> FALSE]
               \in [pc : {"none", "start", "adding", "executing", "done", "failed"},
                    todo : Seq(Req), aborts : SUBSET Req, batch : SUBSET Req, more : BOOLEAN]
  OBVIOUS
<1>2. <<>> \in Seq(Req)
  OBVIOUS
<1>3. NewStep = [pc |-> "start", todo |-> <<>>, aborts |-> {}, batch |-> {}, more |-> FALSE]
  <2>1. ASSUME NEW a, NEW b, NEW c, NEW d
        PROVE  [[pc |-> "none", todo |-> a, aborts |-> b, batch |-> c, more |-> d] EXCEPT !.pc = "start"]
                 = [pc |-> "start", todo |-> a, aborts |-> b, batch |-> c, more |-> d]
    OBVIOUS
  <2> QED
    BY <2>1, Zenon DEF NewStep, NoStep
<1>4. NoStep = [pc |-> "none", todo |-> <<>>, aborts |-> {}, batch |-> {}, more |-> FALSE]
  BY DEF NoStep
<1> QED
  BY <1>1, <1>2, <1>3, <1>4

(* The loop moves outside of an iteration.                                   *)
LEMMA LoopMovesKeeps ==
  ASSUME EngineInv, UNCHANGED <<tracker, client, received, verdict, unfinished, produced, errored, orphaned, step>>,
         loop \in {"top", "stopping", "joining"}, loop' \in {"stopping", "joining", "wait", "dead"},
         callback' \in BOOLEAN
  PROVE  EngineInv'
<1> USE DEF EngineInv
<1>1. EngineTypeOK'
  BY DEF EngineTypeOK
<1>2. StepInv'
  BY DEF StepInv
<1>3. OnceInv'
  BY DEF OnceInv
<1>4. CoverInv'
  BY DEF CoverInv
<1>5. EventInv'
  BY DEF EventInv, StepInv
<1>6. StreamInv'
  BY StreamsKept
<1> QED
  BY <1>1, <1>2, <1>3, <1>4, <1>5, <1>6

LEMMA LoopStopWorkersKeeps == ASSUME EngineInv, LoopStopWorkers PROVE EngineInv'
<1>1. /\ UNCHANGED <<tracker, client, received, verdict, unfinished, produced, errored, orphaned, step>>
      /\ loop = "top" /\ loop' \in {"wait", "stopping"} /\ callback' = callback
  BY DEF LoopStopWorkers, clientVars, engineVars
<1> QED
  BY <1>1, LoopMovesKeeps DEF EngineInv, EngineTypeOK

LEMMA LoopDriverStoppedKeeps == ASSUME EngineInv, LoopDriverStopped PROVE EngineInv'
<1>1. /\ UNCHANGED <<tracker, client, received, verdict, unfinished, produced, errored, orphaned, step>>
      /\ loop = "stopping" /\ loop' = "joining" /\ callback' = callback
  BY DEF LoopDriverStopped, clientVars, engineVars
<1> QED
  BY <1>1, LoopMovesKeeps DEF EngineInv, EngineTypeOK

LEMMA LoopJoinWorkersKeeps == ASSUME EngineInv, LoopJoinWorkers PROVE EngineInv'
<1>1. /\ UNCHANGED <<tracker, client, received, verdict, unfinished, produced, errored, orphaned, step>>
      /\ loop = "joining" /\ loop' \in {"dead", "wait"} /\ callback' \in BOOLEAN
  BY DEF LoopJoinWorkers, clientVars, engineVars, TasksFailed
<1> QED
  BY <1>1, LoopMovesKeeps

LEMMA LoopWakeKeeps == ASSUME EngineInv, LoopWake PROVE EngineInv'
<1> USE DEF EngineInv
<1>1. /\ UNCHANGED <<client, received, verdict, unfinished, produced, errored, callback, orphaned>>
      /\ loop = "wait" /\ loop' = "iterate" /\ step' = NewStep
      /\ tracker' = [tracker EXCEPT !.event = FALSE]
  BY DEF LoopWake, clientVars, engineVars
<1>2. /\ tracker' \in TrackerState /\ tracker'.stream = tracker.stream
      /\ tracker'.registered = tracker.registered
      /\ tracker'.new = tracker.new /\ tracker'.aborted = tracker.aborted
  BY <1>1 DEF EngineTypeOK, TrackerState
<1>3. step.pc = "none" /\ step.todo = <<>> /\ step.aborts = {}
  BY <1>1 DEF StepInv
<1>4. step'.pc = "start" /\ step'.todo = <<>> /\ step'.aborts = {}
  BY <1>1, NoStepFields
<1>5. EngineTypeOK'
  BY <1>1, <1>2, NoStepFields DEF EngineTypeOK
<1>6. StepInv'
  BY <1>1, <1>4 DEF StepInv
<1>7. OnceInv'
  BY <1>1, <1>2, <1>3, <1>4 DEF OnceInv
<1>8. CoverInv'
  BY <1>1, <1>2, <1>3, <1>4 DEF CoverInv
<1>9. EventInv'
  BY <1>4 DEF EventInv
<1>10. StreamInv'
  BY <1>1, <1>2, StreamsKept
<1> QED
  BY <1>5, <1>6, <1>7, <1>8, <1>9, <1>10

LEMMA LoopNextIterationKeeps == ASSUME EngineInv, LoopNextIteration PROVE EngineInv'
<1> USE DEF EngineInv
<1>1. /\ UNCHANGED <<tracker, client, received, verdict, unfinished, produced, errored, callback, orphaned>>
      /\ loop = "iterate" /\ step.pc = "done"
      /\ \/ step' = NewStep /\ loop' = "iterate"
         \/ step' = NoStep /\ loop' = "top" /\ unfinished = {}
  BY DEF LoopNextIteration, clientVars, engineVars
<1>2. step.todo = <<>>
  BY <1>1 DEF StepInv
<1>3. /\ step'.todo = <<>> /\ step'.aborts = {}
      /\ \/ step'.pc = "start" /\ loop' = "iterate"
         \/ step'.pc = "none" /\ loop' = "top" /\ unfinished = {}
  BY <1>1, NoStepFields
<1>4. EngineTypeOK'
  BY <1>1, NoStepFields DEF EngineTypeOK
<1>5. StepInv'
  BY <1>1, <1>3 DEF StepInv
<1>6. OnceInv'
  BY <1>1, <1>2, <1>3 DEF OnceInv
<1>7. CoverInv'
  <2>1. ToSet(step.todo) = {} /\ ToSet(step'.todo) = {}
    BY <1>2, <1>3, ToSetEmpty
  <2> QED
    BY <1>1, <1>3, <2>1 DEF CoverInv
<1>8. EventInv'
  BY <1>1, <1>3 DEF EventInv
<1>9. StreamInv'
  BY <1>1, StreamsKept
<1> QED
  BY <1>4, <1>5, <1>6, <1>7, <1>8, <1>9

LEMMA LoopFailsKeeps == ASSUME EngineInv, LoopFails PROVE EngineInv'
<1> USE DEF EngineInv
<1>1. /\ UNCHANGED <<tracker, client, received, verdict, unfinished, produced, errored, orphaned>>
      /\ loop = "iterate" /\ step.pc = "failed" /\ step' = NoStep /\ loop' = "dead" /\ callback' = TRUE
  BY DEF LoopFails, clientVars, engineVars
<1>2. step.todo = <<>>
  BY <1>1 DEF StepInv
<1>3. step'.todo = <<>> /\ step'.aborts = {} /\ step'.pc = "none"
  BY <1>1, NoStepFields
<1>4. EngineTypeOK'
  BY <1>1, NoStepFields DEF EngineTypeOK
<1>5. StepInv'
  BY <1>1, <1>3 DEF StepInv
<1>6. OnceInv'
  BY <1>1, <1>2, <1>3 DEF OnceInv
<1>7. CoverInv'
  <2>1. ToSet(step.todo) = {} /\ ToSet(step'.todo) = {}
    BY <1>2, <1>3, ToSetEmpty
  <2> QED
    BY <1>1, <1>3, <2>1 DEF CoverInv
<1>8. EventInv'
  BY <1>1 DEF EventInv
<1>9. StreamInv'
  BY <1>1, StreamsKept
<1> QED
  BY <1>4, <1>5, <1>6, <1>7, <1>8, <1>9

LEMMA LoopTimesOutKeeps == ASSUME EngineInv, LoopTimesOut PROVE EngineInv'
<1> USE DEF EngineInv
<1>1. /\ UNCHANGED <<tracker, client, received, verdict, unfinished, produced, orphaned, step>>
      /\ loop = "iterate" /\ step.pc # "start" /\ errored' = TRUE /\ loop' = "dead" /\ callback' = TRUE
  BY DEF LoopTimesOut, clientVars, engineVars
<1>2. EngineTypeOK'
  BY <1>1 DEF EngineTypeOK
<1>3. StepInv'
  BY <1>1 DEF StepInv
<1>4. OnceInv'
  BY <1>1 DEF OnceInv
<1>5. CoverInv'
  BY <1>1 DEF CoverInv
<1>6. EventInv'
  BY <1>1 DEF EventInv
<1>7. StreamInv'
  BY <1>1, StreamsKept
<1> QED
  BY <1>2, <1>3, <1>4, <1>5, <1>6, <1>7

LEMMA ErrorCallbackKeeps == ASSUME EngineInv, ErrorCallback PROVE EngineInv'
<1> USE DEF EngineInv
<1>1. /\ UNCHANGED <<client, received, verdict, unfinished, produced, loop, orphaned, step>>
      /\ callback' = FALSE /\ errored' = TRUE /\ tracker' = PropagateException(tracker, FAILED)
  BY DEF ErrorCallback, clientVars, engineVars
<1>2. tracker \in TrackerState /\ tracker.registered \in SUBSET Req
  BY TrackerFields DEF EngineTypeOK
<1>3. /\ tracker' \in TrackerState
      /\ tracker'.new = tracker.new /\ tracker'.aborted = tracker.aborted \cup tracker.registered
      /\ tracker'.registered = {} /\ tracker'.event = tracker.event
      /\ \A p \in Req : tracker'.stream[p] =
           IF p \in tracker.registered THEN Finish(tracker.stream[p], FAILED) ELSE tracker.stream[p]
  <2>1. FAILED \in EndItem
    BY Items
  <2> QED
    BY <1>1, <1>2, <2>1, PropagateFields
<1>4. EngineTypeOK'
  BY <1>1, <1>3 DEF EngineTypeOK
<1>5. StepInv' /\ OnceInv' /\ CoverInv' /\ EventInv'
  <2>1. tracker'.registered = tracker.registered \ tracker.registered
    BY <1>3
  <2> QED
    BY <1>1, <1>2, <1>3, <2>1, AbortsKeep
<1>6. ASSUME NEW p \in Req, client'[p] = "waiting" PROVE StreamOK(p)'
  <2>1. StreamOK(p)
    BY <1>1, <1>6 DEF StreamInv
  <2>2. CASE p \in tracker.registered
    <3>1. tracker'.stream[p] = Finish(tracker.stream[p], FAILED) /\ ~tracker.stream[p].finished
      BY <1>3, <2>1, <2>2 DEF StreamOK
    <3>2. p \notin ToSet(tracker.new)
      BY <2>2 DEF CoverInv
    <3>3. FAILED \in EndItem /\ FAILED # STOP
      BY Items
    <3> QED
      BY <1>1, <1>3, <2>1, <3>1, <3>2, <3>3, StreamEnded
  <2>3. CASE p \notin tracker.registered
    BY <1>1, <1>3, <2>1, <2>3, StreamKept
  <2> QED
    BY <2>2, <2>3
<1> QED
  BY <1>4, <1>5, <1>6 DEF StreamInv

-------------------------------------------------------------------------------
(* The step task.                                                          *)
LEMMA StepDrainKeeps == ASSUME EngineInv, StepDrain PROVE EngineInv'
<1> USE DEF EngineInv
<1>1. /\ step.pc = "start" /\ tracker' = Drained(tracker)
      /\ step' = [step EXCEPT !.pc = "adding", !.todo = TakenRequests(tracker), !.aborts = TakenAborts(tracker)]
      /\ UNCHANGED <<client, received, verdict, unfinished, produced, loop, errored, callback, orphaned>>
  BY DEF StepDrain, clientVars, engineVars, loopVars
<1>2. tracker \in TrackerState
  BY DEF EngineTypeOK
<1>3. /\ tracker' \in TrackerState /\ tracker'.new = <<>> /\ tracker'.aborted = {}
      /\ tracker'.registered = tracker.registered \cup (ToSet(tracker.new) \ tracker.aborted)
      /\ \A p \in Req : tracker'.stream[p] =
           IF p \in ToSet(tracker.new) \cap tracker.aborted
           THEN Finish(tracker.stream[p], CANCELLED) ELSE tracker.stream[p]
  BY <1>1, <1>2, DrainedFields
<1>4. /\ TakenRequests(tracker) \in Seq(Req)
      /\ ToSet(TakenRequests(tracker)) = ToSet(tracker.new) \ tracker.aborted
      /\ NoDuplicates(TakenRequests(tracker))
  BY <1>2, Taken DEF OnceInv
<1>5. TakenAborts(tracker) = tracker.aborted \ ToSet(tracker.new) /\ TakenAborts(tracker) \in SUBSET Req
  BY <1>2, TrackerFields DEF TakenAborts
<1>6. /\ step'.pc = "adding" /\ step'.todo = TakenRequests(tracker)
      /\ step'.aborts = TakenAborts(tracker)
      /\ step' \in [pc : {"none", "start", "adding", "executing", "done", "failed"},
                    todo : Seq(Req), aborts : SUBSET Req, batch : SUBSET Req, more : BOOLEAN]
  BY <1>1, <1>4, <1>5 DEF EngineTypeOK
<1>7. /\ step.aborts = {} /\ loop = "iterate" /\ step.todo = <<>> /\ ToSet(step.todo) = {}
      /\ ToSet(tracker'.new) = {} /\ NoDuplicates(tracker'.new)
  BY <1>1, <1>3, ToSetEmpty DEF StepInv
<1>8. EngineTypeOK'
  BY <1>1, <1>3, <1>6 DEF EngineTypeOK
<1>9. StepInv'
  BY <1>1, <1>6, <1>7 DEF StepInv
<1>10. OnceInv'
  BY <1>1, <1>4, <1>6, <1>7 DEF OnceInv
<1>11. CoverInv'
  <2>1. ToSet(tracker.new) \cap unfinished = {}
    BY DEF OnceInv
  <2> QED
    BY <1>1, <1>3, <1>4, <1>5, <1>6, <1>7, <2>1 DEF CoverInv
<1>12. EventInv'
  BY <1>3 DEF EventInv
<1>13. ASSUME NEW p \in Req, client'[p] = "waiting" PROVE StreamOK(p)'
  <2>1. StreamOK(p) /\ p \notin ToSet(tracker'.new)
    BY <1>1, <1>7, <1>13 DEF StreamInv
  <2>2. CASE p \in ToSet(tracker.new)
    <3>1. received[p] = <<>> /\ tracker.stream[p] = EmptyStream /\ produced[p] = 0
      BY <2>1, <2>2 DEF StreamOK, OnceInv
    <3>2. tracker.stream[p].queue = <<>> /\ tracker.stream[p].finished = FALSE
      BY <3>1 DEF EmptyStream
    <3>3. p \notin tracker.registered
      BY <2>2 DEF CoverInv
    <3>4. CASE p \in tracker.aborted
      <4>1. tracker'.stream[p] = Finish(tracker.stream[p], CANCELLED) /\ p \notin tracker'.registered
        BY <1>3, <2>2, <3>3, <3>4
      <4>2. CANCELLED \in EndItem /\ CANCELLED # STOP
        BY Items
      <4> QED
        BY <1>1, <2>1, <3>2, <4>1, <4>2, StreamEnded
    <3>5. CASE p \notin tracker.aborted
      <4>1. tracker'.stream[p] = tracker.stream[p]
        BY <1>3, <3>5
      <4>2. LastReceived(p)' = LastReceived(p) /\ LastReceived(p).n = 0
        BY <1>1, <3>1 DEF LastReceived
      <4>3. ~tracker'.stream[p].finished /\ produced'[p] = (LastReceived(p)').n + Len(tracker'.stream[p].queue)
        BY <1>1, <3>1, <3>2, <4>1, <4>2
      <4> QED
        BY <1>1, <2>1, <4>1, <4>2, <4>3 DEF StreamOK
    <3> QED
      BY <3>4, <3>5
  <2>3. CASE p \notin ToSet(tracker.new)
    <3>1. tracker'.stream[p] = tracker.stream[p] /\ (p \in tracker'.registered => p \in tracker.registered)
      BY <1>3, <2>3
    <3> QED
      BY <1>1, <2>1, <3>1, StreamKept
  <2> QED
    BY <2>2, <2>3
<1> QED
  BY <1>8, <1>9, <1>10, <1>11, <1>12, <1>13 DEF StreamInv

LEMMA StepAddKeeps ==
  ASSUME EngineInv, NEW valid \in BOOLEAN, StepAdd(valid)
  PROVE  EngineInv'
<1> USE DEF EngineInv
<1> DEFINE r == Head(step.todo)
<1>1. /\ step.pc = "adding" /\ step.todo # <<>> /\ step' = [step EXCEPT !.todo = Tail(@)]
      /\ unfinished' = IF valid THEN unfinished \cup {r} ELSE unfinished
      /\ tracker' = IF valid THEN tracker ELSE AbortRequest(tracker, r, INVALID)
      /\ UNCHANGED <<client, received, verdict, produced, loop, errored, callback, orphaned>>
  BY DEF StepAdd, clientVars, loopVars
<1>2. tracker \in TrackerState /\ step.todo \in Seq(Req)
  BY DEF EngineTypeOK
<1>3. /\ r \in Req /\ Tail(step.todo) \in Seq(Req)
      /\ ToSet(step.todo) = ToSet(Tail(step.todo)) \cup {r}
      /\ NoDuplicates(Tail(step.todo)) /\ r \notin ToSet(Tail(step.todo))
  BY <1>1, <1>2, ToSetTail DEF OnceInv
<1> HIDE DEF r
<1>4. /\ step'.pc = "adding" /\ step'.todo = Tail(step.todo) /\ step'.aborts = step.aborts
      /\ step' \in [pc : {"none", "start", "adding", "executing", "done", "failed"},
                    todo : Seq(Req), aborts : SUBSET Req, batch : SUBSET Req, more : BOOLEAN]
  BY <1>1, <1>3 DEF EngineTypeOK
<1>5. r \notin unfinished /\ produced[r] = 0 /\ r \notin ToSet(tracker.new) /\ client[r] # "new"
  BY <1>3 DEF OnceInv
<1>6. MaxOutputs[r] \in Nat \ {0}
  BY <1>3, OutputsAssumption
<1>7. CASE valid
  <2>1. unfinished' = unfinished \cup {r} /\ tracker' = tracker
    BY <1>1, <1>7
  <2>2. EngineTypeOK'
    BY <1>1, <1>3, <1>4, <2>1 DEF EngineTypeOK
  <2>3. StepInv'
    BY <1>1, <1>4, <2>1 DEF StepInv
  <2>4. OnceInv'
    BY <1>1, <1>3, <1>4, <1>5, <1>6, <2>1 DEF OnceInv
  <2>5. CoverInv'
    BY <1>1, <1>3, <1>4, <2>1 DEF CoverInv, StepInv
  <2>6. EventInv'
    BY <1>1, <1>4, <2>1 DEF EventInv
  <2>7. StreamInv'
    BY <1>1, <2>1, StreamsKept
  <2> QED
    BY <2>2, <2>3, <2>4, <2>5, <2>6, <2>7
<1>8. CASE ~valid
  <2>1. unfinished' = unfinished /\ tracker' = AbortRequest(tracker, r, INVALID)
    BY <1>1, <1>8
  <2>2. /\ tracker' \in TrackerState /\ tracker'.new = tracker.new
        /\ tracker'.aborted = tracker.aborted \cup {r} /\ tracker'.registered = tracker.registered \ {r}
        /\ tracker'.event = tracker.event
        /\ tracker'.stream[r] = IF r \in tracker.registered THEN Finish(tracker.stream[r], INVALID)
                                ELSE tracker.stream[r]
        /\ \A p \in Req : p # r => tracker'.stream[p] = tracker.stream[p]
    <3>1. INVALID \in EndItem
      BY Items
    <3> QED
      BY <1>2, <1>3, <2>1, <3>1, AbortRequestFields
  <2>3. EngineTypeOK'
    BY <1>1, <1>3, <1>4, <2>1, <2>2 DEF EngineTypeOK
  <2>4. StepInv'
    BY <1>1, <1>4, <2>1 DEF StepInv
  <2>5. OnceInv'
    BY <1>1, <1>3, <1>4, <2>1, <2>2 DEF OnceInv
  <2>6. CoverInv'
    BY <1>1, <1>3, <1>4, <2>1, <2>2 DEF CoverInv, StepInv
  <2>7. EventInv'
    BY <1>1, <1>4, <2>2 DEF EventInv
  <2>8. ASSUME NEW p \in Req, client'[p] = "waiting" PROVE StreamOK(p)'
    <3>1. StreamOK(p)
      BY <1>1, <2>8 DEF StreamInv
    <3>2. CASE p = r /\ r \in tracker.registered
      <4>1. tracker'.stream[p] = Finish(tracker.stream[p], INVALID) /\ ~tracker.stream[p].finished
        BY <2>2, <3>1, <3>2 DEF StreamOK
      <4>2. INVALID \in EndItem /\ INVALID # STOP
        BY Items
      <4>3. p \notin tracker'.registered /\ p \notin ToSet(tracker'.new)
        BY <1>5, <2>2, <3>2
      <4> QED
        BY <1>1, <3>1, <4>1, <4>2, <4>3, StreamEnded
    <3>3. CASE p # r \/ r \notin tracker.registered
      <4>1. tracker'.stream[p] = tracker.stream[p]
        BY <2>2, <3>3
      <4> QED
        BY <1>1, <2>2, <3>1, <4>1, StreamKept
    <3> QED
      BY <3>2, <3>3
  <2> QED
    BY <2>3, <2>4, <2>5, <2>6, <2>7, <2>8 DEF StreamInv
<1> QED
  BY <1>7, <1>8

LEMMA StepScheduleKeeps == ASSUME EngineInv, StepSchedule PROVE EngineInv'
<1> USE DEF EngineInv
<1>1. /\ step.pc = "adding" /\ step.todo = <<>> /\ unfinished' = unfinished \ step.aborts
      /\ UNCHANGED <<tracker, client, received, verdict, produced, loop, errored, callback, orphaned>>
      /\ \/ step' = [step EXCEPT !.pc = "done", !.more = FALSE]
         \/ \E batch \in SUBSET (unfinished \ step.aborts) :
              step' = [step EXCEPT !.pc = "executing", !.batch = batch]
  BY DEF StepSchedule, clientVars, loopVars
<1>2. /\ step' \in [pc : {"none", "start", "adding", "executing", "done", "failed"},
                    todo : Seq(Req), aborts : SUBSET Req, batch : SUBSET Req, more : BOOLEAN]
      /\ step'.pc \in {"done", "executing"} /\ step'.todo = step.todo /\ step'.aborts = step.aborts
      /\ step'.pc = "executing" => step'.batch \subseteq unfinished'
  <2>1. CASE step' = [step EXCEPT !.pc = "done", !.more = FALSE]
    BY <2>1 DEF EngineTypeOK
  <2>2. ASSUME NEW batch \in SUBSET (unfinished \ step.aborts),
               step' = [step EXCEPT !.pc = "executing", !.batch = batch]
        PROVE  /\ step' \in [pc : {"none", "start", "adding", "executing", "done", "failed"},
                              todo : Seq(Req), aborts : SUBSET Req, batch : SUBSET Req, more : BOOLEAN]
               /\ step'.pc = "executing" /\ step'.todo = step.todo /\ step'.aborts = step.aborts
               /\ step'.batch \subseteq unfinished'
    <3>1. batch \in SUBSET Req /\ batch \subseteq unfinished'
      BY <1>1 DEF EngineTypeOK
    <3> QED
      BY <2>2, <3>1 DEF EngineTypeOK
  <2> QED
    BY <1>1, <2>1, <2>2
<1>3. EngineTypeOK'
  BY <1>1, <1>2 DEF EngineTypeOK
<1>4. StepInv'
  BY <1>1, <1>2 DEF StepInv
<1>5. OnceInv'
  BY <1>1, <1>2 DEF OnceInv
<1>6. CoverInv'
  <2>1. ToSet(step.todo) = {}
    BY <1>1, ToSetEmpty
  <2>2. loop \in {"iterate", "dead"}
    BY <1>1 DEF StepInv
  <2> QED
    BY <1>1, <1>2, <2>1, <2>2 DEF CoverInv
<1>7. EventInv'
  BY <1>1, <1>2 DEF EventInv
<1>8. StreamInv'
  BY <1>1, StreamsKept
<1> QED
  BY <1>3, <1>4, <1>5, <1>6, <1>7, <1>8

(* The outputs of a step reach the callers of its batch.                      *)
LEMMA StepOutputsKeeps == ASSUME EngineInv, StepOutputs PROVE EngineInv'
<1> USE DEF EngineInv
<1> DEFINE batch == step.batch
<1>1. PICK last \in SUBSET batch :
        /\ {r \in batch : produced[r] + 1 = MaxOutputs[r]} \subseteq last
        /\ tracker' = ProcessRequestOutputs(tracker, batch, [r \in batch |-> OutputOf(r, last)])
        /\ unfinished' = unfinished \ last
        /\ step' = [step EXCEPT !.pc = "done", !.more = last # batch]
  BY DEF StepOutputs, UnfinishedAfter
<1>2. /\ step.pc = "executing"
      /\ produced' = [r \in Req |-> IF r \in batch THEN produced[r] + 1 ELSE produced[r]]
      /\ UNCHANGED <<client, received, verdict, loop, errored, callback, orphaned>>
  BY DEF StepOutputs, clientVars, loopVars
<1>3. batch \in SUBSET Req /\ batch \subseteq unfinished /\ step.todo = <<>> /\ tracker \in TrackerState
  BY <1>2 DEF EngineTypeOK, StepInv
<1> DEFINE out == [r \in batch |-> OutputOf(r, last)]
<1>4. ASSUME NEW r \in batch
      PROVE  out[r] \in OutputItem /\ out[r].n = produced[r] + 1 /\ (out[r].finished <=> r \in last)
  <2>1. out[r] = [n |-> produced[r] + 1, finished |-> r \in last]
    BY DEF OutputOf
  <2>2. produced[r] \in Nat
    BY <1>3 DEF EngineTypeOK
  <2>3. CASE r \in last
    <3>1. out[r] = [n |-> produced[r] + 1, finished |-> TRUE]
      <4>1. (r \in last) = TRUE
        BY <2>3
      <4> HIDE DEF out
      <4> QED
        BY <2>1, <4>1, Zenon
    <3> HIDE DEF out
    <3> QED
      BY <2>2, <2>3, <3>1 DEF OutputItem
  <2>4. CASE r \notin last
    <3>1. out[r] = [n |-> produced[r] + 1, finished |-> FALSE]
      <4>1. (r \in last) = FALSE
        BY <2>4
      <4> HIDE DEF out
      <4> QED
        BY <2>1, <4>1, Zenon
    <3> HIDE DEF out
    <3> QED
      BY <2>2, <2>4, <3>1 DEF OutputItem
  <2> QED
    BY <2>3, <2>4
<1> HIDE DEF out
<1>5. /\ tracker' \in TrackerState
      /\ tracker'.new = tracker.new /\ tracker'.aborted = tracker.aborted
      /\ tracker'.registered = tracker.registered \ last /\ tracker'.event = tracker.event
      /\ \A p \in Req : tracker'.stream[p] =
           IF p \in batch \cap tracker.registered
           THEN IF p \in last THEN Finish(Put(tracker.stream[p], out[p]), STOP)
                ELSE Put(tracker.stream[p], out[p])
           ELSE tracker.stream[p]
  <2>1. tracker' = ProcessRequestOutputs(tracker, batch, out)
    BY <1>1 DEF out
  <2> HIDE DEF batch
  <2> DEFINE u == ProcessRequestOutputs(tracker, batch, out)
  <2>2. \A r \in batch : out[r] \in OutputItem /\ (out[r].finished <=> r \in last)
    BY <1>4
  <2>3. batch \in SUBSET Req /\ last \in SUBSET batch /\ tracker \in TrackerState
    BY <1>3
  <2>4. Delivered(tracker, u, batch, last, out)
    BY <2>2, <2>3, OutputsFields
  <2> HIDE DEF u
  <2>5. tracker' = u
    BY <2>1 DEF u
  <2> QED
    BY <2>4, <2>5 DEF Delivered
<1>6. /\ step' \in [pc : {"none", "start", "adding", "executing", "done", "failed"},
                    todo : Seq(Req), aborts : SUBSET Req, batch : SUBSET Req, more : BOOLEAN]
      /\ step'.pc = "done" /\ step'.todo = step.todo /\ step'.aborts = step.aborts
  <2>1. (last # batch) \in BOOLEAN
    OBVIOUS
  <2> QED
    BY <1>1, <2>1 DEF EngineTypeOK
<1>7. /\ ToSet(step.todo) = {} /\ \A r \in ToSet(tracker.new) : r \notin batch
      /\ \A r \in Req : client[r] = "new" => r \notin batch
  BY <1>3, ToSetEmpty DEF OnceInv
<1>8. ASSUME NEW r \in Req
      PROVE  /\ produced'[r] = IF r \in batch THEN produced[r] + 1 ELSE produced[r]
             /\ produced[r] \in Nat /\ MaxOutputs[r] \in Nat /\ produced[r] <= MaxOutputs[r]
             /\ r \in unfinished => produced[r] < MaxOutputs[r]
  BY <1>2, OutputsAssumption DEF EngineTypeOK, OnceInv
<1>9. ASSUME NEW r \in Req
      PROVE  /\ produced'[r] \in Nat /\ produced'[r] <= MaxOutputs[r]
             /\ r \in unfinished' => produced'[r] < MaxOutputs[r]
  <2>1. CASE r \in batch
    <3>1. r \in unfinished /\ produced[r] < MaxOutputs[r] /\ produced'[r] = produced[r] + 1
      BY <1>3, <1>8, <2>1
    <3>2. r \in unfinished' => produced[r] + 1 # MaxOutputs[r]
      BY <1>1, <2>1
    <3> QED
      BY <1>8, <3>1, <3>2
  <2>2. CASE r \notin batch
    BY <1>1, <1>8, <2>2
  <2> QED
    BY <2>1, <2>2
<1> HIDE DEF batch
<1>10. EngineTypeOK'
  <2>1. produced' \in [Req -> Nat]
    BY <1>2, <1>9
  <2> QED
    BY <1>1, <1>2, <1>5, <1>6, <1>9, <2>1 DEF EngineTypeOK
<1>11. StepInv'
  BY <1>2, <1>3, <1>6 DEF StepInv
<1>12. OnceInv'
  <2>1. unfinished' \subseteq unfinished /\ unfinished \subseteq Req /\ ToSet(tracker.new) \subseteq Req
    BY <1>1, TrackerFields DEF EngineTypeOK
  <2>2. \A r \in ToSet(tracker.new) : r \notin unfinished' /\ produced'[r] = 0
    BY <1>7, <1>8, <2>1 DEF OnceInv
  <2>3. \A r \in Req : client[r] = "new" =>
          /\ r \notin ToSet(tracker.new) /\ r \notin unfinished' /\ produced'[r] = 0
          /\ received[r] = <<>> /\ verdict[r] = "open"
    BY <1>7, <1>8, <2>1 DEF OnceInv
  <2>4. \A r \in unfinished' : produced'[r] < MaxOutputs[r]
    BY <1>9, <2>1
  <2>5. NoDuplicates(tracker.new) /\ NoDuplicates(step.todo)
    BY DEF OnceInv
  <2> QED
    BY <1>2, <1>5, <1>6, <1>7, <2>2, <2>3, <2>4, <2>5 DEF OnceInv
<1>13. CoverInv'
  <2>1. loop \in {"iterate", "dead"}
    BY <1>2 DEF StepInv
  <2> QED
    BY <1>1, <1>2, <1>3, <1>5, <1>6, <1>7, <2>1 DEF CoverInv
<1>14. EventInv'
  BY <1>2, <1>5, <1>6 DEF EventInv
<1>15. ASSUME NEW p \in Req, client'[p] = "waiting" PROVE StreamOK(p)'
  <2>1. StreamOK(p)
    BY <1>2, <1>15 DEF StreamInv
  <2>2. CASE p \in batch \cap tracker.registered
    <3> DEFINE s == tracker.stream[p]
               l == LastReceived(p)
    <3>1. s \in StreamState /\ s.queue \in Seq(OutputItem \cup EndItem)
      BY <1>3, TrackerFields
    <3>2. l \in OutputItem /\ LastReceived(p)' = l
      <4>1. LastReceived(p)' = LastReceived(p)
        BY <1>2 DEF LastReceived
      <4> QED
        BY <4>1, LastReceivedType
    <3>3. s.finished = FALSE /\ produced[p] = l.n + Len(s.queue) /\ QueueOK(s.queue, FALSE, l)
      <4>1. s.finished = FALSE
        BY <2>1, <2>2, <3>1 DEF StreamOK, StreamState
      <4> QED
        BY <2>1, <2>2, <4>1 DEF StreamOK
    <3>4. p \notin ToSet(tracker'.new) /\ verdict'[p] = "open"
      BY <1>2, <1>5, <1>7, <2>1, <2>2 DEF StreamOK
    <3> DEFINE x == out[p]
    <3>5. x \in OutputItem /\ x.n = l.n + Len(s.queue) + 1 /\ (x.finished <=> p \in last)
      BY <1>4, <2>2, <3>3
    <3>6. tracker'.stream[p] = IF p \in last THEN Finish(Put(s, x), STOP) ELSE Put(s, x)
      BY <1>5, <2>2
    <3>7. p \in tracker'.registered <=> p \notin last
      BY <1>5, <2>2
    <3> HIDE DEF s, l, x
    <3>8. Put(s, x) \in StreamState /\ Put(s, x).finished = FALSE /\ Put(s, x).queue = Append(s.queue, x)
      BY <3>1, <3>3, <3>5, StreamEnds
    <3>9. CASE p \notin last
      <4>1. QueueOK(Append(s.queue, x), FALSE, l)
        BY <3>1, <3>2, <3>3, <3>5, <3>9, QueuePuts
      <4>2. tracker'.stream[p].queue = Append(s.queue, x) /\ tracker'.stream[p].finished = FALSE
        BY <3>6, <3>8, <3>9
      <4>3. produced'[p] = l.n + Len(Append(s.queue, x))
        <5>1. produced'[p] = produced[p] + 1
          BY <1>8, <2>2
        <5>2. Len(Append(s.queue, x)) = Len(s.queue) + 1 /\ Len(s.queue) \in Nat /\ l.n \in Nat
          BY <3>1, <3>2, <3>5 DEF OutputItem
        <5> QED
          BY <3>3, <5>1, <5>2
      <4> QED
        BY <3>2, <3>4, <4>1, <4>2, <4>3 DEF StreamOK
    <3>10. CASE p \in last
      <4> DEFINE y == Put(s, x)
      <4> HIDE DEF y
      <4>1. /\ y \in StreamState /\ y.finished = FALSE /\ y.queue = Append(s.queue, x)
            /\ tracker'.stream[p] = Finish(y, STOP)
        BY <3>6, <3>8, <3>10 DEF y
      <4>2. STOP \in OutputItem \cup EndItem
        BY Items
      <4>3. /\ Finish(y, STOP) \in StreamState /\ Finish(y, STOP).finished
            /\ Finish(y, STOP).queue = Put(y, STOP).queue
        BY <4>1, <4>2, StreamEnds
      <4>4. Put(y, STOP).queue = Append(y.queue, STOP)
        BY <4>1, <4>2, StreamEnds
      <4>5. /\ tracker'.stream[p].queue = Append(Append(s.queue, x), STOP)
            /\ tracker'.stream[p].finished = TRUE
        BY <4>1, <4>3, <4>4 DEF StreamState
      <4>6. QueueOK(Append(Append(s.queue, x), STOP), TRUE, l)
        BY <3>1, <3>2, <3>3, <3>5, <3>10, QueueEnds
      <4>7. p \notin tracker'.registered
        BY <3>7, <3>10
      <4> QED
        BY <3>2, <3>4, <4>5, <4>6, <4>7 DEF StreamOK
    <3> QED
      BY <3>9, <3>10
  <2>3. CASE p \notin batch \cap tracker.registered
    <3>1. tracker'.stream[p] = tracker.stream[p]
      BY <1>5, <2>3
    <3>2. p \in tracker'.registered => p \in tracker.registered /\ produced'[p] = produced[p]
      BY <1>5, <1>8, <2>3
    <3> QED
      BY <1>2, <1>5, <2>1, <3>1, <3>2, StreamKept
  <2> QED
    BY <2>2, <2>3
<1> QED
  BY <1>10, <1>11, <1>12, <1>13, <1>14, <1>15 DEF StreamInv

LEMMA StepFailsKeeps == ASSUME EngineInv, StepFails PROVE EngineInv'
<1> USE DEF EngineInv
<1>1. /\ step.pc = "executing" /\ step' = [step EXCEPT !.pc = "failed"]
      /\ UNCHANGED <<tracker, client, received, verdict, unfinished, produced, loop, errored, callback, orphaned>>
  BY DEF StepFails, clientVars, engineVars, loopVars
<1>2. /\ step' \in [pc : {"none", "start", "adding", "executing", "done", "failed"},
                    todo : Seq(Req), aborts : SUBSET Req, batch : SUBSET Req, more : BOOLEAN]
      /\ step'.pc = "failed" /\ step'.todo = step.todo /\ step'.aborts = step.aborts
  BY <1>1 DEF EngineTypeOK
<1>3. EngineTypeOK'
  BY <1>1, <1>2 DEF EngineTypeOK
<1>4. StepInv'
  BY <1>1, <1>2 DEF StepInv
<1>5. OnceInv'
  BY <1>1, <1>2 DEF OnceInv
<1>6. CoverInv'
  BY <1>1, <1>2 DEF CoverInv
<1>7. EventInv'
  BY <1>1, <1>2 DEF EventInv
<1>8. StreamInv'
  BY <1>1, StreamsKept
<1> QED
  BY <1>3, <1>4, <1>5, <1>6, <1>7, <1>8

(* The executor's own steps, and stuttering, leave all of it alone.            *)
LEMMA ElsewhereKeeps ==
  ASSUME EngineInv, UNCHANGED <<tracker, clientVars, engineVars, loopVars, step>>
  PROVE  EngineInv'
<1> USE DEF EngineInv
<1>1. UNCHANGED <<tracker, client, received, verdict, unfinished, produced, loop, errored, callback, orphaned, step>>
  BY DEF clientVars, engineVars, loopVars
<1>2. EngineTypeOK' /\ StepInv' /\ EventInv'
  BY <1>1 DEF EngineTypeOK, StepInv, EventInv
<1>3. OnceInv' /\ CoverInv'
  BY <1>1 DEF OnceInv, CoverInv
<1>4. StreamInv'
  BY <1>1, StreamsKept
<1> QED
  BY <1>2, <1>3, <1>4

LEMMA EngineNext == ASSUME EngineInv, [Next]_vars PROVE EngineInv'
<1>1. ASSUME NEW r \in Req, ClientStep(r) PROVE EngineInv'
  BY <1>1, ClientKeeps
<1>2. CASE LoopStep
  BY <1>2, LoopStopWorkersKeeps, LoopDriverStoppedKeeps, LoopJoinWorkersKeeps, LoopWakeKeeps,
     LoopNextIterationKeeps, LoopFailsKeeps DEF LoopStep
<1>3. CASE LoopTimesOut \/ ErrorCallback
  BY <1>3, LoopTimesOutKeeps, ErrorCallbackKeeps
<1>4. CASE StepTask
  BY <1>4, StepDrainKeeps, StepAddKeeps, StepScheduleKeeps, StepOutputsKeeps, StepFailsKeeps DEF StepTask
<1>5. CASE \/ Executor(StartWorkerExecutionLoop) \/ Executor(DriverBroadcast) \/ Executor(Collective)
           \/ \E w \in Reader : Executor(WorkerStep(w)) \/ Executor(HandleResult(w))
           \/ Executor(OnWorkerExit) \/ Executor(ExecutorFault)
  <2>1. UNCHANGED <<tracker, clientVars, engineVars, loopVars, step>>
    BY <1>5 DEF Executor
  <2> QED
    BY <2>1, ElsewhereKeeps
<1>6. CASE UNCHANGED vars
  <2>1. UNCHANGED <<tracker, clientVars, engineVars, loopVars, step>>
    BY <1>6 DEF vars, clientVars, engineVars, loopVars
  <2> QED
    BY <2>1, ElsewhereKeeps
<1> QED
  BY <1>1, <1>2, <1>3, <1>4, <1>5, <1>6 DEF Next

-------------------------------------------------------------------------------
(* The inductive invariant of the tracker, the callers, the loop and the step.  *)
THEOREM EngineInvariant == Spec => []EngineInv
<1>1. Init => EngineInv
  BY EngineInit
<1>2. EngineInv /\ [Next]_vars => EngineInv'
  BY EngineNext
<1> QED
  BY <1>1, <1>2, PTL DEF Spec

(* Nobody's request is computed for ever: abort_request, propagate_exception   *)
(* and engine_step never lose an abort, whatever order aborts, additions and   *)
(* outputs come in.                                                        *)
THEOREM NothingOrphaned == Spec => []NoOrphan
<1>1. EngineInv => NoOrphan
  BY DEF EngineInv, CoverInv, NoOrphan
<1> QED
  BY <1>1, EngineInvariant, PTL

(* run_engine_loop stops the workers and sleeps only when the engine owes       *)
(* nobody anything, and no new request is slept through.                     *)
THEOREM IdleLoopOwesNothing == Spec => []IdleOwesNothing
<1>1. EngineInv => IdleOwesNothing
  BY DEF EngineInv, CoverInv, EventInv, StepInv, IdleOwesNothing
<1> QED
  BY <1>1, EngineInvariant, PTL

-------------------------------------------------------------------------------
(* The types of the executor.                                               *)
LEMMA ExecutorInitType == Init => ExecutorTypeOK
<1> SUFFICES ASSUME Init PROVE ExecutorTypeOK
  OBVIOUS
<1>1. inbox \in [Reader -> Seq(Message)] /\ got \in [Reader -> Message \cup {NoMessage}]
  <2>1. <<>> \in Seq(Message)
    OBVIOUS
  <2> QED
    BY <2>1 DEF Init, ExecutorInit, QueueInit
<1>2. faults \in 0..MaxFaults
  BY FaultsAssumption DEF Init, ExecutorInit
<1> QED
  BY <1>1, <1>2 DEF Init, ExecutorInit, ExecutorTypeOK, DriverState, WorkerState, FutureState

LEMMA TaskEndsType ==
  ASSUME ExecutorTypeOK, NEW w \in Reader, NEW result \in FutureState, TaskEnds(w, result)
  PROVE  future' \in [Reader -> FutureState]
BY DEF ExecutorTypeOK, TaskEnds

LEMMA ExecutorNextType == ASSUME ExecutorTypeOK, [Next]_vars PROVE ExecutorTypeOK'
<1> USE DEF ExecutorTypeOK
<1>1. CASE UNCHANGED executorVars
  BY <1>1 DEF executorVars
<1>2. ASSUME driver' \in DriverState, tasks' \in {"none", "created", "running"},
             UNCHANGED <<worker, taskQueue, future, faults, inbox, got>>
      PROVE  ExecutorTypeOK'
  BY <1>2
<1>3. CASE ExecuteModelAsync \/ StopAsync \/ ForgetTasks
  BY <1>2, <1>3 DEF ExecuteModelAsync, StopAsync, ForgetTasks, DriverState
<1>4. ASSUME NEW result, TakeDriverResult(result) PROVE ExecutorTypeOK'
  BY <1>2, <1>4 DEF TakeDriverResult, DriverState
<1>5. CASE StartWorkerExecutionLoop
  BY <1>5 DEF StartWorkerExecutionLoop, FutureState
<1>6. CASE DriverBroadcast
  <2>1. /\ driver \in Message /\ inbox' = [r \in Reader |-> Append(inbox[r], driver)]
        /\ UNCHANGED <<got, tasks, worker, taskQueue, future, faults>> /\ driver' \in DriverState
    BY <1>6, MessageAssumption DEF DriverBroadcast, Enqueue, DriverState
  <2>2. \A r \in Reader : Append(inbox[r], driver) \in Seq(Message)
    BY <2>1
  <2> QED
    BY <2>1, <2>2
<1>7. CASE Collective
  BY <1>7 DEF Collective, DriverState, WorkerState
<1>8. ASSUME NEW w \in Reader, WorkerTakeTask(w) PROVE ExecutorTypeOK'
  <2>1. taskQueue[w] \in Nat /\ taskQueue[w] > 0
    BY <1>8 DEF WorkerTakeTask
  <2>2. taskQueue[w] - 1 \in Nat
    BY <2>1
  <2> QED
    BY <1>8, <2>2 DEF WorkerTakeTask, WorkerState
<1>9. ASSUME NEW w \in Reader, WorkerReceive(w) PROVE ExecutorTypeOK'
  <2>1. inbox[w] \in Seq(Message) /\ inbox[w] # <<>>
    BY <1>9 DEF WorkerReceive, Dequeue
  <2>2. Head(inbox[w]) \in Message /\ Tail(inbox[w]) \in Seq(Message)
    BY <2>1
  <2>3. inbox' \in [Reader -> Seq(Message)] /\ got' \in [Reader -> Message \cup {NoMessage}]
    BY <1>9, <2>2 DEF WorkerReceive, Dequeue
  <2>4. worker' \in [Reader -> WorkerState]
    BY <1>9 DEF WorkerReceive, WorkerState
  <2>5. future' \in [Reader -> FutureState]
    BY <1>9, TaskEndsType DEF WorkerReceive, FutureState
  <2>6. UNCHANGED <<driver, tasks, taskQueue, faults>>
    BY <1>9 DEF WorkerReceive
  <2> QED
    BY <2>3, <2>4, <2>5, <2>6
<1>10. ASSUME NEW w \in Reader, HandleResult(w) PROVE ExecutorTypeOK'
  BY <1>10 DEF HandleResult, FutureState
<1>11. CASE OnWorkerExit
  BY <1>11 DEF OnWorkerExit, WorkerState
<1>12. ASSUME NEW w \in Reader, WorkerDies(w) PROVE ExecutorTypeOK'
  BY <1>12, FaultsAssumption DEF WorkerDies, WorkerState
<1>13. ASSUME NEW w \in Reader, WorkerRaises(w) PROVE ExecutorTypeOK'
  <2>1. future' \in [Reader -> FutureState]
    BY <1>13, TaskEndsType DEF WorkerRaises, FutureState
  <2>2. worker' \in [Reader -> WorkerState]
    BY <1>13 DEF WorkerRaises, WorkerState
  <2>3. faults' \in 0..MaxFaults
    BY <1>13, FaultsAssumption DEF WorkerRaises
  <2>4. UNCHANGED <<driver, tasks, taskQueue, inbox, got>>
    BY <1>13 DEF WorkerRaises
  <2> QED
    BY <2>1, <2>2, <2>3, <2>4
<1>14. CASE DriverRaises \/ DriverLosesPeer
  BY <1>14, FaultsAssumption DEF DriverRaises, DriverLosesPeer, DriverState
<1>15. CASE \/ Executor(StartWorkerExecutionLoop) \/ Executor(DriverBroadcast) \/ Executor(Collective)
            \/ \E w \in Reader : Executor(WorkerStep(w)) \/ Executor(HandleResult(w))
            \/ Executor(OnWorkerExit) \/ Executor(ExecutorFault)
  BY <1>5, <1>6, <1>7, <1>8, <1>9, <1>10, <1>11, <1>12, <1>13, <1>14, <1>15
     DEF Executor, WorkerStep, ExecutorFault
<1>16. ASSUME NEW r \in Req, ClientStep(r) PROVE UNCHANGED executorVars
  BY <1>16 DEF ClientStep, Generate, Receive, CancelWaiting, CloseYielded, CollectGenerator
<1>17. CASE LoopStep
  BY <1>1, <1>3, <1>17 DEF LoopStep, LoopStopWorkers, LoopDriverStopped, LoopJoinWorkers, LoopWake,
     LoopNextIteration, LoopFails
<1>18. CASE LoopTimesOut \/ ErrorCallback
  BY <1>1, <1>18 DEF LoopTimesOut, ErrorCallback
<1>19. CASE StepTask
  BY <1>1, <1>3, <1>4, <1>19 DEF StepTask, StepDrain, StepAdd, StepSchedule, StepOutputs, StepFails
<1>20. CASE UNCHANGED vars
  BY <1>1, <1>20 DEF vars, executorVars
<1> QED
  BY <1>1, <1>15, <1>16, <1>17, <1>18, <1>19, <1>20 DEF Next

THEOREM ExecutorTypeCorrect == Spec => []ExecutorTypeOK
<1>1. Init => ExecutorTypeOK
  BY ExecutorInitType
<1>2. ExecutorTypeOK /\ [Next]_vars => ExecutorTypeOK'
  BY ExecutorNextType
<1> QED
  BY <1>1, <1>2, PTL DEF Spec

(* Every variable of the asynchronous engine and of its executor keeps its     *)
(* type.                                                                   *)
THEOREM EngineTypeCorrect == Spec => []TypeOK
<1>1. EngineInv /\ ExecutorTypeOK => TypeOK
  <2> SUFFICES ASSUME EngineInv, ExecutorTypeOK PROVE TypeOK
    OBVIOUS
  <2>1. EngineTypeOK /\ tracker \in TrackerState
    BY DEF EngineInv, EngineTypeOK
  <2>2. \A r \in Req : produced[r] \in 0..MaxOutputs[r]
    BY <2>1, OutputsAssumption DEF EngineTypeOK
  <2>3. /\ tracker.new \in Seq(Req) /\ tracker.aborted \subseteq Req
        /\ tracker.registered \subseteq Req /\ tracker.event \in BOOLEAN
        /\ \A r \in Req : tracker.stream[r].finished \in BOOLEAN
    BY <2>1, TrackerFields
  <2>4. received \in [Req -> Seq([n : Nat, finished : BOOLEAN])]
    BY <2>1 DEF EngineTypeOK, OutputItem
  <2> QED
    BY <2>1, <2>2, <2>3, <2>4 DEF EngineTypeOK, TypeOK
<1> QED
  BY <1>1, EngineInvariant, ExecutorTypeCorrect, PTL

-------------------------------------------------------------------------------
(* The refinement of RequestStreams.                                         *)
LEMMA ReceiveRefines ==
  ASSUME EngineInv, NEW r \in Req, Receive(r)
  PROVE  [Streams!StreamsNext]_(Streams!streamVars)
<1> DEFINE s == tracker.stream[r]
           item == Head(s.queue)
<1>1. client[r] = "waiting" /\ s.queue # <<>> /\ StreamOK(r) /\ EngineTypeOK
  BY DEF Receive, EngineInv, StreamInv
<1>2. \/ ~IsEnd(item) /\ received' = [received EXCEPT ![r] = Append(@, item)] /\ UNCHANGED verdict
      \/ /\ IsEnd(item)
         /\ verdict' = [verdict EXCEPT ![r] = IF item = STOP THEN "normal" ELSE "error"]
         /\ UNCHANGED received
  BY DEF Receive
<1>3. /\ s.queue \in Seq(OutputItem \cup EndItem) /\ s.finished \in BOOLEAN
      /\ LastReceived(r) \in OutputItem /\ verdict[r] = "open"
      /\ QueueOK(s.queue, s.finished, LastReceived(r))
  BY <1>1, TrackerFields, LastReceivedType DEF EngineTypeOK, StreamOK
<1>4. /\ ~IsEnd(item) => item \in OutputItem /\ item.n = LastReceived(r).n + 1 /\ ~LastReceived(r).finished
      /\ IsEnd(item) => (item = STOP <=> LastReceived(r).finished)
  <2> HIDE DEF s
  <2> QED
    BY <1>1, <1>3, QueueTakes, Items
<1> HIDE DEF item
<1>5. CASE ~IsEnd(item)
  <2>1. /\ item \in OutputItem /\ received[r] \in Seq(OutputItem) /\ received \in [Req -> Seq(OutputItem)]
        /\ received' = [received EXCEPT ![r] = Append(@, item)] /\ verdict' = verdict
    BY <1>1, <1>2, <1>4, <1>5 DEF EngineTypeOK
  <2>2. LastReceived(r)' = item
    <3> DEFINE a == Append(received[r], item)
    <3>3. item \in OutputItem /\ received[r] \in Seq(OutputItem)
      BY <2>1
    <3>1. a # <<>> /\ a[Len(a)] = item
      BY <3>3
    <3> HIDE DEF a
    <3>2. received'[r] = a
      BY <2>1 DEF a
    <3> QED
      BY <3>1, <3>2 DEF LastReceived, Last
  <2>3. ASSUME NEW p \in Req, p # r PROVE LastReceived(p)' = LastReceived(p)
    <3>1. received'[p] = received[p]
      BY <2>1, <2>3
    <3> QED
      BY <3>1 DEF LastReceived
  <2>4. item.n = LastReceived(r).n + 1 /\ item.finished \in BOOLEAN /\ LastReceived(r).finished = FALSE
    BY <1>3, <1>4, <1>5, <2>1 DEF OutputItem
  <2>5. Streams!Output(r, item.finished)
    BY <1>3, <2>1, <2>2, <2>3, <2>4 DEF Streams!Output
  <2> QED
    BY <2>4, <2>5 DEF Streams!StreamsNext
<1>6. CASE IsEnd(item)
  <2>1. /\ received' = received
        /\ verdict' = [verdict EXCEPT ![r] = IF LastReceived(r).finished THEN "normal" ELSE "error"]
    BY <1>2, <1>4, <1>6
  <2>2. \A p \in Req : LastReceived(p)' = LastReceived(p)
    BY <2>1 DEF LastReceived
  <2>3. Streams!End(r)
    BY <1>3, <2>1, <2>2 DEF Streams!End
  <2> QED
    BY <2>3 DEF Streams!StreamsNext
<1> QED
  BY <1>5, <1>6

LEMMA QuietStreams ==
  ASSUME UNCHANGED <<received, verdict>>
  PROVE  UNCHANGED Streams!streamVars
<1>1. \A p \in Req : LastReceived(p)' = LastReceived(p)
  BY DEF LastReceived
<1> QED
  BY <1>1 DEF Streams!streamVars

LEMMA GenerateRefines ==
  ASSUME EngineInv, NEW r \in Req, Generate(r)
  PROVE  [Streams!StreamsNext]_(Streams!streamVars)
<1>1. CASE UNCHANGED verdict
  BY <1>1, QuietStreams DEF Generate
<1>2. CASE verdict' = [verdict EXCEPT ![r] = "error"]
  <2>1. received' = received /\ received[r] = <<>> /\ verdict[r] = "open"
    BY DEF Generate, EngineInv, OnceInv
  <2>2. LastReceived(r).finished = FALSE
    BY <2>1 DEF LastReceived
  <2>3. \A p \in Req : LastReceived(p)' = LastReceived(p)
    BY <2>1 DEF LastReceived
  <2>4. Streams!End(r)
    BY <1>2, <2>1, <2>2, <2>3 DEF Streams!End
  <2> QED
    BY <2>4 DEF Streams!StreamsNext
<1> QED
  BY <1>1, <1>2 DEF Generate

(* generate() keeps its promise to its caller: outputs in order, each once, a    *)
(* normal end only after the finished one and nothing after the end, whatever   *)
(* is aborted, fails or comes late.                                         *)
THEOREM GenerateImplementsStreams == Spec => ImplementsStreams
<1>1. Init => Streams!StreamsInit
  <2> SUFFICES ASSUME Init PROVE Streams!StreamsInit
    OBVIOUS
  <2>1. \A r \in Req : LastReceived(r).n = 0 /\ LastReceived(r).finished = FALSE
    BY DEF Init, LastReceived
  <2>2. verdict = [r \in Req |-> "open"]
    BY DEF Init
  <2> QED
    BY <2>1, <2>2, Zenon DEF Streams!StreamsInit
<1>2. ASSUME EngineInv, [Next]_vars PROVE [Streams!StreamsNext]_(Streams!streamVars)
  <2>1. ASSUME NEW r \in Req, ClientStep(r) PROVE [Streams!StreamsNext]_(Streams!streamVars)
    <3>1. CASE Generate(r)
      BY <1>2, <3>1, GenerateRefines
    <3>2. CASE Receive(r)
      BY <1>2, <3>2, ReceiveRefines
    <3>3. CASE CancelWaiting(r) \/ CloseYielded(r) \/ CollectGenerator(r)
      BY <3>3, QuietStreams DEF CancelWaiting, CloseYielded, CollectGenerator
    <3> QED
      BY <2>1, <3>1, <3>2, <3>3 DEF ClientStep
  <2>2. CASE LoopStep \/ LoopTimesOut \/ ErrorCallback
    <3>1. UNCHANGED <<received, verdict>>
      BY <2>2 DEF LoopStep, LoopStopWorkers, LoopDriverStopped, LoopJoinWorkers, LoopWake,
         LoopNextIteration, LoopFails, LoopTimesOut, ErrorCallback, clientVars
    <3> QED
      BY <3>1, QuietStreams
  <2>3. CASE StepTask
    <3>1. UNCHANGED <<received, verdict>>
      BY <2>3 DEF StepTask, StepDrain, StepAdd, StepSchedule, StepOutputs, StepFails, clientVars
    <3> QED
      BY <3>1, QuietStreams
  <2>4. CASE \/ Executor(StartWorkerExecutionLoop) \/ Executor(DriverBroadcast) \/ Executor(Collective)
             \/ \E w \in Reader : Executor(WorkerStep(w)) \/ Executor(HandleResult(w))
             \/ Executor(OnWorkerExit) \/ Executor(ExecutorFault)
    <3>1. UNCHANGED <<received, verdict>>
      BY <2>4 DEF Executor, clientVars
    <3> QED
      BY <3>1, QuietStreams
  <2>5. CASE UNCHANGED vars
    BY <2>5, QuietStreams DEF vars
  <2> QED
    BY <1>2, <2>1, <2>2, <2>3, <2>4, <2>5 DEF Next
<1> QED
  BY <1>1, <1>2, EngineInvariant, PTL DEF Spec, ImplementsStreams, Streams!StreamsSpec

-------------------------------------------------------------------------------
(* The driver and the workers, as long as the engine has not failed.          *)

(* The workers do not move, and neither does the stretch of requests.          *)
LEMMA WorkersLeft ==
  ASSUME WorkersInv, UNCHANGED <<tasks, worker, taskQueue, future, inbox>>,
         StopSent' <=> StopSent, Rested' => Rested
  PROVE  WorkersInv'
<1>1. ASSUME NEW w \in Reader, worker'[w] # "dead" PROVE WorkerOK(w)'
  <2>1. WorkerOK(w)
    BY <1>1 DEF WorkersInv
  <2>2. (Within(w)' <=> Within(w)) /\ (Between(w)' <=> Between(w)) /\ (Broken(w)' <=> Broken(w))
    BY DEF Within, Between, Broken
  <2> QED
    BY <2>1, <2>2 DEF WorkerOK
<1>2. tasks' = "running" /\ ~StopSent' => \A w \in Reader : future'[w] \in {"pending"} \cup Raised
  BY DEF WorkersInv
<1>3. Rested' => \A w \in Reader : future'[w] \in {"none", "done"}
  BY DEF WorkersInv
<1> QED
  BY <1>1, <1>2, <1>3 DEF WorkersInv, Raised

(* Only worker w moves.                                                      *)
LEMMA OneWorkerMoves ==
  ASSUME WorkersInv, NEW w \in Reader, UNCHANGED <<tasks, loop, callback, driver>>,
         \A v \in Reader : v # w => /\ worker'[v] = worker[v] /\ taskQueue'[v] = taskQueue[v]
                                    /\ future'[v] = future[v] /\ inbox'[v] = inbox[v],
         worker'[w] # "dead" => WorkerOK(w)',
         tasks = "running" /\ ~StopSent => future'[w] \in {"pending"} \cup Raised,
         Rested => future'[w] \in {"none", "done"}
  PROVE  WorkersInv'
<1>1. (StopSent' <=> StopSent) /\ (Rested' <=> Rested)
  BY DEF StopSent, Rested
<1>2. ASSUME NEW v \in Reader, v # w, worker'[v] # "dead" PROVE WorkerOK(v)'
  <2>1. WorkerOK(v) /\ inbox'[v] = inbox[v]
    BY <1>2 DEF WorkersInv
  <2>2. (Within(v)' <=> Within(v)) /\ (Between(v)' <=> Between(v)) /\ (Broken(v)' <=> Broken(v))
    BY <1>2 DEF Within, Between, Broken
  <2>3. worker'[v] = worker[v] /\ taskQueue'[v] = taskQueue[v] /\ future'[v] = future[v]
    BY <1>2
  <2> QED
    BY <1>1, <2>1, <2>2, <2>3 DEF WorkerOK
<1>3. \A v \in Reader : worker'[v] # "dead" => WorkerOK(v)'
  BY <1>2
<1>4. tasks' = "running" /\ ~StopSent' => \A v \in Reader : future'[v] \in {"pending"} \cup Raised
  BY <1>1 DEF WorkersInv
<1>5. Rested' => \A v \in Reader : future'[v] \in {"none", "done"}
  BY <1>1 DEF WorkersInv
<1> QED
  BY <1>3, <1>4, <1>5 DEF WorkersInv, Raised

LEMMA RunningInit == Init => RunningInv
<1> SUFFICES ASSUME Init PROVE RunningInv
  OBVIOUS
<1>1. /\ driver = "idle" /\ tasks = "none" /\ loop = "none" /\ callback = FALSE /\ step.pc = "none"
      /\ \A w \in Reader : /\ worker[w] = "task" /\ taskQueue[w] = 0 /\ future[w] = "none"
                           /\ inbox[w] = <<>>
  BY DEF Init, ExecutorInit, QueueInit, NoStep
<1>2. DriverInv
  BY <1>1 DEF DriverInv
<1>3. WorkersInv
  <2>1. \A w \in Reader : Between(w)
    BY <1>1 DEF Between
  <2>2. StopSent
    BY <1>1 DEF StopSent
  <2> QED
    BY <1>1, <2>1, <2>2 DEF WorkersInv, WorkerOK
<1> QED
  BY <1>2, <1>3 DEF RunningInv

(* What the clients of the executor do, the workers apart.                    *)
LEMMA DriverClients ==
  ASSUME EngineInv, RunningInv, ~errored', [Next]_vars
  PROVE  ~errored /\ DriverInv /\ WorkersInv /\ StepInv /\ EngineTypeOK /\ EngineTypeOK'
<1>1. errored => errored'
  <2>1. ASSUME NEW r \in Req, ClientStep(r) PROVE errored' = errored
    BY <2>1 DEF ClientStep, Generate, Receive, CancelWaiting, CloseYielded, CollectGenerator, loopVars
  <2>2. CASE LoopStep
    BY <2>2 DEF LoopStep, LoopStopWorkers, LoopDriverStopped, LoopJoinWorkers, LoopWake,
       LoopNextIteration, LoopFails
  <2>3. CASE LoopTimesOut \/ ErrorCallback
    BY <2>3 DEF LoopTimesOut, ErrorCallback
  <2>4. CASE StepTask
    BY <2>4 DEF StepTask, StepDrain, StepAdd, StepSchedule, StepOutputs, StepFails, loopVars
  <2>5. CASE \/ Executor(StartWorkerExecutionLoop) \/ Executor(DriverBroadcast) \/ Executor(Collective)
             \/ \E w \in Reader : Executor(WorkerStep(w)) \/ Executor(HandleResult(w))
             \/ Executor(OnWorkerExit) \/ Executor(ExecutorFault)
    BY <2>5 DEF Executor, loopVars
  <2>6. CASE UNCHANGED vars
    BY <2>6 DEF vars
  <2> QED
    BY <2>1, <2>2, <2>3, <2>4, <2>5, <2>6 DEF Next
<1>2. EngineInv'
  BY EngineNext
<1> QED
  BY <1>1, <1>2 DEF RunningInv, EngineInv

LEMMA ClientRuns ==
  ASSUME NEW r \in Req, ClientStep(r), ~errored, DriverInv, WorkersInv, StepInv
  PROVE  DriverInv' /\ WorkersInv'
<1>1. UNCHANGED <<driver, tasks, worker, taskQueue, future, inbox, step, callback>>
  BY DEF ClientStep, Generate, Receive, CancelWaiting, CloseYielded, CollectGenerator,
     executorVars, loopVars
<1>2. CASE loop' = loop
  <2>1. DriverInv' /\ (StopSent' <=> StopSent) /\ (Rested' <=> Rested)
    BY <1>1, <1>2 DEF DriverInv, StopSent, Rested
  <2> QED
    BY <1>1, <2>1, WorkersLeft
<1>3. CASE loop \in {"none", "dead"} /\ loop' = "top"
  <2>1. step.pc = "none" /\ driver = "idle"
    BY <1>3 DEF StepInv, DriverInv
  <2>2. DriverInv'
    BY <1>1, <1>3, <2>1 DEF DriverInv
  <2>3. (StopSent' <=> StopSent) /\ (Rested' => Rested)
    BY <1>1, <1>3 DEF StopSent, Rested, DriverInv
  <2> QED
    BY <1>1, <2>2, <2>3, WorkersLeft
<1>4. loop' = loop \/ (loop \in {"none", "dead"} /\ loop' = "top")
  BY DEF ClientStep, Generate, Receive, CancelWaiting, CloseYielded, CollectGenerator, loopVars, IsRunning
<1> QED
  BY <1>2, <1>3, <1>4

LEMMA LoopRuns ==
  ASSUME LoopStep, ~errored, DriverInv, WorkersInv, StepInv, ExecutorTypeOK
  PROVE  DriverInv' /\ WorkersInv'
<1>1. CASE LoopStopWorkers
  <2>1. /\ loop = "top" /\ ~callback /\ step.pc = "none"
        /\ UNCHANGED <<worker, taskQueue, future, inbox, step, callback, tasks>>
        /\ \/ tasks = "none" /\ loop' = "wait" /\ driver' = driver
           \/ tasks = "running" /\ loop' = "stopping" /\ driver' = "stop"
    <3>1. loop = "top" /\ ~callback /\ UNCHANGED <<worker, taskQueue, future, inbox, step, callback, tasks>>
      BY <1>1 DEF LoopStopWorkers, StopAsync, executorVars
    <3>2. step.pc = "none" /\ tasks # "created"
      BY <3>1 DEF StepInv, DriverInv
    <3>3. \/ tasks = "none" /\ loop' = "wait" /\ driver' = driver
          \/ tasks # "none" /\ loop' = "stopping" /\ driver' = "stop"
      BY <1>1 DEF LoopStopWorkers, StopAsync, executorVars
    <3>4. tasks # "none" => tasks = "running"
      BY <3>2 DEF ExecutorTypeOK
    <3> QED
      BY <3>1, <3>2, <3>3, <3>4
  <2>2. DriverInv' /\ (StopSent' <=> StopSent) /\ (Rested' => Rested)
    BY <2>1 DEF DriverInv, StopSent, Rested
  <2> QED
    BY <2>1, <2>2, WorkersLeft
<1>2. CASE LoopDriverStopped
  <2>1. /\ loop = "stopping" /\ driver = "returned" /\ tasks = "running" /\ driver' = "idle"
        /\ tasks' = "none" /\ loop' = "joining"
        /\ UNCHANGED <<worker, taskQueue, future, inbox, step, callback>>
    BY <1>2 DEF LoopDriverStopped, ForgetTasks
  <2>2. DriverInv' /\ StopSent /\ StopSent' /\ ~Rested'
    BY <2>1 DEF DriverInv, StopSent, Rested, StepInv
  <2>3. ASSUME NEW w \in Reader, worker'[w] # "dead" PROVE WorkerOK(w)'
    <3>1. WorkerOK(w)
      BY <2>1, <2>3 DEF WorkersInv
    <3>2. (Within(w)' <=> Within(w)) /\ (Between(w)' <=> Between(w)) /\ (Broken(w)' <=> Broken(w))
      BY <2>1 DEF Within, Between, Broken
    <3> QED
      BY <2>1, <2>2, <3>1, <3>2 DEF WorkerOK
  <2> QED
    BY <2>1, <2>2, <2>3 DEF WorkersInv
<1>3. CASE LoopJoinWorkers
  <2>1. /\ loop = "joining" /\ tasks = "none"
        /\ UNCHANGED <<driver, tasks, worker, taskQueue, future, inbox, step>>
        /\ \/ loop' = "dead" /\ callback' = TRUE
           \/ loop' = "wait" /\ callback' = FALSE /\ TasksDone
    BY <1>3 DEF LoopJoinWorkers, executorVars, DriverInv
  <2>2. DriverInv' /\ StopSent /\ StopSent'
    BY <2>1 DEF DriverInv, StopSent
  <2>3. ASSUME NEW w \in Reader, worker'[w] # "dead" PROVE WorkerOK(w)'
    <3>1. WorkerOK(w)
      BY <2>1, <2>3 DEF WorkersInv
    <3>2. (Within(w)' <=> Within(w)) /\ (Between(w)' <=> Between(w)) /\ (Broken(w)' <=> Broken(w))
      BY <2>1 DEF Within, Between, Broken
    <3> QED
      BY <2>1, <2>2, <3>1, <3>2 DEF WorkerOK
  <2>4. Rested' => \A w \in Reader : future'[w] \in {"none", "done"}
    BY <2>1 DEF Rested, TasksDone
  <2> QED
    BY <2>1, <2>2, <2>3, <2>4 DEF WorkersInv
<1>4. CASE LoopWake
  <2>1. /\ loop = "wait" /\ loop' = "iterate" /\ step'.pc = "start" /\ step.pc = "none"
        /\ UNCHANGED <<driver, tasks, worker, taskQueue, future, inbox, callback>>
    BY <1>4, NoStepFields DEF LoopWake, executorVars, StepInv
  <2>2. DriverInv' /\ (StopSent' <=> StopSent) /\ (Rested' => Rested)
    BY <2>1 DEF DriverInv, StopSent, Rested
  <2> QED
    BY <2>1, <2>2, WorkersLeft
<1>5. CASE LoopNextIteration
  <2>1. /\ loop = "iterate" /\ loop' \in {"iterate", "top"} /\ step.pc = "done"
        /\ step'.pc \in {"start", "none"}
        /\ UNCHANGED <<driver, tasks, worker, taskQueue, future, inbox, callback>>
    BY <1>5, NoStepFields DEF LoopNextIteration, executorVars
  <2>2. DriverInv' /\ (StopSent' <=> StopSent) /\ (Rested' => Rested)
    BY <2>1 DEF DriverInv, StopSent, Rested
  <2> QED
    BY <2>1, <2>2, WorkersLeft
<1>6. CASE LoopFails
  <2>1. /\ loop = "iterate" /\ loop' = "dead" /\ step.pc = "failed" /\ step'.pc = "none"
        /\ callback' = TRUE
        /\ UNCHANGED <<driver, tasks, worker, taskQueue, future, inbox>>
    BY <1>6, NoStepFields DEF LoopFails, executorVars
  <2>2. DriverInv' /\ (StopSent' <=> StopSent) /\ (Rested' => Rested)
    BY <2>1 DEF DriverInv, StopSent, Rested
  <2> QED
    BY <2>1, <2>2, WorkersLeft
<1> QED
  BY <1>1, <1>2, <1>3, <1>4, <1>5, <1>6 DEF LoopStep

LEMMA StepRuns ==
  ASSUME StepTask, ~errored, DriverInv, WorkersInv, StepInv, EngineTypeOK, ExecutorTypeOK
  PROVE  DriverInv' /\ WorkersInv'
<1>1. ASSUME step.pc # "executing", step'.pc # "executing",
             UNCHANGED <<driver, tasks, worker, taskQueue, future, inbox, loop, callback>>
      PROVE  DriverInv' /\ WorkersInv'
  <2>1. DriverInv' /\ (StopSent' <=> StopSent) /\ (Rested' => Rested)
    BY <1>1 DEF DriverInv, StopSent, Rested
  <2> QED
    BY <1>1, <2>1, WorkersLeft
<1>2. CASE StepDrain
  <2>1. step.pc = "start" /\ step'.pc = "adding"
    BY <1>2 DEF StepDrain, EngineTypeOK
  <2> QED
    BY <1>1, <1>2, <2>1 DEF StepDrain, executorVars, loopVars
<1>3. ASSUME NEW valid \in BOOLEAN, StepAdd(valid) PROVE DriverInv' /\ WorkersInv'
  <2>1. step.pc = "adding" /\ step'.pc = "adding"
    BY <1>3 DEF StepAdd, EngineTypeOK
  <2> QED
    BY <1>1, <1>3, <2>1 DEF StepAdd, executorVars, loopVars
<1>4. CASE StepSchedule
  <2>1. step.pc = "adding" /\ loop = "iterate" /\ UNCHANGED <<loop, callback>>
    BY <1>4 DEF StepSchedule, loopVars, StepInv
  <2>2. CASE step' = [step EXCEPT !.pc = "done", !.more = FALSE] /\ UNCHANGED executorVars
    <3>1. step'.pc = "done"
      BY <2>2 DEF EngineTypeOK
    <3> QED
      BY <1>1, <2>1, <2>2, <3>1 DEF executorVars
  <2>3. ASSUME NEW batch, step' = [step EXCEPT !.pc = "executing", !.batch = batch], ExecuteModelAsync
        PROVE  DriverInv' /\ WorkersInv'
    <3>1. /\ step'.pc = "executing" /\ driver' = "step" /\ tasks # "created"
          /\ tasks' = IF tasks = "none" THEN "created" ELSE "running"
          /\ UNCHANGED <<worker, taskQueue, future, inbox>>
      BY <2>1, <2>3 DEF EngineTypeOK, ExecuteModelAsync, DriverInv, ExecutorTypeOK
    <3>2. DriverInv'
      BY <2>1, <3>1 DEF DriverInv
    <3>3. CASE tasks = "running"
      <4>1. tasks' = tasks /\ (StopSent' <=> StopSent) /\ (Rested' => Rested)
        BY <2>1, <3>1, <3>3 DEF StopSent, Rested
      <4> QED
        BY <3>1, <3>2, <4>1, WorkersLeft
    <3>4. CASE tasks = "none"
      <4>1. tasks' = "created" /\ ~StopSent' /\ ~Rested' /\ StopSent /\ Rested
        BY <2>1, <3>1, <3>4 DEF StopSent, Rested
      <4>2. ASSUME NEW w \in Reader, worker'[w] # "dead" PROVE WorkerOK(w)'
        <5>1. WorkerOK(w) /\ future[w] \in {"none", "done"}
          BY <3>1, <4>1, <4>2 DEF WorkersInv
        <5>2. Between(w)
          BY <4>1, <5>1 DEF WorkerOK, Within, Broken, Raised
        <5> QED
          BY <3>1, <4>1, <5>2 DEF WorkerOK, Between, NoStop
      <4> QED
        BY <3>2, <4>1, <4>2 DEF WorkersInv
    <3> QED
      BY <3>1, <3>3, <3>4 DEF ExecutorTypeOK
  <2> QED
    BY <1>4, <2>2, <2>3 DEF StepSchedule
<1>5. ASSUME NEW result, TakeDriverResult(result), step.pc = "executing", step'.pc \in {"done", "failed"},
             UNCHANGED <<loop, callback>>
      PROVE  DriverInv' /\ WorkersInv'
  <2>1. /\ driver' = "idle" /\ tasks = "running" /\ loop = "iterate"
        /\ UNCHANGED <<tasks, worker, taskQueue, future, inbox>>
    BY <1>5 DEF TakeDriverResult, DriverInv, StepInv, ExecutorTypeOK
  <2>2. DriverInv' /\ (StopSent' <=> StopSent) /\ (Rested' => Rested)
    BY <1>5, <2>1 DEF DriverInv, StopSent, Rested
  <2> QED
    BY <2>1, <2>2, WorkersLeft
<1>6. CASE StepOutputs
  <2>1. step'.pc = "done" /\ UNCHANGED <<loop, callback>> /\ step.pc = "executing"
    BY <1>6 DEF StepOutputs, EngineTypeOK, loopVars
  <2> QED
    BY <1>5, <1>6, <2>1 DEF StepOutputs
<1>7. CASE StepFails
  <2>1. step'.pc = "failed" /\ UNCHANGED <<loop, callback>> /\ step.pc = "executing"
    BY <1>7 DEF StepFails, EngineTypeOK, loopVars
  <2> QED
    BY <1>5, <1>7, <2>1 DEF StepFails
<1> QED
  BY <1>2, <1>3, <1>4, <1>6, <1>7 DEF StepTask

(* The driver is inside a step, or stops the model loops.                    *)
LEMMA DriverBusy ==
  ASSUME ~errored, DriverInv, StepInv
  PROVE  /\ driver \in {"step", "forward"} => step.pc = "executing" /\ loop = "iterate"
         /\ driver = "stop" => step.pc # "executing" /\ loop = "stopping" /\ tasks = "running"
         /\ tasks = "created" => step.pc = "executing" /\ loop = "iterate"
BY DEF DriverInv, StepInv

LEMMA StartRuns ==
  ASSUME StartWorkerExecutionLoop, UNCHANGED <<loop, callback, step>>, ~errored,
         DriverInv, WorkersInv, StepInv, ExecutorTypeOK
  PROVE  DriverInv' /\ WorkersInv'
<1>1. /\ tasks = "created" /\ tasks' = "running" /\ UNCHANGED <<driver, worker, inbox>>
      /\ step.pc = "executing" /\ loop = "iterate"
      /\ \A w \in Reader : taskQueue'[w] = taskQueue[w] + 1 /\ future'[w] = "pending"
  BY DriverBusy DEF StartWorkerExecutionLoop
<1>2. DriverInv' /\ ~StopSent' /\ ~Rested'
  BY <1>1 DEF DriverInv, StopSent, Rested
<1>3. ASSUME NEW w \in Reader, worker'[w] # "dead" PROVE WorkerOK(w)'
  <2>1. WorkerOK(w)
    BY <1>1, <1>3 DEF WorkersInv
  <2>2. worker[w] = "task" /\ taskQueue[w] = 0 /\ NoStop(inbox[w])
    BY <1>1, <2>1 DEF WorkerOK
  <2>3. Within(w)'
    BY <1>1, <2>2 DEF Within
  <2> QED
    BY <1>1, <1>2, <2>2, <2>3 DEF WorkerOK
<1> QED
  BY <1>1, <1>2, <1>3 DEF WorkersInv

LEMMA AppendStop ==
  ASSUME NEW s \in Seq(Message), NoStop(s)
  PROVE  NoStop(Append(s, "step")) /\ EndsWithStop(Append(s, "stop"))
<1>1. {"step", "stop"} \subseteq Message /\ Len(s) \in Nat
  BY MessageAssumption
<1>2. ASSUME NEW m \in Message
      PROVE  LET a == Append(s, m) IN
             a # <<>> /\ Len(a) = Len(s) + 1 /\ a[Len(s) + 1] = m /\ \A i \in 1..Len(s) : a[i] = s[i]
  OBVIOUS
<1>3. NoStop(Append(s, "step"))
  <2> DEFINE a == Append(s, "step")
  <2>1. Len(a) = Len(s) + 1 /\ a[Len(s) + 1] = "step" /\ \A i \in 1..Len(s) : a[i] = s[i]
    BY <1>1, <1>2
  <2> HIDE DEF a
  <2>2. ASSUME NEW i \in 1..Len(a) PROVE a[i] # "stop"
    <3>1. i \in 1..Len(s) \/ i = Len(s) + 1
      BY <1>1, <2>1
    <3> QED
      BY <2>1, <3>1 DEF NoStop
  <2> QED
    BY <2>2 DEF NoStop, a
<1>4. EndsWithStop(Append(s, "stop"))
  <2> DEFINE a == Append(s, "stop")
  <2>1. a # <<>> /\ Len(a) = Len(s) + 1 /\ a[Len(s) + 1] = "stop" /\ \A i \in 1..Len(s) : a[i] = s[i]
    BY <1>1, <1>2
  <2> HIDE DEF a
  <2>2. Len(a) - 1 = Len(s)
    BY <1>1, <2>1
  <2>3. EndsWithStop(a)
    BY <2>1, <2>2 DEF NoStop, EndsWithStop
  <2> QED
    BY <2>3 DEF a
<1> QED
  BY <1>3, <1>4

LEMMA TailStop ==
  ASSUME NEW s \in Seq(Message), s # <<>>
  PROVE  /\ NoStop(s) => Head(s) # "stop" /\ NoStop(Tail(s))
         /\ EndsWithStop(s) /\ Head(s) = "stop" => Tail(s) = <<>>
         /\ EndsWithStop(s) /\ Head(s) # "stop" => EndsWithStop(Tail(s))
<1> DEFINE a == Tail(s)
<1>1. /\ a \in Seq(Message) /\ Len(a) = Len(s) - 1 /\ Len(s) \in Nat \ {0} /\ Head(s) = s[1]
      /\ \A i \in 1..Len(a) : a[i] = s[i + 1]
  OBVIOUS
<1> HIDE DEF a
<1>2. ASSUME NoStop(s) PROVE Head(s) # "stop" /\ NoStop(a)
  <2>1. ASSUME NEW i \in 1..Len(a) PROVE a[i] # "stop"
    <3>1. i + 1 \in 1..Len(s) /\ a[i] = s[i + 1]
      BY <1>1
    <3> QED
      BY <1>2, <3>1 DEF NoStop
  <2> QED
    BY <1>1, <1>2, <2>1 DEF NoStop
<1>3. ASSUME EndsWithStop(s), Head(s) = "stop" PROVE a = <<>>
  <2>1. Len(s) = 1
    BY <1>1, <1>3 DEF EndsWithStop
  <2> QED
    BY <1>1, <2>1
<1>4. ASSUME EndsWithStop(s), Head(s) # "stop" PROVE EndsWithStop(a)
  <2>1. Len(s) # 1
    BY <1>1, <1>4 DEF EndsWithStop
  <2>2. Len(a) \in 1..Len(a) /\ a # <<>> /\ Len(a) + 1 = Len(s)
    BY <1>1, <2>1
  <2>3. a[Len(a)] = "stop"
    BY <1>1, <1>4, <2>2 DEF EndsWithStop
  <2>4. ASSUME NEW i \in 1..(Len(a) - 1) PROVE a[i] # "stop"
    <3>1. i \in 1..Len(a) /\ i + 1 \in 1..(Len(s) - 1)
      BY <1>1
    <3> QED
      BY <1>1, <1>4, <3>1 DEF EndsWithStop
  <2> QED
    BY <2>2, <2>3, <2>4 DEF EndsWithStop
<1> QED
  BY <1>2, <1>3, <1>4 DEF a

LEMMA BroadcastRuns ==
  ASSUME DriverBroadcast, UNCHANGED <<loop, callback, step>>, ~errored,
         DriverInv, WorkersInv, StepInv, ExecutorTypeOK
  PROVE  DriverInv' /\ WorkersInv'
<1>1. /\ UNCHANGED <<tasks, worker, taskQueue, future>> /\ driver \in {"step", "stop"}
      /\ \A w \in Reader : inbox[w] \in Seq(Message) /\ inbox'[w] = Append(inbox[w], driver)
      /\ driver' = IF driver = "step" THEN "forward" ELSE "returned"
  BY DEF DriverBroadcast, Enqueue, ExecutorTypeOK
<1>2. \A w \in Reader : (Within(w)' <=> Within(w)) /\ (Broken(w)' <=> Broken(w))
  BY <1>1 DEF Within, Broken
<1>3. CASE driver = "step"
  <2>1. step.pc = "executing" /\ loop = "iterate" /\ driver' = "forward"
    BY <1>1, <1>3, DriverBusy
  <2>2. DriverInv' /\ ~StopSent /\ ~StopSent' /\ ~Rested'
    BY <1>1, <2>1 DEF DriverInv, StopSent, Rested
  <2>3. ASSUME NEW w \in Reader, worker'[w] # "dead" PROVE WorkerOK(w)'
    <3>1. WorkerOK(w)
      BY <1>1, <2>3 DEF WorkersInv
    <3>2. NoStop(inbox[w]) => NoStop(inbox'[w])
      BY <1>1, <1>3, AppendStop
    <3> QED
      BY <1>1, <1>2, <2>2, <3>1, <3>2 DEF WorkerOK
  <2> QED
    BY <1>1, <2>2, <2>3 DEF WorkersInv
<1>4. CASE driver = "stop"
  <2>1. step.pc # "executing" /\ loop = "stopping" /\ tasks = "running" /\ driver' = "returned"
    BY <1>1, <1>4, DriverBusy
  <2>2. DriverInv' /\ ~StopSent /\ StopSent' /\ ~Rested'
    BY <1>1, <1>4, <2>1 DEF DriverInv, StopSent, Rested
  <2>3. ASSUME NEW w \in Reader, worker'[w] # "dead" PROVE WorkerOK(w)'
    <3>1. WorkerOK(w)
      BY <1>1, <2>3 DEF WorkersInv
    <3>2. NoStop(inbox[w]) => EndsWithStop(inbox'[w])
      BY <1>1, <1>4, AppendStop
    <3> QED
      BY <1>1, <1>2, <2>1, <2>2, <3>1, <3>2 DEF WorkerOK
  <2> QED
    BY <1>1, <2>2, <2>3 DEF WorkersInv
<1> QED
  BY <1>1, <1>3, <1>4

(* A worker that is in its model loop is on its way to a stop or far from one.  *)
LEMMA InsideLoop ==
  ASSUME WorkersInv, ExecutorTypeOK, NEW w \in Reader, worker[w] \in {"loop", "forward"}
  PROVE  /\ Within(w) /\ taskQueue[w] = 0 /\ tasks # "created" /\ ~Rested
         /\ StopSent => EndsWithStop(inbox[w])
         /\ ~StopSent => tasks = "running" /\ NoStop(inbox[w])
<1>1. WorkerOK(w)
  BY DEF WorkersInv
<1>2. tasks # "created"
  BY <1>1 DEF WorkerOK
<1>3. Within(w) /\ (StopSent => EndsWithStop(inbox[w])) /\ (~StopSent => tasks = "running" /\ NoStop(inbox[w]))
  BY <1>1, <1>2 DEF WorkerOK, Between, Broken, StopSent, ExecutorTypeOK
<1>4. taskQueue[w] = 0 /\ ~Rested
  BY <1>3 DEF Within, WorkersInv
<1> QED
  BY <1>2, <1>3, <1>4

LEMMA TakeTaskRuns ==
  ASSUME NEW w \in Reader, WorkerTakeTask(w), UNCHANGED <<loop, callback, step>>,
         WorkersInv, ExecutorTypeOK
  PROVE  WorkersInv'
<1>1. /\ worker[w] = "task" /\ taskQueue[w] > 0 /\ taskQueue'[w] = taskQueue[w] - 1
      /\ worker'[w] = "loop" /\ UNCHANGED <<driver, tasks, future, inbox>>
      /\ \A v \in Reader : v # w => worker'[v] = worker[v] /\ taskQueue'[v] = taskQueue[v]
  BY DEF WorkerTakeTask, ExecutorTypeOK
<1>2. WorkerOK(w) /\ taskQueue[w] # 0
  BY <1>1 DEF WorkersInv, ExecutorTypeOK
<1>3. (StopSent' <=> StopSent) /\ tasks # "created" /\ (Within(w) => Within(w)')
  BY <1>1, <1>2 DEF StopSent, WorkerOK, Within
<1>4. WorkerOK(w)'
  BY <1>1, <1>2, <1>3 DEF WorkerOK, Between, Broken
<1>5. tasks = "running" /\ ~StopSent => future'[w] \in {"pending"} \cup Raised
  BY <1>1 DEF WorkersInv
<1>6. Rested => future'[w] \in {"none", "done"}
  BY <1>1 DEF WorkersInv
<1> QED
  BY <1>1, <1>4, <1>5, <1>6, OneWorkerMoves

LEMMA ReceiveRuns ==
  ASSUME NEW w \in Reader, WorkerReceive(w), UNCHANGED <<loop, callback, step>>,
         WorkersInv, ExecutorTypeOK
  PROVE  WorkersInv'
<1> DEFINE m == Head(inbox[w])
<1>1. /\ worker[w] = "loop" /\ inbox[w] # <<>> /\ inbox[w] \in Seq(Message)
      /\ inbox'[w] = Tail(inbox[w]) /\ got'[w] = m
      /\ UNCHANGED <<driver, tasks, taskQueue>>
      /\ \A v \in Reader : v # w => inbox'[v] = inbox[v]
  BY DEF WorkerReceive, Dequeue, ExecutorTypeOK
<1>2. /\ worker'[w] = IF m = "stop" THEN "task" ELSE "forward"
      /\ \A v \in Reader : v # w => worker'[v] = worker[v]
  BY <1>1 DEF WorkerReceive, ExecutorTypeOK
<1>3. Within(w) /\ taskQueue[w] = 0 /\ tasks # "created" /\ ~Rested
  BY <1>1, InsideLoop
<1>4. /\ StopSent => EndsWithStop(inbox[w])
      /\ ~StopSent => tasks = "running" /\ NoStop(inbox[w])
  BY <1>1, InsideLoop
<1>5. /\ future'[w] = IF m = "stop" THEN "sent" ELSE future[w]
      /\ \A v \in Reader : v # w => future'[v] = future[v]
  <2>1. IF m = "stop" THEN TaskEnds(w, "sent") ELSE UNCHANGED future
    BY <1>1 DEF WorkerReceive
  <2> QED
    BY <1>3, <2>1 DEF TaskEnds, ExecutorTypeOK
<1>6. /\ NoStop(inbox[w]) => m # "stop" /\ NoStop(inbox'[w])
      /\ EndsWithStop(inbox[w]) /\ m = "stop" => inbox'[w] = <<>>
      /\ EndsWithStop(inbox[w]) /\ m # "stop" => EndsWithStop(inbox'[w])
  BY <1>1, TailStop
<1> HIDE DEF m
<1>7. (StopSent' <=> StopSent) /\ taskQueue'[w] = taskQueue[w] /\ future[w] = "pending"
  BY <1>1, <1>3 DEF StopSent, Within
<1>8. WorkerOK(w)'
  <2>1. CASE m = "stop"
    <3>1. StopSent /\ Between(w)' /\ future'[w] = "sent"
      BY <1>2, <1>3, <1>4, <1>5, <1>6, <1>7, <2>1 DEF Between
    <3> QED
      BY <1>1, <1>3, <1>7, <3>1 DEF WorkerOK
  <2>2. CASE m # "stop"
    <3>1. Within(w)'
      BY <1>2, <1>3, <1>5, <1>7, <2>2 DEF Within
    <3> QED
      BY <1>1, <1>3, <1>4, <1>6, <1>7, <2>2, <3>1 DEF WorkerOK
  <2> QED
    BY <2>1, <2>2
<1>9. tasks = "running" /\ ~StopSent => future'[w] \in {"pending"} \cup Raised
  BY <1>4, <1>5, <1>6, <1>7
<1> QED
  BY <1>1, <1>2, <1>3, <1>5, <1>8, <1>9, OneWorkerMoves

LEMMA HandleRuns ==
  ASSUME NEW w \in Reader, HandleResult(w), UNCHANGED <<loop, callback, step>>,
         WorkersInv, ExecutorTypeOK
  PROVE  WorkersInv'
<1>1. /\ future[w] \in {"sent", "sent_exception"}
      /\ future'[w] = IF future[w] = "sent" THEN "done" ELSE "failed"
      /\ UNCHANGED <<driver, tasks, worker, taskQueue, inbox>>
      /\ \A v \in Reader : v # w => future'[v] = future[v]
  BY DEF HandleResult, ExecutorTypeOK
<1>2. ~Rested /\ (StopSent' <=> StopSent)
  BY <1>1 DEF WorkersInv, StopSent
<1>3. ASSUME worker'[w] # "dead" PROVE WorkerOK(w)'
  <2>1. WorkerOK(w)
    BY <1>1, <1>3 DEF WorkersInv
  <2>2. ~Within(w) /\ (Between(w)' <=> Between(w)) /\ (Broken(w) => Broken(w)')
    BY <1>1 DEF Within, Between, Broken, Raised
  <2>3. Between(w) /\ future[w] \in {"none", "sent", "done"} => future'[w] \in {"none", "sent", "done"}
    BY <1>1
  <2> QED
    BY <1>1, <1>2, <2>1, <2>2, <2>3 DEF WorkerOK
<1>4. tasks = "running" /\ ~StopSent => future'[w] \in {"pending"} \cup Raised
  BY <1>1 DEF WorkersInv, Raised
<1> QED
  BY <1>1, <1>2, <1>3, <1>4, OneWorkerMoves

LEMMA RaiseRuns ==
  ASSUME NEW w \in Reader, WorkerRaises(w), UNCHANGED <<loop, callback, step>>,
         WorkersInv, ExecutorTypeOK
  PROVE  WorkersInv'
<1>1. /\ worker[w] \in {"loop", "forward"} /\ worker'[w] = "task"
      /\ UNCHANGED <<driver, tasks, taskQueue, inbox>>
      /\ \A v \in Reader : v # w => worker'[v] = worker[v]
  BY DEF WorkerRaises, ExecutorTypeOK
<1>2. Within(w) /\ taskQueue[w] = 0 /\ tasks # "created" /\ ~Rested
  BY <1>1, InsideLoop
<1>3. future'[w] = "sent_exception" /\ \A v \in Reader : v # w => future'[v] = future[v]
  BY <1>2 DEF WorkerRaises, TaskEnds, ExecutorTypeOK
<1>4. Broken(w)' /\ (StopSent' <=> StopSent)
  BY <1>1, <1>2, <1>3 DEF Broken, Raised, StopSent
<1>5. WorkerOK(w)'
  BY <1>1, <1>2, <1>4 DEF WorkerOK
<1>6. future'[w] \in {"pending"} \cup Raised
  BY <1>3 DEF Raised
<1> QED
  BY <1>1, <1>2, <1>3, <1>5, <1>6, OneWorkerMoves

LEMMA DieRuns ==
  ASSUME NEW w \in Reader, WorkerDies(w), UNCHANGED <<loop, callback, step>>,
         WorkersInv, ExecutorTypeOK
  PROVE  WorkersInv'
<1>1. /\ worker'[w] = "dead" /\ UNCHANGED <<driver, tasks, taskQueue, inbox, future>>
      /\ \A v \in Reader : v # w => worker'[v] = worker[v]
  BY DEF WorkerDies, ExecutorTypeOK
<1>2. tasks = "running" /\ ~StopSent => future'[w] \in {"pending"} \cup Raised
  BY <1>1 DEF WorkersInv
<1>3. Rested => future'[w] \in {"none", "done"}
  BY <1>1 DEF WorkersInv
<1> QED
  BY <1>1, <1>2, <1>3, OneWorkerMoves

(* All workers are killed, or all end a forward pass together.                *)
LEMMA AllRun ==
  ASSUME OnWorkerExit \/ Collective, UNCHANGED <<loop, callback, step>>, ~errored,
         DriverInv, WorkersInv, StepInv, ExecutorTypeOK
  PROVE  DriverInv' /\ WorkersInv'
<1>1. UNCHANGED <<tasks, taskQueue, inbox, future>>
  BY DEF OnWorkerExit, Collective
<1>2. ASSUME NEW w \in Reader
      PROVE  worker'[w] = "dead" \/ (worker[w] = "forward" /\ worker'[w] = "loop")
  BY DEF OnWorkerExit, Collective
<1>3. driver' = driver \/ (driver = "forward" /\ driver' = "returned")
  BY DEF OnWorkerExit, Collective
<1>4. driver = "forward" => step.pc = "executing" /\ loop = "iterate"
  BY DriverBusy
<1>5. DriverInv' /\ (StopSent' <=> StopSent) /\ (Rested' <=> Rested)
  BY <1>1, <1>3, <1>4 DEF DriverInv, StopSent, Rested
<1>6. ASSUME NEW w \in Reader, worker'[w] # "dead" PROVE WorkerOK(w)'
  <2>1. worker[w] = "forward" /\ worker'[w] = "loop"
    BY <1>2, <1>6
  <2>2. /\ Within(w) /\ taskQueue[w] = 0 /\ tasks # "created"
        /\ StopSent => EndsWithStop(inbox[w])
        /\ ~StopSent => tasks = "running" /\ NoStop(inbox[w])
    BY <2>1, InsideLoop
  <2>3. Within(w)'
    BY <1>1, <2>1, <2>2 DEF Within
  <2> QED
    BY <1>1, <1>5, <2>2, <2>3 DEF WorkerOK
<1>7. tasks' = "running" /\ ~StopSent' => \A w \in Reader : future'[w] \in {"pending"} \cup Raised
  BY <1>1, <1>5 DEF WorkersInv
<1>8. Rested' => \A w \in Reader : future'[w] \in {"none", "done"}
  BY <1>1, <1>5 DEF WorkersInv
<1> QED
  BY <1>5, <1>6, <1>7, <1>8 DEF WorkersInv, Raised

LEMMA DriverFaultRuns ==
  ASSUME DriverRaises \/ DriverLosesPeer, UNCHANGED <<loop, callback, step>>, ~errored,
         DriverInv, WorkersInv, StepInv
  PROVE  DriverInv' /\ WorkersInv'
<1>1. /\ UNCHANGED <<tasks, worker, taskQueue, inbox, future>>
      /\ driver \in {"step", "forward"} /\ driver' = "raised"
  BY DEF DriverRaises, DriverLosesPeer
<1>2. step.pc = "executing" /\ loop = "iterate"
  BY <1>1, DriverBusy
<1>3. DriverInv' /\ (StopSent' <=> StopSent) /\ (Rested' => Rested)
  BY <1>1, <1>2 DEF DriverInv, StopSent, Rested
<1> QED
  BY <1>1, <1>3, WorkersLeft

(* Worker steps leave the driver alone.                                      *)
LEMMA DriverLeft ==
  ASSUME DriverInv, UNCHANGED <<loop, callback, step, driver, tasks>>
  PROVE  DriverInv'
BY DEF DriverInv

LEMMA RunningNext ==
  ASSUME RunningInv, EngineInv, ExecutorTypeOK, [Next]_vars
  PROVE  RunningInv'
<1> SUFFICES ASSUME ~errored' PROVE DriverInv' /\ WorkersInv'
  BY DEF RunningInv
<1>1. ~errored /\ DriverInv /\ WorkersInv /\ StepInv /\ EngineTypeOK
  BY DriverClients
<1>2. ASSUME NEW r \in Req, ClientStep(r) PROVE DriverInv' /\ WorkersInv'
  BY <1>1, <1>2, ClientRuns
<1>3. CASE LoopStep
  BY <1>1, <1>3, LoopRuns
<1>4. CASE LoopTimesOut \/ ErrorCallback
  BY <1>4 DEF LoopTimesOut, ErrorCallback
<1>5. CASE StepTask
  BY <1>1, <1>5, StepRuns
<1>7. CASE Executor(StartWorkerExecutionLoop)
  BY <1>1, <1>7, StartRuns DEF Executor, loopVars
<1>8. CASE Executor(DriverBroadcast)
  BY <1>1, <1>8, BroadcastRuns DEF Executor, loopVars
<1>9. CASE Executor(Collective)
  BY <1>1, <1>9, AllRun DEF Executor, loopVars
<1>10. CASE Executor(OnWorkerExit)
  BY <1>1, <1>10, AllRun DEF Executor, loopVars
<1>11. ASSUME NEW w \in Reader, Executor(WorkerStep(w)) PROVE DriverInv' /\ WorkersInv'
  <2>1. WorkerStep(w) /\ UNCHANGED <<loop, callback, step>>
    BY <1>11 DEF Executor, loopVars
  <2>2. WorkersInv'
    BY <1>1, <2>1, TakeTaskRuns, ReceiveRuns DEF WorkerStep
  <2>3. DriverInv'
    BY <1>1, <2>1, DriverLeft DEF WorkerStep, WorkerTakeTask, WorkerReceive
  <2> QED
    BY <2>2, <2>3
<1>12. ASSUME NEW w \in Reader, Executor(HandleResult(w)) PROVE DriverInv' /\ WorkersInv'
  <2>1. HandleResult(w) /\ UNCHANGED <<loop, callback, step>>
    BY <1>12 DEF Executor, loopVars
  <2>2. WorkersInv'
    BY <1>1, <2>1, HandleRuns
  <2>3. DriverInv'
    BY <1>1, <2>1, DriverLeft DEF HandleResult
  <2> QED
    BY <2>2, <2>3
<1>13. CASE Executor(ExecutorFault)
  <2>1. ExecutorFault /\ UNCHANGED <<loop, callback, step>>
    BY <1>13 DEF Executor, loopVars
  <2>2. CASE DriverRaises \/ DriverLosesPeer
    BY <1>1, <2>1, <2>2, DriverFaultRuns
  <2>3. ASSUME NEW w \in Reader, WorkerDies(w) \/ WorkerRaises(w) PROVE DriverInv' /\ WorkersInv'
    <3>1. WorkersInv'
      BY <1>1, <2>1, <2>3, DieRuns, RaiseRuns
    <3>2. DriverInv'
      BY <1>1, <2>1, <2>3, DriverLeft DEF WorkerDies, WorkerRaises
    <3> QED
      BY <3>1, <3>2
  <2> QED
    BY <2>1, <2>2, <2>3 DEF ExecutorFault
<1>14. CASE UNCHANGED vars
  <2>1. UNCHANGED <<driver, tasks, worker, taskQueue, future, inbox, loop, callback, step>>
    BY <1>14 DEF vars
  <2>2. DriverInv' /\ (StopSent' <=> StopSent) /\ (Rested' => Rested)
    BY <1>1, <2>1 DEF DriverInv, StopSent, Rested
  <2> QED
    BY <1>1, <2>1, <2>2, WorkersLeft
<1> QED
  BY <1>2, <1>3, <1>4, <1>5, <1>7, <1>8, <1>9, <1>10, <1>11, <1>12, <1>13, <1>14 DEF Next

(* As long as the engine has not failed, every broadcast of the driver is for   *)
(* a worker that is in its model loop or was told to enter it: no step and no   *)
(* stop is left over for the loop of later requests.                         *)
THEOREM BroadcastsAreMet == Spec => []BroadcastsMeetALoop
<1>1. Init => RunningInv
  BY RunningInit
<1>2. RunningInv /\ EngineInv /\ ExecutorTypeOK /\ [Next]_vars => RunningInv'
  BY RunningNext
<1>3. RunningInv /\ ExecutorTypeOK => BroadcastsMeetALoop
  <2> SUFFICES ASSUME RunningInv, ExecutorTypeOK, ~errored, NEW w \in Reader, inbox[w] # <<>>
               PROVE  \/ worker[w] # "task" \/ taskQueue[w] > 0 \/ tasks = "created"
                      \/ future[w] \in {"sent_exception", "failed"}
    BY DEF BroadcastsMeetALoop
  <2>1. worker[w] # "dead" => WorkerOK(w)
    BY DEF RunningInv, WorkersInv
  <2> QED
    BY <2>1 DEF WorkerOK, Between, Within, Broken, Raised, StopSent, ExecutorTypeOK
<1> QED
  BY <1>1, <1>2, <1>3, EngineInvariant, ExecutorTypeCorrect, PTL DEF Spec

===============================================================================
