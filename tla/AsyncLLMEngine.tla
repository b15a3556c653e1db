----------------------------- MODULE AsyncLLMEngine -----------------------------
(***************************************************************************)
(* AsyncLLMEngine over the multiprocessing executor: the callers of          *)
(* generate(), the background loop, the task of one engine step, the driver   *)
(* thread and the worker processes.                                        *)
(*                                                                         *)
(* The coroutines run in one event loop, so an action is what one of them    *)
(* does between two awaits.  Output processing is synchronous (the service   *)
(* runs with --enforce-eager) and there is one virtual engine.  Of the       *)
(* LLMEngine only the unfinished requests and the number of their outputs    *)
(* are kept: a step advances any of them.                                   *)
(***************************************************************************)
EXTENDS MultiprocExecutor, RequestTracker, FiniteSets

CONSTANTS
  MaxOutputs        (* bound: the outputs of each request                     *)

ASSUME OutputsAssumption == MaxOutputs \in [Req -> Nat \ {0}]

VARIABLES
  tracker,          (* _request_tracker, with every stream ever made         *)
  client,           (* the caller of generate() for each request            *)
  received,         (* the outputs each caller was given                    *)
  verdict,          (* how each caller's stream ended                       *)
  unfinished,       (* the requests of the LLMEngine                        *)
  produced,         (* outputs the LLMEngine made for each request          *)
  loop,             (* run_engine_loop                                      *)
  errored,          (* _errored_with is set                                 *)
  callback,         (* the loop ended, its done-callback is scheduled        *)
  orphaned,         (* the requests a replaced tracker still knew             *)
  step              (* the task of engine_step                              *)

engineVars == <<unfinished, produced>>
clientVars == <<client, received, verdict>>
loopVars == <<loop, errored, callback, orphaned>>
vars == <<tracker, client, received, verdict, unfinished, produced,
          loop, errored, callback, orphaned, step,
          driver, tasks, worker, taskQueue, future, faults, inbox, got>>

NoStep == [pc |-> "none", todo |-> <<>>, aborts |-> {}, batch |-> {}, more |-> FALSE]
NewStep == [NoStep EXCEPT !.pc = "start"]

Init ==
  /\ tracker = NewTracker([r \in Req |-> EmptyStream])
  /\ client = [r \in Req |-> "new"]
  /\ received = [r \in Req |-> <<>>] /\ verdict = [r \in Req |-> "open"]
  /\ unfinished = {} /\ produced = [r \in Req |-> 0]
  /\ loop = "none" /\ errored = FALSE /\ callback = FALSE /\ orphaned = {}
  /\ step = NoStep
  /\ ExecutorInit

(* the queue of a stream whose reader has gone                             *)
Unread(t, r) == [t EXCEPT !.stream[r].queue = <<>>]

IsRunning == loop \notin {"none", "dead"}

-------------------------------------------------------------------------------
(* generate: add_request, which starts the background loop when it does not   *)
(* run.  A start makes a new tracker.  The loop of a finished task counts as  *)
(* not running before its done-callback has set the error.                  *)
Generate(r) ==
  /\ client[r] = "new"
  /\ \/ /\ IsRunning
        /\ tracker' = AddRequest(tracker, r)
        /\ client' = [client EXCEPT ![r] = "waiting"]
        /\ UNCHANGED <<verdict, loop, orphaned>>
     \/ /\ ~IsRunning /\ ~errored
        /\ orphaned' = orphaned \cup tracker.registered \cup tracker.aborted \cup ToSet(tracker.new)
        /\ loop' = "top"
        /\ tracker' = AddRequest(NewTracker(tracker.stream), r)
        /\ client' = [client EXCEPT ![r] = "waiting"]
        /\ UNCHANGED verdict
     \/ /\ ~IsRunning /\ errored
        /\ client' = [client EXCEPT ![r] = "gone"]
        /\ verdict' = [verdict EXCEPT ![r] = "error"]
        /\ UNCHANGED <<tracker, loop, orphaned>>
  /\ UNCHANGED <<received, engineVars, errored, callback, step, executorVars>>

(* AsyncStream.generator: the next item of the queue is an output to yield,   *)
(* the end, or an exception to raise.  Asking for the next output is no step. *)
Receive(r) ==
  LET item == Head(tracker.stream[r].queue) IN
  /\ client[r] = "waiting"
  /\ tracker.stream[r].queue # <<>>
  /\ tracker' = [tracker EXCEPT !.stream[r].queue = Tail(@)]
  /\ \/ /\ ~IsEnd(item)
        /\ received' = [received EXCEPT ![r] = Append(@, item)]
        /\ UNCHANGED <<client, verdict>>
     \/ /\ IsEnd(item)
        /\ client' = [client EXCEPT ![r] = "gone"]
        /\ verdict' = [verdict EXCEPT ![r] = IF item = STOP THEN "normal" ELSE "error"]
        /\ UNCHANGED received
  /\ UNCHANGED <<engineVars, loopVars, step, executorVars>>

(* The task of the caller is cancelled while it awaits an output: abort(),    *)
(* which raises instead when the loop does not run.                         *)
CancelWaiting(r) ==
  /\ client[r] = "waiting"
  /\ client' = [client EXCEPT ![r] = "gone"]
  /\ tracker' = Unread(IF IsRunning THEN AbortRequest(tracker, r, CANCELLED) ELSE tracker, r)
  /\ UNCHANGED <<received, verdict, engineVars, loopVars, step, executorVars>>

(* The caller is closed at its yield, after an output.  The generator of the  *)
(* stream is not closed with it but when it is collected, by a task of the    *)
(* event loop.                                                             *)
CloseYielded(r) ==
  /\ client[r] = "waiting" /\ received[r] # <<>>
  /\ client' = [client EXCEPT ![r] = "closing"]
  /\ UNCHANGED <<tracker, received, verdict, engineVars, loopVars, step, executorVars>>

(* GeneratorExit in the stream: the abort_request of the stream's own tracker *)
CollectGenerator(r) ==
  /\ client[r] = "closing"
  /\ client' = [client EXCEPT ![r] = "gone"]
  /\ tracker' = Unread(IF r \in orphaned THEN tracker ELSE AbortRequest(tracker, r, STOP), r)
  /\ UNCHANGED <<received, verdict, engineVars, loopVars, step, executorVars>>

ClientStep(r) ==
  \/ Generate(r) \/ Receive(r)
  \/ CancelWaiting(r) \/ CloseYielded(r) \/ CollectGenerator(r)

-------------------------------------------------------------------------------
(* run_engine_loop, no request in progress: the workers leave the model loop. *)
(* The callback of an earlier loop was scheduled first.                     *)
LoopStopWorkers ==
  /\ loop = "top" /\ ~callback
  /\ \/ /\ tasks = "none"
        /\ loop' = "wait"
        /\ UNCHANGED executorVars
     \/ /\ StopAsync
        /\ loop' = "stopping"
  /\ UNCHANGED <<tracker, clientVars, engineVars, errored, callback, orphaned, step>>

LoopDriverStopped ==
  /\ loop = "stopping"
  /\ ForgetTasks
  /\ loop' = "joining"
  /\ UNCHANGED <<tracker, clientVars, engineVars, errored, callback, orphaned, step>>

(* await parallel_worker_tasks                                             *)
LoopJoinWorkers ==
  /\ loop = "joining" /\ (TasksDone \/ TasksFailed)
  /\ loop' = IF TasksFailed THEN "dead" ELSE "wait"
  /\ callback' = TasksFailed
  /\ UNCHANGED <<tracker, clientVars, engineVars, errored, orphaned, step, executorVars>>

(* wait_for_new_requests, and the first step                               *)
LoopWake ==
  /\ loop = "wait" /\ (tracker.new # <<>> \/ tracker.event)
  /\ tracker' = [tracker EXCEPT !.event = FALSE]
  /\ loop' = "iterate"
  /\ step' = NewStep
  /\ UNCHANGED <<clientVars, engineVars, errored, callback, orphaned, executorVars>>

(* Variant: only the result of the step counts.                             *)
LoopNextIterationByResult ==
  /\ loop = "iterate" /\ step.pc = "done"
  /\ IF step.more
     THEN step' = NewStep /\ UNCHANGED loop
     ELSE step' = NoStep /\ loop' = "top"
  /\ UNCHANGED <<tracker, clientVars, engineVars, errored, callback, orphaned, executorVars>>

(* The step task is done: another step, or no request in progress.          *)
LoopNextIteration ==
  /\ loop = "iterate" /\ step.pc = "done"
  /\ IF step.more \/ unfinished # {}
     THEN step' = NewStep /\ UNCHANGED loop
     ELSE step' = NoStep /\ loop' = "top"
  /\ UNCHANGED <<tracker, clientVars, engineVars, errored, callback, orphaned, executorVars>>

(* task.result() raises                                                    *)
LoopFails ==
  /\ loop = "iterate" /\ step.pc = "failed"
  /\ step' = NoStep
  /\ loop' = "dead" /\ callback' = TRUE
  /\ UNCHANGED <<tracker, clientVars, engineVars, errored, orphaned, executorVars>>

(* The iteration took ENGINE_ITERATION_TIMEOUT_S; the step task goes on.  A   *)
(* new step task runs before a timer that was set after it.                 *)
LoopTimesOut ==
  /\ loop = "iterate" /\ step.pc # "start"
  /\ errored' = TRUE
  /\ loop' = "dead" /\ callback' = TRUE
  /\ UNCHANGED <<tracker, clientVars, engineVars, orphaned, step, executorVars>>

(* _log_task_completion, _error_callback                                   *)
ErrorCallback ==
  /\ callback
  /\ callback' = FALSE /\ errored' = TRUE
  /\ tracker' = PropagateException(tracker, FAILED)
  /\ UNCHANGED <<clientVars, engineVars, loop, orphaned, step, executorVars>>

LoopStep ==
  \/ LoopStopWorkers \/ LoopDriverStopped \/ LoopJoinWorkers
  \/ LoopWake \/ LoopNextIteration \/ LoopFails

-------------------------------------------------------------------------------
(* engine_step                                                             *)
StepDrain ==
  /\ step.pc = "start"
  /\ tracker' = Drained(tracker)
  /\ step' = [step EXCEPT !.pc = "adding", !.todo = TakenRequests(tracker),
                          !.aborts = TakenAborts(tracker)]
  /\ UNCHANGED <<clientVars, engineVars, loopVars, executorVars>>

(* await add_request_async, for one request; an invalid one is told so       *)
StepAdd(valid) ==
  LET r == Head(step.todo) IN
  /\ step.pc = "adding" /\ step.todo # <<>>
  /\ step' = [step EXCEPT !.todo = Tail(@)]
  /\ unfinished' = IF valid THEN unfinished \cup {r} ELSE unfinished
  /\ tracker' = IF valid THEN tracker ELSE AbortRequest(tracker, r, INVALID)
  /\ UNCHANGED <<clientVars, produced, loopVars, executorVars>>

(* _engine_abort, and step_async up to the await of the executor            *)
StepSchedule ==
  LET live == unfinished \ step.aborts IN
  /\ step.pc = "adding" /\ step.todo = <<>>
  /\ unfinished' = live
  /\ \/ /\ live = {}
        /\ step' = [step EXCEPT !.pc = "done", !.more = FALSE]
        /\ UNCHANGED executorVars
     \/ /\ \E batch \in SUBSET live \ {{}} :
             step' = [step EXCEPT !.pc = "executing", !.batch = batch]
        /\ ExecuteModelAsync
  /\ UNCHANGED <<tracker, clientVars, produced, loopVars>>

(* free_finished_seq_groups (variant: they stay)                             *)
UnfinishedStay(last) == unfinished
UnfinishedAfter(last) == unfinished \ last

OutputOf(r, last) == [n |-> produced[r] + 1, finished |-> r \in last]

(* The rest of step_async, and process_request_outputs.  A request of the     *)
(* batch is finished by its output for any reason (stop, length, ignored).   *)
StepOutputs ==
  /\ step.pc = "executing"
  /\ TakeDriverResult("returned")
  /\ \E last \in SUBSET step.batch :
       /\ {r \in step.batch : produced[r] + 1 = MaxOutputs[r]} \subseteq last
       /\ tracker' = ProcessRequestOutputs(tracker, step.batch, [r \in step.batch |-> OutputOf(r, last)])
       /\ unfinished' = UnfinishedAfter(last)
       /\ step' = [step EXCEPT !.pc = "done", !.more = last # step.batch]
  /\ produced' = [r \in Req |-> IF r \in step.batch THEN produced[r] + 1 ELSE produced[r]]
  /\ UNCHANGED <<clientVars, loopVars>>

StepFails ==
  /\ step.pc = "executing"
  /\ TakeDriverResult("raised")
  /\ step' = [step EXCEPT !.pc = "failed"]
  /\ UNCHANGED <<tracker, clientVars, engineVars, loopVars>>

StepTask ==
  \/ StepDrain \/ (\E valid \in BOOLEAN : StepAdd(valid)) \/ StepSchedule
  \/ StepOutputs \/ StepFails

-------------------------------------------------------------------------------
Executor(A) == A /\ UNCHANGED <<tracker, clientVars, engineVars, loopVars, step>>

Next ==
  \/ \E r \in Req : ClientStep(r)
  \/ LoopStep \/ LoopTimesOut \/ ErrorCallback \/ StepTask
  \/ Executor(StartWorkerExecutionLoop) \/ Executor(DriverBroadcast) \/ Executor(Collective)
  \/ \E w \in Reader : Executor(WorkerStep(w)) \/ Executor(HandleResult(w))
  \/ Executor(OnWorkerExit) \/ Executor(ExecutorFault)

(* The event loop runs every coroutine that is ready, timers included; the    *)
(* threads and the processes run.  Callers need not do anything, and no      *)
(* fault need happen.                                                      *)
Fairness ==
  /\ WF_vars(LoopStep) /\ WF_vars(LoopTimesOut) /\ WF_vars(ErrorCallback)
  /\ WF_vars(StepTask)
  /\ WF_vars(Executor(StartWorkerExecutionLoop))
  /\ WF_vars(Executor(DriverBroadcast)) /\ WF_vars(Executor(Collective))
  /\ \A w \in Reader : WF_vars(Executor(WorkerStep(w))) /\ WF_vars(Executor(HandleResult(w)))
  /\ WF_vars(Executor(OnWorkerExit))
  /\ \A r \in Req : WF_vars(CollectGenerator(r))

Spec == Init /\ [][Next]_vars /\ Fairness

-------------------------------------------------------------------------------
TypeOK ==
  /\ ExecutorTypeOK
  /\ tracker.new \in Seq(Req) /\ tracker.aborted \subseteq Req
  /\ tracker.registered \subseteq Req /\ tracker.event \in BOOLEAN
  /\ \A r \in Req : tracker.stream[r].finished \in BOOLEAN
  /\ client \in [Req -> {"new", "waiting", "closing", "gone"}]
  /\ received \in [Req -> Seq([n : Nat, finished : BOOLEAN])]
  /\ verdict \in [Req -> {"open", "normal", "error"}]
  /\ unfinished \subseteq Req /\ \A r \in Req : produced[r] \in 0..MaxOutputs[r]
  /\ loop \in {"none", "top", "stopping", "joining", "wait", "iterate", "dead"}
  /\ errored \in BOOLEAN /\ callback \in BOOLEAN /\ orphaned \subseteq Req
  /\ step \in [pc : {"none", "start", "adding", "executing", "done", "failed"},
                todo : Seq(Req), aborts : SUBSET Req, batch : SUBSET Req, more : BOOLEAN]

(* Nobody's request is computed for ever: whatever order aborts, additions    *)
(* and outputs come in, a request of the engine whose stream is no longer     *)
(* registered has its abort on the way (abort_request, engine_step).        *)
NoOrphan ==
  \A r \in unfinished :
    r \in tracker.registered \cup tracker.aborted \cup step.aborts \cup orphaned

(* The loop leaves its iteration, stops the workers and sleeps, only when     *)
(* the engine has nothing unfinished and every request it ever took has been *)
(* told how it ended (run_engine_loop, engine_step).                        *)
IdleOwesNothing ==
  loop \in {"top", "stopping", "joining", "wait"} /\ orphaned = {} =>
    /\ unfinished = {} /\ tracker.registered = {}
    /\ loop = "wait" /\ tracker.new # <<>> => tracker.event

(* A broadcast is for a worker that is in its model loop or was told to enter *)
(* it: no stop, and no step, is left over for the loop of later requests.    *)
BroadcastsMeetALoop ==
  ~errored => \A w \in Reader : inbox[w] # <<>> =>
    \/ worker[w] # "task" \/ taskQueue[w] > 0 \/ tasks = "created"
    \/ future[w] \in {"sent_exception", "failed"}

(* generate() delivers outputs in order, each once, and ends normally only    *)
(* after the finished one: whatever is aborted, fails or comes late.         *)
LastReceived(r) ==
  IF received[r] = <<>> THEN [n |-> 0, finished |-> FALSE] ELSE Last(received[r])

Streams == INSTANCE RequestStreams WITH
  outputs <- [r \in Req |-> LastReceived(r).n],
  final <- [r \in Req |-> LastReceived(r).finished],
  ended <- verdict

ImplementsStreams == Streams!StreamsSpec

(* Every request the loop has taken is told: it gets its last output or an     *)
(* exception, also when a worker dies, the driver raises or hangs, or an      *)
(* iteration times out (run_engine_loop, _log_task_completion).             *)
TakenAreTold ==
  \A r \in Req : r \in tracker.registered ~> tracker.stream[r].finished \/ r \in orphaned

(* "Ensure that workers exit model loop cleanly" (executor_base): stopping    *)
(* the model loops ends, unless a worker process died or the engine failed. *)
SomeDead == \E w \in Reader : worker[w] = "dead"
WorkersLeaveLoop == loop = "stopping" ~> loop \in {"wait", "dead"} \/ SomeDead \/ errored

(* "(this will raise otherwise)": stopping the model loops ends in any case.  *)
StopReturns == loop = "stopping" ~> loop \in {"wait", "dead"}

===============================================================================
