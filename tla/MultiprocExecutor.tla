--------------------------- MODULE MultiprocExecutor ----------------------------
(***************************************************************************)
(* MultiprocessingDistributedExecutor with tensor parallelism: the driver    *)
(* worker runs in a thread of the engine's process, every other worker in a  *)
(* process of its own.  While requests are in progress a worker stays inside *)
(* one task, start_worker_execution_loop, and receives its inputs from the   *)
(* driver through the message queue; an empty input makes it leave the loop. *)
(*                                                                         *)
(* The clients of the module are the event loop's coroutines: they call      *)
(* ExecuteModelAsync and StopAsync and await the driver and the futures.    *)
(***************************************************************************)
EXTENDS Integers, BroadcastQueue

CONSTANTS
  MaxFaults         (* bound: crashes and exceptions in a behaviour          *)

ASSUME FaultsAssumption == MaxFaults \in Nat
(* the inputs of a step, and the empty dict that ends the model loop        *)
ASSUME MessageAssumption == {"step", "stop"} \subseteq Message

VARIABLES
  driver,           (* the driver thread                                    *)
  tasks,            (* parallel_worker_tasks: none, created, running         *)
  worker,           (* what each worker process is doing                    *)
  taskQueue,        (* tasks in each worker's _task_queue                    *)
  future,           (* the future of each worker's loop task                *)
  faults            (* crashes and exceptions still to come                 *)

executorVars == <<driver, tasks, worker, taskQueue, future, faults, inbox, got>>

DriverState == {"idle", "step", "stop", "forward", "returned", "raised"}
WorkerState == {"task", "loop", "forward", "dead"}
(* sent: in the result queue, not yet seen by the result handler            *)
FutureState == {"none", "pending", "sent", "sent_exception", "done", "failed"}

ExecutorInit ==
  /\ driver = "idle" /\ tasks = "none" /\ faults = MaxFaults
  /\ worker = [w \in Reader |-> "task"]
  /\ taskQueue = [w \in Reader |-> 0]
  /\ future = [w \in Reader |-> "none"]
  /\ QueueInit

-------------------------------------------------------------------------------
(* execute_model_async up to its await                                      *)
ExecuteModelAsync ==
  /\ driver = "idle"
  /\ tasks' = IF tasks = "none" THEN "created" ELSE tasks
  /\ driver' = "step"
  /\ UNCHANGED <<worker, taskQueue, future, faults, inbox, got>>

(* stop_remote_worker_execution_loop_async: a driver run with no request,     *)
(* then the tasks are awaited.                                             *)
StopAsync ==
  /\ driver = "idle" /\ tasks # "none"
  /\ driver' = "stop"
  /\ UNCHANGED <<tasks, worker, taskQueue, future, faults, inbox, got>>

(* Variant: parallel_worker_tasks is not reset.                             *)
ForgetNothing ==
  /\ driver = "returned" /\ tasks = "running"
  /\ driver' = "idle"
  /\ UNCHANGED <<tasks, worker, taskQueue, future, faults, inbox, got>>

ForgetTasks ==
  /\ driver = "returned" /\ tasks = "running"
  /\ driver' = "idle" /\ tasks' = "none"
  /\ UNCHANGED <<worker, taskQueue, future, faults, inbox, got>>

TasksDone == \A w \in Reader : future[w] = "done"
TasksFailed == \E w \in Reader : future[w] = "failed"

(* The awaiting coroutine takes the driver's result, or its exception.  The   *)
(* task that starts the model loops was ready before the driver's thread.    *)
TakeDriverResult(result) ==
  /\ driver = result /\ tasks # "created"
  /\ driver' = "idle"
  /\ UNCHANGED <<tasks, worker, taskQueue, future, faults, inbox, got>>

-------------------------------------------------------------------------------
(* The task created by execute_model_async: one loop task per worker.  The    *)
(* queue of a dead worker takes it without an error.                        *)
StartWorkerExecutionLoop ==
  /\ tasks = "created"
  /\ tasks' = "running"
  /\ taskQueue' = [w \in Reader |-> taskQueue[w] + 1]
  /\ future' = [w \in Reader |-> "pending"]
  /\ UNCHANGED <<driver, worker, faults, inbox, got>>

(* prepare_input of the driver: the inputs of the step, or an empty dict     *)
DriverBroadcast ==
  /\ driver \in {"step", "stop"}
  /\ Enqueue(driver)
  /\ driver' = IF driver = "step" THEN "forward" ELSE "returned"
  /\ UNCHANGED <<tasks, worker, taskQueue, future, faults>>

(* _run_worker_process takes the loop task                                 *)
WorkerTakeTask(w) ==
  /\ worker[w] = "task" /\ taskQueue[w] > 0
  /\ taskQueue' = [taskQueue EXCEPT ![w] = @ - 1]
  /\ worker' = [worker EXCEPT ![w] = "loop"]
  /\ UNCHANGED <<driver, tasks, future, faults, inbox, got>>

(* A task with another one behind it is of an earlier model loop: nobody     *)
(* awaits its future any more.                                             *)
TaskEnds(w, result) ==
  future' = IF taskQueue[w] = 0 THEN [future EXCEPT ![w] = result] ELSE future

(* Variant: the loop does not look at the output.                           *)
WorkerReceiveForever(w) ==
  /\ worker[w] = "loop"
  /\ Dequeue(w)
  /\ worker' = [worker EXCEPT ![w] = IF got'[w] = "stop" THEN "loop" ELSE "forward"]
  /\ UNCHANGED <<driver, tasks, taskQueue, future, faults>>

(* execute_model(None) in the loop: a step, or the end of the loop          *)
WorkerReceive(w) ==
  /\ worker[w] = "loop"
  /\ Dequeue(w)
  /\ LET stop == got'[w] = "stop" IN
     /\ worker' = [worker EXCEPT ![w] = IF stop THEN "task" ELSE "forward"]
     /\ IF stop THEN TaskEnds(w, "sent") ELSE UNCHANGED future
  /\ UNCHANGED <<driver, tasks, taskQueue, faults>>

(* The collective operations of a forward pass end when all ranks take part.  *)
(* What a worker does alone between two of them is part of its loop.         *)
Collective ==
  /\ driver = "forward" /\ \A w \in Reader : worker[w] = "forward"
  /\ driver' = "returned"
  /\ worker' = [w \in Reader |-> "loop"]
  /\ UNCHANGED <<tasks, taskQueue, future, faults, inbox, got>>

(* ResultHandler.run, and the callback it schedules in the event loop       *)
HandleResult(w) ==
  /\ future[w] \in {"sent", "sent_exception"}
  /\ future' = [future EXCEPT ![w] = IF @ = "sent" THEN "done" ELSE "failed"]
  /\ UNCHANGED <<driver, tasks, worker, taskQueue, faults, inbox, got>>

(* WorkerMonitor: one worker died, the remaining ones are killed.  Nothing   *)
(* is done about the futures of their tasks.                               *)
OnWorkerExit ==
  /\ \E w \in Reader : worker[w] = "dead"
  /\ worker' = [w \in Reader |-> "dead"]
  /\ UNCHANGED <<driver, tasks, taskQueue, future, faults, inbox, got>>

-------------------------------------------------------------------------------
(* Faults.                                                                 *)
WorkerDies(w) ==
  /\ faults > 0 /\ worker[w] # "dead"
  /\ faults' = faults - 1
  /\ worker' = [worker EXCEPT ![w] = "dead"]
  /\ UNCHANGED <<driver, tasks, taskQueue, future, inbox, got>>

(* An exception in the model loop ends the loop task; the process stays.     *)
WorkerRaises(w) ==
  /\ faults > 0 /\ worker[w] \in {"loop", "forward"}
  /\ faults' = faults - 1
  /\ worker' = [worker EXCEPT ![w] = "task"]
  /\ TaskEnds(w, "sent_exception")
  /\ UNCHANGED <<driver, tasks, taskQueue, inbox, got>>

(* An exception in the driver's own part of the step.                       *)
DriverRaises ==
  /\ faults > 0 /\ driver \in {"step", "forward"}
  /\ faults' = faults - 1
  /\ driver' = "raised"
  /\ UNCHANGED <<tasks, worker, taskQueue, future, inbox, got>>

(* The driver waits for a rank that is gone: the transport may notice, or    *)
(* leave it waiting for ever.                                              *)
DriverLosesPeer ==
  /\ driver = "forward" /\ \E w \in Reader : worker[w] = "dead"
  /\ driver' = "raised"
  /\ UNCHANGED <<tasks, worker, taskQueue, future, faults, inbox, got>>

-------------------------------------------------------------------------------
WorkerStep(w) == WorkerTakeTask(w) \/ WorkerReceive(w)

ExecutorFault ==
  \/ DriverRaises \/ DriverLosesPeer
  \/ \E w \in Reader : WorkerDies(w) \/ WorkerRaises(w)

ExecutorTypeOK ==
  /\ driver \in DriverState /\ tasks \in {"none", "created", "running"}
  /\ worker \in [Reader -> WorkerState]
  /\ taskQueue \in [Reader -> Nat] /\ future \in [Reader -> FutureState]
  /\ faults \in 0..MaxFaults
  /\ inbox \in [Reader -> Seq(Message)] /\ got \in [Reader -> Message \cup {NoMessage}]

===============================================================================
