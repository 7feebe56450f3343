---------------------------- MODULE WorkerManager ----------------------------
(***************************************************************************)
(* Model worker processes: each runs a LocalWorkerManager with one model   *)
(* worker and talks to the model controller over HTTP.                     *)
(*                                                                         *)
(* A process is one asyncio event loop.  Its coroutines are the            *)
(* _start_worker calls that await the registration, the heartbeat senders, *)
(* and at most one UPDATE_PARAMS request, which stops the worker and then  *)
(* starts it again.  What happens between two awaits is one action.        *)
(***************************************************************************)
EXTENDS Integers, FiniteSets

CONSTANTS
  Worker,             \* the worker processes
  Task,               \* 1..n: how many sender tasks a process may hold (a bound)
  HeartbeatInterval   \* worker_params.heartbeat_interval, in ticks

ASSUME WorkerAssumption ==
  /\ IsFiniteSet(Task) /\ Task # {} /\ Task = 1..Cardinality(Task)
  /\ HeartbeatInterval \in Nat \ {0}

VARIABLES
  alive,        \* the process runs
  loaded,       \* worker.model is not None
  stop_event,   \* the asyncio.Event of the WorkerRunData is set
  registering,  \* _start_worker coroutines that await register_func
  sender,       \* the _async_heartbeat_sender tasks: Off, Sending or ticks to sleep
  apply,        \* next step of a start or update request: "none", "stop", "start"
  enlisted      \* history: registration came back after the last stop

workerVars == <<alive, loaded, stop_event, registering, sender, apply, enlisted>>

Off == -1      \* no task in this slot
Sending == -2  \* the task awaits the answer to its heartbeat

WorkerTypeOK ==
  /\ alive \in [Worker -> BOOLEAN]
  /\ loaded \in [Worker -> BOOLEAN]
  /\ stop_event \in [Worker -> BOOLEAN]
  /\ registering \in [Worker -> 0..Cardinality(Task)]
  /\ sender \in [Worker -> [Task -> {Off, Sending} \cup 0..HeartbeatInterval]]
  /\ apply \in [Worker -> {"none", "stop", "start"}]
  /\ enlisted \in [Worker -> BOOLEAN]

\* add_worker leaves the worker unloaded and its event unset; startup_event
\* schedules _start_all_worker for it.
InitWorkers ==
  /\ alive = [w \in Worker |-> TRUE]
  /\ loaded = [w \in Worker |-> FALSE]
  /\ stop_event = [w \in Worker |-> FALSE]
  /\ registering = [w \in Worker |-> 0]
  /\ sender = [w \in Worker |-> [t \in Task |-> Off]]
  /\ apply = [w \in Worker |-> "start"]
  /\ enlisted = [w \in Worker |-> FALSE]

FreeTasks(w) == {t \in Task : sender[w][t] = Off}

\* Bound: a start is only modelled while a slot is left for its sender.
RoomForSender(w) == registering[w] < Cardinality(FreeTasks(w))
-----------------------------------------------------------------------------
(* worker_apply *)

\* worker.start blocks until the model is loaded; then register_func is awaited.
StartWorker(w) ==
  /\ RoomForSender(w)
  /\ loaded' = [loaded EXCEPT ![w] = TRUE]
  /\ stop_event' = [stop_event EXCEPT ![w] = FALSE]
  /\ registering' = [registering EXCEPT ![w] = @ + 1]
  /\ UNCHANGED <<alive, sender, enlisted>>

\* worker.start raises: the coroutine ends before the event is cleared.
StartFails(w) == UNCHANGED <<alive, loaded, stop_event, registering, sender, enlisted>>

(***************************************************************************)
(* The event is set and nothing is waited for: _heartbeat_future is never  *)
(* assigned.  The manager that _create_local_model_manager builds has no   *)
(* deregister_func, so the controller is not told either.                  *)
(***************************************************************************)
StopWorker(w) ==
  /\ loaded' = [loaded EXCEPT ![w] = FALSE]
  /\ stop_event' = [stop_event EXCEPT ![w] = TRUE]
  /\ enlisted' = [enlisted EXCEPT ![w] = FALSE]
  /\ UNCHANGED <<alive, registering, sender>>

\* START requests; any number of them may overlap.
ApplyStart(w) ==
  /\ alive[w]
  /\ StartWorker(w) \/ StartFails(w)
  /\ UNCHANGED apply

ApplyStop(w) ==
  /\ alive[w]
  /\ StopWorker(w)
  /\ UNCHANGED apply

\* UPDATE_PARAMS with parameters that differ asks for a restart.
ApplyUpdate(w) ==
  /\ alive[w] /\ apply[w] = "none"
  /\ apply' = [apply EXCEPT ![w] = "stop"]
  /\ UNCHANGED <<alive, loaded, stop_event, registering, sender, enlisted>>

\* The next await of an update request or of the startup task is over.
ApplyStep(w) ==
  /\ alive[w]
  /\ \/ /\ apply[w] = "stop"
        /\ StopWorker(w)
        /\ apply' = [apply EXCEPT ![w] = "start"]
     \/ /\ apply[w] = "start"
        /\ StartWorker(w) \/ StartFails(w)
        /\ apply' = [apply EXCEPT ![w] = "none"]
-----------------------------------------------------------------------------
(* Registration and heartbeats, as the process sees them *)

\* register_func returned: _start_worker creates a sender, whatever happened to
\* the worker in the meantime.
RegisterReturns(w) ==
  /\ alive[w] /\ registering[w] > 0
  /\ registering' = [registering EXCEPT ![w] = @ - 1]
  /\ \E t \in FreeTasks(w) :
       /\ \A u \in FreeTasks(w) : t <= u
       /\ sender' = [sender EXCEPT ![w][t] = 0]
  /\ enlisted' = [enlisted EXCEPT ![w] = ~stop_event[w]]
  /\ UNCHANGED <<alive, loaded, stop_event, apply>>

\* Mutant: a failure is counted although nothing was pending.
RegisterFailsUnasked(w) ==
  /\ alive[w]
  /\ registering' = [registering EXCEPT ![w] = @ - 1]
  /\ UNCHANGED <<alive, loaded, stop_event, sender, apply, enlisted>>

\* register_func raised: the start request fails, the model stays loaded.
RegisterFails(w) ==
  /\ alive[w] /\ registering[w] > 0
  /\ registering' = [registering EXCEPT ![w] = @ - 1]
  /\ UNCHANGED <<alive, loaded, stop_event, sender, apply, enlisted>>

\* Mutant: "while True".
SenderNeverStops(w, t) ==
  /\ alive[w] /\ sender[w][t] = 0
  /\ sender' = [sender EXCEPT ![w][t] = Sending]
  /\ UNCHANGED <<alive, loaded, stop_event, registering, apply, enlisted>>

\* A sender is due and evaluates its while condition.
SenderWakes(w, t) ==
  /\ alive[w] /\ sender[w][t] = 0
  /\ sender' = [sender EXCEPT ![w][t] = IF stop_event[w] THEN Off ELSE Sending]
  /\ UNCHANGED <<alive, loaded, stop_event, registering, apply, enlisted>>

\* The heartbeat was answered or raised: either way finally goes to sleep.
HeartbeatEnds(w, t) ==
  /\ alive[w] /\ sender[w][t] = Sending
  /\ sender' = [sender EXCEPT ![w][t] = HeartbeatInterval]
  /\ UNCHANGED <<alive, loaded, stop_event, registering, apply, enlisted>>

\* A tick of the clock for all sleeping senders.
SendersSleep ==
  /\ sender' = [w \in Worker |-> [t \in Task |->
                  IF alive[w] /\ sender[w][t] > 0 THEN sender[w][t] - 1 ELSE sender[w][t]]]
  /\ UNCHANGED <<alive, loaded, stop_event, registering, apply, enlisted>>
-----------------------------------------------------------------------------
\* The process dies and nothing of its state survives.
Crash(w) ==
  /\ alive[w]
  /\ alive' = [alive EXCEPT ![w] = FALSE]
  /\ loaded' = [loaded EXCEPT ![w] = FALSE]
  /\ stop_event' = [stop_event EXCEPT ![w] = FALSE]
  /\ registering' = [registering EXCEPT ![w] = 0]
  /\ sender' = [sender EXCEPT ![w] = [t \in Task |-> Off]]
  /\ apply' = [apply EXCEPT ![w] = "none"]
  /\ enlisted' = [enlisted EXCEPT ![w] = FALSE]

\* The process is started again at the same address.
Boot(w) ==
  /\ ~alive[w]
  /\ alive' = [alive EXCEPT ![w] = TRUE]
  /\ apply' = [apply EXCEPT ![w] = "start"]
  /\ UNCHANGED <<loaded, stop_event, registering, sender, enlisted>>
=============================================================================
