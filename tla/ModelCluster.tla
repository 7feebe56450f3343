---------------------------- MODULE ModelCluster -----------------------------
(***************************************************************************)
(* Model workers and the model controller: WorkerManager and ModelRegistry *)
(* joined by the HTTP calls of ModelRegistryClient.                        *)
(*                                                                         *)
(* A call ends within a tick, answered or with an exception (httpx gives   *)
(* up after five seconds).  A request whose caller gave up, or died, may   *)
(* still reach the controller later, or never.  Clients route to the       *)
(* instances the registry calls healthy.                                   *)
(***************************************************************************)
EXTENDS WorkerManager, Sequences

CONSTANTS
  Model,        \* the worker_key under which the workers register
  HeartbeatTimeout, CheckInterval,   \* see ModelRegistry
  Lossy,        \* whether calls may fail
  Applies,      \* whether operators start, stop and update workers
  Faulty,       \* whether processes crash
  SlowLoads     \* whether the clock may tick while a process loads a model

ASSUME ClusterAssumption ==
  /\ HeartbeatTimeout \in Nat \ {0} /\ CheckInterval \in Nat \ {0}
  /\ {Lossy, Applies, Faulty, SlowLoads} \subseteq BOOLEAN

VARIABLES
  keys, registry, checker,
  late          \* requests their caller no longer waits for

registryVars == <<keys, registry, checker>>
vars == <<workerVars, registryVars, late>>

\* worker_key and the hosts of the workers have no blanks, so the registry files
\* both as they are.
Registry == INSTANCE ModelRegistry WITH
  Name <- {Model}, Strip <- [n \in {Model} |-> n],
  Addr <- Worker, StripAddr <- [w \in Worker |-> w], MaxCopies <- 0

Request == {"register", "heartbeat"} \X Worker

TypeOK ==
  /\ WorkerTypeOK
  /\ Registry!TypeOK
  /\ late \in SUBSET Request

Init ==
  /\ InitWorkers
  /\ Registry!Init
  /\ late = {}
-----------------------------------------------------------------------------
(* What the controller does with a request; clients send the defaults of     *)
(* ModelInstance, check_healthy = True among them.                           *)

Handle(request) ==
  LET w == request[2] IN
  IF request[1] = "register"
  THEN Registry!register_instance(Model, w, TRUE)
  ELSE Registry!send_heartbeat(Model, w)

\* The answer is not looked at: a heartbeat that found no instance is as good
\* to its sender as one that did.
RegisterAnswered(w) ==
  /\ RegisterReturns(w)
  /\ Handle(<<"register", w>>)
  /\ UNCHANGED late

HeartbeatAnswered(w, t) ==
  /\ HeartbeatEnds(w, t)
  /\ Handle(<<"heartbeat", w>>)
  /\ UNCHANGED late

RegisterTimesOut(w) ==
  /\ Lossy
  /\ RegisterFails(w)
  /\ late' \in {late, late \cup {<<"register", w>>}}
  /\ UNCHANGED registryVars

\* Mutant: the sender does not catch the exception of a failed heartbeat.
HeartbeatTimeoutEndsSender(w, t) ==
  /\ Lossy
  /\ alive[w] /\ sender[w][t] = Sending
  /\ sender' = [sender EXCEPT ![w][t] = Off]
  /\ late' \in {late, late \cup {<<"heartbeat", w>>}}
  /\ UNCHANGED <<alive, loaded, stop_event, registering, apply, enlisted, registryVars>>

HeartbeatTimesOut(w, t) ==
  /\ Lossy
  /\ HeartbeatEnds(w, t)
  /\ late' \in {late, late \cup {<<"heartbeat", w>>}}
  /\ UNCHANGED registryVars

LateArrival(request) ==
  /\ request \in late
  /\ Handle(request)
  /\ late' = late \ {request}
  /\ UNCHANGED workerVars
-----------------------------------------------------------------------------
ClientQuery ==
  /\ Registry!get_all_instances(Model)
  /\ UNCHANGED <<workerVars, late>>

\* An operator reaches a worker over the registry or at its own address.
Operator(w) ==
  /\ Applies
  /\ ApplyStart(w) \/ ApplyStop(w) \/ ApplyUpdate(w)
  /\ UNCHANGED <<registryVars, late>>

RequestGoesOn(w) ==
  /\ ApplyStep(w)
  /\ UNCHANGED <<registryVars, late>>

HeartbeatSends(w, t) ==
  /\ SenderWakes(w, t)
  /\ UNCHANGED <<registryVars, late>>

CheckerStep ==
  /\ Registry!CheckerStep
  /\ UNCHANGED <<workerVars, late>>

Calls(w) ==
  {r \in Request : /\ r[2] = w
                    /\ \/ r[1] = "register" /\ registering[w] > 0
                       \/ r[1] = "heartbeat" /\ \E t \in Task : sender[w][t] = Sending}

\* Its pending calls may still be on their way.
WorkerCrash(w) ==
  /\ Faulty
  /\ Crash(w)
  /\ late' \in {late \cup sent : sent \in SUBSET Calls(w)}
  /\ UNCHANGED registryVars

WorkerBoot(w) ==
  /\ Boot(w)
  /\ UNCHANGED <<registryVars, late>>

ControllerRestart ==
  /\ Faulty
  /\ Registry!ControllerRestart
  /\ UNCHANGED <<workerVars, late>>

\* Calls and due senders take no time; worker.start blocks the event loop, so
\* the senders of a process that loads a model are late rather than urgent.
WorkersIdle ==
  \A w \in Worker : alive[w] =>
    /\ registering[w] = 0
    /\ \A t \in Task : sender[w][t] # Sending
    /\ IF apply[w] = "start" THEN SlowLoads ELSE \A t \in Task : sender[w][t] # 0

Tick ==
  /\ WorkersIdle
  /\ Registry!Tick
  /\ SendersSleep
  /\ UNCHANGED late

Next ==
  \/ \E w \in Worker :
       \/ RegisterAnswered(w) \/ RegisterTimesOut(w)
       \/ \E t \in Task : \/ HeartbeatSends(w, t)
                           \/ HeartbeatAnswered(w, t) \/ HeartbeatTimesOut(w, t)
       \/ Operator(w) \/ RequestGoesOn(w)
       \/ WorkerCrash(w) \/ WorkerBoot(w)
  \/ \E request \in late : LateArrival(request)
  \/ ClientQuery \/ CheckerStep \/ ControllerRestart \/ Tick

Spec == Init /\ [][Next]_vars
-----------------------------------------------------------------------------
(* Fairness: every ready task of an event loop and the checker thread are    *)
(* scheduled, time passes whatever operators do, and a heartbeat that is sent *)
(* over and over is not lost every time.                                     *)

Fairness ==
  /\ WF_vars(CheckerStep)
  /\ SF_vars(Tick)
  /\ \A w \in Worker :
       /\ WF_vars(RequestGoesOn(w))
       /\ WF_vars(RegisterAnswered(w) \/ RegisterTimesOut(w))
       /\ \A t \in Task :
            /\ WF_vars(HeartbeatSends(w, t))
            /\ WF_vars(HeartbeatAnswered(w, t) \/ HeartbeatTimesOut(w, t))
            /\ SF_vars(HeartbeatAnswered(w, t))

FairSpec == Spec /\ Fairness
-----------------------------------------------------------------------------
(* Properties *)

Registered(w) == Registry!Registered(Model, w)

Entry(w) == Registry!Entry(<<Model, w>>)

Offered(w) == Registered(w) /\ Entry(w).healthy

Serving(w) == alive[w] /\ loaded[w] /\ ~stop_event[w]

\* A worker whose registration came back and that nobody stopped since serves
\* its model and has a task that sends heartbeats, through overlapping starts,
\* restarts and failed calls: no order of them leaves it silent.
EnlistedWorkersBeat ==
  \A w \in Worker : enlisted[w] =>
    Serving(w) /\ \E t \in Task : sender[w][t] # Off

\* Where calls do not fail and loads are short, an enlisted worker the registry
\* knows is withdrawn only by a verdict that was out of date when the checker
\* carried it out, and is offered again within one heartbeat interval.  Stops,
\* restarts and senders left over from before a stop must not lengthen the time
\* it goes unheard beyond what its sender slept.
SuspectedBriefly ==
  \A w \in Worker :
    enlisted[w] /\ Registered(w) /\ ~Offered(w) =>
      /\ Entry(w).age <= HeartbeatInterval
      /\ Entry(w).age <= HeartbeatTimeout

\* The controller learns of a worker from nothing but a registration that a
\* start of it has sent, perhaps long ago: heartbeats, however many, do not bring
\* a worker back that a restarted controller has forgotten.
OnlyRegistrationEnlists ==
  [][\A w \in Worker : ~Registered(w) /\ Registered(w)' =>
       registering[w] > 0 \/ <<"register", w>> \in late]_vars

\* An enlisted worker the registry knows is offered again and again, even if
\* lost heartbeats or a stale verdict of the checker withdraw it at times.
SuspicionHeals ==
  \A w \in Worker :
    [](enlisted[w] /\ Registered(w) => <>(Offered(w) \/ ~enlisted[w] \/ ~Registered(w)))

\* A worker that stays down is withdrawn for good in the end, although nobody
\* deregisters it and late registrations and heartbeats may revive its entry,
\* provided the checker thread lives.
DownWorkersFade ==
  \A w \in Worker :
    <>[](~Serving(w) /\ checker.pc # "dead") => <>[]~Offered(w)
=============================================================================
