-------------------------- MODULE ModelClusterProofs --------------------------
(***************************************************************************)
(* Theorems about workers and controller together, for any number of       *)
(* workers and senders and any timeouts and intervals.                     *)
(***************************************************************************)
EXTENDS ModelCluster, FiniteSetTheorems, TLAPS

\* What is proved of the registry alone, for the registry of this cluster.
Lists == INSTANCE ModelRegistryProofs WITH
  Name <- {Model}, Strip <- [n \in {Model} |-> n],
  Addr <- Worker, StripAddr <- [w \in Worker |-> w], MaxCopies <- 0

(* The constants suit the registry. *)
LEMMA ListsAssumption ==
  /\ {Model} # {} /\ [n \in {Model} |-> n] \in [{Model} -> {Model}]
  /\ \A n \in {Model} : [m \in {Model} |-> m][[m \in {Model} |-> m][n]] = [m \in {Model} |-> m][n]
  /\ [w \in Worker |-> w] \in [Worker -> Worker]
  /\ \A a \in Worker : [w \in Worker |-> w][[w \in Worker |-> w][a]] = [w \in Worker |-> w][a]
  /\ 0 \in Nat /\ HeartbeatTimeout \in Nat \ {0} /\ CheckInterval \in Nat \ {0}
BY ClusterAssumption

-----------------------------------------------------------------------------
(* The registry inside the cluster *)

LateTypeOK == late \in SUBSET Request

(* Only requests of workers are ever late. *)
LEMMA LateStep == LateTypeOK /\ [Next]_vars => LateTypeOK'
<1> SUFFICES ASSUME LateTypeOK, [Next]_vars PROVE LateTypeOK'
  OBVIOUS
<1>1. ASSUME NEW w \in Worker, RegisterTimesOut(w) PROVE LateTypeOK'
  BY <1>1 DEF RegisterTimesOut, LateTypeOK, Request
<1>2. ASSUME NEW w \in Worker, NEW t \in Task, HeartbeatTimesOut(w, t) PROVE LateTypeOK'
  BY <1>2 DEF HeartbeatTimesOut, LateTypeOK, Request
<1>3. ASSUME NEW w \in Worker, WorkerCrash(w) PROVE LateTypeOK'
  BY <1>3 DEF WorkerCrash, LateTypeOK, Calls
<1>4. ASSUME NEW w \in Worker,
             \/ RegisterAnswered(w) \/ Operator(w) \/ RequestGoesOn(w) \/ WorkerBoot(w)
             \/ \E t \in Task : HeartbeatSends(w, t) \/ HeartbeatAnswered(w, t)
      PROVE  UNCHANGED late
  BY <1>4 DEF RegisterAnswered, Operator, RequestGoesOn, WorkerBoot, HeartbeatSends,
              HeartbeatAnswered
<1>5. ASSUME NEW r \in late, LateArrival(r) PROVE LateTypeOK'
  BY <1>5 DEF LateArrival, LateTypeOK
<1>6. ClientQuery \/ CheckerStep \/ ControllerRestart \/ Tick \/ UNCHANGED vars => UNCHANGED late
  BY DEF ClientQuery, CheckerStep, ControllerRestart, Tick, vars
<1> QED
  BY <1>1, <1>2, <1>3, <1>4, <1>5, <1>6 DEF Next, LateTypeOK

(* Requests that arrive, queries, the checker, the clock and a restart are all *)
(* that happens to the registry.                                               *)
LEMMA RegistrySteps == LateTypeOK /\ Next => [Registry!Next]_registryVars
<1>1. ASSUME NEW r \in Request, Handle(r) PROVE Registry!Handler
  BY <1>1 DEF Handle, Request, Registry!Handler
<1>2. ASSUME NEW w \in Worker, RegisterAnswered(w) PROVE Registry!Handler
  BY <1>1, <1>2 DEF RegisterAnswered, Request
<1>3. ASSUME NEW w \in Worker, NEW t \in Task, HeartbeatAnswered(w, t) PROVE Registry!Handler
  BY <1>1, <1>3 DEF HeartbeatAnswered, Request
<1>4. ASSUME NEW w \in Worker,
             \/ RegisterTimesOut(w) \/ Operator(w) \/ RequestGoesOn(w)
             \/ WorkerCrash(w) \/ WorkerBoot(w)
             \/ \E t \in Task : HeartbeatSends(w, t) \/ HeartbeatTimesOut(w, t)
      PROVE  UNCHANGED registryVars
  BY <1>4 DEF RegisterTimesOut, Operator, RequestGoesOn, WorkerCrash, WorkerBoot,
              HeartbeatSends, HeartbeatTimesOut
<1>5. ASSUME LateTypeOK, NEW r \in late, LateArrival(r) PROVE Registry!Handler
  BY <1>1, <1>5 DEF LateArrival, LateTypeOK
<1>6. ClientQuery => Registry!Handler
  BY DEF ClientQuery, Registry!Handler
<1>7. CheckerStep \/ ControllerRestart \/ Tick => Registry!Next
  BY DEF CheckerStep, ControllerRestart, Tick, Registry!Next
<1> QED
  BY <1>2, <1>3, <1>4, <1>5, <1>6, <1>7 DEF Next, Registry!Next

(* The controller of a cluster is a registry: calls that arrive late, twice or *)
(* out of order, crashes and restarts ask nothing of it but its operations.    *)
THEOREM RegistryImplemented == Spec => Registry!Spec
<1>1. Init => Registry!Init /\ LateTypeOK
  BY DEF Init, LateTypeOK
<1>2. LateTypeOK /\ [Next]_vars => LateTypeOK' /\ [Registry!Next]_<<keys, registry, checker>>
  BY LateStep, RegistrySteps DEF vars, registryVars
<1> QED
  BY <1>1, <1>2, PTL DEF Spec, Registry!Spec, Registry!registryVars

-----------------------------------------------------------------------------
(* What the theorems about the registry give here *)

(* A handler is the same under both names of the registry's module. *)
LEMMA ListsHandler == Registry!Handler => Lists!Handler
<1>1. ASSUME NEW n \in {Model}, NEW a \in Worker
      PROVE  /\ Registry!Matching(n, a) = Lists!Matching(n, a)
             /\ Registry!Position(n, a) = Lists!Position(n, a)
             /\ Registry!Registered(n, a) = Lists!Registered(n, a)
  BY DEF Registry!Matching, Lists!Matching, Registry!Position, Lists!Position,
         Registry!First, Lists!First, Registry!Registered, Lists!Registered
<1>2. ASSUME NEW n \in {Model}, NEW a \in Worker, NEW check \in BOOLEAN,
             Registry!register_instance(n, a, check)
      PROVE  Lists!register_instance(n, a, check)
  BY <1>1, <1>2 DEF Registry!register_instance, Lists!register_instance,
         Registry!Padded, Lists!Padded,
         Registry!TouchKey, Lists!TouchKey, Registry!WithEntry, Lists!WithEntry,
         Registry!Refreshed, Lists!Refreshed, Registry!NewInstance, Lists!NewInstance
<1>3. ASSUME NEW n \in {Model}, NEW a \in Worker, Registry!deregister_instance(n, a)
      PROVE  Lists!deregister_instance(n, a)
  BY <1>1, <1>3 DEF Registry!deregister_instance, Lists!deregister_instance,
         Registry!TouchKey, Lists!TouchKey, Registry!WithEntry, Lists!WithEntry,
         Registry!Withdrawn, Lists!Withdrawn
<1>4. ASSUME NEW n \in {Model}, NEW a \in Worker, Registry!send_heartbeat(n, a)
      PROVE  Lists!send_heartbeat(n, a)
  BY <1>1, <1>4 DEF Registry!send_heartbeat, Lists!send_heartbeat,
         Registry!TouchKey, Lists!TouchKey, Registry!WithEntry, Lists!WithEntry,
         Registry!Refreshed, Lists!Refreshed
<1>5. ASSUME NEW n \in {Model}, Registry!get_all_instances(n) PROVE Lists!get_all_instances(n)
  BY <1>5 DEF Registry!get_all_instances, Lists!get_all_instances,
         Registry!TouchKey, Lists!TouchKey
<1> QED
  BY <1>2, <1>3, <1>4, <1>5 DEF Registry!Handler, Lists!Handler

(* So are the checker, the clock and a restart. *)
LEMMA ListsNext == Registry!Next => Lists!Next
<1>1. Registry!CheckerStep => Lists!CheckerStep
  <2>1. Registry!CheckerWakes => Lists!CheckerWakes
    BY DEF Registry!CheckerWakes, Lists!CheckerWakes
  <2>2. Registry!NextList => Lists!NextList
    BY DEF Registry!NextList, Lists!NextList
  <2>3. Registry!Inspect => Lists!Inspect
    BY DEF Registry!Inspect, Lists!Inspect, Registry!Overdue, Lists!Overdue
  <2>4. Registry!MarkUnhealthy => Lists!MarkUnhealthy
    BY DEF Registry!MarkUnhealthy, Lists!MarkUnhealthy, Registry!WithEntry, Lists!WithEntry,
           Registry!Withdrawn, Lists!Withdrawn
  <2> QED
    BY <2>1, <2>2, <2>3, <2>4 DEF Registry!CheckerStep, Lists!CheckerStep
<1>2. Registry!Tick => Lists!Tick
  BY DEF Registry!Tick, Lists!Tick, Registry!CheckerIdle, Lists!CheckerIdle,
         Registry!Older, Lists!Older, Registry!AgeCap, Lists!AgeCap
<1>3. Registry!ControllerRestart => Lists!ControllerRestart
  BY DEF Registry!ControllerRestart, Lists!ControllerRestart,
         Registry!FreshChecker, Lists!FreshChecker
<1> QED
  BY <1>1, <1>2, <1>3, ListsHandler DEF Registry!Next, Lists!Next

(* The registry's invariant holds in the cluster. *)
LEMMA ListsKept == Spec => []Lists!IInv
<1>1. Lists!Spec => []Lists!IInv
  BY ListsAssumption, Lists!Inductive
<1>2. Registry!Init => Lists!Init
  BY DEF Registry!Init, Lists!Init, Registry!FreshChecker, Lists!FreshChecker
<1>3. [Registry!Next]_<<keys, registry, checker>> => [Lists!Next]_<<keys, registry, checker>>
  BY ListsNext
<1> QED
  BY <1>1, <1>2, <1>3, RegistryImplemented, PTL
     DEF Registry!Spec, Lists!Spec, Registry!registryVars, Lists!registryVars

-----------------------------------------------------------------------------
(* The workers *)

\* What an enlisted worker rests on: a registration that is awaited and was not
\* overtaken by a stop is that of a loaded model.
StartedIsLoaded ==
  \A w \in Worker : registering[w] > 0 /\ ~stop_event[w] => loaded[w]

WorkerInv == WorkerTypeOK /\ StartedIsLoaded /\ EnlistedWorkersBeat

(* Off is no state of a sender that sleeps or sends. *)
LEMMA SenderStates ==
  /\ HeartbeatInterval # Off /\ Sending # Off /\ 0 # Off
  /\ HeartbeatInterval \in 0..HeartbeatInterval /\ 0 \in 0..HeartbeatInterval
  /\ Cardinality(Task) \in Nat
<1>1. Cardinality(Task) \in Nat
  BY FS_CardinalityType, WorkerAssumption
<1> QED
  BY <1>1, WorkerAssumption DEF Off, Sending

LEMMA WorkersStart == InitWorkers => WorkerInv
  BY SenderStates DEF InitWorkers, WorkerInv, WorkerTypeOK, StartedIsLoaded, EnlistedWorkersBeat

(* A start is only made while a slot is free, so the slots bound the registrations. *)
LEMMA StartKeeps ==
  ASSUME WorkerInv, NEW w \in Worker, StartWorker(w),
         apply' \in [Worker -> {"none", "stop", "start"}]
  PROVE  WorkerInv'
<1>1. registering[w] + 1 \in 0..Cardinality(Task)
  <2>1. FreeTasks(w) \in SUBSET Task
    BY DEF FreeTasks
  <2>2. Cardinality(FreeTasks(w)) <= Cardinality(Task) /\ Cardinality(FreeTasks(w)) \in Nat
    BY <2>1, FS_Subset, FS_CardinalityType, WorkerAssumption
  <2>3. registering[w] \in 0..Cardinality(Task)
    BY DEF WorkerInv, WorkerTypeOK
  <2> QED
    BY <2>2, <2>3, SenderStates DEF StartWorker, RoomForSender
<1>2. WorkerTypeOK'
  BY <1>1 DEF StartWorker, WorkerInv, WorkerTypeOK
<1>3. loaded'[w] /\ ~stop_event'[w]
      /\ \A v \in Worker : v # w =>
           /\ loaded'[v] = loaded[v] /\ stop_event'[v] = stop_event[v]
           /\ registering'[v] = registering[v]
  BY DEF StartWorker, WorkerInv, WorkerTypeOK
<1>4. StartedIsLoaded'
  BY <1>3 DEF WorkerInv, StartedIsLoaded
<1>5. EnlistedWorkersBeat'
  <2> SUFFICES ASSUME NEW v \in Worker, enlisted[v]
               PROVE  Serving(v)' /\ \E t \in Task : sender[v][t] # Off
    BY DEF EnlistedWorkersBeat, StartWorker
  <2>1. Serving(v) /\ \E t \in Task : sender[v][t] # Off
    BY DEF WorkerInv, EnlistedWorkersBeat
  <2> QED
    BY <1>3, <2>1 DEF Serving, StartWorker
<1> QED
  BY <1>2, <1>4, <1>5 DEF WorkerInv

(* A stopped worker is not enlisted, whatever is still awaited. *)
LEMMA StopKeeps ==
  ASSUME WorkerInv, NEW w \in Worker, StopWorker(w),
         apply' \in [Worker -> {"none", "stop", "start"}]
  PROVE  WorkerInv'
<1>1. WorkerTypeOK'
  BY DEF StopWorker, WorkerInv, WorkerTypeOK
<1>2. /\ stop_event'[w] /\ ~enlisted'[w]
      /\ \A v \in Worker : v # w =>
           /\ loaded'[v] = loaded[v] /\ stop_event'[v] = stop_event[v]
           /\ enlisted'[v] = enlisted[v]
  BY DEF StopWorker, WorkerInv, WorkerTypeOK
<1>3. StartedIsLoaded'
  BY <1>2 DEF WorkerInv, StartedIsLoaded, StopWorker
<1>4. EnlistedWorkersBeat'
  <2> SUFFICES ASSUME NEW v \in Worker, enlisted'[v]
               PROVE  Serving(v)' /\ \E t \in Task : sender[v][t] # Off
    BY DEF EnlistedWorkersBeat, StopWorker
  <2>1. v # w /\ Serving(v) /\ \E t \in Task : sender[v][t] # Off
    BY <1>2 DEF WorkerInv, EnlistedWorkersBeat
  <2> QED
    BY <1>2, <2>1 DEF Serving, StopWorker
<1> QED
  BY <1>1, <1>3, <1>4 DEF WorkerInv

(* Requests of operators and the steps of those under way. *)
LEMMA ApplyKeeps ==
  ASSUME WorkerInv, NEW w \in Worker,
         ApplyStart(w) \/ ApplyStop(w) \/ ApplyUpdate(w) \/ ApplyStep(w)
  PROVE  WorkerInv'
<1>1. apply' \in [Worker -> {"none", "stop", "start"}]
  BY DEF ApplyStart, ApplyStop, ApplyUpdate, ApplyStep, WorkerInv, WorkerTypeOK
<1>2. \/ StartWorker(w) \/ StopWorker(w)
      \/ UNCHANGED <<alive, loaded, stop_event, registering, sender, enlisted>>
  BY DEF ApplyStart, ApplyStop, ApplyUpdate, ApplyStep, StartFails
<1>3. ASSUME UNCHANGED <<alive, loaded, stop_event, registering, sender, enlisted>>
      PROVE  WorkerInv'
  BY <1>1, <1>3 DEF WorkerInv, WorkerTypeOK, StartedIsLoaded, EnlistedWorkersBeat, Serving
<1> QED
  BY <1>1, <1>2, <1>3, StartKeeps, StopKeeps

(* A registration that comes back makes a sender, and enlists a worker that was *)
(* not stopped meanwhile.                                                       *)
LEMMA RegisterReturnsKeeps ==
  ASSUME WorkerInv, NEW w \in Worker, RegisterReturns(w)
  PROVE  WorkerInv'
<1>1. PICK t \in FreeTasks(w) : sender' = [sender EXCEPT ![w][t] = 0]
  BY DEF RegisterReturns
<1>2. t \in Task
  BY DEF FreeTasks
<1>3. registering[w] - 1 \in 0..Cardinality(Task) /\ registering[w] \in Int
  BY SenderStates DEF RegisterReturns, WorkerInv, WorkerTypeOK
<1>4. WorkerTypeOK'
  <2>1. sender' \in [Worker -> [Task -> {Off, Sending} \cup 0..HeartbeatInterval]]
    BY <1>1, <1>2, SenderStates DEF WorkerInv, WorkerTypeOK
  <2> QED
    BY <1>3, <2>1 DEF RegisterReturns, WorkerInv, WorkerTypeOK
<1>5. /\ sender'[w][t] = 0 /\ enlisted'[w] = ~stop_event[w]
      /\ \A v \in Worker : v # w =>
           /\ enlisted'[v] = enlisted[v] /\ registering'[v] = registering[v]
           /\ sender'[v] = sender[v]
  BY <1>1, <1>2 DEF RegisterReturns, WorkerInv, WorkerTypeOK
<1>6. UNCHANGED <<alive, loaded, stop_event>> /\ alive[w] /\ registering[w] > 0
  BY DEF RegisterReturns
<1>7. StartedIsLoaded'
  BY <1>5, <1>6 DEF WorkerInv, StartedIsLoaded
<1>8. EnlistedWorkersBeat'
  <2> SUFFICES ASSUME NEW v \in Worker, enlisted'[v]
               PROVE  Serving(v) /\ \E u \in Task : sender'[v][u] # Off
    BY <1>6 DEF EnlistedWorkersBeat, Serving
  <2>1. CASE v = w
    BY <1>2, <1>5, <1>6, <2>1, SenderStates DEF Serving, WorkerInv, StartedIsLoaded
  <2>2. CASE v # w
    BY <1>5, <2>2 DEF WorkerInv, EnlistedWorkersBeat
  <2> QED
    BY <2>1, <2>2
<1> QED
  BY <1>4, <1>7, <1>8 DEF WorkerInv

LEMMA RegisterFailsKeeps ==
  ASSUME WorkerInv, NEW w \in Worker, RegisterFails(w)
  PROVE  WorkerInv'
<1>1. registering[w] - 1 \in 0..Cardinality(Task)
  BY SenderStates DEF RegisterFails, WorkerInv, WorkerTypeOK
<1>2. WorkerTypeOK'
  BY <1>1 DEF RegisterFails, WorkerInv, WorkerTypeOK
<1>3. StartedIsLoaded' /\ EnlistedWorkersBeat'
  BY DEF RegisterFails, WorkerInv, WorkerTypeOK, StartedIsLoaded, EnlistedWorkersBeat, Serving
<1> QED
  BY <1>2, <1>3 DEF WorkerInv

(* A sender ends only when the event is set, and an enlisted worker's is not. *)
LEMMA SenderKeeps ==
  ASSUME WorkerInv, NEW w \in Worker, NEW t \in Task,
         SenderWakes(w, t) \/ HeartbeatEnds(w, t)
  PROVE  WorkerInv'
<1>1. PICK to \in {Off, Sending, HeartbeatInterval} :
        /\ sender' = [sender EXCEPT ![w][t] = to]
        /\ to = Off => stop_event[w]
  BY SenderStates DEF SenderWakes, HeartbeatEnds
<1>2. UNCHANGED <<alive, loaded, stop_event, registering, apply, enlisted>>
  BY DEF SenderWakes, HeartbeatEnds
<1>3. WorkerTypeOK'
  BY <1>1, <1>2, SenderStates DEF WorkerInv, WorkerTypeOK
<1>4. sender'[w][t] = to /\ \A v \in Worker, u \in Task :
        v # w \/ u # t => sender'[v][u] = sender[v][u]
  BY <1>1 DEF WorkerInv, WorkerTypeOK
<1>5. EnlistedWorkersBeat'
  <2> SUFFICES ASSUME NEW v \in Worker, enlisted[v]
               PROVE  Serving(v) /\ \E u \in Task : sender'[v][u] # Off
    BY <1>2 DEF EnlistedWorkersBeat, Serving
  <2>1. Serving(v) /\ \E u \in Task : sender[v][u] # Off
    BY DEF WorkerInv, EnlistedWorkersBeat
  <2> QED
    BY <1>1, <1>4, <2>1 DEF Serving
<1>6. StartedIsLoaded'
  BY <1>2 DEF WorkerInv, StartedIsLoaded
<1> QED
  BY <1>3, <1>5, <1>6 DEF WorkerInv

(* Time lets senders sleep. *)
LEMMA SleepKeeps ==
  ASSUME WorkerInv, SendersSleep
  PROVE  WorkerInv'
<1>1. ASSUME NEW w \in Worker, NEW t \in Task
      PROVE  /\ sender'[w][t] \in {Off, Sending} \cup 0..HeartbeatInterval
             /\ sender[w][t] # Off => sender'[w][t] # Off
  <2>1. sender'[w][t] = IF alive[w] /\ sender[w][t] > 0 THEN sender[w][t] - 1 ELSE sender[w][t]
    BY DEF SendersSleep
  <2>2. sender[w][t] \in {Off, Sending} \cup 0..HeartbeatInterval
    BY DEF WorkerInv, WorkerTypeOK
  <2> QED
    BY <2>1, <2>2, WorkerAssumption DEF Off, Sending
<1>2. sender' \in [Worker -> [Task -> {Off, Sending} \cup 0..HeartbeatInterval]]
  <2>1. sender' = [w \in Worker |-> [t \in Task |-> sender'[w][t]]]
    BY DEF SendersSleep
  <2> QED
    BY <1>1, <2>1
<1>3. WorkerTypeOK'
  BY <1>2 DEF SendersSleep, WorkerInv, WorkerTypeOK
<1>4. EnlistedWorkersBeat' /\ StartedIsLoaded'
  BY <1>1 DEF SendersSleep, WorkerInv, StartedIsLoaded, EnlistedWorkersBeat, Serving
<1> QED
  BY <1>3, <1>4 DEF WorkerInv

(* Nothing survives a crash, and a process that boots serves nothing yet. *)
LEMMA CrashKeeps ==
  ASSUME WorkerInv, NEW w \in Worker, Crash(w) \/ Boot(w)
  PROVE  WorkerInv'
<1>1. CASE Crash(w)
  <2>1. WorkerTypeOK'
    BY <1>1, SenderStates DEF Crash, WorkerInv, WorkerTypeOK
  <2>2. /\ ~enlisted'[w] /\ registering'[w] = 0
        /\ \A v \in Worker : v # w =>
             /\ alive'[v] = alive[v] /\ loaded'[v] = loaded[v] /\ stop_event'[v] = stop_event[v]
             /\ registering'[v] = registering[v] /\ sender'[v] = sender[v]
             /\ enlisted'[v] = enlisted[v]
    BY <1>1 DEF Crash, WorkerInv, WorkerTypeOK
  <2>3. StartedIsLoaded'
    BY <2>2 DEF WorkerInv, StartedIsLoaded
  <2>4. EnlistedWorkersBeat'
    BY <2>2 DEF WorkerInv, EnlistedWorkersBeat, Serving
  <2> QED
    BY <2>1, <2>3, <2>4 DEF WorkerInv
<1>2. CASE Boot(w)
  <2>1. WorkerTypeOK'
    BY <1>2 DEF Boot, WorkerInv, WorkerTypeOK
  <2>2. EnlistedWorkersBeat' /\ StartedIsLoaded'
    BY <1>2 DEF Boot, WorkerInv, WorkerTypeOK, StartedIsLoaded, EnlistedWorkersBeat, Serving
  <2> QED
    BY <2>1, <2>2 DEF WorkerInv
<1> QED
  BY <1>1, <1>2

(* Every step of workers, calls, operators and clock. *)
LEMMA WorkersKeep == WorkerInv /\ [Next]_vars => WorkerInv'
<1> SUFFICES ASSUME WorkerInv, [Next]_vars PROVE WorkerInv'
  OBVIOUS
<1>1. ASSUME NEW w \in Worker, RegisterAnswered(w) PROVE WorkerInv'
  BY <1>1, RegisterReturnsKeeps DEF RegisterAnswered
<1>2. ASSUME NEW w \in Worker, RegisterTimesOut(w) PROVE WorkerInv'
  BY <1>2, RegisterFailsKeeps DEF RegisterTimesOut
<1>3. ASSUME NEW w \in Worker, NEW t \in Task,
             HeartbeatSends(w, t) \/ HeartbeatAnswered(w, t) \/ HeartbeatTimesOut(w, t)
      PROVE  WorkerInv'
  BY <1>3, SenderKeeps DEF HeartbeatSends, HeartbeatAnswered, HeartbeatTimesOut
<1>4. ASSUME NEW w \in Worker, Operator(w) \/ RequestGoesOn(w) PROVE WorkerInv'
  BY <1>4, ApplyKeeps DEF Operator, RequestGoesOn
<1>5. ASSUME NEW w \in Worker, WorkerCrash(w) \/ WorkerBoot(w) PROVE WorkerInv'
  BY <1>5, CrashKeeps DEF WorkerCrash, WorkerBoot
<1>6. Tick => WorkerInv'
  BY SleepKeeps DEF Tick
<1>7. ASSUME UNCHANGED workerVars PROVE WorkerInv'
  BY <1>7 DEF workerVars, WorkerInv, WorkerTypeOK, StartedIsLoaded, EnlistedWorkersBeat, Serving
<1>8. ASSUME NEW r \in late, LateArrival(r) PROVE WorkerInv'
  BY <1>7, <1>8 DEF LateArrival
<1>9. ClientQuery \/ CheckerStep \/ ControllerRestart \/ UNCHANGED vars => UNCHANGED workerVars
  BY DEF ClientQuery, CheckerStep, ControllerRestart, vars
<1> QED
  BY <1>1, <1>2, <1>3, <1>4, <1>5, <1>6, <1>7, <1>8, <1>9 DEF Next

LEMMA WorkersKept == Spec => []WorkerInv
<1>1. Init => WorkerInv
  BY WorkersStart DEF Init
<1> QED
  BY <1>1, WorkersKeep, PTL DEF Spec

(* A worker whose registration came back and that nobody stopped since serves  *)
(* its model and has a heartbeat sender: overlapping starts, updates, failed   *)
(* calls and crashes of _start_worker and _async_heartbeat_sender never leave  *)
(* it silent.                                                                  *)
THEOREM EnlistedAlwaysBeat == Spec => []EnlistedWorkersBeat
<1>1. WorkerInv => EnlistedWorkersBeat
  BY DEF WorkerInv
<1> QED
  BY <1>1, WorkersKept, PTL

(* Workers, controller and late requests stay well typed; in particular the    *)
(* registrations a worker awaits never outnumber the slots of its senders.     *)
THEOREM ClusterTypes == Spec => []TypeOK
<1>1. Init => LateTypeOK
  BY DEF Init, LateTypeOK
<1>2. Spec => []LateTypeOK
  BY <1>1, LateStep, PTL DEF Spec
<1>3. Lists!IInv => Registry!TypeOK
  BY DEF Lists!IInv, Lists!TypeOK, Registry!TypeOK, Lists!Instance, Registry!Instance,
         Lists!AgeCap, Registry!AgeCap, Lists!Checker, Registry!Checker
<1>4. WorkerInv /\ Lists!IInv /\ LateTypeOK => TypeOK
  BY <1>3 DEF WorkerInv, LateTypeOK, TypeOK
<1> QED
  BY <1>2, <1>4, WorkersKept, ListsKept, PTL

-----------------------------------------------------------------------------
(* Who enters the registry *)

\* No entry of the list of the model carries this address.
Unknown(v) == \A i \in DOMAIN registry[Model] : registry[Model][i].addr # v

LEMMA UnknownIsUnregistered ==
  ASSUME NEW v \in Worker
  PROVE  /\ ~Registered(v) <=> Unknown(v)
         /\ ~Registered(v)' <=> Unknown(v)'
BY DEF Registered, Registry!Registered, Registry!Matching, Unknown

(* An entry that is refreshed or withdrawn keeps its address. *)
LEMMA ChangeKeepsUnknown ==
  ASSUME registry \in [{Model} -> Seq(Registry!Instance)],
         NEW v \in Worker, Unknown(v), NEW i,
         \/ registry' = Registry!WithEntry(Model, i, Registry!Refreshed(registry[Model][i]))
         \/ registry' = Registry!WithEntry(Model, i, Registry!Withdrawn(registry[Model][i]))
  PROVE  Unknown(v)'
<1> DEFINE list == registry[Model]
<1>1. list \in Seq(Registry!Instance)
  OBVIOUS
<1>2. ASSUME NEW j \in DOMAIN list
      PROVE  /\ Registry!Refreshed(list[j]).addr = list[j].addr
             /\ Registry!Withdrawn(list[j]).addr = list[j].addr
  <2>1. list[j] \in Registry!Instance
    BY <1>1, <1>2
  <2> QED
    BY <2>1 DEF Registry!Refreshed, Registry!Withdrawn, Registry!Instance
<1>3. PICK ins \in {Registry!Refreshed(list[i]), Registry!Withdrawn(list[i])} :
        registry'[Model] = [list EXCEPT ![i] = ins]
  BY DEF Registry!WithEntry
<1>4. /\ DOMAIN registry'[Model] = DOMAIN list
      /\ \A j \in DOMAIN list : registry'[Model][j] = IF j = i THEN ins ELSE list[j]
  BY <1>1, <1>3
<1> QED
  BY <1>2, <1>3, <1>4 DEF Unknown

(* An appended list has the old members and the new one. *)
LEMMA AppendMembers ==
  ASSUME NEW S, NEW list \in Seq(S), NEW x, NEW i \in DOMAIN Append(list, x)
  PROVE  \/ i \in DOMAIN list /\ Append(list, x)[i] = list[i]
         \/ Append(list, x)[i] = x
<1>1. DOMAIN Append(list, x) = 1..(Len(list) + 1) /\ DOMAIN list = 1..Len(list) /\ Len(list) \in Nat
  OBVIOUS
<1>2. CASE i = Len(list) + 1
  BY <1>2
<1>3. CASE i \in 1..Len(list)
  BY <1>1, <1>3
<1> QED
  BY <1>1, <1>2, <1>3

(* Only the registration of a worker makes the registry know it. *)
LEMMA HandleKeepsUnknown ==
  ASSUME Registry!TypeOK, NEW v \in Worker, Unknown(v), NEW r \in Request,
         r # <<"register", v>>, Handle(r)
  PROVE  Unknown(v)'
<1>1. registry \in [{Model} -> Seq(Registry!Instance)]
  BY DEF Registry!TypeOK
<1>2. CASE UNCHANGED registry
  BY <1>2 DEF Unknown
<1>3. ASSUME NEW i, registry' = Registry!WithEntry(Model, i, Registry!Refreshed(registry[Model][i]))
      PROVE  Unknown(v)'
  BY <1>1, <1>3, ChangeKeepsUnknown
<1>4. ASSUME NEW w \in Worker, w # v,
             registry' = [registry EXCEPT ![Model] =
                            Append(registry[Model], Registry!NewInstance(w, TRUE))]
      PROVE  Unknown(v)'
  <2>1. registry'[Model] = Append(registry[Model], Registry!NewInstance(w, TRUE))
    BY <1>1, <1>4
  <2>2. registry[Model] \in Seq(Registry!Instance)
    BY <1>1
  <2>3. ASSUME NEW i \in DOMAIN registry'[Model]
        PROVE  \/ i \in DOMAIN registry[Model] /\ registry'[Model][i] = registry[Model][i]
               \/ registry'[Model][i] = Registry!NewInstance(w, TRUE)
    <3>1. i \in DOMAIN Append(registry[Model], Registry!NewInstance(w, TRUE))
      BY <2>1
    <3> DEFINE new == Registry!NewInstance(w, TRUE)
               appended == Append(registry[Model], new)
    <3>2. \/ i \in DOMAIN registry[Model] /\ appended[i] = registry[Model][i]
          \/ appended[i] = new
      <4> HIDE DEF new
      <4> QED
        BY <2>2, <3>1, AppendMembers DEF appended
    <3>3. registry'[Model] = appended
      BY <2>1
    <3> HIDE DEF appended, new
    <3>4. registry'[Model][i] = appended[i]
      BY <3>3
    <3> QED
      BY <3>2, <3>4 DEF new
  <2>4. Registry!NewInstance(w, TRUE).addr = w
    BY DEF Registry!NewInstance
  <2>5. ASSUME NEW i \in DOMAIN registry'[Model] PROVE registry'[Model][i].addr # v
    <3>1. i \in DOMAIN registry[Model] => registry[Model][i].addr # v
      BY DEF Unknown
    <3> QED
      BY <1>4, <2>3, <2>4, <3>1
  <2> QED
    BY <2>5 DEF Unknown
<1>5. CASE r[1] = "register"
  <2>1. r[2] \in Worker /\ r[2] # v
    BY <1>5 DEF Request
  <2>2. Registry!register_instance(Model, r[2], TRUE)
    BY <1>5 DEF Handle
  <2> QED
    BY <1>3, <1>4, <2>1, <2>2 DEF Registry!register_instance
<1>6. CASE r[1] # "register"
  BY <1>2, <1>3, <1>6 DEF Handle, Registry!send_heartbeat
<1> QED
  BY <1>5, <1>6

(* The checker withdraws entries and adds none; time and restarts add none. *)
LEMMA OthersKeepUnknown ==
  ASSUME Registry!TypeOK, NEW v \in Worker, Unknown(v),
         ClientQuery \/ CheckerStep \/ ControllerRestart \/ Tick \/ UNCHANGED registryVars
  PROVE  Unknown(v)'
<1>1. registry \in [{Model} -> Seq(Registry!Instance)] /\ checker.cur = Model
  BY DEF Registry!TypeOK, Registry!Checker
<1>2. CASE UNCHANGED registry
  BY <1>2 DEF Unknown
<1>3. CASE CheckerStep
  <2>1. \/ UNCHANGED registry
        \/ registry' = Registry!WithEntry(Model, checker.pos,
                          Registry!Withdrawn(registry[Model][checker.pos]))
    BY <1>1, <1>3 DEF CheckerStep, Registry!CheckerStep, Registry!CheckerWakes,
       Registry!NextList, Registry!Inspect, Registry!MarkUnhealthy
  <2> QED
    BY <1>1, <1>2, <2>1, ChangeKeepsUnknown
<1>4. CASE ControllerRestart
  <2>1. registry'[Model] = <<>>
    BY <1>4 DEF ControllerRestart, Registry!ControllerRestart
  <2> QED
    BY <2>1 DEF Unknown
<1>5. CASE Tick
  <2>1. /\ DOMAIN registry'[Model] = DOMAIN registry[Model]
        /\ \A i \in DOMAIN registry[Model] :
             registry'[Model][i] = Registry!Older(registry[Model][i])
    BY <1>5 DEF Tick, Registry!Tick
  <2>2. ASSUME NEW i \in DOMAIN registry[Model]
        PROVE  Registry!Older(registry[Model][i]).addr = registry[Model][i].addr
    <3>1. registry[Model][i] \in Registry!Instance
      BY <1>1
    <3> QED
      BY <3>1 DEF Registry!Older, Registry!Instance
  <2> QED
    BY <2>1, <2>2 DEF Unknown
<1>6. ClientQuery \/ UNCHANGED registryVars => UNCHANGED registry
  BY DEF ClientQuery, Registry!get_all_instances, registryVars
<1> QED
  BY <1>2, <1>3, <1>4, <1>5, <1>6

(* A worker enters the registry only by a registration that a start of it sent: *)
(* send_heartbeat finds or ignores, so a restarted controller stays without the *)
(* workers it forgot until they are started again.                              *)
THEOREM OnlyRegistrationsEnlist == Spec => OnlyRegistrationEnlists
<1> DEFINE Enters == \A w \in Worker : ~Registered(w) /\ Registered(w)' =>
                       registering[w] > 0 \/ <<"register", w>> \in late
<1>1. ASSUME TypeOK, Next PROVE Enters
  <2> SUFFICES ASSUME NEW v \in Worker, Unknown(v), ~Unknown(v)'
               PROVE  registering[v] > 0 \/ <<"register", v>> \in late
    BY UnknownIsUnregistered
  <2>1. Registry!TypeOK /\ late \subseteq Request
    BY <1>1 DEF TypeOK
  <2>2. ASSUME NEW r \in Request, Handle(r) PROVE r = <<"register", v>>
    BY <2>1, <2>2, HandleKeepsUnknown
  <2>3. ~(ClientQuery \/ CheckerStep \/ ControllerRestart \/ Tick \/ UNCHANGED registryVars)
    BY <2>1, OthersKeepUnknown
  <2>4. ASSUME NEW w \in Worker, RegisterAnswered(w) PROVE registering[v] > 0
    BY <2>2, <2>4 DEF RegisterAnswered, RegisterReturns, Request
  <2>5. ASSUME NEW w \in Worker, NEW t \in Task, HeartbeatAnswered(w, t) PROVE FALSE
    BY <2>2, <2>5 DEF HeartbeatAnswered, Request
  <2>6. ASSUME NEW r \in late, LateArrival(r) PROVE <<"register", v>> \in late
    BY <2>1, <2>2, <2>6 DEF LateArrival
  <2>7. ASSUME NEW w \in Worker,
               \/ RegisterTimesOut(w) \/ Operator(w) \/ RequestGoesOn(w)
               \/ WorkerCrash(w) \/ WorkerBoot(w)
               \/ \E t \in Task : HeartbeatSends(w, t) \/ HeartbeatTimesOut(w, t)
        PROVE  UNCHANGED registryVars
    BY <2>7 DEF RegisterTimesOut, Operator, RequestGoesOn, WorkerCrash, WorkerBoot,
                HeartbeatSends, HeartbeatTimesOut
  <2> QED
    BY <1>1, <2>3, <2>4, <2>5, <2>6, <2>7 DEF Next
<1>2. TypeOK /\ [Next]_vars => [Enters]_vars
  BY <1>1
<1> QED
  BY <1>2, ClusterTypes, PTL DEF Spec, OnlyRegistrationEnlists

-----------------------------------------------------------------------------
(* How long a sender's worker goes unheard *)

\* The entries of worker v were heard from at most b ticks ago.
HeardWithin(v, b) ==
  \A i \in DOMAIN registry[Model] :
    registry[Model][i].addr = v => registry[Model][i].age <= b

\* Ticks a sender goes on sleeping; one that sends has none left.
Rest(w, t) == IF sender[w][t] = Sending THEN 0 ELSE sender[w][t]

\* What a sender slept and what it will sleep is one interval: an entry of its
\* worker is no older than the part it slept.
SendersAreHeard ==
  \A w \in Worker : \A t \in Task :
    sender[w][t] # Off => alive[w] /\ HeardWithin(w, HeartbeatInterval - Rest(w, t))

LEMMA ListsHandled ==
  ASSUME Lists!IInv, Registry!Handler
  PROVE  Lists!HandlerEffect
BY ListsAssumption, ListsHandler, Lists!AnyHandlerEffect DEF Lists!IInv

LEMMA EntriesTyped ==
  ASSUME Lists!IInv
  PROVE  /\ registry \in [{Model} -> Seq(Lists!Instance)] /\ checker.cur = Model
         /\ \A i \in DOMAIN registry[Model] :
              registry[Model][i] \in Lists!Instance /\ registry[Model][i].age \in Nat
<1>1. registry \in [{Model} -> Seq(Lists!Instance)] /\ checker.cur = Model
  BY DEF Lists!IInv, Lists!TypeOK, Lists!Checker
<1>2. registry[Model] \in Seq(Lists!Instance)
  BY <1>1
<1>3. ASSUME NEW i \in DOMAIN registry[Model]
      PROVE  registry[Model][i] \in Lists!Instance /\ registry[Model][i].age \in Nat
  <2>1. registry[Model][i] \in Lists!Instance
    BY <1>2
  <2> QED
    BY <2>1, ClusterAssumption DEF Lists!Instance, Lists!AgeCap
<1> QED
  BY <1>1, <1>3

(* A handler makes no entry older. *)
LEMMA HandlersAgeNobody ==
  ASSUME Lists!IInv, Registry!Handler, NEW v \in Worker, NEW b \in Nat, HeardWithin(v, b)
  PROVE  HeardWithin(v, b)'
<1> SUFFICES ASSUME NEW i \in DOMAIN registry'[Model], registry'[Model][i].addr = v
             PROVE  registry'[Model][i].age <= b
  BY DEF HeardWithin
<1>1. CASE registry'[Model][i].age = 0
  BY <1>1
<1>2. ASSUME i \in DOMAIN registry[Model],
             \/ registry'[Model][i] = registry[Model][i]
             \/ registry'[Model][i] = Lists!Withdrawn(registry[Model][i])
      PROVE  registry'[Model][i].age <= b
  <2>1. registry[Model][i] \in Lists!Instance
    BY <1>2, EntriesTyped
  <2>2. /\ registry'[Model][i].age = registry[Model][i].age
        /\ registry'[Model][i].addr = registry[Model][i].addr
    BY <1>2, <2>1 DEF Lists!Withdrawn, Lists!Instance
  <2> QED
    BY <1>2, <2>2 DEF HeardWithin
<1> QED
  BY <1>1, <1>2, ListsHandled DEF Lists!HandlerEffect

(* The checker withdraws entries and lets their age be. *)
LEMMA CheckerAgesNobody ==
  ASSUME Lists!IInv, CheckerStep, NEW v \in Worker, NEW b, HeardWithin(v, b)
  PROVE  HeardWithin(v, b)'
<1>1. \/ UNCHANGED registry
      \/ /\ checker.pc = "mark"
         /\ registry' = Registry!WithEntry(checker.cur, checker.pos,
                          Registry!Withdrawn(registry[checker.cur][checker.pos]))
  BY DEF CheckerStep, Registry!CheckerStep, Registry!CheckerWakes,
         Registry!NextList, Registry!Inspect, Registry!MarkUnhealthy
<1>2. CASE UNCHANGED registry
  BY <1>2 DEF HeardWithin
<1>3. ASSUME checker.pc = "mark",
             registry' = Registry!WithEntry(checker.cur, checker.pos,
                          Registry!Withdrawn(registry[checker.cur][checker.pos]))
      PROVE  HeardWithin(v, b)'
  <2> DEFINE k == checker.pos
             e == Registry!Withdrawn(registry[Model][k])
  <2>1. k \in DOMAIN registry[Model] /\ checker.cur = Model
        /\ registry \in [{Model} -> Seq(Lists!Instance)]
    BY <1>3, EntriesTyped DEF Lists!IInv, Lists!MarkTarget
  <2>2. registry[Model][k] \in Lists!Instance
    BY <2>1, EntriesTyped
  <2>3. e.age = registry[Model][k].age /\ e.addr = registry[Model][k].addr
    BY <2>2 DEF Registry!Withdrawn, Lists!Instance
  <2>4. registry' = [registry EXCEPT ![Model] = [registry[Model] EXCEPT ![k] = e]]
    BY <1>3, <2>1 DEF Registry!WithEntry
  <2> HIDE DEF e
  <2>5. /\ DOMAIN registry'[Model] = DOMAIN registry[Model]
        /\ \A i \in DOMAIN registry[Model] :
             registry'[Model][i] = IF i = k THEN e ELSE registry[Model][i]
    BY <2>1, <2>4
  <2> QED
    BY <2>3, <2>5 DEF HeardWithin
<1> QED
  BY <1>1, <1>2, <1>3

(* A tick ages an entry by one. *)
LEMMA TickAges ==
  ASSUME Lists!IInv, Tick, NEW v \in Worker, NEW b \in Nat, HeardWithin(v, b)
  PROVE  HeardWithin(v, b + 1)'
<1>1. /\ DOMAIN registry'[Model] = DOMAIN registry[Model]
      /\ \A i \in DOMAIN registry[Model] :
           registry'[Model][i] = Registry!Older(registry[Model][i])
  BY DEF Tick, Registry!Tick
<1>2. ASSUME NEW i \in DOMAIN registry[Model]
      PROVE  /\ Registry!Older(registry[Model][i]).addr = registry[Model][i].addr
             /\ Registry!Older(registry[Model][i]).age <= registry[Model][i].age + 1
             /\ Registry!Older(registry[Model][i]).age \in Nat /\ registry[Model][i].age \in Nat
  <2>1. registry[Model][i] \in Lists!Instance /\ registry[Model][i].age \in Nat
    BY EntriesTyped
  <2> QED
    BY <2>1 DEF Registry!Older, Lists!Instance
<1> QED
  BY <1>1, <1>2 DEF HeardWithin

(* A registration or heartbeat that arrives makes its worker heard of now: there *)
(* is no second entry that it would leave old.                                   *)
LEMMA HandleIsHeard ==
  ASSUME Lists!IInv, NEW r \in Request, Handle(r), NEW b \in Nat
  PROVE  HeardWithin(r[2], b)'
<1> DEFINE w == r[2]
           i == Registry!Position(Model, w)
           list == registry[Model]
<1>1. w \in Worker /\ Registry!Handler
  BY DEF Request, Handle, Registry!Handler
<1>2. [x \in Worker |-> x][w] = w /\ [n \in {Model} |-> n][Model] = Model
  BY <1>1
<1> HIDE DEF w
<1>3. IF Registry!Registered(Model, w)
      THEN registry' = Registry!WithEntry(Model, i, Registry!Refreshed(list[i]))
      ELSE registry' = IF r[1] = "register"
                       THEN [registry EXCEPT ![Model] = Append(list, Registry!NewInstance(w, TRUE))]
                       ELSE registry
  <2>1. CASE r[1] = "register"
    <3>1. Registry!register_instance(Model, w, TRUE)
      BY <2>1 DEF Handle, w
    <3> DEFINE k == [n \in {Model} |-> n][Model]
               v == [x \in Worker |-> x][w]
               m == Registry!Position(k, v)
    <3>2. registry' = IF Registry!Registered(k, v)
                      THEN Registry!WithEntry(k, m, Registry!Refreshed(registry[k][m]))
                      ELSE [registry EXCEPT ![k] = Append(registry[k], Registry!NewInstance(w, TRUE))]
      BY <3>1 DEF Registry!register_instance
    <3>3. k = Model /\ v = w
      BY <1>2
    <3> HIDE DEF k, v
    <3> QED
      BY <2>1, <3>2, <3>3
  <2>2. CASE r[1] # "register"
    BY <2>2 DEF Handle, Registry!send_heartbeat, w
  <2> QED
    BY <2>1, <2>2
<1>4. Lists!OneInstancePerAddress' /\ registry \in [{Model} -> Seq(Lists!Instance)]
      /\ list \in Seq(Lists!Instance)
  BY <1>1, ListsHandled, EntriesTyped DEF Lists!HandlerEffect
<1>5. CASE Registry!Registered(Model, w)
  <2>1. i \in DOMAIN list /\ list[i].addr = w
    <3>1. Lists!Registered(Model, w) /\ i = Lists!Position(Model, w)
      BY <1>5 DEF Registry!Registered, Lists!Registered, Registry!Matching, Lists!Matching,
         Registry!Position, Lists!Position, Registry!First, Lists!First
    <3>2. i \in Lists!Matching(Model, w)
      BY <1>1, <3>1, ListsAssumption, Lists!FirstIsMatch DEF Lists!IInv
    <3> QED
      BY <3>2 DEF Lists!Matching
  <2>2. registry' = Registry!WithEntry(Model, i, Registry!Refreshed(list[i]))
    BY <1>5, <1>3
  <2> HIDE DEF i
  <2>3. list[i] \in Lists!Instance
    BY <1>4, <2>1
  <2>4. registry'[Model] = [list EXCEPT ![i] = Registry!Refreshed(list[i])]
    BY <1>4, <2>2 DEF Registry!WithEntry
  <2>5. i \in DOMAIN registry'[Model] /\ registry'[Model][i] = Registry!Refreshed(list[i])
    BY <2>1, <2>4
  <2>6. registry'[Model][i].addr = w /\ registry'[Model][i].age = 0
    BY <2>1, <2>3, <2>5 DEF Registry!Refreshed, Lists!Instance
  <2>7. ASSUME NEW j \in DOMAIN registry'[Model], registry'[Model][j].addr = w PROVE j = i
    BY <1>2, <1>4, <2>5, <2>6, <2>7 DEF Lists!OneInstancePerAddress, Lists!Padded
  <2> QED
    BY <2>6, <2>7 DEF HeardWithin, w
<1>6. CASE ~Registry!Registered(Model, w)
  <2>1. \A j \in DOMAIN list : list[j].addr # w
    BY <1>6 DEF Registry!Registered, Registry!Matching
  <2>2. CASE r[1] # "register"
    <3>1. UNCHANGED registry
      BY <1>6, <1>3, <2>2
    <3> QED
      BY <2>1, <3>1 DEF HeardWithin, w
  <2>3. CASE r[1] = "register"
    <3> DEFINE e == Registry!NewInstance(w, TRUE)
    <3>1. registry' = [registry EXCEPT ![Model] = Append(list, e)]
      BY <1>6, <1>3, <2>3
    <3>2. registry'[Model] = Append(list, e)
      BY <1>4, <3>1
    <3>3. e.age = 0
      BY DEF Registry!NewInstance
    <3> HIDE DEF e, list
    <3>4. ASSUME NEW j \in DOMAIN registry'[Model]
          PROVE  \/ j \in DOMAIN list /\ registry'[Model][j] = list[j]
                 \/ registry'[Model][j] = e
      BY <1>4, <3>2, AppendMembers
    <3>5. ASSUME NEW j \in DOMAIN registry'[Model], registry'[Model][j].addr = w
          PROVE  registry'[Model][j].age <= b
      BY <2>1, <3>3, <3>4, <3>5
    <3> QED
      BY <3>5 DEF HeardWithin, w
  <2> QED
    BY <2>2, <2>3
<1> QED
  BY <1>5, <1>6

\* No step but a tick makes an entry older.
NobodyAges == \A v \in Worker, b \in Nat : HeardWithin(v, b) => HeardWithin(v, b)'

LEMMA NobodyAgesBetweenTicks ==
  ASSUME Lists!IInv, LateTypeOK, Next
  PROVE  NobodyAges \/ Tick
<1> SUFFICES ASSUME ~Tick, NEW v \in Worker, NEW b \in Nat, HeardWithin(v, b)
             PROVE  HeardWithin(v, b)'
  BY DEF NobodyAges
<1>1. CASE Registry!Handler
  BY <1>1, HandlersAgeNobody
<1>2. CASE CheckerStep
  BY <1>2, CheckerAgesNobody
<1>3. CASE ControllerRestart
  <2>1. registry'[Model] = <<>>
    BY <1>3 DEF ControllerRestart, Registry!ControllerRestart
  <2> QED
    BY <2>1 DEF HeardWithin
<1>4. CASE UNCHANGED registryVars
  BY <1>4 DEF registryVars, HeardWithin
<1>5. ASSUME NEW r \in Request, Handle(r) PROVE Registry!Handler
  BY <1>5 DEF Handle, Request, Registry!Handler
<1>6. ASSUME NEW w \in Worker
      PROVE  /\ RegisterAnswered(w) => Registry!Handler
             /\ \A t \in Task : HeartbeatAnswered(w, t) => Registry!Handler
  BY <1>5 DEF RegisterAnswered, HeartbeatAnswered, Request
<1>7. ASSUME NEW r \in late, LateArrival(r) PROVE Registry!Handler
  BY <1>5, <1>7 DEF LateArrival, LateTypeOK
<1>8. ClientQuery => Registry!Handler
  BY DEF ClientQuery, Registry!Handler
<1>9. ASSUME NEW w \in Worker,
             \/ RegisterTimesOut(w) \/ Operator(w) \/ RequestGoesOn(w)
             \/ WorkerCrash(w) \/ WorkerBoot(w)
             \/ \E t \in Task : HeartbeatSends(w, t) \/ HeartbeatTimesOut(w, t)
      PROVE  UNCHANGED registryVars
  BY <1>9 DEF RegisterTimesOut, Operator, RequestGoesOn, WorkerCrash, WorkerBoot,
              HeartbeatSends, HeartbeatTimesOut
<1> QED
  BY <1>1, <1>2, <1>3, <1>4, <1>6, <1>7, <1>8, <1>9 DEF Next

(* The part a sender slept is a number of ticks. *)
LEMMA SleptTicks ==
  ASSUME WorkerTypeOK, NEW w \in Worker, NEW t \in Task, sender[w][t] # Off
  PROVE  HeartbeatInterval - Rest(w, t) \in 0..HeartbeatInterval
<1>1. sender[w][t] \in {Sending} \cup 0..HeartbeatInterval
  BY DEF WorkerTypeOK
<1> QED
  BY <1>1, WorkerAssumption DEF Rest, Sending

(* A sender that a step leaves alone is heard as before. *)
LEMMA OthersHeard ==
  ASSUME WorkerTypeOK, SendersAreHeard, NobodyAges, NEW v \in Worker, NEW u \in Task,
         sender'[v][u] = sender[v][u], alive'[v] = alive[v], sender[v][u] # Off
  PROVE  alive'[v] /\ HeardWithin(v, HeartbeatInterval - Rest(v, u))'
<1> DEFINE slept == HeartbeatInterval - Rest(v, u)
<1>1. slept \in Nat
  BY SleptTicks
<1>2. slept' = slept
  BY DEF Rest
<1>3. alive[v] /\ HeardWithin(v, slept)
  BY DEF SendersAreHeard
<1> HIDE DEF slept
<1>4. \A i \in DOMAIN registry'[Model] :
        registry'[Model][i].addr = v => registry'[Model][i].age <= slept
  BY <1>1, <1>3 DEF NobodyAges, HeardWithin
<1>5. HeardWithin(v, slept)'
  BY <1>2, <1>4 DEF HeardWithin
<1> QED
  BY <1>3, <1>5 DEF slept

(* A step in which one sender moves on: its worker was heard from for as long as *)
(* it slept.                                                                     *)
LEMMA SenderMoves ==
  ASSUME WorkerTypeOK, SendersAreHeard, NobodyAges, UNCHANGED alive,
         NEW w \in Worker, NEW t \in Task, alive[w],
         NEW to, sender' = [sender EXCEPT ![w][t] = to],
         NEW slept, to # Off => HeardWithin(w, slept)',
         slept = HeartbeatInterval - (IF to = Sending THEN 0 ELSE to)
  PROVE  SendersAreHeard'
<1> SUFFICES ASSUME NEW v \in Worker, NEW u \in Task, sender'[v][u] # Off
             PROVE  alive'[v] /\ HeardWithin(v, HeartbeatInterval - Rest(v, u))'
  BY DEF SendersAreHeard
<1>1. sender'[v][u] = IF v = w /\ u = t THEN to ELSE sender[v][u]
  BY DEF WorkerTypeOK
<1>2. CASE v = w /\ u = t
  <2>1. (HeartbeatInterval - Rest(v, u))' = slept
    BY <1>1, <1>2 DEF Rest
  <2>2. to # Off /\ \A i \in DOMAIN registry'[Model] :
          registry'[Model][i].addr = w => registry'[Model][i].age <= slept
    BY <1>1, <1>2 DEF HeardWithin
  <2> QED
    BY <1>2, <2>1, <2>2 DEF HeardWithin
<1>3. CASE ~(v = w /\ u = t)
  BY <1>1, <1>3, OthersHeard
<1> QED
  BY <1>2, <1>3

(* Nobody sends or is due when the clock ticks, so a tick that makes an entry   *)
(* older has also been slept.                                                   *)
LEMMA TickIsSlept ==
  ASSUME ~SlowLoads, Lists!IInv, WorkerTypeOK, SendersAreHeard, Tick
  PROVE  SendersAreHeard'
<1> SUFFICES ASSUME NEW v \in Worker, NEW u \in Task, sender'[v][u] # Off
             PROVE  alive'[v] /\ HeardWithin(v, HeartbeatInterval - Rest(v, u))'
  BY DEF SendersAreHeard
<1> DEFINE slept == HeartbeatInterval - Rest(v, u)
<1>1. sender'[v][u] = IF alive[v] /\ sender[v][u] > 0 THEN sender[v][u] - 1 ELSE sender[v][u]
  BY DEF Tick, SendersSleep
<1>2. UNCHANGED alive
  BY DEF Tick, SendersSleep
<1>3. sender[v][u] # Off
  BY <1>1 DEF Off
<1>4. alive[v] /\ HeardWithin(v, slept) /\ slept \in Nat
  BY <1>3, SleptTicks DEF SendersAreHeard
<1>5. sender[v][u] # Sending /\ sender[v][u] # 0
  BY <1>4 DEF Tick, WorkersIdle
<1>6. sender[v][u] \in 1..HeartbeatInterval
  BY <1>3, <1>5, WorkerAssumption DEF WorkerTypeOK
<1>7. sender'[v][u] = sender[v][u] - 1
  BY <1>1, <1>4, <1>6
<1>8. slept' = slept + 1
  BY <1>6, <1>7, WorkerAssumption DEF Rest, Sending
<1>9. PICK b \in Nat : b = slept
  BY <1>4
<1> HIDE DEF slept
<1>10. HeardWithin(v, b + 1)'
  BY <1>4, <1>9, TickAges
<1>11. \A i \in DOMAIN registry'[Model] :
         registry'[Model][i].addr = v => registry'[Model][i].age <= slept'
  BY <1>8, <1>9, <1>10 DEF HeardWithin
<1>12. HeardWithin(v, slept)'
  BY <1>11 DEF HeardWithin
<1> QED
  BY <1>2, <1>4, <1>12 DEF slept

(* Every step of a cluster without failing calls and slow loads. *)
LEMMA SendersStayHeard ==
  ASSUME ~Lossy, ~SlowLoads, Lists!IInv, WorkerTypeOK, LateTypeOK, SendersAreHeard, Next
  PROVE  SendersAreHeard'
<1>1. CASE Tick
  BY <1>1, TickIsSlept
<1> SUFFICES ASSUME NobodyAges PROVE SendersAreHeard'
  BY <1>1, NobodyAgesBetweenTicks
<1>2. CASE UNCHANGED <<alive, sender>>
  BY <1>2, OthersHeard DEF SendersAreHeard
<1>3. ASSUME NEW w \in Worker, RegisterAnswered(w) PROVE SendersAreHeard'
  <2>1. PICK t \in Task : sender' = [sender EXCEPT ![w][t] = 0]
    BY <1>3 DEF RegisterAnswered, RegisterReturns, FreeTasks
  <2>2. Handle(<<"register", w>>) /\ <<"register", w>> \in Request
        /\ alive[w] /\ UNCHANGED alive
    BY <1>3 DEF RegisterAnswered, RegisterReturns, Request
  <2>3. HeartbeatInterval \in Nat
    BY WorkerAssumption
  <2> DEFINE r == <<"register", w>>
  <2>4. HeardWithin(r[2], HeartbeatInterval)'
    <3> HIDE DEF r
    <3> QED
      BY <2>2, <2>3, HandleIsHeard DEF r
  <2>5. HeardWithin(w, HeartbeatInterval)'
    BY <2>4
  <2>6. HeartbeatInterval = HeartbeatInterval - (IF 0 = Sending THEN 0 ELSE 0)
    BY <2>3
  <2> HIDE DEF r
  <2> QED
    BY <2>1, <2>2, <2>5, <2>6, SenderMoves
<1>4. ASSUME NEW w \in Worker, NEW t \in Task, HeartbeatAnswered(w, t) PROVE SendersAreHeard'
  <2>1. /\ sender' = [sender EXCEPT ![w][t] = HeartbeatInterval]
        /\ alive[w] /\ UNCHANGED alive
        /\ Handle(<<"heartbeat", w>>) /\ <<"heartbeat", w>> \in Request
    BY <1>4 DEF HeartbeatAnswered, HeartbeatEnds, Request
  <2> DEFINE r == <<"heartbeat", w>>
  <2>2. HeardWithin(r[2], 0)'
    <3> HIDE DEF r
    <3> QED
      BY <2>1, HandleIsHeard DEF r
  <2>3. HeardWithin(w, 0)'
    BY <2>2
  <2>4. 0 = HeartbeatInterval - (IF HeartbeatInterval = Sending THEN 0 ELSE HeartbeatInterval)
    BY WorkerAssumption DEF Sending
  <2> QED
    BY <2>1, <2>3, <2>4, SenderMoves
<1>5. ASSUME NEW w \in Worker, NEW t \in Task, HeartbeatSends(w, t) PROVE SendersAreHeard'
  <2>1. PICK to \in {Off, Sending} : sender' = [sender EXCEPT ![w][t] = to]
    BY <1>5 DEF HeartbeatSends, SenderWakes
  <2>2. alive[w] /\ sender[w][t] = 0 /\ UNCHANGED <<alive, registry>>
    BY <1>5 DEF HeartbeatSends, SenderWakes, registryVars
  <2>3. HeardWithin(w, HeartbeatInterval)
    <3>1. HeartbeatInterval - Rest(w, t) = HeartbeatInterval
      BY <2>2, WorkerAssumption DEF Rest, Sending
    <3>2. HeardWithin(w, HeartbeatInterval - Rest(w, t))
      BY <2>2 DEF SendersAreHeard, Off
    <3> QED
      BY <3>1, <3>2
  <2>4. HeardWithin(w, HeartbeatInterval)'
    BY <2>2, <2>3 DEF HeardWithin
  <2>5. to # Off => HeartbeatInterval = HeartbeatInterval - (IF to = Sending THEN 0 ELSE to)
    BY WorkerAssumption
  <2>6. CASE to = Off
    <3> DEFINE none == HeartbeatInterval - (IF to = Sending THEN 0 ELSE to)
    <3> QED
      BY <2>1, <2>2, <2>6, SenderMoves
  <2>7. CASE to # Off
    BY <2>1, <2>2, <2>4, <2>5, <2>7, SenderMoves
  <2> QED
    BY <2>6, <2>7
<1>6. ASSUME NEW w \in Worker, Operator(w) \/ RequestGoesOn(w) PROVE UNCHANGED <<alive, sender>>
  BY <1>6 DEF Operator, RequestGoesOn, ApplyStart, ApplyStop, ApplyUpdate, ApplyStep,
     StartWorker, StartFails, StopWorker
<1>7. ASSUME NEW w \in Worker, WorkerCrash(w) \/ WorkerBoot(w) PROVE SendersAreHeard'
  <2> SUFFICES ASSUME NEW v \in Worker, NEW u \in Task, sender'[v][u] # Off
               PROVE  alive'[v] /\ HeardWithin(v, HeartbeatInterval - Rest(v, u))'
    BY DEF SendersAreHeard
  <2>1. CASE WorkerCrash(w)
    <3>1. /\ sender' = [sender EXCEPT ![w] = [t \in Task |-> Off]]
          /\ alive' = [alive EXCEPT ![w] = FALSE]
      BY <2>1 DEF WorkerCrash, Crash
    <3>2. v # w
      BY <3>1 DEF WorkerTypeOK
    <3>3. sender'[v][u] = sender[v][u] /\ alive'[v] = alive[v]
      BY <3>1, <3>2 DEF WorkerTypeOK
    <3> QED
      BY <3>3, OthersHeard
  <2>2. CASE WorkerBoot(w)
    <3>1. ~alive[w] /\ sender' = sender /\ alive' = [alive EXCEPT ![w] = TRUE]
      BY <2>2 DEF WorkerBoot, Boot
    <3>2. alive[v]
      BY <3>1 DEF SendersAreHeard
    <3>3. alive'[v] = alive[v]
      BY <3>1, <3>2 DEF WorkerTypeOK
    <3> QED
      BY <3>1, <3>3, OthersHeard
  <2> QED
    BY <1>7, <2>1, <2>2
<1>8. ASSUME NEW r \in late, LateArrival(r) PROVE UNCHANGED <<alive, sender>>
  BY <1>8 DEF LateArrival, workerVars
<1>9. ClientQuery \/ CheckerStep \/ ControllerRestart => UNCHANGED <<alive, sender>>
  BY DEF ClientQuery, CheckerStep, ControllerRestart, workerVars
<1>10. ASSUME NEW w \in Worker
       PROVE  ~RegisterTimesOut(w) /\ \A t \in Task : ~HeartbeatTimesOut(w, t)
  BY DEF RegisterTimesOut, HeartbeatTimesOut
<1> QED
  BY <1>1, <1>2, <1>3, <1>4, <1>5, <1>6, <1>7, <1>8, <1>9, <1>10 DEF Next

(* A worker the registry knows is asked for by position, which finds its entry. *)
LEMMA EntryIsOfWorker ==
  ASSUME Lists!IInv, NEW w \in Worker, Registered(w), NEW b, HeardWithin(w, b)
  PROVE  Entry(w).age <= b /\ Entry(w).age \in Nat
<1>1. Lists!Registered(Model, w) /\ Registry!Position(Model, w) = Lists!Position(Model, w)
  BY DEF Registered, Registry!Registered, Lists!Registered, Registry!Matching, Lists!Matching,
     Registry!Position, Lists!Position, Registry!First, Lists!First
<1>2. Lists!Position(Model, w) \in Lists!Matching(Model, w)
  BY <1>1, ListsAssumption, Lists!FirstIsMatch DEF Lists!IInv
<1>3. Entry(w) = registry[Model][Lists!Position(Model, w)]
  BY <1>1 DEF Entry, Registry!Entry
<1> QED
  BY <1>2, <1>3, EntriesTyped DEF Lists!Matching, HeardWithin

(* Where calls do not fail and loads are short, a heartbeat interval within the *)
(* timeout suffices: an enlisted worker is never silent for longer than an      *)
(* interval, so it is withdrawn only by a stale verdict of the checker and      *)
(* offered again with its next heartbeat, through stops, restarts, crashes and  *)
(* senders left over from before a stop.                                        *)
THEOREM SuspectedBrieflyAlways ==
  ASSUME ~Lossy, ~SlowLoads, HeartbeatInterval <= HeartbeatTimeout
  PROVE  Spec => []SuspectedBriefly
<1> DEFINE Inv == Lists!IInv /\ WorkerInv /\ LateTypeOK
<1>1. Spec => []Inv
  <2>1. Init => LateTypeOK
    BY DEF Init, LateTypeOK
  <2>2. Spec => []LateTypeOK
    BY <2>1, LateStep, PTL DEF Spec
  <2> QED
    BY <2>2, ListsKept, WorkersKept, PTL
<1>2. Init => SendersAreHeard
  BY DEF Init, InitWorkers, SendersAreHeard
<1>3. Inv /\ SendersAreHeard /\ [Next]_vars => SendersAreHeard'
  <2>1. ASSUME Inv, SendersAreHeard, Next PROVE SendersAreHeard'
    BY <2>1, SendersStayHeard DEF WorkerInv
  <2>2. ASSUME SendersAreHeard, UNCHANGED vars PROVE SendersAreHeard'
    BY <2>2 DEF vars, workerVars, registryVars, SendersAreHeard, HeardWithin, Rest
  <2> QED
    BY <2>1, <2>2
<1>4. Inv /\ SendersAreHeard => SuspectedBriefly
  <2> SUFFICES ASSUME Inv, SendersAreHeard, NEW w \in Worker, enlisted[w], Registered(w)
               PROVE  Entry(w).age <= HeartbeatInterval /\ Entry(w).age <= HeartbeatTimeout
    BY DEF SuspectedBriefly
  <2>1. PICK t \in Task : sender[w][t] # Off
    BY DEF WorkerInv, EnlistedWorkersBeat
  <2>2. HeardWithin(w, HeartbeatInterval - Rest(w, t))
    BY <2>1 DEF SendersAreHeard
  <2>3. HeartbeatInterval - Rest(w, t) \in 0..HeartbeatInterval
    BY <2>1, SleptTicks DEF WorkerInv
  <2>4. Entry(w).age <= HeartbeatInterval - Rest(w, t) /\ Entry(w).age \in Nat
    BY <2>2, EntryIsOfWorker
  <2> QED
    BY <2>3, <2>4, WorkerAssumption, ClusterAssumption
<1> HIDE DEF Inv
<1> QED
  BY <1>1, <1>2, <1>3, <1>4, PTL DEF Spec
=============================================================================
