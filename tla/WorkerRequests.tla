---------------------------- MODULE WorkerRequests ----------------------------
(***************************************************************************)
(* Generation requests at a worker: generate_stream, generate and          *)
(* embeddings of the LocalWorkerManager share a semaphore of               *)
(* limit_model_concurrency permits.  The model itself runs on threads,     *)
(* which a cancelled request can wait for but cannot stop.                 *)
(***************************************************************************)
EXTENDS Integers, FiniteSets

CONSTANTS
  Request,   \* the calls, each made at most once
  Limit      \* limit_model_concurrency

ASSUME WorkerAssumption == Limit \in Nat \ {0} /\ IsFiniteSet(Request)

VARIABLES
  request,   \* where each call is
  permits,   \* what the semaphore has left
  orphan     \* calls that ended while a thread of the executor still generates

workerVars == <<request, permits, orphan>>

\* A streaming call that is cancelled during a step of the thread is closing.
RequestState == {"new", "queued", "streaming", "generating", "closing", "over"}

WorkerTypeOK ==
  /\ request \in [Request -> RequestState]
  /\ permits \in 0..Limit
  /\ orphan \subseteq Request

WorkerInit ==
  /\ request = [k \in Request |-> "new"]
  /\ permits = Limit
  /\ orphan = {}

Holders == {k \in Request : request[k] \in {"streaming", "generating", "closing"}}

\* The calls for which a thread may be running the model.
Working == Holders \cup orphan

MoveTo(k, state) == request' = [request EXCEPT ![k] = state]
-----------------------------------------------------------------------------
\* _get_model has found the worker; the call comes to "async with semaphore".
Enqueue(k) ==
  /\ request[k] = "new"
  /\ MoveTo(k, "queued")
  /\ UNCHANGED <<permits, orphan>>

\* Mutant: the limit is not looked at.
AcquireAnyway(k, how) ==
  /\ request[k] = "queued"
  /\ MoveTo(k, how)
  /\ permits' = permits - 1
  /\ UNCHANGED orphan

\* how: "streaming" in iterate_in_threadpool, "generating" in run_in_executor.
\* The order of those who wait is left open: it differs between versions of
\* asyncio.Semaphore.
Acquire(k, how) ==
  /\ request[k] = "queued"
  /\ permits > 0
  /\ MoveTo(k, how)
  /\ permits' = permits - 1
  /\ UNCHANGED orphan

\* Mutant: acquire and release in place of "async with", an exception skips one.
RaiseWithPermit(k) ==
  /\ request[k] \in {"streaming", "generating"}
  /\ MoveTo(k, "over")
  /\ permits' = permits
  /\ UNCHANGED orphan

\* The model has finished, or raised.
Release(k) ==
  /\ request[k] \in {"streaming", "generating"}
  /\ MoveTo(k, "over")
  /\ permits' = permits + 1
  /\ UNCHANGED orphan

\* Cancelled, or raised, before it had a permit.
Withdraw(k) ==
  /\ request[k] = "queued"
  /\ MoveTo(k, "over")
  /\ UNCHANGED <<permits, orphan>>

\* The thread's current step cannot be interrupted and the permit is kept.
CancelStep(k) ==
  /\ request[k] = "streaming"
  /\ MoveTo(k, "closing")
  /\ UNCHANGED <<permits, orphan>>

\* Mutant: the cancelled call leaves its permit with the thread it abandons.
CancelKeepsPermit(k) ==
  /\ request[k] = "generating"
  /\ MoveTo(k, "over")
  /\ orphan' = orphan \cup {k}
  /\ UNCHANGED permits

\* The await of run_in_executor ends at once; the thread goes on.
CancelGenerate(k) ==
  /\ request[k] = "generating"
  /\ MoveTo(k, "over")
  /\ permits' = permits + 1
  /\ orphan' = orphan \cup {k}

\* Between two steps of its thread a stream just ends.
CancelStream(k) ==
  /\ request[k] = "streaming"
  /\ CancelStep(k) \/ Release(k)

Cancel(k) == Withdraw(k) \/ CancelStream(k) \/ CancelGenerate(k)

\* Nobody waits for what these threads return.
StepEnds(k) ==
  /\ request[k] = "closing"
  /\ MoveTo(k, "over")
  /\ permits' = permits + 1
  /\ UNCHANGED orphan

\* Mutant: the thread's callback releases as well.
ThreadReleases(k) ==
  /\ k \in orphan
  /\ orphan' = orphan \ {k}
  /\ permits' = permits + 1
  /\ UNCHANGED request

ThreadEnds(k) ==
  /\ k \in orphan
  /\ orphan' = orphan \ {k}
  /\ UNCHANGED <<request, permits>>

WorkerNext ==
  \E k \in Request :
    \/ Enqueue(k) \/ Acquire(k, "streaming") \/ Acquire(k, "generating")
    \/ Release(k) \/ Cancel(k) \/ StepEnds(k) \/ ThreadEnds(k)

WorkerSpec == WorkerInit /\ [][WorkerNext]_workerVars
-----------------------------------------------------------------------------
(* Properties *)

\* No order of errors and cancellations loses or doubles a permit: what the
\* semaphore has left and what calls hold is the limit.
PermitsBalance == permits + Cardinality(Holders) = Limit
=============================================================================
