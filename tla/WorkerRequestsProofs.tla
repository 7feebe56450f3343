-------------------------- MODULE WorkerRequestsProofs --------------------------
(* The semaphore of a worker keeps its count, for every limit and any calls. *)
EXTENDS WorkerRequests, FiniteSetTheorems, TLAPS

WorkerInv == WorkerTypeOK /\ PermitsBalance

(* Sets of calls are finite. *)
LEMMA HoldersFinite ==
  /\ IsFiniteSet(Holders)
  /\ Cardinality(Holders) \in Nat
<1>1. Holders \in SUBSET Request
  BY DEF Holders
<1>2. IsFiniteSet(Request)
  BY WorkerAssumption
<1> QED
  BY <1>1, <1>2, FS_Subset, FS_CardinalityType

(* A permit that is taken is held by one call more. *)
LEMMA Taken ==
  ASSUME WorkerInv, NEW k \in Request, k \notin Holders, permits > 0,
         Holders' = Holders \cup {k}, permits' = permits - 1
  PROVE  PermitsBalance' /\ permits' \in 0..Limit
<1>1. Cardinality(Holders') = Cardinality(Holders) + 1
  BY HoldersFinite, FS_AddElement
<1>2. permits \in 0..Limit /\ Limit \in Nat
  BY WorkerAssumption DEF WorkerInv, WorkerTypeOK
<1>3. permits + Cardinality(Holders) = Limit
  BY DEF WorkerInv, PermitsBalance
<1>4. permits' + Cardinality(Holders') = Limit /\ permits' \in 0..Limit
  BY <1>1, <1>2, <1>3, HoldersFinite
<1> QED
  BY <1>4, WorkerAssumption DEF PermitsBalance

(* A permit that is given back was held by one call. *)
LEMMA GivenBack ==
  ASSUME WorkerInv, NEW k \in Request, k \in Holders,
         Holders' = Holders \ {k}, permits' = permits + 1
  PROVE  PermitsBalance' /\ permits' \in 0..Limit
<1>1. /\ IsFiniteSet(Holders')
      /\ Cardinality(Holders') = Cardinality(Holders) - 1
  BY HoldersFinite, FS_RemoveElement
<1>2. Cardinality(Holders') \in Nat
  BY <1>1, FS_CardinalityType
<1>3. permits \in 0..Limit /\ Limit \in Nat
  BY WorkerAssumption DEF WorkerInv, WorkerTypeOK
<1>4. permits + Cardinality(Holders) = Limit
  BY DEF WorkerInv, PermitsBalance
<1>5. permits' + Cardinality(Holders') = Limit /\ permits' \in 0..Limit
  BY <1>1, <1>2, <1>3, <1>4, HoldersFinite
<1> QED
  BY <1>5, WorkerAssumption DEF PermitsBalance

(* A step that moves no permit. *)
LEMMA Kept ==
  ASSUME WorkerInv, Holders' = Holders, permits' = permits
  PROVE  PermitsBalance' /\ permits' \in 0..Limit
<1>1. permits' + Cardinality(Holders') = Limit
  BY DEF WorkerInv, PermitsBalance
<1> QED
  BY <1>1, WorkerAssumption DEF WorkerInv, WorkerTypeOK, PermitsBalance

(* Where a call may be after it moved. *)
LEMMA Moved ==
  ASSUME WorkerTypeOK, NEW k \in Request, NEW state \in RequestState, MoveTo(k, state)
  PROVE  /\ request' \in [Request -> RequestState]
         /\ state \notin {"streaming", "generating", "closing"} => Holders' = Holders \ {k}
         /\ state \in {"streaming", "generating", "closing"} => Holders' = Holders \cup {k}
<1>1. request' = [request EXCEPT ![k] = state] /\ request \in [Request -> RequestState]
  BY DEF MoveTo, WorkerTypeOK
<1>2. \A j \in Request : request'[j] = IF j = k THEN state ELSE request[j]
  BY <1>1
<1>3. state \notin {"streaming", "generating", "closing"} => Holders' = Holders \ {k}
  BY <1>2 DEF Holders
<1>4. state \in {"streaming", "generating", "closing"} => Holders' = Holders \cup {k}
  BY <1>2 DEF Holders
<1> QED
  BY <1>1, <1>3, <1>4

(* Each operation of the worker keeps the type and the balance. *)
LEMMA WorkerStep ==
  ASSUME WorkerInv, WorkerNext
  PROVE  WorkerInv'
<1> USE DEF RequestState
<1>0. WorkerTypeOK
  BY DEF WorkerInv
<1>1. PICK k \in Request :
        \/ Enqueue(k) \/ Acquire(k, "streaming") \/ Acquire(k, "generating")
        \/ Release(k) \/ Cancel(k) \/ StepEnds(k) \/ ThreadEnds(k)
  BY DEF WorkerNext
<1>2. ASSUME Enqueue(k) PROVE WorkerInv'
  <2>1. k \notin Holders /\ MoveTo(k, "queued") /\ permits' = permits /\ orphan' = orphan
    BY <1>2 DEF Enqueue, Holders
  <2>2. Holders' = Holders /\ request' \in [Request -> RequestState]
    BY <1>0, <2>1, Moved
  <2> QED
    BY <1>0, <2>1, <2>2, Kept DEF WorkerInv, WorkerTypeOK
<1>3. ASSUME NEW how \in {"streaming", "generating"}, Acquire(k, how) PROVE WorkerInv'
  <2>1. /\ k \notin Holders /\ permits > 0 /\ MoveTo(k, how)
        /\ permits' = permits - 1 /\ orphan' = orphan
    BY <1>3 DEF Acquire, Holders
  <2>2. Holders' = Holders \cup {k} /\ request' \in [Request -> RequestState]
    BY <1>0, <2>1, Moved
  <2> QED
    BY <1>0, <2>1, <2>2, Taken DEF WorkerInv, WorkerTypeOK
<1>4. ASSUME Release(k) PROVE WorkerInv'
  <2>1. /\ k \in Holders /\ MoveTo(k, "over")
        /\ permits' = permits + 1 /\ orphan' = orphan
    BY <1>4 DEF Release, Holders
  <2>2. Holders' = Holders \ {k} /\ request' \in [Request -> RequestState]
    BY <1>0, <2>1, Moved
  <2> QED
    BY <1>0, <2>1, <2>2, GivenBack DEF WorkerInv, WorkerTypeOK
<1>5. ASSUME Withdraw(k) PROVE WorkerInv'
  <2>1. k \notin Holders /\ MoveTo(k, "over") /\ permits' = permits /\ orphan' = orphan
    BY <1>5 DEF Withdraw, Holders
  <2>2. Holders' = Holders /\ request' \in [Request -> RequestState]
    BY <1>0, <2>1, Moved
  <2> QED
    BY <1>0, <2>1, <2>2, Kept DEF WorkerInv, WorkerTypeOK
<1>6. ASSUME CancelStep(k) PROVE WorkerInv'
  <2>1. k \in Holders /\ MoveTo(k, "closing") /\ permits' = permits /\ orphan' = orphan
    BY <1>6 DEF CancelStep, Holders
  <2>2. Holders' = Holders /\ request' \in [Request -> RequestState]
    BY <1>0, <2>1, Moved
  <2> QED
    BY <1>0, <2>1, <2>2, Kept DEF WorkerInv, WorkerTypeOK
<1>7. ASSUME CancelGenerate(k) PROVE WorkerInv'
  <2>1. /\ k \in Holders /\ MoveTo(k, "over")
        /\ permits' = permits + 1 /\ orphan' = orphan \cup {k}
    BY <1>7 DEF CancelGenerate, Holders
  <2>2. Holders' = Holders \ {k} /\ request' \in [Request -> RequestState]
    BY <1>0, <2>1, Moved
  <2> QED
    BY <1>0, <2>1, <2>2, GivenBack DEF WorkerInv, WorkerTypeOK
<1>8. ASSUME StepEnds(k) PROVE WorkerInv'
  <2>1. /\ k \in Holders /\ MoveTo(k, "over")
        /\ permits' = permits + 1 /\ orphan' = orphan
    BY <1>8 DEF StepEnds, Holders
  <2>2. Holders' = Holders \ {k} /\ request' \in [Request -> RequestState]
    BY <1>0, <2>1, Moved
  <2> QED
    BY <1>0, <2>1, <2>2, GivenBack DEF WorkerInv, WorkerTypeOK
<1>9. ASSUME ThreadEnds(k) PROVE WorkerInv'
  <2>1. request' = request /\ permits' = permits /\ orphan' = orphan \ {k}
    BY <1>9 DEF ThreadEnds
  <2>2. Holders' = Holders
    BY <2>1 DEF Holders
  <2> QED
    BY <1>0, <2>1, <2>2, Kept DEF WorkerInv, WorkerTypeOK
<1> QED
  BY <1>1, <1>2, <1>3, <1>4, <1>5, <1>6, <1>7, <1>8, <1>9 DEF Cancel, CancelStream

(* All calls are new and the semaphore is full. *)
LEMMA WorkerStarts == WorkerInit => WorkerInv
<1> SUFFICES ASSUME WorkerInit PROVE WorkerInv
  OBVIOUS
<1>1. Holders = {}
  BY DEF WorkerInit, Holders
<1>2. Cardinality(Holders) = 0
  BY <1>1, FS_EmptySet
<1> QED
  BY <1>2, WorkerAssumption DEF WorkerInit, WorkerInv, WorkerTypeOK, PermitsBalance, RequestState

(* Nothing else moves calls or permits. *)
LEMMA WorkerStutters ==
  ASSUME WorkerInv, UNCHANGED workerVars
  PROVE  WorkerInv'
<1>1. Holders' = Holders
  BY DEF workerVars, Holders
<1> QED
  BY <1>1, Kept DEF workerVars, WorkerInv, WorkerTypeOK

(* Whatever the order of errors and cancellations, the permits the semaphore  *)
(* has left and the calls that hold one add up to limit_model_concurrency.    *)
THEOREM PermitsAlwaysBalance == WorkerSpec => []PermitsBalance
<1>1. WorkerInit => WorkerInv
  BY WorkerStarts
<1>2. WorkerInv /\ [WorkerNext]_workerVars => WorkerInv'
  BY WorkerStep, WorkerStutters
<1>3. WorkerInv => PermitsBalance
  BY DEF WorkerInv
<1> QED
  BY <1>1, <1>2, <1>3, PTL DEF WorkerSpec
=============================================================================
