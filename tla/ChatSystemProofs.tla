---------------------------- MODULE ChatSystemProofs ----------------------------
(***************************************************************************)
(* Theorems about chatting end to end, for any dialogues, any number of    *)
(* questions and any limit of the worker.                                  *)
(***************************************************************************)
EXTENDS ChatSystem, WebChatProofs, WorkerRequestsProofs, WellFoundedInduction,
        SequenceTheorems

\* The theorems about the server's rounds, for the server inside this system.
Rounds == INSTANCE ChatHistoryProofs WITH Calm <- {}

-----------------------------------------------------------------------------
(* The parts run as their own modules say *)

(* Every step is one of the worker or leaves it alone. *)
LEMMA WorkerSteps == Next => [WorkerNext]_workerVars
<1>0. Request = Chat
  BY SystemAssumption
<1>1. User \/ Histories => UNCHANGED workerVars
  BY DEF User, Histories
<1>2. ASSUME NEW c \in Conv, DeleteDialogue(c) PROVE UNCHANGED workerVars
  BY <1>2 DEF DeleteDialogue
<1>3. ASSUME NEW k \in Chat,
             \/ Arrives(k) \/ Starts(k) \/ Finishes(k) \/ Breaks(k) \/ RaisesOut(k)
             \/ Disconnects(k) \/ ThreadReturns(k)
      PROVE  WorkerNext
  <2>1. \/ Enqueue(k) \/ Acquire(k, "streaming") \/ Acquire(k, "generating")
        \/ Release(k) \/ Withdraw(k) \/ Cancel(k) \/ StepEnds(k) \/ ThreadEnds(k)
    BY <1>3 DEF Arrives, Starts, Finishes, Breaks, RaisesOut, Disconnects, ThreadReturns
  <2> QED
    BY <1>0, <2>1 DEF WorkerNext, Cancel
<1>4. ASSUME NEW k \in Chat,
             Yields(k, "part") \/ Yields(k, "all") \/ Hears(k) \/ ConnectionFails(k)
      PROVE  UNCHANGED workerVars
  BY <1>4 DEF Yields, Hears, ConnectionFails
<1> QED
  BY <1>1, <1>2, <1>3, <1>4 DEF Next

\* What the endpoints of this system do to the table of dialogues.
ServerStep ==
  \/ \E k \in Chat :
       Server!Complete(k) \/ Server!Answered(k) \/ Server!StreamBreaks(k) \/ Server!Lost(k)
  \/ \E c \in Conv : Server!dialogue_delete(c)

(* Every step is one of the server's endpoints or leaves its table alone. *)
LEMMA ServerSteps == Next => [ServerStep]_serverVars
<1>1. User \/ Histories => UNCHANGED serverVars
  BY DEF User, Histories
<1>2. ASSUME NEW c \in Conv, DeleteDialogue(c) PROVE ServerStep
  BY <1>2 DEF DeleteDialogue, ServerStep
<1>3. ASSUME NEW k \in Chat,
             Arrives(k) \/ Finishes(k) \/ Breaks(k) \/ RaisesOut(k) \/ Disconnects(k)
      PROVE  ServerStep
  BY <1>3 DEF Arrives, Finishes, Breaks, RaisesOut, Disconnects, ServerStep
<1>4. ASSUME NEW k \in Chat,
             \/ Starts(k) \/ Yields(k, "part") \/ Yields(k, "all") \/ ThreadReturns(k)
             \/ Hears(k) \/ ConnectionFails(k)
      PROVE  UNCHANGED serverVars
  BY <1>4 DEF Starts, Yields, ThreadReturns, Hears, ConnectionFails
<1> QED
  BY <1>1, <1>2, <1>3, <1>4 DEF Next

(* The composition does not ask the worker for anything its module does not   *)
(* allow: what is proved about requests and permits holds here.               *)
THEOREM WorkerImplemented == Spec => WorkerSpec
<1>1. Init => WorkerInit
  BY DEF Init
<1>2. [Next]_vars => [WorkerNext]_workerVars
  BY WorkerSteps DEF vars
<1> QED
  BY <1>1, <1>2, PTL DEF Spec, WorkerSpec

(* Nor the endpoints: the table of dialogues changes as ChatHistory says when *)
(* no user is known to be calm.                                               *)
THEOREM ServerImplemented == Spec => Server!Spec
<1>1. Init => Server!Init
  BY DEF Init
<1>2. ServerStep => Server!Next
  BY DEF ServerStep, Server!Next
<1>3. [Next]_vars => [Server!Next]_<<history, chat, prompt>>
  BY <1>2, ServerSteps DEF vars, serverVars
<1> QED
  BY <1>1, <1>3, PTL DEF Spec, Server!Spec, Server!vars

(* The permits of the worker's semaphore and the calls that hold one add up   *)
(* to limit_model_concurrency, whatever browsers, connections and model do.   *)
THEOREM PermitsBalanceHere == Spec => []PermitsBalance
  BY WorkerImplemented, PermitsAlwaysBalance, PTL

(* Requests, permits and threads stay well typed. *)
LEMMA WorkerTypes == WorkerSpec => []WorkerTypeOK
<1>1. WorkerInit => WorkerInv
  BY WorkerStarts
<1>2. WorkerInv /\ [WorkerNext]_workerVars => WorkerInv'
  BY WorkerStep, WorkerStutters
<1>3. WorkerInv => WorkerTypeOK
  BY DEF WorkerInv
<1> QED
  BY <1>1, <1>2, <1>3, PTL DEF WorkerSpec

(* So do rounds and chats. *)
LEMMA ServerTypes == Spec => []Server!TypeOK
<1>1. Rounds!Spec => []Rounds!TypeOK
  BY Rounds!TypeCorrect
<1>2. Init => Rounds!Init
  BY DEF Init, Server!Init, Rounds!Init, Server!Kind, Rounds!Kind
<1>3. ServerStep => Rounds!Next
  <2>1. ASSUME NEW k \in Chat PROVE Server!Complete(k) => Rounds!Complete(k)
    <3>1. Server!Begin(k) => Rounds!Begin(k)
      BY DEF Server!Begin, Rounds!Begin,
             Server!Begun, Rounds!Begun, Server!MayDisturb, Rounds!MayDisturb, Server!Waiting, Rounds!Waiting
    <3> QED
      BY <3>1 DEF Server!Complete, Rounds!Complete
  <2>2. ASSUME NEW k \in Chat PROVE Server!Answered(k) => Rounds!Answered(k)
    BY DEF Server!Answered, Rounds!Answered, Server!append, Rounds!append, Server!RoundOf, Rounds!RoundOf
  <2>3. ASSUME NEW k \in Chat PROVE Server!StreamBreaks(k) => Rounds!StreamBreaks(k)
    BY DEF Server!StreamBreaks, Rounds!StreamBreaks, Server!append, Rounds!append, Server!RoundOf, Rounds!RoundOf
  <2>4. ASSUME NEW k \in Chat PROVE Server!Lost(k) => Rounds!Lost(k)
    BY DEF Server!Lost, Rounds!Lost
  <2>5. ASSUME NEW c \in Conv PROVE Server!dialogue_delete(c) => Rounds!dialogue_delete(c)
    BY DEF Server!dialogue_delete, Rounds!dialogue_delete, Server!MayDisturb, Rounds!MayDisturb, Server!Waiting, Rounds!Waiting
  <2> QED
    BY <2>1, <2>2, <2>3, <2>4, <2>5 DEF ServerStep, Rounds!Next
<1>4. [Next]_vars => [Rounds!Next]_<<history, chat, prompt>>
  BY <1>3, ServerSteps DEF vars, serverVars
<1>5. Rounds!TypeOK => Server!TypeOK
  BY DEF Server!TypeOK, Rounds!TypeOK, Server!Kind, Rounds!Kind, Server!Round, Rounds!Round
<1> QED
  BY <1>1, <1>2, <1>4, <1>5, PTL DEF Spec, Rounds!Spec, Rounds!vars
-----------------------------------------------------------------------------
(* Sequences of sequences.  The library's induction theorems take an operator; *)
(* what is needed of them can be said with sets of numbers.                    *)

(* A set of naturals that is not empty has a least member. *)
LEMMA Least ==
  ASSUME NEW S \in SUBSET Nat, S # {}
  PROVE  \E m \in S : \A n \in S : m <= n
<1> DEFINE R == {ss \in Nat \X Nat : ss[1] < ss[2]}
<1>1. IsWellFoundedOn(R, Nat)
  BY NatLessThanWellFounded DEF OpToRel
<1> HIDE DEF R
<1>2. PICK m \in S : \A n \in S : ~ (<<n, m>> \in R)
  BY <1>1, WFMin
<1>3. ASSUME NEW n \in S, ~(m <= n) PROVE FALSE
  <2>1. <<n, m>> \in R
    BY <1>3 DEF R
  <2> QED
    BY <1>2, <2>1
<1> QED
  BY <1>3

(* Counting: a set with 0 and, up to N, with the successor of each of its     *)
(* members, holds all numbers up to N.                                        *)
LEMMA UpTo ==
  ASSUME NEW N \in Nat, NEW S, 0 \in S, \A n \in 0..(N - 1) : n \in S => n + 1 \in S
  PROVE  0..N \subseteq S
<1> DEFINE T == (0..N) \ S
<1>1. CASE T = {}
  BY <1>1
<1>2. CASE T # {}
  <2>0. T \in SUBSET Nat
    OBVIOUS
  <2> HIDE DEF T
  <2>1. PICK m \in T : \A n \in T : m <= n
    BY <1>2, <2>0, Least
  <2> USE DEF T
  <2>2. m # 0 /\ m - 1 \in 0..(N - 1) /\ m - 1 \notin T
    BY <2>1
  <2>3. m - 1 \in S /\ (m - 1) + 1 = m
    BY <2>2
  <2> QED
    BY <2>1, <2>2, <2>3
<1> QED
  BY <1>1, <1>2

(* A function that is given by its earlier values has them. *)
LEMMA Unfolded ==
  ASSUME NEW N, NEW ss, NEW f,
         f = [i \in 1..N |-> IF i = 1 THEN ss[i] ELSE f[i - 1] \o ss[i]]
  PROVE  \A i \in 1..N : f[i] = IF i = 1 THEN ss[i] ELSE f[i - 1] \o ss[i]
BY Zenon

\* f[i] joins the first i members of ss: how FlattenSeq is defined.
Flat(ss, f) == f = [i \in 1..Len(ss) |-> IF i = 1 THEN ss[i] ELSE f[i - 1] \o ss[i]]

(* There are such prefixes of every sequence of sequences. *)
LEMMA FlatExists ==
  ASSUME NEW M, NEW ss \in Seq(Seq(M))
  PROVE  \E f \in [1..Len(ss) -> Seq(M)] : Flat(ss, f)
<1> DEFINE N == Len(ss)
           Good(n, g) == \A i \in 1..n : g[i] = IF i = 1 THEN ss[i] ELSE g[i - 1] \o ss[i]
           S == {n \in 0..N : \E g \in [1..n -> Seq(M)] : Good(n, g)}
<1>0. N \in Nat /\ \A i \in 1..N : ss[i] \in Seq(M)
  OBVIOUS
<1>1. 0 \in S
  <2>1. PICK g \in [1..0 -> Seq(M)] : TRUE
    <3>1. [i \in 1..0 |-> <<>>] \in [1..0 -> Seq(M)]
      OBVIOUS
    <3> QED
      BY <3>1
  <2>2. Good(0, g)
    OBVIOUS
  <2>3. 0 \in 0..N
    BY <1>0
  <2> HIDE DEF Good
  <2> QED
    BY <2>2, <2>3
<1>2. ASSUME NEW n \in 0..(N - 1), n \in S PROVE n + 1 \in S
  <2>1. PICK g \in [1..n -> Seq(M)] : Good(n, g)
    BY <1>2
  <2> DEFINE h == [i \in 1..(n + 1) |-> IF i <= n THEN g[i]
                                       ELSE IF i = 1 THEN ss[i] ELSE g[i - 1] \o ss[i]]
  <2>2. h \in [1..(n + 1) -> Seq(M)]
    <3> SUFFICES ASSUME NEW i \in 1..(n + 1) PROVE h[i] \in Seq(M)
      OBVIOUS
    <3>1. ss[i] \in Seq(M)
      BY <1>0
    <3>2. i > 1 => i - 1 \in 1..n /\ g[i - 1] \in Seq(M)
      OBVIOUS
    <3>3. i > 1 => g[i - 1] \o ss[i] \in Seq(M)
      BY <3>1, <3>2
    <3> QED
      BY <3>1, <3>3
  <2>3. Good(n + 1, h)
    <3> SUFFICES ASSUME NEW i \in 1..(n + 1)
                 PROVE  h[i] = IF i = 1 THEN ss[i] ELSE h[i - 1] \o ss[i]
      OBVIOUS
    <3>1. i # 1 => i - 1 \in 1..n /\ h[i - 1] = g[i - 1]
      OBVIOUS
    <3>2. i <= n => h[i] = IF i = 1 THEN ss[i] ELSE g[i - 1] \o ss[i]
      <4>1. i <= n => i \in 1..n /\ h[i] = g[i]
        OBVIOUS
      <4> QED
        BY <2>1, <4>1
    <3>3. ~(i <= n) => h[i] = IF i = 1 THEN ss[i] ELSE g[i - 1] \o ss[i]
      OBVIOUS
    <3> QED
      BY <3>1, <3>2, <3>3
  <2>4. n + 1 \in 0..N
    BY <1>0
  <2> HIDE DEF h, Good
  <2> QED
    BY <2>2, <2>3, <2>4
<1> HIDE DEF S, N
<1>3. N \in S
  <2>1. 0..N \subseteq S
    BY <1>0, <1>1, <1>2, UpTo
  <2> QED
    BY <1>0, <2>1
<1>4. PICK f \in [1..N -> Seq(M)] : Good(N, f)
  BY <1>3 DEF S
<1>5. Flat(ss, f)
  BY <1>4 DEF Flat, N
<1> QED
  BY <1>5 DEF N

\* Two sequences begin with the same N members.
Agree(ss, tt, N) ==
  /\ N \in Nat /\ Len(ss) \in Nat /\ Len(tt) \in Nat /\ N <= Len(ss) /\ N <= Len(tt)
  /\ \A i \in 1..N : ss[i] = tt[i]

(* They depend on no more of the sequence than they join. *)
LEMMA FlatUnique ==
  ASSUME NEW ss, NEW tt, NEW N, Agree(ss, tt, N), NEW f, NEW g, Flat(ss, f), Flat(tt, g)
  PROVE  \A i \in 1..N : f[i] = g[i]
<1>0. /\ N \in Nat /\ Len(ss) \in Nat /\ Len(tt) \in Nat /\ N <= Len(ss) /\ N <= Len(tt)
      /\ \A i \in 1..N : ss[i] = tt[i]
  BY DEF Agree
<1> DEFINE S == {n \in 0..N : n > 0 => f[n] = g[n]}
<1>1. 0 \in S
  BY <1>0
<1>2. ASSUME NEW n \in 0..(N - 1), n \in S PROVE n + 1 \in S
  <2>1. /\ f[n + 1] = IF n + 1 = 1 THEN ss[n + 1] ELSE f[(n + 1) - 1] \o ss[n + 1]
        /\ g[n + 1] = IF n + 1 = 1 THEN tt[n + 1] ELSE g[(n + 1) - 1] \o tt[n + 1]
    <3>1. n + 1 \in 1..Len(ss) /\ n + 1 \in 1..Len(tt)
      BY <1>0
    <3> QED
      BY <3>1, Unfolded, Zenon DEF Flat
  <2>2. (n + 1) - 1 = n /\ ss[n + 1] = tt[n + 1] /\ n + 1 \in 0..N
    BY <1>0
  <2> QED
    BY <1>2, <2>1, <2>2
<1> HIDE DEF S
<1>3. 0..N \subseteq S
  BY <1>0, <1>1, <1>2, UpTo
<1> QED
  BY <1>0, <1>3 DEF S

\* g joins one member of tt more than f.
Grown(tt, n, f, g) == g[n + 1] = f[n] \o tt[n + 1]

(* One member more makes one prefix more. *)
LEMMA FlatLonger ==
  ASSUME NEW ss, NEW tt, NEW n, Agree(ss, tt, n), n # 0, Len(tt) = n + 1,
         NEW f, NEW g, Flat(ss, f), Flat(tt, g)
  PROVE  Grown(tt, n, f, g)
<1>0. n \in Nat
  BY DEF Agree
<1>1. n + 1 \in 1..Len(tt) /\ n + 1 # 1 /\ (n + 1) - 1 = n /\ n \in 1..n
  BY <1>0
<1>2. g[n + 1] = IF n + 1 = 1 THEN tt[n + 1] ELSE g[(n + 1) - 1] \o tt[n + 1]
  BY <1>1, Unfolded, Zenon DEF Flat
<1>3. f[n] = g[n]
  <2>2. \A i \in 1..n : f[i] = g[i]
    BY FlatUnique
  <2> QED
    BY <1>1, <2>2
<1> QED
  BY <1>1, <1>2, <1>3 DEF Grown

(* There is only one such function. *)
LEMMA FlatSame ==
  ASSUME NEW ss, Len(ss) \in Nat, NEW f, NEW g, Flat(ss, f), Flat(ss, g)
  PROVE  f = g
<1>1. Agree(ss, ss, Len(ss))
  BY DEF Agree
<1>2. PICK N : N = Len(ss)
  OBVIOUS
<1>3. \A i \in 1..N : f[i] = g[i]
  BY <1>1, <1>2, FlatUnique
<1>4. ASSUME NEW h, Flat(ss, h) PROVE h = [i \in 1..Len(ss) |-> h[i]]
  BY <1>4, Zenon DEF Flat
<1>5. f = [i \in 1..N |-> f[i]] /\ g = [i \in 1..N |-> g[i]]
  BY <1>2, <1>4
<1> QED
  BY <1>3, <1>5

(* FlattenSeq is the last of them. *)
LEMMA FlattenIs ==
  ASSUME NEW M, NEW ss \in Seq(Seq(M)), Len(ss) # 0
  PROVE  \E f \in [1..Len(ss) -> Seq(M)] : Flat(ss, f) /\ FlattenSeq(ss) = f[Len(ss)]
<1> DEFINE F == CHOOSE f : Flat(ss, f)
<1>1. Flat(ss, F)
  BY FlatExists
<1>2. FlattenSeq(ss) = F[Len(ss)]
  BY DEF FlattenSeq, Flat
<1>3. PICK f \in [1..Len(ss) -> Seq(M)] : Flat(ss, f)
  BY FlatExists
<1>4. f = F
  <2> HIDE DEF F
  <2>1. Len(ss) \in Nat
    OBVIOUS
  <2> QED
    BY <1>1, <1>3, <2>1, FlatSame, Zenon
<1> QED
  BY <1>2, <1>3, <1>4

(* FlattenSeq joins what is appended to what was joined before. *)
LEMMA FlattenGrows ==
  ASSUME NEW M, NEW ss \in Seq(Seq(M)), NEW s \in Seq(M)
  PROVE  /\ FlattenSeq(<<>>) = <<>>
         /\ FlattenSeq(ss) \in Seq(M)
         /\ FlattenSeq(Append(ss, s)) = FlattenSeq(ss) \o s
<1>1. FlattenSeq(<<>>) = <<>>
  BY DEF FlattenSeq
<1>2. CASE Len(ss) = 0
  <2>1. PICK u : u = <<s>>
    OBVIOUS
  <2>2. ss = <<>> /\ Append(ss, s) = u /\ Len(u) = 1 /\ u \in Seq(Seq(M)) /\ u[1] = s
    BY <1>2, <2>1
  <2>3. PICK f : Flat(u, f) /\ FlattenSeq(u) = f[1]
    BY <2>2, FlattenIs
  <2>4. f[1] = u[1]
    <3>1. 1 \in 1..Len(u)
      BY <2>2
    <3> QED
      BY <2>3, <3>1, Unfolded, Zenon DEF Flat
  <2>5. <<>> \o s = s /\ <<>> \in Seq(M)
    OBVIOUS
  <2> QED
    BY <1>1, <2>2, <2>3, <2>4, <2>5
<1>3. CASE Len(ss) # 0
  <2> DEFINE tt == Append(ss, s)
             n == Len(ss)
  <2>1. /\ tt \in Seq(Seq(M)) /\ Len(tt) = n + 1 /\ n \in Nat /\ n # 0
        /\ \A i \in 1..n : tt[i] = ss[i]
        /\ tt[n + 1] = s
    BY <1>3
  <2>2. PICK f \in [1..n -> Seq(M)] : Flat(ss, f) /\ FlattenSeq(ss) = f[n]
    BY <1>3, FlattenIs
  <2> HIDE DEF tt
  <2>3. PICK g : Flat(tt, g) /\ FlattenSeq(tt) = g[n + 1]
    <3>1. PICK g \in [1..Len(tt) -> Seq(M)] : Flat(tt, g) /\ FlattenSeq(tt) = g[Len(tt)]
      BY <2>1, FlattenIs
    <3> QED
      BY <2>1, <3>1
  <2>4. g[n + 1] = f[n] \o tt[n + 1]
    <3>1. n # 0 /\ Len(tt) = n + 1 /\ Agree(ss, tt, n)
      BY <2>1 DEF Agree
    <3>2. Flat(ss, f) /\ Flat(tt, g)
      BY <2>2, <2>3
    <3> HIDE DEF n
    <3>3. Grown(tt, n, f, g)
      BY <3>1, <3>2, FlatLonger, Zenon
    <3> QED
      BY <3>3 DEF Grown
  <2>5. f[n] \in Seq(M)
    <3>1. n \in 1..n
      BY <2>1
    <3> QED
      BY <2>2, <3>1
  <2>6. FlattenSeq(ss) \in Seq(M) /\ FlattenSeq(tt) = FlattenSeq(ss) \o s
    BY <2>1, <2>2, <2>3, <2>4, <2>5
  <2> QED
    BY <1>1, <2>6 DEF tt
<1> QED
  BY <1>1, <1>2, <1>3

(* A member put in front moves the others on. *)
LEMMA InFront ==
  ASSUME NEW M, NEW h \in M, NEW f \in Seq(M)
  PROVE  /\ <<h>> \o f \in Seq(M) /\ Len(<<h>> \o f) = 1 + Len(f) /\ (<<h>> \o f)[1] = h
         /\ \A i \in 2..(1 + Len(f)) : (<<h>> \o f)[i] = f[i - 1]
<1>1. PICK s : s = <<h>>
  OBVIOUS
<1>2. s \in Seq(M) /\ Len(s) = 1 /\ s[1] = h
  BY <1>1
<1>3. /\ s \o f \in Seq(M) /\ Len(s \o f) = Len(s) + Len(f)
      /\ \A i \in 1..Len(s) + Len(f) :
           (s \o f)[i] = IF i <= Len(s) THEN s[i] ELSE f[i - Len(s)]
  BY <1>2, ConcatProperties
<1>4. Len(f) \in Nat
  OBVIOUS
<1>5. PICK g : g = s \o f
  OBVIOUS
<1>6. /\ g \in Seq(M) /\ Len(g) = 1 + Len(f) /\ g[1] = h
      /\ \A i \in 2..(1 + Len(f)) : g[i] = f[i - 1]
  BY <1>2, <1>3, <1>4, <1>5
<1> QED
  BY <1>1, <1>5, <1>6

(* A sequence that has the members of one and then those of another. *)
LEMMA Joined ==
  ASSUME NEW M, NEW m \in Seq(M), NEW g \in Seq(M), NEW t \in Seq(M),
         Len(t) = Len(m) + Len(g), \A i \in 1..Len(m) : t[i] = m[i],
         \A i \in 1..Len(g) : t[Len(m) + i] = g[i]
  PROVE  m \o g = t
<1>1. PICK e : e = m \o g
  OBVIOUS
<1>2. /\ e \in Seq(M) /\ Len(e) = Len(m) + Len(g)
      /\ \A i \in 1..Len(m) + Len(g) : e[i] = IF i <= Len(m) THEN m[i] ELSE g[i - Len(m)]
  BY <1>1, ConcatProperties
<1>3. Len(m) \in Nat /\ Len(g) \in Nat
  OBVIOUS
<1>4. ASSUME NEW i \in 1..Len(m) + Len(g) PROVE e[i] = t[i]
  <2>1. CASE i <= Len(m)
    BY <1>2, <1>3, <2>1
  <2>2. CASE ~(i <= Len(m))
    <3>1. i - Len(m) \in 1..Len(g) /\ Len(m) + (i - Len(m)) = i
      BY <1>3, <2>2
    <3>2. t[Len(m) + (i - Len(m))] = g[i - Len(m)]
      BY <3>1
    <3> QED
      BY <1>2, <2>2, <3>1, <3>2
  <2> QED
    BY <2>1, <2>2
<1>5. e = t
  BY <1>2, <1>4, SeqEqual
<1> QED
  BY <1>1, <1>5

(* Appending one by one is joining. *)
LEMMA TwoAppended ==
  ASSUME NEW M, NEW h \in M, NEW a \in M, NEW m \in Seq(M), NEW f \in Seq(M),
         Len(f) = 1, f[1] = a
  PROVE  m \o (<<h>> \o f) = Append(Append(m, h), a)
<1>1. PICK g : g = <<h>> \o f
  OBVIOUS
<1>2. g \in Seq(M) /\ Len(g) = 2 /\ g[1] = h /\ g[2] = a
  <2>1. 2 \in 2..(1 + Len(f)) /\ 2 - 1 = 1 /\ 1 + Len(f) = 2
    OBVIOUS
  <2> QED
    BY <1>1, <2>1, InFront
<1>3. PICK t : t = Append(Append(m, h), a)
  OBVIOUS
<1>4. /\ t \in Seq(M) /\ Len(t) = Len(m) + Len(g) /\ \A i \in 1..Len(m) : t[i] = m[i]
      /\ \A i \in 1..Len(g) : t[Len(m) + i] = g[i]
  BY <1>2, <1>3
<1>5. m \o g = t
  BY <1>2, <1>4, Joined
<1> QED
  BY <1>1, <1>3, <1>5

(* The same with the second member twice. *)
LEMMA ThreeAppended ==
  ASSUME NEW M, NEW h \in M, NEW a \in M, NEW m \in Seq(M), NEW f \in Seq(M),
         Len(f) = 2, f[1] = a, f[2] = a
  PROVE  m \o (<<h>> \o f) = Append(Append(Append(m, h), a), a)
<1>1. PICK g : g = <<h>> \o f
  OBVIOUS
<1>2. g \in Seq(M) /\ Len(g) = 3 /\ g[1] = h /\ g[2] = a /\ g[3] = a
  <2>1. 2 \in 2..(1 + Len(f)) /\ 2 - 1 = 1 /\ 1 + Len(f) = 3 /\ 3 \in 2..(1 + Len(f)) /\ 3 - 1 = 2
    OBVIOUS
  <2> QED
    BY <1>1, <2>1, InFront
<1>3. PICK t : t = Append(Append(Append(m, h), a), a)
  OBVIOUS
<1>4. /\ t \in Seq(M) /\ Len(t) = Len(m) + Len(g) /\ \A i \in 1..Len(m) : t[i] = m[i]
      /\ \A i \in 1..Len(g) : t[Len(m) + i] = g[i]
  BY <1>2, <1>3
<1>5. m \o g = t
  BY <1>2, <1>4, Joined
<1> QED
  BY <1>1, <1>3, <1>5
-----------------------------------------------------------------------------
(* Stored rounds as messages *)

(* A round is a question and one answer or two. *)
LEMMA SpokenIs ==
  ASSUME NEW r \in Server!Round
  PROVE  /\ Spoken(r) \in Seq(Message)
         /\ r.chat \in Chat /\ r.views \in {1, 2}
         /\ Human(r.chat) \in Message /\ View(r.chat, "all") \in Message
         /\ \A m \in Seq(Message) : r.views = 1 =>
              m \o Spoken(r) = Append(Append(m, Human(r.chat)), View(r.chat, "all"))
         /\ \A m \in Seq(Message) : r.views = 2 =>
              m \o Spoken(r) =
                Append(Append(Append(m, Human(r.chat)), View(r.chat, "all")), View(r.chat, "all"))
<1> DEFINE h == Human(r.chat)
           a == View(r.chat, "all")
<1>1. r.chat \in Chat /\ r.views \in {1, 2}
  BY DEF Server!Round
<1>2. h \in Message /\ a \in Message
  <2>1. "all" \in Text
    BY DEF Text
  <2> QED
    BY <1>1, <2>1, MessageTypes
<1>3. Spoken(r) = <<h>> \o [v \in 1..r.views |-> a]
  BY DEF Spoken
<1> HIDE DEF h, a
<1>4. CASE r.views = 1
  <2>1. PICK f : f = [v \in 1..1 |-> a]
    OBVIOUS
  <2>2. f \in Seq(Message) /\ Len(f) = 1 /\ f[1] = a
    BY <1>2, <2>1
  <2>3. Spoken(r) = <<h>> \o f
    BY <1>3, <1>4, <2>1
  <2>4. Spoken(r) \in Seq(Message)
    BY <1>2, <2>2, <2>3, InFront
  <2>5. ASSUME NEW m \in Seq(Message) PROVE m \o Spoken(r) = Append(Append(m, h), a)
    BY <1>2, <2>2, <2>3, TwoAppended
  <2> QED
    BY <1>1, <1>2, <1>4, <2>4, <2>5 DEF h, a
<1>5. CASE r.views = 2
  <2>1. PICK f : f = [v \in 1..2 |-> a]
    OBVIOUS
  <2>2. f \in Seq(Message) /\ Len(f) = 2 /\ f[1] = a /\ f[2] = a
    BY <1>2, <2>1
  <2>3. Spoken(r) = <<h>> \o f
    BY <1>3, <1>5, <2>1
  <2>4. Spoken(r) \in Seq(Message)
    BY <1>2, <2>2, <2>3, InFront
  <2>5. ASSUME NEW m \in Seq(Message)
        PROVE  m \o Spoken(r) = Append(Append(Append(m, h), a), a)
    BY <1>2, <2>2, <2>3, ThreeAppended
  <2> QED
    BY <1>1, <1>2, <1>5, <2>4, <2>5 DEF h, a
<1> QED
  BY <1>1, <1>4, <1>5

(* A round more is its question and its answers more. *)
LEMMA MessagesGrow ==
  ASSUME NEW rounds \in Seq(Server!Round)
  PROVE  /\ Messages(<<>>) = <<>>
         /\ Messages(rounds) \in Seq(Message)
         /\ \A r \in Server!Round :
              Messages(rounds \o <<r>>) = Messages(rounds) \o Spoken(r)
<1> DEFINE Said(rs) == [i \in DOMAIN rs |-> Spoken(rs[i])]
<1>1. Said(rounds) \in Seq(Seq(Message))
  <2>1. ASSUME NEW i \in 1..Len(rounds) PROVE Spoken(rounds[i]) \in Seq(Message)
    <3>1. rounds[i] \in Server!Round
      OBVIOUS
    <3> QED
      BY <3>1, SpokenIs
  <2>2. DOMAIN rounds = 1..Len(rounds) /\ Len(rounds) \in Nat
    OBVIOUS
  <2> QED
    BY <2>1, <2>2
<1>2. ASSUME NEW r \in Server!Round
      PROVE  Said(rounds \o <<r>>) = Append(Said(rounds), Spoken(r))
  <2> DEFINE n == Len(rounds)
             more == rounds \o <<r>>
  <2>1. /\ n \in Nat /\ DOMAIN rounds = 1..n /\ DOMAIN more = 1..(n + 1)
        /\ more[n + 1] = r /\ \A i \in 1..n : more[i] = rounds[i]
    OBVIOUS
  <2>2. /\ Append(Said(rounds), Spoken(r)) = [i \in 1..(n + 1) |->
             IF i = n + 1 THEN Spoken(r) ELSE Said(rounds)[i]]
    BY <1>1, <2>1
  <2> HIDE DEF more, n
  <2>3. Said(more) = [i \in 1..(n + 1) |-> IF i = n + 1 THEN Spoken(r) ELSE Said(rounds)[i]]
    BY <2>1
  <2> QED
    BY <2>2, <2>3 DEF more
<1>3. Said(<<>>) = <<>>
  OBVIOUS
<1>4. <<>> \in Seq(Message)
  OBVIOUS
<1>5. \A rs : Messages(rs) = FlattenSeq(Said(rs))
  BY DEF Messages
<1> HIDE DEF Said
<1>6. FlattenSeq(<<>>) = <<>> /\ FlattenSeq(Said(rounds)) \in Seq(Message)
  BY <1>1, <1>4, FlattenGrows
<1>7. ASSUME NEW r \in Server!Round
      PROVE  Messages(rounds \o <<r>>) = Messages(rounds) \o Spoken(r)
  <2>1. Spoken(r) \in Seq(Message)
    BY SpokenIs
  <2>2. FlattenSeq(Append(Said(rounds), Spoken(r))) = FlattenSeq(Said(rounds)) \o Spoken(r)
    BY <1>1, <2>1, FlattenGrows
  <2> QED
    BY <1>2, <1>5, <2>2
<1> QED
  BY <1>3, <1>5, <1>6, <1>7

(* A round stays paired on the page: an answer comes below its question or,   *)
(* for the questions of B, below another answer to it.                        *)
LEMMA RoundPaired ==
  ASSUME NEW B, NEW m \in Seq(Message), Paired(m, B), NEW r \in Server!Round,
         r.views = 2 => r.chat \in B
  PROVE  Paired(m \o Spoken(r), B)
<1> DEFINE k == r.chat
           h == Human(k)
           a == View(k, "all")
           one == Append(m, h)
           two == Append(one, a)
<1>1. k \in Chat /\ r.views \in {1, 2} /\ h \in Message /\ a \in Message /\ "all" \in Text
  BY SpokenIs DEF Text
<1>2. one \in Seq(Message) /\ one # <<>> /\ one[Len(one)] = h /\ Paired(one, B)
  BY <1>1, QuestionPaired
<1>3. two \in Seq(Message) /\ Paired(two, B)
  BY <1>1, <1>2, AnswerPaired
<1>4. two # <<>> /\ two[Len(two)] = a
  BY <1>1, <1>2
<1>5. CASE r.views = 1
  <2>1. m \o Spoken(r) = two
    BY <1>5, SpokenIs
  <2> QED
    BY <1>3, <2>1
<1>6. CASE r.views = 2
  <2>1. m \o Spoken(r) = Append(two, a)
    BY <1>6, SpokenIs
  <2>2. k \in B
    BY <1>6
  <2> HIDE DEF two
  <2> QED
    BY <1>1, <1>3, <1>4, <2>1, <2>2, AnswerPaired
<1> QED
  BY <1>1, <1>5, <1>6

(* So what is stored is shown as questions that are followed by their answers, *)
(* when the rounds with two answers are of questions of B.                     *)
LEMMA HistoryPaired ==
  ASSUME NEW B, NEW rounds \in Seq(Server!Round),
         \A i \in DOMAIN rounds : rounds[i].views = 2 => rounds[i].chat \in B
  PROVE  Messages(rounds) \in Seq(Message) /\ Paired(Messages(rounds), B)
<1> DEFINE N == Len(rounds)
           First(n) == SubSeq(rounds, 1, n)
           S == {n \in 0..N : Paired(Messages(First(n)), B)}
<1>1. N \in Nat /\ First(0) = <<>> /\ First(N) = rounds
  OBVIOUS
<1>2. Messages(<<>>) = <<>> /\ Messages(rounds) \in Seq(Message)
  BY MessagesGrow
<1>3. 0 \in S
  <2>1. Messages(First(0)) = <<>>
    BY <1>1, <1>2, Zenon
  <2>2. Paired(Messages(First(0)), B)
    BY <2>1, EmptyPaired, Zenon
  <2>3. 0 \in 0..N
    BY <1>1
  <2> HIDE DEF First
  <2> QED
    BY <2>2, <2>3
<1>4. ASSUME NEW n \in 0..(N - 1), n \in S PROVE n + 1 \in S
  <2>1. /\ First(n) \in Seq(Server!Round)
        /\ First(n + 1) = First(n) \o <<rounds[n + 1]>>
        /\ rounds[n + 1] \in Server!Round /\ n + 1 \in DOMAIN rounds /\ n + 1 \in 0..N
    BY <1>1
  <2> HIDE DEF First
  <2>2. /\ Messages(First(n)) \in Seq(Message)
        /\ Messages(First(n + 1)) = Messages(First(n)) \o Spoken(rounds[n + 1])
    BY <2>1, MessagesGrow
  <2>3. Paired(Messages(First(n)), B)
    BY <1>4
  <2>4. Paired(Messages(First(n + 1)), B)
    BY <2>1, <2>2, <2>3, RoundPaired
  <2> QED
    BY <2>1, <2>4
<1> HIDE DEF S, N
<1>5. N \in S
  <2>1. 0..N \subseteq S
    BY <1>1, <1>3, <1>4, UpTo
  <2> QED
    BY <1>1, <2>1
<1> QED
  BY <1>1, <1>2, <1>5 DEF S
-----------------------------------------------------------------------------
(* The page inside the system *)

\* Threads that nobody waits for belong to connections that were cut.
Abandoned == \A k \in orphan : k \in Chat /\ stream[k].state \in {"closed", "failed"}

WireTypeOK == wire \in [Chat -> {"none", "part", "all"}] /\ user \in {"patient", "hasty"}

Live == {"queued", "streaming", "generating"}

\* What endpoint, worker and page know of the same question.
Link ==
  \A k \in Chat :
    /\ chat[k].state = "new" <=> request[k] = "new"
    /\ chat[k].state = "waiting" <=> request[k] \in Live
    /\ stream[k].state = "new" => chat[k].state = "new"
    /\ stream[k].state = "ended" => chat[k].state = "stored"

\* Rounds are stored with the dialogue of their question, and two answers only for
\* a stream that was cut short.
Homed ==
  \A c \in Conv : \A i \in DOMAIN history[c] :
    LET k == history[c][i].chat IN
    /\ chat[k].conv = c /\ chat[k].state = "stored"
    /\ history[c][i].views = 2 => k \in CutShort

\* WebInv says of the messages on the page that an answer is below another one only
\* for streams that were cut short; Homed says so of the histories to come.
SystemInv == WebInv(CutShort) /\ WireTypeOK /\ Abandoned /\ Link /\ Homed

\* A stream is over when all was said and stored.
Ends(k) == StreamEnds(k) /\ wire[k] = stream[k].text /\ chat[k].state = "stored"

(* Every step is one of the page or leaves the page alone. *)
LEMMA WebSteps ==
  ASSUME NEW B, B = CutShort, SystemInv, Server!TypeOK, Next
  PROVE  WebQuiet(B) \/ (\E k \in Chat : Ends(k)) \/ UNCHANGED webVars
<1>1. CASE User
  <2>1. \A k \in Chat : chat[k].conv \in Conv
    BY DEF Server!TypeOK
  <2> QED
    BY <1>1, <2>1 DEF User, WebQuiet
<1>2. CASE Histories
  <2>1. CASE HistoryAnswered(Messages(history[page.conv]))
    <3>1. page.conv \in Conv
      BY <2>1 DEF HistoryAnswered, SystemInv, WebInv, WebFetch, IsOpen, WebTypeOK, Page
    <3>2. history[page.conv] \in Seq(Server!Round)
      BY <3>1 DEF Server!TypeOK
    <3>3. PICK rounds : rounds = history[page.conv]
      OBVIOUS
    <3>4. \A i \in DOMAIN rounds : rounds[i].views = 2 => rounds[i].chat \in B
      BY <3>1, <3>3 DEF SystemInv, Homed
    <3>5. PICK s \in Seq(Message) : s = Messages(rounds) /\ Paired(s, B)
      BY <3>2, <3>3, <3>4, HistoryPaired
    <3> QED
      BY <2>1, <3>3, <3>5 DEF WebQuiet
  <2> QED
    BY <1>2, <2>1 DEF Histories, WebQuiet
<1>3. ASSUME NEW c \in Conv, DeleteDialogue(c) PROVE WebQuiet(B) \/ UNCHANGED webVars
  BY <1>3 DEF DeleteDialogue, WebQuiet
<1>4. ASSUME NEW k \in Chat,
             \/ Arrives(k) \/ Starts(k) \/ Yields(k, "part") \/ Yields(k, "all")
             \/ Finishes(k) \/ Breaks(k) \/ Disconnects(k) \/ ThreadReturns(k)
      PROVE  UNCHANGED webVars
  BY <1>4 DEF Arrives, Starts, Yields, Finishes, Breaks, Disconnects, ThreadReturns
<1>5. ASSUME NEW k \in Chat, RaisesOut(k) \/ ConnectionFails(k)
      PROVE  WebQuiet(B) \/ UNCHANGED webVars
  BY <1>5 DEF RaisesOut, ConnectionFails, WebQuiet
<1>6. ASSUME NEW k \in Chat, Hears(k) PROVE WebQuiet(B) \/ Ends(k)
  <2>1. wire[k] \in Text
    BY DEF SystemInv, WireTypeOK, Text
  <2> QED
    BY <1>6, <2>1 DEF Hears, WebQuiet, Ends
<1> QED
  BY <1>1, <1>2, <1>3, <1>4, <1>5, <1>6 DEF Next

(* No step reverses the life of a stream, and none ends before its round is   *)
(* stored and all that was sent is heard.                                     *)
LEMMA StreamsStep ==
  ASSUME SystemInv, Server!TypeOK, Next, NEW k \in Chat
  PROVE  /\ GoesOn(k)
         /\ stream'[k].state = "ended" /\ stream[k].state # "ended" =>
              wire[k] = stream[k].text /\ chat[k].state = "stored"
<1>0. PICK B : B = CutShort
  OBVIOUS
<1>1. WebTypeOK
  BY DEF SystemInv, WebInv
<1>2. CASE WebQuiet(B)
  BY <1>1, <1>2, QuietStreams
<1>3. ASSUME NEW j \in Chat, Ends(j)
      PROVE  /\ GoesOn(k)
             /\ stream'[k].state = "ended" /\ stream[k].state # "ended" =>
                  wire[k] = stream[k].text /\ chat[k].state = "stored"
  BY <1>1, <1>3, EndingStream DEF Ends
<1>4. CASE UNCHANGED webVars
  BY <1>4 DEF webVars, GoesOn
<1> QED
  BY <1>0, <1>2, <1>3, <1>4, WebSteps

(* Only a connection that was cut leaves a thread behind. *)
LEMMA AbandonedKept ==
  ASSUME SystemInv, Server!TypeOK, Next
  PROVE  Abandoned'
<1>1. \/ orphan' \subseteq orphan
      \/ \E k \in Chat : /\ stream[k].state \in {"closed", "failed"}
                        /\ orphan' = orphan \cup {k}
  <2>1. User \/ Histories \/ (\E c \in Conv : DeleteDialogue(c)) => orphan' = orphan
    BY DEF User, Histories, DeleteDialogue, workerVars
  <2>2. ASSUME NEW k \in Chat,
               \/ Arrives(k) \/ Starts(k) \/ Yields(k, "part") \/ Yields(k, "all")
               \/ Finishes(k) \/ Breaks(k) \/ RaisesOut(k) \/ ThreadReturns(k)
               \/ Hears(k) \/ ConnectionFails(k)
        PROVE  orphan' \subseteq orphan
    BY <2>2 DEF Arrives, Starts, Yields, Finishes, Breaks, RaisesOut, ThreadReturns, Hears,
                ConnectionFails, Enqueue, Acquire, Release, Withdraw, StepEnds, ThreadEnds,
                workerVars
  <2>3. ASSUME NEW k \in Chat, Disconnects(k)
        PROVE  /\ stream[k].state \in {"closed", "failed"}
               /\ orphan' = orphan \/ orphan' = orphan \cup {k}
    BY <2>3 DEF Disconnects, Cancel, CancelStream, CancelGenerate, CancelStep, Withdraw, Release
  <2> QED
    BY <2>1, <2>2, <2>3 DEF Next
<1>2. \A k \in orphan' : k \in Chat /\ stream[k].state \in {"closed", "failed"}
  BY <1>1 DEF SystemInv, Abandoned
<1> QED
  BY <1>2, StreamsStep DEF Abandoned, GoesOn

(* Where a question's request is in the worker after each operation. *)
LEMMA RequestMoves ==
  ASSUME WorkerTypeOK, NEW k \in Chat
  PROVE  /\ Enqueue(k) => request[k] = "new" /\ request' = [request EXCEPT ![k] = "queued"]
         /\ \A how : Acquire(k, how) =>
              request[k] = "queued" /\ request' = [request EXCEPT ![k] = how]
         /\ Release(k) \/ Withdraw(k) =>
              request[k] \in Live /\ request' = [request EXCEPT ![k] = "over"]
         /\ Cancel(k) =>
              /\ request[k] \in Live
              /\ \E state \in {"over", "closing"} : request' = [request EXCEPT ![k] = state]
         /\ StepEnds(k) => request[k] = "closing" /\ request' = [request EXCEPT ![k] = "over"]
         /\ ThreadEnds(k) => request' = request
BY DEF Enqueue, Acquire, Release, Withdraw, Cancel, CancelStream, CancelStep, CancelGenerate,
       StepEnds, ThreadEnds, MoveTo, Live

(* How the endpoints change the record of a question. *)
LEMMA ChatMoves ==
  ASSUME Server!TypeOK, NEW k \in Chat
  PROVE  /\ Server!Complete(k) =>
              /\ chat[k].state = "new" /\ history' = history
              /\ chat' = [chat EXCEPT ![k] =
                   [state |-> "waiting", conv |-> chat[k].conv, kind |-> chat[k].kind,
                    chat_order |-> Len(history[chat[k].conv]) + 1]]
         /\ Server!Answered(k) \/ Server!StreamBreaks(k) =>
              /\ chat[k].state = "waiting"
              /\ chat' = [chat EXCEPT ![k].state = "stored"]
              /\ \A c \in Conv : c # chat[k].conv => history'[c] = history[c]
         /\ Server!Answered(k) =>
              history'[chat[k].conv] = history[chat[k].conv] \o <<Server!RoundOf(k, 1)>>
         /\ Server!Lost(k) =>
              /\ chat[k].state = "waiting" /\ history' = history
              /\ chat' = [chat EXCEPT ![k].state = "lost"]
<1>1. history \in [Conv -> Seq(Server!Round)] /\ chat[k].conv \in Conv
  BY DEF Server!TypeOK
<1>2. Server!Complete(k) =>
        /\ chat[k].state = "new" /\ history' = history
        /\ chat' = [chat EXCEPT ![k] =
             [state |-> "waiting", conv |-> chat[k].conv, kind |-> chat[k].kind,
              chat_order |-> Len(history[chat[k].conv]) + 1]]
  BY DEF Server!Complete, Server!Begin, Server!Begun
<1>3. Server!Answered(k) \/ Server!StreamBreaks(k) =>
        /\ chat[k].state = "waiting"
        /\ chat' = [chat EXCEPT ![k].state = "stored"]
        /\ \A c \in Conv : c # chat[k].conv => history'[c] = history[c]
  BY <1>1 DEF Server!Answered, Server!StreamBreaks, Server!append
<1>4. Server!Answered(k) =>
        history'[chat[k].conv] = history[chat[k].conv] \o <<Server!RoundOf(k, 1)>>
  BY <1>1 DEF Server!Answered, Server!append
<1>5. Server!Lost(k) =>
        /\ chat[k].state = "waiting" /\ history' = history
        /\ chat' = [chat EXCEPT ![k].state = "lost"]
  BY DEF Server!Lost
<1> QED
  BY <1>2, <1>3, <1>4, <1>5

(* Endpoint, worker and page stay agreed about each question. *)
LEMMA LinkKept ==
  ASSUME SystemInv, WorkerTypeOK, Server!TypeOK, Next
  PROVE  Link'
<1> USE DEF Live
<1>0. /\ SystemInv /\ WorkerTypeOK /\ Server!TypeOK /\ Link
      /\ request \in [Chat -> RequestState]
      /\ chat \in [Chat -> [state : {"new", "waiting", "stored", "lost"}, conv : Conv,
                            kind : Server!Kind, chat_order : Nat]]
  BY SystemAssumption DEF SystemInv, WorkerTypeOK, Server!TypeOK
<1>g. \A k \in Chat :
        /\ stream'[k].state = "new" => stream[k].state = "new"
        /\ stream'[k].state = "ended" => chat[k].state = "stored"
  BY <1>0, StreamsStep DEF GoesOn, Link
\* What is left of Link when the record of one question changes.
<1> DEFINE Agrees(k) == /\ chat'[k].state = "new" <=> request'[k] = "new"
                        /\ chat'[k].state = "waiting" <=> request'[k] \in Live
                        /\ chat[k].state = "stored" => chat'[k].state = "stored"
                        /\ stream[k].state = "new" => chat'[k].state = "new"
<1>1. ASSUME \A k \in Chat : Agrees(k) PROVE Link'
  BY <1>0, <1>1, <1>g DEF Link
<1>2. ASSUME chat' = chat, request' = request PROVE Link'
  BY <1>0, <1>1, <1>2 DEF Link
<1>3. ASSUME NEW k \in Chat, \A j \in Chat \ {k} : chat'[j] = chat[j] /\ request'[j] = request[j],
             Agrees(k)
      PROVE  Link'
  BY <1>0, <1>1, <1>3 DEF Link
<1>4. CASE User \/ Histories
  BY <1>2, <1>4 DEF User, Histories, workerVars, serverVars
<1>5. ASSUME NEW c \in Conv, DeleteDialogue(c) PROVE Link'
  BY <1>2, <1>5 DEF DeleteDialogue, workerVars, Server!dialogue_delete
<1>6. ASSUME NEW k \in Chat, Arrives(k) PROVE Link'
  <2>1. request' = [request EXCEPT ![k] = "queued"] /\ stream[k].state # "new"
    BY <1>0, <1>6, RequestMoves DEF Arrives
  <2>2. chat' = [chat EXCEPT ![k] =
          [state |-> "waiting", conv |-> chat[k].conv, kind |-> chat[k].kind,
           chat_order |-> Len(history[chat[k].conv]) + 1]] /\ chat[k].state = "new"
    BY <1>0, <1>6, ChatMoves DEF Arrives
  <2> QED
    BY <1>0, <1>3, <2>1, <2>2
<1>7. ASSUME NEW k \in Chat, Finishes(k) \/ Breaks(k) PROVE Link'
  <2>1. request' = [request EXCEPT ![k] = "over"]
    BY <1>0, <1>7, RequestMoves DEF Finishes, Breaks
  <2>2. chat' = [chat EXCEPT ![k].state = "stored"] /\ chat[k].state = "waiting"
    BY <1>0, <1>7, ChatMoves DEF Finishes, Breaks
  <2>3. stream[k].state # "new"
    BY <1>0, <2>2 DEF Link
  <2> QED
    BY <1>0, <1>3, <2>1, <2>2, <2>3
<1>8. ASSUME NEW k \in Chat, RaisesOut(k) \/ Disconnects(k) PROVE Link'
  <2>1. \E state \in {"over", "closing"} : request' = [request EXCEPT ![k] = state]
    BY <1>0, <1>8, RequestMoves DEF RaisesOut, Disconnects
  <2>2. chat' = [chat EXCEPT ![k].state = "lost"] /\ chat[k].state = "waiting"
    BY <1>0, <1>8, ChatMoves DEF RaisesOut, Disconnects
  <2>3. stream[k].state # "new"
    BY <1>0, <2>2 DEF Link
  <2> QED
    BY <1>0, <1>3, <2>1, <2>2, <2>3
<1>9. ASSUME NEW k \in Chat, Starts(k) PROVE Link'
  <2>1. /\ request[k] = "queued" /\ chat' = chat
        /\ \E how \in {"streaming", "generating"} : request' = [request EXCEPT ![k] = how]
    BY <1>0, <1>9, RequestMoves DEF Starts, serverVars
  <2> QED
    BY <1>0, <1>3, <2>1 DEF Link
<1>10. ASSUME NEW k \in Chat, ThreadReturns(k) PROVE Link'
  <2>1. /\ chat' = chat
        /\ \/ request' = request
           \/ request[k] = "closing" /\ request' = [request EXCEPT ![k] = "over"]
    BY <1>0, <1>10, RequestMoves DEF ThreadReturns, serverVars
  <2> QED
    BY <1>0, <1>2, <1>3, <2>1 DEF Link
<1>11. ASSUME NEW k \in Chat,
              Yields(k, "part") \/ Yields(k, "all") \/ Hears(k) \/ ConnectionFails(k)
       PROVE  Link'
  BY <1>2, <1>11 DEF Yields, Hears, ConnectionFails, workerVars, serverVars
<1> QED
  BY <1>4, <1>5, <1>6, <1>7, <1>8, <1>9, <1>10, <1>11 DEF Next

(* Questions stay with their dialogue, stored ones stay stored, and nothing is *)
(* sent to a connection whose chat has ended.                                  *)
LEMMA ChatsGoOn ==
  ASSUME SystemInv, WorkerTypeOK, Server!TypeOK, Next, NEW k \in Chat
  PROVE  /\ chat'[k].conv = chat[k].conv /\ chat'[k].kind = chat[k].kind
         /\ chat[k].state = "stored" => chat'[k].state = "stored"
         /\ chat[k].state = "stored" => wire'[k] = wire[k]
<1>0. /\ SystemInv /\ WorkerTypeOK /\ Server!TypeOK /\ Link
      /\ wire \in [Chat -> {"none", "part", "all"}]
      /\ chat \in [Chat -> [state : {"new", "waiting", "stored", "lost"}, conv : Conv,
                            kind : Server!Kind, chat_order : Nat]]
  BY DEF SystemInv, WireTypeOK, Server!TypeOK
<1> DEFINE Goal == /\ chat'[k].conv = chat[k].conv /\ chat'[k].kind = chat[k].kind
                   /\ chat[k].state = "stored" => chat'[k].state = "stored"
                   /\ chat[k].state = "stored" => wire'[k] = wire[k]
<1>1. CASE User \/ Histories
  BY <1>1 DEF User, Histories, serverVars
<1>2. ASSUME NEW c \in Conv, DeleteDialogue(c) PROVE Goal
  BY <1>2 DEF DeleteDialogue, Server!dialogue_delete
<1>3. ASSUME NEW j \in Chat, Arrives(j) PROVE Goal
  <2>1. /\ wire' = wire /\ chat[j].state = "new"
        /\ chat' = [chat EXCEPT ![j] =
             [state |-> "waiting", conv |-> chat[j].conv, kind |-> chat[j].kind,
              chat_order |-> Len(history[chat[j].conv]) + 1]]
    BY <1>0, <1>3, ChatMoves DEF Arrives
  <2> QED
    BY <1>0, <2>1
<1>4. ASSUME NEW j \in Chat, Finishes(j) \/ Breaks(j) PROVE Goal
  <2>1. /\ \A i \in Chat \ {j} : wire'[i] = wire[i]
        /\ chat[j].state = "waiting" /\ chat' = [chat EXCEPT ![j].state = "stored"]
    BY <1>0, <1>4, ChatMoves DEF Finishes, Breaks
  <2> QED
    BY <1>0, <2>1
<1>5. ASSUME NEW j \in Chat, RaisesOut(j) \/ Disconnects(j) PROVE Goal
  <2>1. /\ \A i \in Chat \ {j} : wire'[i] = wire[i]
        /\ chat[j].state = "waiting" /\ chat' = [chat EXCEPT ![j].state = "lost"]
    BY <1>0, <1>5, ChatMoves DEF RaisesOut, Disconnects
  <2> QED
    BY <1>0, <2>1
<1>6. ASSUME NEW j \in Chat, Yields(j, "part") \/ Yields(j, "all") PROVE Goal
  <2>1. /\ \A i \in Chat \ {j} : wire'[i] = wire[i]
        /\ chat' = chat /\ request[j] = "streaming"
    BY <1>0, <1>6 DEF Yields, serverVars
  <2>2. chat[j].state = "waiting"
    BY <1>0, <2>1 DEF Link, Live
  <2> QED
    BY <2>1, <2>2
<1>7. ASSUME NEW j \in Chat, Starts(j) \/ ThreadReturns(j) \/ Hears(j) \/ ConnectionFails(j)
      PROVE  Goal
  BY <1>7 DEF Starts, ThreadReturns, Hears, ConnectionFails, serverVars
<1> QED
  BY <1>1, <1>2, <1>3, <1>4, <1>5, <1>6, <1>7 DEF Next

(* A stream that was cut short stays so. *)
LEMMA CutShortGrows ==
  ASSUME SystemInv, WorkerTypeOK, Server!TypeOK, Next
  PROVE  CutShort \subseteq CutShort'
BY ChatsGoOn DEF CutShort

(* Only what is stored of questions of a dialogue is in its history, and a     *)
(* second answer only of streams that ended without the whole one.             *)
LEMMA HomedKept ==
  ASSUME SystemInv, WorkerTypeOK, Server!TypeOK, Next
  PROVE  Homed'
<1>0. /\ Homed
      /\ chat \in [Chat -> [state : {"new", "waiting", "stored", "lost"}, conv : Conv,
                            kind : Server!Kind, chat_order : Nat]]
      /\ history \in [Conv -> Seq(Server!Round)]
  BY DEF SystemInv, Server!TypeOK
<1>1. \A c \in Conv : \A i \in DOMAIN history[c] : history[c][i].chat \in Chat
  <2>1. ASSUME NEW c \in Conv, NEW i \in DOMAIN history[c] PROVE history[c][i] \in Server!Round
    <3>1. history[c] \in Seq(Server!Round)
      BY <1>0
    <3> QED
      BY <3>1
  <2> QED
    BY <2>1 DEF Server!Round
<1>2. /\ CutShort \subseteq CutShort'
      /\ \A k \in Chat : /\ chat'[k].conv = chat[k].conv
                         /\ chat[k].state = "stored" => chat'[k].state = "stored"
  BY ChatsGoOn, CutShortGrows
\* What Homed says of one round.
<1> DEFINE Fine(round, c) == /\ chat[round.chat].conv = c /\ chat[round.chat].state = "stored"
                             /\ round.views = 2 => round.chat \in CutShort
           Fine2(round, c) == /\ chat'[round.chat].conv = c /\ chat'[round.chat].state = "stored"
                              /\ round.views = 2 => round.chat \in CutShort'
<1>h. /\ \A c \in Conv : \A i \in DOMAIN history[c] : Fine2(history[c][i], c)
      /\ (\A c \in Conv : \A i \in DOMAIN history'[c] : Fine2(history'[c][i], c)) => Homed'
  BY <1>0, <1>1, <1>2 DEF Homed
<1> HIDE DEF Fine2
<1>3. ASSUME NEW c \in Conv, history'[c] = history[c] \/ history'[c] = <<>>
      PROVE  \A i \in DOMAIN history'[c] : Fine2(history'[c][i], c)
  BY <1>h, <1>3
<1>4. ASSUME NEW k \in Chat, Finishes(k) \/ Breaks(k), NEW c \in Conv
      PROVE  \A i \in DOMAIN history'[c] : Fine2(history'[c][i], c)
  <2>1. /\ chat' = [chat EXCEPT ![k].state = "stored"]
        /\ \A d \in Conv : d # chat[k].conv => history'[d] = history[d]
    BY <1>4, ChatMoves DEF Finishes, Breaks
  <2>2. CASE c # chat[k].conv
    BY <1>3, <2>1, <2>2
  <2>3. CASE c = chat[k].conv
    <3> DEFINE one == Server!RoundOf(k, 1)
               two == Server!RoundOf(k, 2)
    <3>1. chat'[k].conv = c /\ chat'[k].state = "stored"
      BY <1>0, <2>1, <2>3
    <3>2. one.chat = k /\ one.views = 1 /\ two.chat = k /\ two.views = 2
      BY DEF Server!RoundOf
    <3>3. Fine2(one, c)
      BY <3>1, <3>2 DEF Fine2
    <3>4. history[c] \in Seq(Server!Round)
      BY <1>0
    <3>5. CASE Finishes(k)
      <4>1. history'[c] = history[c] \o <<one>>
        BY <2>3, <3>5, ChatMoves DEF Finishes
      <4>2. \A i \in DOMAIN history'[c] :
              history'[c][i] = one \/ (i \in DOMAIN history[c] /\ history'[c][i] = history[c][i])
        BY <3>4, <4>1
      <4> QED
        BY <1>h, <3>3, <4>2
    <3>6. CASE Breaks(k)
      <4>1. history'[c] = history[c] \o <<one, two>>
        BY <1>0, <2>3, <3>6 DEF Breaks, Server!StreamBreaks, Server!append
      <4>2. \A i \in DOMAIN history'[c] :
              \/ history'[c][i] \in {one, two}
              \/ i \in DOMAIN history[c] /\ history'[c][i] = history[c][i]
        BY <3>4, <4>1
      <4>3. k \in CutShort'
        <5>1. chat[k].kind = "stream" /\ wire'[k] # "all"
          BY <3>6 DEF Breaks, Server!StreamBreaks
        <5>2. chat'[k].kind = "stream"
          BY <5>1, ChatsGoOn
        <5> QED
          BY <3>1, <5>1, <5>2 DEF CutShort
      <4>4. Fine2(two, c)
        BY <3>1, <3>2, <4>3 DEF Fine2
      <4> QED
        BY <1>h, <3>3, <4>2, <4>4
    <3> QED
      BY <1>4, <3>5, <3>6
  <2> QED
    BY <2>2, <2>3
<1>5. CASE history' = history
  BY <1>3, <1>5, <1>h
<1>6. ASSUME NEW d \in Conv, DeleteDialogue(d) PROVE Homed'
  <2>1. \A c \in Conv : history'[c] = history[c] \/ history'[c] = <<>>
    BY <1>0, <1>6 DEF DeleteDialogue, Server!dialogue_delete
  <2> QED
    BY <1>3, <1>h, <2>1
<1>7. User \/ Histories => history' = history
  BY DEF User, Histories, serverVars
<1>8. ASSUME NEW k \in Chat, Arrives(k) \/ RaisesOut(k) \/ Disconnects(k)
      PROVE  history' = history
  BY <1>8, ChatMoves DEF Arrives, RaisesOut, Disconnects
<1>9. ASSUME NEW k \in Chat,
             \/ Starts(k) \/ Yields(k, "part") \/ Yields(k, "all") \/ ThreadReturns(k)
             \/ Hears(k) \/ ConnectionFails(k)
      PROVE  history' = history
  BY <1>9 DEF Starts, Yields, ThreadReturns, Hears, ConnectionFails, serverVars
<1> QED
  BY <1>4, <1>5, <1>6, <1>7, <1>8, <1>9, <1>h DEF Next

(* A page that was never opened. *)
LEMMA SystemStarts == Init => SystemInv
<1> SUFFICES ASSUME Init PROVE SystemInv
  OBVIOUS
<1>1. WebInit /\ orphan = {} /\ wire = [k \in Chat |-> "none"] /\ user \in {"patient", "hasty"}
  BY DEF Init, WorkerInit
<1>c. PICK B : B = CutShort
  OBVIOUS
<1>2. ~IsOpen /\ Heard = {}
  BY <1>1 DEF WebInit, IsOpen, Heard, Home
<1>3. /\ page \in Page
      /\ fetch \in [state : {"none", "asked", "answered", "loaded", "failed"},
                    messages : Seq(Message)]
      /\ Paired(shown, B) /\ Paired(fetch.messages, B) /\ shown \in Seq(Message) /\ busy = FALSE
      /\ page.direct /\ page.message = NoChat /\ fetch.state = "none"
  BY <1>1, EmptyPaired DEF WebInit, Home, Page, NoFetch
<1>4. /\ \A k \in Chat : stream[k].state = "new" /\ stream[k].posts = 0
      /\ stream \in [Chat -> Stream]
  BY <1>1, EmptyPaired DEF WebInit, Stream, Text
<1>5. WebTypeOK /\ WebPaired(B)
  BY <1>2, <1>3, <1>4 DEF WebTypeOK, WebPaired
<1>6. WebLock /\ WebPosts /\ WebFetch
  BY <1>2, <1>3, <1>4 DEF WebLock, WebPosts, WebFetch
<1>7. Link
  <2>1. \A k \in Chat : chat[k].state = "new" /\ request[k] = "new"
    BY SystemAssumption DEF Init, WorkerInit, Server!Init
  <2> QED
    BY <1>4, <2>1 DEF Link, Live
<1>8. Homed
  <2>1. \A c \in Conv : history[c] = <<>>
    BY DEF Init, Server!Init
  <2> QED
    BY <2>1 DEF Homed
<1> QED
  BY <1>1, <1>c, <1>5, <1>6, <1>7, <1>8 DEF SystemInv, WebInv, WireTypeOK, Abandoned

(* What is on the page stays paired when more streams were cut short. *)
LEMMA MoreOnPage ==
  ASSUME NEW B, NEW C, B \subseteq C, WebInv(B)'
  PROVE  WebInv(C)'
<1>1. ASSUME NEW s, Paired(s, B) PROVE Paired(s, C)
  BY <1>1, MorePaired
<1>2. WebPaired(C)'
  BY <1>1 DEF WebInv, WebPaired
<1> QED
  BY <1>2 DEF WebInv

(* Every step keeps what is known of the page, the wire and the threads. *)
LEMMA SystemStep ==
  ASSUME SystemInv, WorkerTypeOK, Server!TypeOK, Next
  PROVE  SystemInv'
<1>1. WebInv(CutShort)'
  <2>1. PICK B : B = CutShort
    OBVIOUS
  <2>2. PICK C : C = CutShort'
    OBVIOUS
  <2>3. WebInv(B)
    BY <2>1 DEF SystemInv
  <2>4. ASSUME WebQuiet(B) \/ \E k \in Chat : Ends(k) PROVE WebInv(B)'
    BY <2>3, <2>4, WebStepKeeps DEF WebStep, Ends
  <2>5. ASSUME UNCHANGED webVars PROVE WebInv(B)'
    BY <2>3, <2>5 DEF webVars, WebInv, WebTypeOK, WebPaired, WebLock, WebPosts, WebFetch,
                Heard, IsOpen
  <2>6. WebInv(B)'
    BY <2>1, <2>4, <2>5, WebSteps
  <2>7. B \subseteq C
    BY <2>1, <2>2, CutShortGrows
  <2>8. WebInv(C)'
    BY <2>6, <2>7, MoreOnPage
  <2> QED
    BY <2>2, <2>8
<1>2. WireTypeOK'
  <2>1. User \/ Histories \/ (\E c \in Conv : DeleteDialogue(c)) => UNCHANGED <<wire, user>>
    BY DEF User, Histories, DeleteDialogue
  <2>2. ASSUME NEW k \in Chat,
               \/ Arrives(k) \/ Starts(k) \/ Breaks(k) \/ RaisesOut(k) \/ ThreadReturns(k)
               \/ Hears(k) \/ ConnectionFails(k)
        PROVE  UNCHANGED <<wire, user>>
    BY <2>2 DEF Arrives, Starts, Breaks, RaisesOut, ThreadReturns, Hears, ConnectionFails
  <2>3. ASSUME NEW k \in Chat,
               Yields(k, "part") \/ Yields(k, "all") \/ Finishes(k) \/ Disconnects(k)
        PROVE  /\ user' = user
               /\ \E w \in {"none", "part", "all"} : wire' = [wire EXCEPT ![k] = w]
    <3>1. wire[k] \in {"none", "part", "all"}
      BY DEF SystemInv, WireTypeOK
    <3> QED
      BY <2>3, <3>1 DEF Yields, Finishes, Disconnects
  <2>4. \/ UNCHANGED <<wire, user>>
        \/ user' = user /\ \E k \in Chat, w \in {"none", "part", "all"} :
                              wire' = [wire EXCEPT ![k] = w]
    BY <2>1, <2>2, <2>3 DEF Next
  <2> QED
    BY <2>4 DEF SystemInv, WireTypeOK
<1> QED
  BY <1>1, <1>2, AbandonedKept, LinkKept, HomedKept DEF SystemInv

(* What the page, the wire and the threads keep true, always. *)
THEOREM SystemKeeps == Spec => []SystemInv
<1>1. ASSUME SystemInv, UNCHANGED vars PROVE SystemInv'
  <2>1. CutShort' = CutShort
    BY <1>1 DEF vars, serverVars, CutShort
  <2>2. WebInv(CutShort)'
    <3>1. PICK B : B = CutShort
      OBVIOUS
    <3>2. WebInv(B)
      BY <1>1, <3>1 DEF SystemInv
    <3>3. WebInv(B)'
      BY <1>1, <3>2 DEF vars, webVars, WebInv, WebTypeOK, WebPaired, WebLock, WebPosts,
                        WebFetch, Heard, IsOpen
    <3>4. B = CutShort'
      BY <2>1, <3>1
    <3> QED
      BY <3>3, <3>4
  <2>3. (WireTypeOK /\ Abandoned /\ Link)'
    BY <1>1 DEF vars, webVars, workerVars, serverVars, SystemInv, WireTypeOK, Abandoned, Link
  <2>4. Homed'
    BY <1>1, <2>1 DEF vars, serverVars, SystemInv, Homed
  <2> QED
    BY <2>2, <2>3, <2>4 DEF SystemInv
<1>2. SystemInv /\ WorkerTypeOK /\ Server!TypeOK /\ [Next]_vars => SystemInv'
  BY <1>1, SystemStep
<1> QED
  BY <1>2, SystemStarts, ServerTypes, WorkerImplemented, WorkerTypes, PTL DEF Spec
-----------------------------------------------------------------------------
(* The properties *)

(* A set whose members are all the same. *)
LEMMA AtMostOne ==
  ASSUME NEW S, \A j, k \in S : j = k
  PROVE  Cardinality(S) <= 1
<1>1. CASE S = {}
  BY <1>1, FS_EmptySet
<1>2. CASE S # {}
  <2>1. PICK k : S = {k}
    BY <1>2
  <2> QED
    BY <2>1, FS_Singleton
<1> QED
  BY <1>1, <1>2

(* Page, worker, table and wire stay well typed. *)
THEOREM SystemTypes == Spec => []TypeOK
<1>1. SystemInv /\ WorkerTypeOK /\ Server!TypeOK => TypeOK
  BY DEF SystemInv, WebInv, WireTypeOK, TypeOK
<1> QED
  BY <1>1, SystemKeeps, ServerTypes, WorkerImplemented, WorkerTypes, PTL

(* An answer stands right below its own question, in whichever dialogue the   *)
(* page is when it comes in; only what is stored of a stream that ended        *)
(* without the whole answer may have another answer to it in between.          *)
THEOREM AnswersAlwaysFollow == Spec => []AnswersFollowQuestions
<1>1. SystemInv => AnswersFollowQuestions
  BY DEF SystemInv, WebInv, WebPaired, Paired, Follows, AnswersFollowQuestions
<1> QED
  BY <1>1, SystemKeeps, PTL

(* A disabled button waits for an answer that enables it, and a page without  *)
(* an initial message awaits one answer at most, with its button disabled.    *)
THEOREM LockAlwaysHolds == Spec => []LockHolds
<1>1. SystemInv => LockHolds
  <2> SUFFICES ASSUME SystemInv PROVE LockHolds
    OBVIOUS
  <2>1. WebLock
    BY DEF SystemInv, WebInv
  <2>2. page.direct => Cardinality(Heard) <= 1
    BY <2>1, AtMostOne DEF WebLock
  <2> QED
    BY <2>1, <2>2 DEF WebLock, LockHolds
<1> QED
  BY <1>1, SystemKeeps, PTL

(* No question is posted twice. *)
THEOREM AskedOnceAlways == Spec => []AskedOnce
<1>1. SystemInv => AskedOnce
  BY DEF SystemInv, WebInv, WebPosts, AskedOnce
<1> QED
  BY <1>1, SystemKeeps, PTL

(* More threads than the limit generate only when one of them works for a     *)
(* connection that was cut: the semaphore bounds the others.                  *)
THEOREM OverloadAlwaysAbandoned == Spec => []OverloadIsAbandoned
<1>1. SystemInv /\ WorkerTypeOK /\ PermitsBalance => OverloadIsAbandoned
  <2> SUFFICES ASSUME SystemInv, WorkerTypeOK, PermitsBalance, Cardinality(Working) > Limit
               PROVE  \E k \in Working : stream[k].state \in {"closed", "failed"}
    BY DEF OverloadIsAbandoned
  <2>1. permits \in Nat /\ Limit \in Nat /\ Cardinality(Holders) \in Nat
    BY WorkerAssumption, HoldersFinite DEF WorkerTypeOK
  <2>2. Cardinality(Holders) <= Limit
    BY <2>1 DEF PermitsBalance
  <2>3. Working # Holders
    BY <2>1, <2>2
  <2>4. PICK k \in orphan : k \in Working
    BY <2>3 DEF Working
  <2> QED
    BY <2>4 DEF SystemInv, Abandoned
<1> QED
  BY <1>1, SystemKeeps, WorkerImplemented, WorkerTypes, PermitsAlwaysBalance, PTL
-----------------------------------------------------------------------------
(* Patient users *)

OneHeard == user = "patient" => \A j, k \in Heard : j = k

Numbered(c) == \A i \in DOMAIN history[c] : history[c][i].chat_order = i

\* The round on its way fits what is stored.
Expected(c) ==
  \A k \in Server!Waiting(c) : chat[k].chat_order = Len(history[c]) + 1

PatientNumbers ==
  user = "patient" => \A c \in Conv : Undisturbed(c) => Numbered(c) /\ Expected(c)

PatientInv == OneHeard /\ PatientNumbers

AllInv == SystemInv /\ WorkerTypeOK /\ Server!TypeOK /\ PatientInv

(* A patient user awaits one answer at a time. *)
LEMMA OneHeardKept ==
  ASSUME AllInv, Next
  PROVE  OneHeard'
<1>1. stream \in [Chat -> Stream] /\ OneHeard
  BY DEF AllInv, PatientInv, SystemInv, WebInv, WebTypeOK
<1>2. ASSUME user' = user, Heard' \subseteq Heard PROVE OneHeard'
  BY <1>1, <1>2 DEF OneHeard
<1>3. ASSUME stream' = stream PROVE Heard' = Heard
  BY <1>3 DEF Heard
<1>4. ASSUME Leave \/ Reload PROVE Heard' \subseteq Heard
  <2>0. PICK B : B = CutShort
    OBVIOUS
  <2>1. \A k \in Chat : StreamInv(k, stream[k], B)
    BY <1>1, <2>0, StreamByStream DEF AllInv, SystemInv, WebInv, WebPaired
  <2>2. PICK states \in SUBSET {"open", "unheard"}, to \in {"unheard", "closed"} :
          "open" \in states /\ stream' = Dropped(states, to)
    BY <1>4 DEF Leave, Reload
  <2> QED
    BY <1>1, <2>1, <2>2, AllDropped
<1>5. ASSUME NEW k \in Chat, StreamFails(k) \/ UnheardFails(k) \/ StreamEnds(k)
      PROVE  Heard' \subseteq Heard
  <2>1. \A j \in Chat \ {k} : stream'[j] = stream[j]
    BY <1>1, <1>5 DEF StreamFails, UnheardFails, StreamEnds
  <2>2. stream'[k].state \in {"failed", "closed", "ended"}
    BY <1>1, <1>5 DEF StreamFails, UnheardFails, StreamEnds, Stream
  <2> QED
    BY <2>1, <2>2 DEF Heard
<1>6. ASSUME NEW k \in Chat, NEW text, Chunk(k, text) PROVE Heard' \subseteq Heard
  BY <1>1, <1>6 DEF Chunk, Heard
<1>7. CASE User
  <2>1. user' = user /\ MayAct
    BY <1>7 DEF User
  <2>2. CASE Leave \/ Reload
    BY <1>2, <1>4, <2>1, <2>2
  <2>3. CASE \E c \in Conv, path \in ChatPath : Open(c, path) \/ Switch(c, path)
    BY <1>2, <1>3, <2>1, <2>3 DEF Open, Switch
  <2>4. ASSUME NEW k \in Chat, NEW s, stream' = Posted(k, s) PROVE OneHeard'
    <3>1. Heard' \subseteq Heard \cup {k}
      BY <1>1, <2>4 DEF Posted, Heard
    <3> QED
      BY <2>1, <3>1 DEF OneHeard, MayAct
  <2> QED
    BY <1>7, <2>2, <2>3, <2>4 DEF User, OpenWithMessage, handleChatSubmit
<1>8. CASE Histories
  BY <1>2, <1>3, <1>8 DEF Histories, HistoryAnswered, HistoryArrives, HistoryFails
<1>9. ASSUME NEW c \in Conv, DeleteDialogue(c) PROVE OneHeard'
  BY <1>2, <1>3, <1>4, <1>9 DEF DeleteDialogue, LoseDialogue, webVars
<1>10. ASSUME NEW k \in Chat,
              \/ Arrives(k) \/ Starts(k) \/ Yields(k, "part") \/ Yields(k, "all")
              \/ Finishes(k) \/ Breaks(k) \/ Disconnects(k) \/ ThreadReturns(k)
       PROVE  OneHeard'
  <2>1. stream' = stream /\ user' = user
    BY <1>10 DEF Arrives, Starts, Yields, Finishes, Breaks, Disconnects, ThreadReturns, webVars
  <2> QED
    BY <1>2, <1>3, <2>1
<1>11. ASSUME NEW k \in Chat, RaisesOut(k) \/ ConnectionFails(k) PROVE OneHeard'
  BY <1>2, <1>3, <1>5, <1>11 DEF RaisesOut, ConnectionFails, webVars
<1>12. ASSUME NEW k \in Chat, Hears(k) PROVE OneHeard'
  BY <1>2, <1>5, <1>6, <1>12 DEF Hears
<1> QED
  BY <1>7, <1>8, <1>9, <1>10, <1>11, <1>12 DEF Next

(* A dialogue that is undisturbed has always been so. *)
LEMMA UndisturbedBefore ==
  ASSUME AllInv, Next, NEW c \in Conv, Undisturbed(c)'
  PROVE  Undisturbed(c)
<1> SUFFICES ASSUME NEW k \in Chat, chat[k].conv = c, stream[k].state # "new"
             PROVE  \/ stream[k].state = "ended" /\ stream[k].text = "all"
                    \/ stream[k].state = "open" /\ (chat[k].state = "stored" => wire[k] = "all")
  BY DEF Undisturbed
<1>1. /\ GoesOn(k)
      /\ stream'[k].state = "ended" /\ stream[k].state # "ended" =>
           wire[k] = stream[k].text /\ chat[k].state = "stored"
  BY StreamsStep DEF AllInv
<1>2. /\ chat'[k].conv = c
      /\ chat[k].state = "stored" => chat'[k].state = "stored" /\ wire'[k] = wire[k]
  BY ChatsGoOn DEF AllInv
<1>3. \/ stream'[k].state = "ended" /\ stream'[k].text = "all"
      \/ stream'[k].state = "open" /\ (chat'[k].state = "stored" => wire'[k] = "all")
  BY <1>1, <1>2 DEF Undisturbed, GoesOn
<1> QED
  BY <1>1, <1>2, <1>3 DEF GoesOn

(* The only question that waits in an undisturbed dialogue is the one heard. *)
LEMMA WaitingIsHeard ==
  ASSUME AllInv, NEW c \in Conv, Undisturbed(c)
  PROVE  Server!Waiting(c) \subseteq Heard
<1> SUFFICES ASSUME NEW k \in Chat, chat[k].conv = c, chat[k].state = "waiting"
             PROVE  stream[k].state = "open"
  BY DEF Server!Waiting, Heard
<1>1. stream[k].state # "new" /\ stream[k].state # "ended"
  BY DEF AllInv, SystemInv, Link
<1> QED
  BY <1>1 DEF Undisturbed

(* A step that touches neither the rounds nor the chats of a dialogue. *)
LEMMA OtherDialogue ==
  ASSUME NEW c \in Conv, history'[c] = history[c],
         \A k \in Chat : chat'[k].conv = chat[k].conv,
         \A k \in Chat : chat[k].conv = c => chat'[k] = chat[k],
         Numbered(c), Expected(c)
  PROVE  (Numbered(c) /\ Expected(c))'
BY DEF Numbered, Expected, Server!Waiting

(* The rounds of a patient user stay numbered. *)
LEMMA NumbersKept ==
  ASSUME AllInv, Next
  PROVE  PatientNumbers'
<1> SUFFICES ASSUME user = "patient", NEW c \in Conv, Undisturbed(c)'
             PROVE  (Numbered(c) /\ Expected(c))'
  <2>1. user' = user
    BY DEF Next, User, Histories, DeleteDialogue, Arrives, Starts, Yields, Finishes, Breaks,
           RaisesOut, Disconnects, ThreadReturns, Hears, ConnectionFails
  <2> QED
    BY <2>1 DEF PatientNumbers
<1> DEFINE Goal == (Numbered(c) /\ Expected(c))'
<1>0. /\ SystemInv /\ WorkerTypeOK /\ Server!TypeOK /\ Link
      /\ chat \in [Chat -> [state : {"new", "waiting", "stored", "lost"}, conv : Conv,
                            kind : Server!Kind, chat_order : Nat]]
      /\ history \in [Conv -> Seq(Server!Round)]
  BY DEF AllInv, SystemInv, Server!TypeOK
<1>1. Undisturbed(c)
  BY UndisturbedBefore
<1>2. Numbered(c) /\ Expected(c)
  BY <1>1 DEF AllInv, PatientInv, PatientNumbers
<1>3. Server!Waiting(c) \subseteq Heard /\ \A j, k \in Server!Waiting(c) : j = k
  BY <1>1, WaitingIsHeard DEF AllInv, PatientInv, OneHeard
<1>4. \A k \in Chat : chat'[k].conv = chat[k].conv
  BY ChatsGoOn DEF AllInv
<1>5. ASSUME chat' = chat, history' = history PROVE Goal
  BY <1>2, <1>5, OtherDialogue
<1>6. CASE User \/ Histories
  BY <1>5, <1>6 DEF User, Histories, serverVars
<1>7. ASSUME NEW d \in Conv, DeleteDialogue(d) PROVE Goal
  <2>1. chat' = chat /\ history' = [history EXCEPT ![d] = <<>>] /\ Heard = {}
    BY <1>7 DEF DeleteDialogue, Server!dialogue_delete, MayAct
  <2>2. CASE d = c
    <3>1. history'[c] = <<>> /\ Server!Waiting(c) = {}
      BY <1>0, <1>3, <2>1, <2>2
    <3>2. Server!Waiting(c)' = {}
      BY <2>1, <3>1 DEF Server!Waiting
    <3> QED
      BY <3>1, <3>2 DEF Numbered, Expected
  <2>3. CASE d # c
    BY <1>0, <1>2, <2>1, <2>3, OtherDialogue
  <2> QED
    BY <2>2, <2>3
<1>8. ASSUME NEW k \in Chat, Arrives(k) PROVE Goal
  <2>1. /\ chat[k].state = "new" /\ history' = history
        /\ chat' = [chat EXCEPT ![k] =
             [state |-> "waiting", conv |-> chat[k].conv, kind |-> chat[k].kind,
              chat_order |-> Len(history[chat[k].conv]) + 1]]
    BY <1>0, <1>8, ChatMoves DEF Arrives
  <2>2. Numbered(c)'
    BY <1>2, <2>1 DEF Numbered
  <2>3. \A j \in Chat : j # k => chat'[j] = chat[j]
    BY <1>0, <2>1
  <2>4. chat'[k].conv = chat[k].conv /\ chat'[k].chat_order = Len(history[chat[k].conv]) + 1
    BY <1>0, <2>1
  <2>5. Expected(c)'
    BY <1>2, <2>1, <2>3, <2>4 DEF Expected, Server!Waiting
  <2> QED
    BY <2>2, <2>5
<1>9. ASSUME NEW k \in Chat, Finishes(k) PROVE Goal
  <2>1. /\ chat[k].state = "waiting" /\ chat' = [chat EXCEPT ![k].state = "stored"]
        /\ \A d \in Conv : d # chat[k].conv => history'[d] = history[d]
        /\ history'[chat[k].conv] = history[chat[k].conv] \o <<Server!RoundOf(k, 1)>>
    BY <1>0, <1>9, ChatMoves DEF Finishes
  <2>2. CASE chat[k].conv # c
    BY <1>0, <1>2, <1>4, <2>1, <2>2, OtherDialogue
  <2>3. CASE chat[k].conv = c
    <3>1. k \in Server!Waiting(c)
      BY <2>1, <2>3 DEF Server!Waiting
    <3>2. chat[k].chat_order = Len(history[c]) + 1
      BY <1>2, <3>1 DEF Expected
    <3>3. Server!RoundOf(k, 1).chat_order = Len(history[c]) + 1
      BY <3>2 DEF Server!RoundOf
    <3>4. /\ DOMAIN history'[c] = 1..(Len(history[c]) + 1) /\ Len(history[c]) \in Nat
          /\ DOMAIN history[c] = 1..Len(history[c])
          /\ history'[c][Len(history[c]) + 1] = Server!RoundOf(k, 1)
          /\ \A i \in 1..Len(history[c]) : history'[c][i] = history[c][i]
      BY <1>0, <2>1, <2>3
    <3>5. Numbered(c)'
      BY <1>2, <3>3, <3>4 DEF Numbered
    <3>6. Server!Waiting(c)' = {}
      BY <1>0, <1>3, <2>1, <3>1 DEF Server!Waiting
    <3> QED
      BY <3>5, <3>6 DEF Expected
  <2> QED
    BY <2>2, <2>3
<1>10. ASSUME NEW k \in Chat, Breaks(k) PROVE Goal
  <2>1. /\ chat[k].state = "waiting" /\ chat' = [chat EXCEPT ![k].state = "stored"]
        /\ \A d \in Conv : d # chat[k].conv => history'[d] = history[d]
        /\ wire[k] # "all" /\ wire' = wire /\ stream' = stream
    BY <1>0, <1>10, ChatMoves DEF Breaks, webVars
  <2>2. chat[k].conv # c
    <3>1. stream'[k].state # "new" /\ stream'[k].state # "ended"
      BY <1>0, <2>1 DEF Link
    <3>2. chat'[k].state = "stored"
      BY <1>0, <2>1
    <3> QED
      BY <1>4, <2>1, <3>1, <3>2 DEF Undisturbed
  <2> QED
    BY <1>0, <1>2, <1>4, <2>1, <2>2, OtherDialogue
<1>11. ASSUME NEW k \in Chat, RaisesOut(k) \/ Disconnects(k) PROVE Goal
  <2>1. /\ chat' = [chat EXCEPT ![k].state = "lost"] /\ history' = history
        /\ chat[k].state = "waiting"
    BY <1>0, <1>11, ChatMoves DEF RaisesOut, Disconnects
  <2>2. stream'[k].state \in {"closed", "failed"}
    <3>1. stream \in [Chat -> Stream]
      BY <1>0 DEF SystemInv, WebInv, WebTypeOK
    <3> QED
      BY <1>11, <3>1 DEF RaisesOut, Disconnects, StreamFails, UnheardFails, Stream, webVars
  <2>3. chat[k].conv # c
    BY <1>4, <2>2 DEF Undisturbed
  <2> QED
    BY <1>0, <1>2, <1>4, <2>1, <2>3, OtherDialogue
<1>12. ASSUME NEW k \in Chat,
              \/ Starts(k) \/ Yields(k, "part") \/ Yields(k, "all") \/ ThreadReturns(k)
              \/ Hears(k) \/ ConnectionFails(k)
       PROVE  Goal
  BY <1>5, <1>12 DEF Starts, Yields, ThreadReturns, Hears, ConnectionFails, serverVars
<1> QED
  BY <1>6, <1>7, <1>8, <1>9, <1>10, <1>11, <1>12 DEF Next

(* What is known of patient users, always. *)
THEOREM PatientKeeps == Spec => []AllInv
<1>1. Init => PatientInv
  <2> SUFFICES ASSUME Init PROVE PatientInv
    OBVIOUS
  <2>1. /\ \A k \in Chat : chat[k].state = "new" /\ stream[k].state = "new"
        /\ \A c \in Conv : history[c] = <<>>
    BY DEF Init, WebInit, Server!Init
  <2>2. Heard = {} /\ \A c \in Conv : Server!Waiting(c) = {}
    BY <2>1 DEF Heard, Server!Waiting
  <2> QED
    BY <2>1, <2>2 DEF PatientInv, OneHeard, PatientNumbers, Numbered, Expected
<1>2. ASSUME PatientInv, UNCHANGED vars PROVE PatientInv'
  BY <1>2 DEF vars, webVars, workerVars, serverVars, PatientInv, OneHeard, PatientNumbers,
              Heard, Numbered, Expected, Undisturbed, Server!Waiting
<1>3. AllInv /\ [Next]_vars => PatientInv'
  BY <1>2, OneHeardKept, NumbersKept DEF PatientInv, AllInv
<1> QED
  BY <1>1, <1>3, SystemKeeps, WorkerImplemented, WorkerTypes, ServerTypes, PTL DEF Spec, AllInv

(* A user who waits for each answer and each history gets at most one question *)
(* at a time to the server, and the n-th round of a dialogue whose answers     *)
(* came in whole has the number n.                                             *)
THEOREM PatientNumbered == Spec => []PatientRoundsAreNumbered
<1>1. AllInv => PatientRoundsAreNumbered
  <2> SUFFICES ASSUME AllInv, NEW c \in Conv, user = "patient", Undisturbed(c)
               PROVE  /\ Cardinality(Server!Waiting(c)) <= 1
                      /\ \A i \in DOMAIN history[c] : history[c][i].chat_order = i
    BY DEF PatientRoundsAreNumbered
  <2>1. \A j, k \in Server!Waiting(c) : j = k
    BY WaitingIsHeard DEF AllInv, PatientInv, OneHeard
  <2>2. Cardinality(Server!Waiting(c)) <= 1
    BY <2>1, AtMostOne
  <2>3. Numbered(c)
    BY DEF AllInv, PatientInv, PatientNumbers
  <2> QED
    BY <2>2, <2>3 DEF Numbered
<1> QED
  BY <1>1, PatientKeeps, PTL
-----------------------------------------------------------------------------
(* What a patient user sees *)

(* A suffix is what the other sequence ends with, after d other members. *)
LEMMA SuffixMeans ==
  ASSUME NEW S, NEW s \in Seq(S), NEW t \in Seq(S), NEW d \in Nat, Len(t) = d + Len(s)
  PROVE  IsSuffix(s, t) <=> \A i \in 1..Len(s) : s[i] = t[d + i]
<1> DEFINE m == Len(s)
           rs == [i \in 1..m |-> s[(m - i) + 1]]
           rt == [i \in 1..(d + m) |-> t[((d + m) - i) + 1]]
<1>1. m \in Nat /\ d + m \in Nat /\ m <= d + m /\ Len(rs) = m /\ Len(rt) = d + m
  OBVIOUS
<1>2. IsSuffix(s, t) <=> SubSeq(rs, 1, m) = SubSeq(rt, 1, m)
  BY <1>1 DEF IsSuffix, IsPrefix, Reverse
<1>3. /\ SubSeq(rs, 1, m) = [i \in 1..m |-> rs[i]]
      /\ SubSeq(rt, 1, m) = [i \in 1..m |-> rt[i]]
  BY <1>1
<1>4. SubSeq(rs, 1, m) = SubSeq(rt, 1, m) <=> \A i \in 1..m : rs[i] = rt[i]
  BY <1>3
<1>5. \A i \in 1..m : rs[i] = s[(m - i) + 1] /\ rt[i] = t[d + ((m - i) + 1)]
  <2>1. ASSUME NEW i \in 1..m
        PROVE  i \in 1..(d + m) /\ ((d + m) - i) + 1 = d + ((m - i) + 1)
    BY <1>1
  <2> QED
    BY <2>1
<1>6. \A i \in 1..m : (m - i) + 1 \in 1..m /\ (m - ((m - i) + 1)) + 1 = i
  BY <1>1
<1> HIDE DEF m, rs, rt
<1>7. (\A i \in 1..m : rs[i] = rt[i]) <=> \A i \in 1..m : s[i] = t[d + i]
  <2>1. ASSUME \A i \in 1..m : rs[i] = rt[i], NEW i \in 1..m PROVE s[i] = t[d + i]
    <3>1. PICK j \in 1..m : (m - j) + 1 = i
      BY <1>6
    <3> QED
      BY <1>5, <2>1, <3>1
  <2>2. ASSUME \A i \in 1..m : s[i] = t[d + i], NEW i \in 1..m PROVE rs[i] = rt[i]
    <3>1. PICK j \in 1..m : (m - i) + 1 = j
      BY <1>6
    <3>2. rs[i] = s[j] /\ rt[i] = t[d + j]
      BY <1>5, <3>1
    <3> QED
      BY <2>2, <3>2
  <2> QED
    BY <2>1, <2>2
<1> QED
  BY <1>2, <1>4, <1>7 DEF m

(* A suffix is no longer than what it ends. *)
LEMMA SuffixIsShorter ==
  ASSUME NEW S, NEW s \in Seq(S), NEW t \in Seq(S), IsSuffix(s, t)
  PROVE  Len(s) <= Len(t)
BY DEF IsSuffix, IsPrefix, Reverse

(* Nothing and everything are suffixes. *)
LEMMA PlainSuffixes ==
  ASSUME NEW S, NEW t \in Seq(S)
  PROVE  IsSuffix(<<>>, t) /\ IsSuffix(t, t)
<1>1. /\ <<>> \in Seq(S) /\ Len(<<>>) = 0 /\ Len(t) \in Nat
      /\ Len(t) = Len(t) + Len(<<>>) /\ Len(t) = 0 + Len(t)
  OBVIOUS
<1>2. \A i \in 1..Len(t) : t[i] = t[0 + i]
  OBVIOUS
<1>3. IsSuffix(t, t)
  BY <1>1, <1>2, SuffixMeans
<1>4. ASSUME NEW e \in Seq(S), Len(e) = 0 PROVE IsSuffix(e, t)
  <2>1. Len(t) = Len(t) + Len(e) /\ 1..Len(e) = {}
    BY <1>1, <1>4
  <2>2. \A i \in 1..Len(e) : e[i] = t[Len(t) + i]
    BY <2>1
  <2> QED
    BY <1>1, <2>1, <2>2, SuffixMeans
<1> QED
  BY <1>1, <1>3, <1>4

(* A suffix stays one when both sequences get the same question and answer. *)
LEMMA SuffixGrows ==
  ASSUME NEW S, NEW t \in Seq(S), NEW s \in Seq(S), NEW m \in S, NEW n \in S, IsSuffix(s, t)
  PROVE  IsSuffix(Append(Append(s, m), n), Append(Append(t, m), n))
<1> DEFINE ss == Append(Append(s, m), n)
           tt == Append(Append(t, m), n)
           l == Len(s)
<1>1. /\ ss \in Seq(S) /\ Len(ss) = l + 2 /\ l \in Nat /\ ss[l + 1] = m /\ ss[l + 2] = n
      /\ \A i \in 1..l : ss[i] = s[i]
  OBVIOUS
<1>2. PICK d \in Nat : Len(t) = d + l
  <2>1. Len(t) - l \in Nat /\ Len(t) = (Len(t) - l) + l
    BY SuffixIsShorter
  <2> QED
    BY <2>1
<1>3. /\ tt \in Seq(S) /\ Len(tt) = Len(t) + 2
      /\ tt[Len(t) + 1] = m /\ tt[Len(t) + 2] = n
      /\ \A i \in 1..Len(t) : tt[i] = t[i]
  OBVIOUS
<1>4. \A i \in 1..l : s[i] = t[d + i]
  BY <1>2, SuffixMeans
<1> HIDE DEF ss, tt, l
<1>5. /\ Len(tt) = d + Len(ss) /\ Len(ss) = l + 2
      /\ tt[d + (l + 1)] = m /\ tt[d + (l + 2)] = n
  <2>1. Len(t) + 1 = d + (l + 1) /\ Len(t) + 2 = d + (l + 2)
    BY <1>1, <1>2
  <2> QED
    BY <1>1, <1>2, <1>3, <2>1
<1>6. ASSUME NEW i \in 1..l PROVE ss[i] = tt[d + i]
  <2>1. d + i \in 1..Len(t)
    BY <1>1, <1>2
  <2> QED
    BY <1>1, <1>3, <1>4, <2>1
<1>7. ASSUME NEW i \in 1..Len(ss) PROVE i \in 1..l \/ i = l + 1 \/ i = l + 2
  BY <1>1
<1>8. \A i \in 1..Len(ss) : ss[i] = tt[d + i]
  BY <1>1, <1>5, <1>6, <1>7
<1>9. IsSuffix(ss, tt)
  BY <1>1, <1>3, <1>5, <1>8, SuffixMeans
<1> QED
  BY <1>9 DEF ss, tt

\* What is shown on a page fits what is stored: it is the end of it, or all of it
\* where the page was mounted without a message; and it ends with all of it where
\* the page stayed when the dialogue was deleted.
Fits(p, s, t) ==
  IF p.deleted THEN IsSuffix(t, s) ELSE IsSuffix(s, t) /\ (p.direct => s = t)

Here(c) == Messages(history[c])

\* What will be stored of the dialogue when question k, in full, is.
Full(c, k) ==
  IF chat[k].state = "stored" THEN Here(c)
  ELSE Append(Append(Here(c), Human(k)), View(k, "all"))

\* No dialogue is deleted while its history is under way; and beside an answer a
\* history is only for a page mounted with a message, whose dialogue is new.
InTime(c) ==
  fetch.state \in {"asked", "answered"} =>
    /\ ~page.deleted
    /\ \A k \in Heard : ~page.direct /\ (chat[k].state # "stored" => history[c] = <<>>)

FetchFits(c) ==
  fetch.state = "answered" =>
    fetch.messages = Here(c) \/ (~page.direct /\ fetch.messages = <<>>)

\* The list that a stream will put back, with the answer it will add.
BeforeFits(c) ==
  fetch.state \in {"asked", "answered", "loaded"} =>
    \A k \in Heard :
      Fits(page, Append(stream[k].before, View(k, "all")), Full(c, k))

ShownFits(c) ==
  fetch.state = "loaded" =>
    /\ Heard = {} => Fits(page, shown, Here(c))
    /\ \A k \in Heard : stream[k].text = "all" => Fits(page, shown, Full(c, k))

PageFits(c) == InTime(c) /\ FetchFits(c) /\ BeforeFits(c) /\ ShownFits(c)

HeardHere == user = "patient" => \A k \in Heard : IsOpen /\ chat[k].conv = page.conv

PatientPage ==
  user = "patient" =>
    \A c \in Conv : page.conv = c /\ Undisturbed(c) => PageFits(c)

ShownInv == HeardHere /\ PatientPage

(* A list fits itself; nothing fits a page mounted with a message; where a    *)
(* dialogue was deleted, anything fits what is left of it; a round more on     *)
(* both sides fits.                                                            *)
LEMMA FitsFacts ==
  ASSUME NEW t \in Seq(Message), NEW s \in Seq(Message), NEW p \in Page
  PROVE  /\ Fits(p, t, t)
         /\ ~p.direct /\ ~p.deleted => Fits(p, <<>>, t)
         /\ p.deleted => Fits(p, s, <<>>)
         /\ \A m, n \in Message : Fits(p, s, t) =>
              Fits(p, Append(Append(s, m), n), Append(Append(t, m), n))
<1>1. IsSuffix(t, t) /\ IsSuffix(<<>>, t) /\ IsSuffix(<<>>, s)
  BY PlainSuffixes
<1>2. ASSUME NEW m \in Message, NEW n \in Message, Fits(p, s, t)
      PROVE  Fits(p, Append(Append(s, m), n), Append(Append(t, m), n))
  BY <1>2, SuffixGrows DEF Fits
<1> QED
  BY <1>1, <1>2 DEF Fits

(* Users do not change. *)
LEMMA UserStays == Next => user' = user
BY DEF Next, User, Histories, DeleteDialogue, Arrives, Starts, Yields, Finishes, Breaks,
       RaisesOut, Disconnects, ThreadReturns, Hears, ConnectionFails

(* A dialogue whose questions are all unasked has no rounds. *)
LEMMA UnusedIsEmpty ==
  ASSUME AllInv, NEW c \in Conv, Unused(c)
  PROVE  history[c] = <<>>
<1>1. history[c] \in Seq(Server!Round)
  BY DEF AllInv, Server!TypeOK
<1>2. ASSUME NEW i \in DOMAIN history[c] PROVE FALSE
  <2>1. history[c][i] \in Server!Round
    BY <1>1, <1>2
  <2>2. history[c][i].chat \in Chat
    BY <2>1 DEF Server!Round
  <2> QED
    BY <1>2, <2>2 DEF Homed, Unused, AllInv, SystemInv, Link
<1>3. Len(history[c]) \in Nat /\ DOMAIN history[c] = 1..Len(history[c])
  BY <1>1
<1>4. Len(history[c]) = 0
  <2>1. CASE Len(history[c]) # 0
    <3>1. 1 \in DOMAIN history[c]
      BY <1>3, <2>1
    <3> QED
      BY <1>2, <3>1
  <2> QED
    BY <2>1
<1> QED
  BY <1>1, <1>4

(* A question is heard on the page of its dialogue. *)
LEMMA HeardHereKept ==
  ASSUME AllInv, HeardHere, Next
  PROVE  HeardHere'
<1> SUFFICES ASSUME user = "patient" PROVE \A k \in Heard' : (IsOpen /\ chat[k].conv = page.conv)'
  BY UserStays DEF HeardHere
<1>0. /\ stream \in [Chat -> Stream]
      /\ \A k \in Heard : IsOpen /\ chat[k].conv = page.conv
      /\ \A k \in Chat : chat'[k].conv = chat[k].conv
      /\ \A k \in Chat : chat[k].conv \in Conv /\ chat[k].conv # NoConv
      /\ page \in Page
  BY WebAssumption, ChatsGoOn
     DEF AllInv, SystemInv, WebInv, WebTypeOK, HeardHere, Server!TypeOK
<1> DEFINE Goal == \A k \in Heard' : (IsOpen /\ chat[k].conv = page.conv)'
<1>1. ASSUME page'.conv = page.conv, Heard' \subseteq Heard PROVE Goal
  BY <1>0, <1>1 DEF IsOpen, Heard
<1>2. ASSUME NEW k \in Chat, Heard' \subseteq {k}, chat[k].conv = page'.conv PROVE Goal
  BY <1>0, <1>2 DEF IsOpen, Heard
<1>3. ASSUME Heard' = {} PROVE Goal
  BY <1>3
<1>4. ASSUME stream' = stream PROVE Heard' = Heard
  BY <1>4 DEF Heard
<1>5. \A k \in Chat : stream'[k].state = "open" => stream[k].state \in {"new", "open"}
  BY StreamsStep DEF AllInv, GoesOn
<1>6. ASSUME Leave \/ Reload PROVE Heard' = {}
  <2>0. PICK B : B = CutShort
    OBVIOUS
  <2>1. \A k \in Chat : StreamInv(k, stream[k], B)
    BY <1>0, <2>0, StreamByStream DEF AllInv, SystemInv, WebInv, WebPaired
  <2>2. PICK states \in SUBSET {"open", "unheard"}, to \in {"unheard", "closed"} :
          "open" \in states /\ stream' = Dropped(states, to)
    BY <1>6 DEF Leave, Reload
  <2> QED
    BY <1>0, <2>1, <2>2, AllDropped
<1>7. CASE User
  <2>1. Heard = {}
    BY <1>7 DEF User, MayAct
  <2>2. CASE Leave \/ Reload
    BY <1>3, <1>6, <2>2
  <2>3. CASE \E c \in Conv, path \in ChatPath : Open(c, path) \/ Switch(c, path)
    BY <1>3, <1>4, <2>1, <2>3 DEF Open, Switch
  <2>4. ASSUME NEW k \in Chat, NEW s, stream' = Posted(k, s), chat[k].conv = page'.conv PROVE Goal
    <3>1. Heard' \subseteq {k}
      BY <1>0, <2>1, <2>4 DEF Posted, Heard
    <3> QED
      BY <1>2, <2>4, <3>1
  <2>5. ASSUME NEW k \in Chat, OpenWithMessage(chat[k].conv, k) PROVE Goal
    BY <2>4, <2>5 DEF OpenWithMessage
  <2>6. ASSUME NEW k \in Chat, handleChatSubmit(k), chat[k].conv = page.conv PROVE Goal
    BY <2>4, <2>6 DEF handleChatSubmit
  <2> QED
    BY <1>7, <2>2, <2>3, <2>5, <2>6 DEF User
<1>8. CASE Histories
  BY <1>1, <1>4, <1>8 DEF Histories, HistoryAnswered, HistoryArrives, HistoryFails
<1>9. ASSUME NEW c \in Conv, DeleteDialogue(c) PROVE Goal
  <2>1. CASE LoseDialogue
    <3>1. page'.conv = page.conv /\ stream' = stream
      BY <1>0, <2>1 DEF LoseDialogue, Page
    <3> QED
      BY <1>1, <1>4, <3>1
  <2> QED
    BY <1>1, <1>3, <1>4, <1>6, <1>9, <2>1 DEF DeleteDialogue, webVars
<1>10. ASSUME NEW k \in Chat,
              \/ Arrives(k) \/ Starts(k) \/ Yields(k, "part") \/ Yields(k, "all")
              \/ Finishes(k) \/ Breaks(k) \/ Disconnects(k) \/ ThreadReturns(k)
       PROVE  Goal
  <2>1. UNCHANGED webVars
    BY <1>10 DEF Arrives, Starts, Yields, Finishes, Breaks, Disconnects, ThreadReturns
  <2> QED
    BY <1>1, <1>4, <2>1 DEF webVars
<1>11. ASSUME NEW k \in Chat, StreamFails(k) \/ UnheardFails(k) \/ StreamEnds(k)
       PROVE  Goal
  <2>1. page' = page /\ \A j \in Chat : stream[j].state = "new" => stream'[j].state = "new"
    BY <1>0, <1>11 DEF StreamFails, UnheardFails, StreamEnds
  <2>2. Heard' \subseteq Heard
    BY <1>5, <2>1 DEF Heard
  <2> QED
    BY <1>1, <2>1, <2>2
<1>12. ASSUME NEW k \in Chat, RaisesOut(k) \/ ConnectionFails(k) PROVE Goal
  BY <1>1, <1>4, <1>11, <1>12 DEF RaisesOut, ConnectionFails, webVars
<1>13. ASSUME NEW k \in Chat, Hears(k) PROVE Goal
  <2>1. ASSUME NEW text, Chunk(k, text) PROVE page' = page /\ Heard' \subseteq Heard
    BY <1>0, <2>1 DEF Chunk, Heard
  <2> QED
    BY <1>1, <1>11, <1>13, <2>1 DEF Hears
<1> QED
  BY <1>7, <1>8, <1>9, <1>10, <1>12, <1>13 DEF Next

(* A step that the page does not notice and that does not store a round of its *)
(* dialogue.                                                                   *)
LEMMA QuietPage ==
  ASSUME NEW c \in Conv, PageFits(c), page' = page, shown' = shown, fetch' = fetch,
         history'[c] = history[c], Heard' = Heard,
         \A k \in Heard : /\ stream'[k] = stream[k]
                          /\ chat'[k].state = "stored" <=> chat[k].state = "stored"
  PROVE  PageFits(c)'
<1>1. Here(c)' = Here(c) /\ \A k \in Heard : Full(c, k)' = Full(c, k)
  BY DEF Here, Full
<1>2. InTime(c)' /\ FetchFits(c)'
  BY <1>1 DEF PageFits, InTime, FetchFits
<1>3. BeforeFits(c)'
  BY <1>1 DEF PageFits, BeforeFits
<1>4. ShownFits(c)'
  BY <1>1 DEF PageFits, ShownFits
<1> QED
  BY <1>2, <1>3, <1>4 DEF PageFits

\* What the lemmas about the page start from.
PatientContext(c) ==
  /\ AllInv /\ ShownInv /\ Next /\ user = "patient"
  /\ (page.conv = c /\ Undisturbed(c))'

(* What the context of those lemmas says of the variables. *)
LEMMA ContextFacts ==
  ASSUME NEW c \in Conv, PatientContext(c)
  PROVE  /\ page.conv = c => PageFits(c)
         /\ stream \in [Chat -> Stream] /\ fetch.messages \in Seq(Message)
         /\ shown \in Seq(Message) /\ c # NoConv
         /\ page \in Page
         /\ Server!TypeOK /\ history[c] \in Seq(Server!Round) /\ Here(c) \in Seq(Message)
         /\ \A k \in Chat : Human(k) \in Message /\ View(k, "all") \in Message
         /\ \A k \in Chat : Full(c, k) \in Seq(Message)
         /\ \A j, k \in Heard : j = k
         /\ \A k \in Heard : k \in Chat /\ chat[k].conv = page.conv
<1>1. AllInv /\ ShownInv /\ Next /\ user = "patient"
  BY DEF PatientContext
<1>2. Undisturbed(c)
  BY <1>1, UndisturbedBefore DEF PatientContext
<1>3. page.conv = c => PageFits(c)
  BY <1>1, <1>2 DEF ShownInv, PatientPage
<1>4. /\ stream \in [Chat -> Stream] /\ fetch.messages \in Seq(Message)
      /\ shown \in Seq(Message) /\ c # NoConv
      /\ page \in Page
      /\ Server!TypeOK
  BY <1>1, WebAssumption DEF AllInv, SystemInv, WebInv, WebTypeOK
<1>5. history[c] \in Seq(Server!Round)
  BY <1>4 DEF Server!TypeOK
<1>6. Here(c) \in Seq(Message)
  BY <1>5, MessagesGrow DEF Here
<1>7. \A k \in Chat : Human(k) \in Message /\ View(k, "all") \in Message
  <2>1. "all" \in Text
    BY DEF Text
  <2> QED
    BY <2>1, MessageTypes
<1>8. \A k \in Chat : Full(c, k) \in Seq(Message)
  BY <1>6, <1>7 DEF Full
<1>9. \A j, k \in Heard : j = k
  BY <1>1 DEF AllInv, PatientInv, OneHeard
<1>10. \A k \in Heard : k \in Chat /\ chat[k].conv = page.conv
  BY <1>1 DEF ShownInv, HeardHere, Heard
<1> QED
  BY <1>3, <1>4, <1>5, <1>6, <1>7, <1>8, <1>9, <1>10

(* A page that has asked for a history while it hears no answer. *)
LEMMA FreshPage ==
  ASSUME NEW c \in Conv, Heard' = {}, fetch'.state \notin {"answered", "loaded"},
         fetch'.state = "asked" => ~page'.deleted
  PROVE  PageFits(c)'
BY DEF PageFits, InTime, FetchFits, BeforeFits, ShownFits

(* No rounds are no messages. *)
LEMMA NoRounds == Messages(<<>>) = <<>>
<1>1. <<>> \in Seq(Server!Round)
  OBVIOUS
<1> QED
  BY <1>1, MessagesGrow

(* What a patient user does. *)
LEMMA UserPage ==
  ASSUME NEW c \in Conv, PatientContext(c), User
  PROVE  PageFits(c)'
<1>0. /\ Heard = {} /\ fetch.state \notin {"asked", "answered"}
      /\ chat' = chat /\ history' = history
      /\ page'.conv = c
  BY DEF User, MayAct, PatientContext, serverVars
<1>1. stream \in [Chat -> Stream] /\ c # NoConv
  BY ContextFacts
<1>2. CASE Leave
  BY <1>0, <1>1, <1>2 DEF Leave, Home
<1>3. CASE Reload
  <2>1. \A k \in Chat : stream'[k].state # "open"
    BY <1>1, <1>3 DEF Reload, Dropped, Stream
  <2>2. Heard' = {}
    BY <2>1 DEF Heard
  <2> QED
    BY <1>3, <2>2, FreshPage DEF Reload, Asked, NoFetch, Home
<1>4. CASE \E d \in Conv, path \in ChatPath : Open(d, path) \/ Switch(d, path)
  <2>0. page \in Page
    BY ContextFacts
  <2>1. Heard' = {} /\ fetch' = Asked
    BY <1>0, <1>4 DEF Open, Switch, Heard
  <2>2. ~page'.deleted
    BY <1>4, <2>0 DEF Open, Switch, Home, Page
  <2> QED
    BY <2>1, <2>2, FreshPage DEF Asked
<1>5. ASSUME NEW k \in Chat, NEW s, stream[k].state = "new", stream' = Posted(k, s)
      PROVE  /\ Heard' = {k} /\ stream'[k].before = s /\ stream'[k].text = "none"
             /\ chat'[k].state # "stored"
  <2>1. chat[k].state = "new"
    BY <1>5 DEF PatientContext, AllInv, SystemInv, Link
  <2>2. /\ stream'[k].state = "open" /\ stream'[k].before = s /\ stream'[k].text = "none"
        /\ \A j \in Chat \ {k} : stream'[j] = stream[j]
    BY <1>1, <1>5 DEF Posted
  <2>3. Heard' = {k}
    BY <1>0, <2>2 DEF Heard
  <2> QED
    BY <1>0, <2>1, <2>2, <2>3
<1>6. ASSUME NEW k \in Chat, Unused(chat[k].conv), OpenWithMessage(chat[k].conv, k)
      PROVE  PageFits(c)'
  <2>1. /\ chat[k].conv = c /\ fetch' = Asked /\ page' \in Page
        /\ page'.direct = FALSE /\ page'.deleted = FALSE
        /\ stream[k].state = "new" /\ stream' = Posted(k, <<Human(k)>>)
    BY <1>0, <1>6 DEF OpenWithMessage, Home, Page, ChatPath
  <2>2. /\ Heard' = {k} /\ stream'[k].before = <<Human(k)>>
        /\ chat'[k].state # "stored"
    BY <1>5, <2>1
  <2>3. history[c] = <<>>
    BY <1>6, <2>1, UnusedIsEmpty DEF PatientContext
  <2>4. Here(c)' = <<>>
    BY <1>0, <2>3, NoRounds DEF Here
  <2>5. Full(c, k)' = Append(Append(<<>>, Human(k)), View(k, "all"))
    BY <2>2, <2>4 DEF Full
  <2>6. Append(stream'[k].before, View(k, "all")) = Append(Append(<<>>, Human(k)), View(k, "all"))
    BY <2>2
  <2> DEFINE round == Append(Append(<<>>, Human(k)), View(k, "all"))
  <2>7. round \in Seq(Message)
    BY ContextFacts
  <2>8. Fits(page', round, round)
    BY <2>1, <2>7, FitsFacts
  <2>9. BeforeFits(c)'
    BY <2>2, <2>5, <2>6, <2>8 DEF BeforeFits
  <2> QED
    BY <1>0, <2>1, <2>2, <2>3, <2>9 DEF PageFits, InTime, FetchFits, ShownFits, Asked
<1>7. ASSUME NEW k \in Chat, chat[k].conv = page.conv, handleChatSubmit(k)
      PROVE  PageFits(c)'
  <2>1. /\ page' = page /\ fetch' = fetch /\ stream[k].state = "new"
        /\ stream' = Posted(k, Append(shown, Human(k)))
    BY <1>7 DEF handleChatSubmit
  <2>2. /\ Heard' = {k} /\ stream'[k].before = Append(shown, Human(k))
        /\ stream'[k].text = "none" /\ chat'[k].state # "stored"
    BY <1>5, <2>1
  <2>3. Full(c, k)' = Append(Append(Here(c), Human(k)), View(k, "all"))
    BY <1>0, <2>2 DEF Full, Here
  <2>4. ASSUME fetch.state = "loaded"
        PROVE  Fits(page, Append(stream'[k].before, View(k, "all")), Full(c, k)')
    <3>1. Fits(page, shown, Here(c))
      BY <1>0, <2>1, <2>4, ContextFacts DEF PageFits, ShownFits
    <3>2. page \in Page /\ shown \in Seq(Message) /\ Here(c) \in Seq(Message)
          /\ Human(k) \in Message /\ View(k, "all") \in Message
      BY ContextFacts
    <3> QED
      BY <2>2, <2>3, <3>1, <3>2, FitsFacts
  <2>5. BeforeFits(c)'
    BY <1>0, <2>1, <2>2, <2>4 DEF BeforeFits
  <2> QED
    BY <1>0, <2>1, <2>2, <2>5 DEF PageFits, InTime, FetchFits, ShownFits
<1> QED
  BY <1>2, <1>3, <1>4, <1>6, <1>7 DEF User

(* A history is answered, arrives or fails to. *)
LEMMA HistoryPage ==
  ASSUME NEW c \in Conv, PatientContext(c), Histories
  PROVE  PageFits(c)'
<1>0. /\ page' = page /\ stream' = stream /\ chat' = chat /\ history' = history
      /\ page.conv = c
  BY DEF Histories, HistoryAnswered, HistoryArrives, HistoryFails, PatientContext, serverVars
<1>1. /\ Heard' = Heard /\ Here(c)' = Here(c) /\ PageFits(c)
      /\ \A k \in Chat : Full(c, k)' = Full(c, k)
  BY <1>0, ContextFacts DEF Heard, Here, Full
<1>2. Heard \subseteq Chat
  BY DEF Heard
<1>3. CASE HistoryAnswered(Messages(history[page.conv]))
  <2>1. /\ fetch.state = "asked" /\ fetch'.state = "answered" /\ fetch'.messages = Here(c)
    BY <1>0, <1>3 DEF HistoryAnswered, Here
  <2>2. InTime(c)' /\ FetchFits(c)' /\ ShownFits(c)'
    BY <1>0, <1>1, <2>1 DEF PageFits, InTime, FetchFits, ShownFits
  <2>3. BeforeFits(c)'
    BY <1>0, <1>1, <1>2, <2>1 DEF PageFits, BeforeFits
  <2> QED
    BY <2>2, <2>3 DEF PageFits
<1>4. CASE HistoryArrives
  <2>1. fetch.state = "answered" /\ fetch'.state = "loaded" /\ shown' = fetch.messages
    BY <1>4 DEF HistoryArrives
  <2>2. /\ page \in Page /\ ~page.deleted /\ Here(c) \in Seq(Message) /\ fetch.messages \in Seq(Message)
        /\ \A k \in Chat : Full(c, k) \in Seq(Message)
    BY <1>1, <2>1, ContextFacts DEF PageFits, InTime
  <2>3. fetch.messages = Here(c) \/ (~page.direct /\ fetch.messages = <<>>)
    BY <1>1, <2>1 DEF PageFits, FetchFits
  <2>4. Fits(page, shown', Here(c))
    BY <2>1, <2>2, <2>3, FitsFacts
  <2>5. ASSUME NEW k \in Heard PROVE Fits(page, shown', Full(c, k))
    <3>1. ~page.direct /\ (chat[k].state # "stored" => history[c] = <<>>)
      BY <1>1, <2>1 DEF PageFits, InTime
    <3>2. CASE chat[k].state = "stored"
      BY <2>4, <3>2 DEF Full
    <3>3. CASE chat[k].state # "stored"
      <4>1. Here(c) = <<>>
        BY <3>1, <3>3, NoRounds DEF Here
      <4>2. shown' = <<>>
        BY <2>1, <2>3, <4>1
      <4> QED
        BY <1>2, <2>2, <3>1, <4>2, FitsFacts
    <3> QED
      BY <3>2, <3>3
  <2>6. InTime(c)' /\ FetchFits(c)'
    BY <2>1 DEF InTime, FetchFits
  <2>7. BeforeFits(c)'
    BY <1>0, <1>1, <1>2, <2>1 DEF PageFits, BeforeFits
  <2>8. ShownFits(c)'
    BY <1>0, <1>1, <1>2, <2>4, <2>5 DEF ShownFits
  <2> QED
    BY <2>6, <2>7, <2>8 DEF PageFits
<1>5. CASE HistoryFails
  BY <1>5 DEF HistoryFails, PageFits, InTime, FetchFits, BeforeFits, ShownFits
<1> QED
  BY <1>3, <1>4, <1>5 DEF Histories

(* The stream that is heard says more or ends. *)
LEMMA HearingPage ==
  ASSUME NEW c \in Conv, PatientContext(c), NEW k \in Chat, Hears(k)
  PROVE  PageFits(c)'
<1>0. /\ page' = page /\ fetch' = fetch /\ chat' = chat /\ history' = history
      /\ page.conv = c /\ stream[k].state = "open"
  BY DEF Hears, Chunk, StreamEnds, PatientContext, serverVars
<1>1. stream \in [Chat -> Stream] /\ PageFits(c) /\ Heard = {k} /\ chat[k].conv = c
  BY <1>0, ContextFacts DEF Heard
<1>2. Here(c)' = Here(c) /\ Full(c, k)' = Full(c, k)
  BY <1>0 DEF Here, Full
<1>3. ASSUME NEW text, Chunk(k, text) PROVE PageFits(c)'
  <2>1. /\ Heard' = Heard /\ stream'[k].before = stream[k].before
        /\ stream'[k].text = text /\ shown' = Append(stream[k].before, View(k, text))
    BY <1>1, <1>3 DEF Chunk, Heard, Stream
  <2>2. InTime(c)' /\ FetchFits(c)'
    BY <1>0, <1>1, <1>2, <2>1 DEF PageFits, InTime, FetchFits
  <2>3. BeforeFits(c)'
    BY <1>0, <1>1, <1>2, <2>1 DEF PageFits, BeforeFits
  <2>4. ShownFits(c)'
    BY <1>0, <1>1, <1>2, <2>1 DEF PageFits, BeforeFits, ShownFits
  <2> QED
    BY <2>2, <2>3, <2>4 DEF PageFits
<1>4. ASSUME chat[k].state = "stored", StreamEnds(k) PROVE PageFits(c)'
  <2>1. /\ stream'[k].state = "ended" /\ stream'[k].text = stream[k].text /\ shown' = shown
        /\ \A j \in Chat \ {k} : stream'[j] = stream[j]
    BY <1>1, <1>4 DEF StreamEnds, Stream
  <2>2. Heard' = {}
    BY <1>1, <2>1 DEF Heard
  <2>3. stream[k].text = "all"
    BY <1>0, <1>1, <2>1 DEF PatientContext, Undisturbed
  <2>4. ShownFits(c)'
    BY <1>0, <1>1, <1>2, <1>4, <2>1, <2>2, <2>3 DEF PageFits, ShownFits, Full
  <2> QED
    BY <1>0, <1>1, <1>2, <2>2, <2>4 DEF PageFits, InTime, FetchFits, BeforeFits
<1> QED
  BY <1>3, <1>4 DEF Hears

(* A round is stored: in full, when it is of the dialogue on the page. *)
LEMMA StoringPage ==
  ASSUME NEW c \in Conv, PatientContext(c), page' = page, NEW k \in Chat, Finishes(k)
  PROVE  PageFits(c)'
<1>0. /\ UNCHANGED webVars /\ page.conv = c
  BY DEF Finishes, PatientContext
<1>1. /\ PageFits(c) /\ \A j, i \in Heard : i = j
      /\ \A j \in Heard : j \in Chat /\ chat[j].conv = c
      /\ history[c] \in Seq(Server!Round) /\ Here(c) \in Seq(Message)
      /\ Server!TypeOK
      /\ chat \in [Chat -> [state : {"new", "waiting", "stored", "lost"}, conv : Conv,
                            kind : Server!Kind, chat_order : Nat]]
  BY <1>0, ContextFacts DEF Server!TypeOK
<1>2. /\ chat[k].state = "waiting" /\ chat' = [chat EXCEPT ![k].state = "stored"]
      /\ \A d \in Conv : d # chat[k].conv => history'[d] = history[d]
      /\ history'[chat[k].conv] = history[chat[k].conv] \o <<Server!RoundOf(k, 1)>>
  BY <1>1, ChatMoves DEF Finishes
<1>3. Heard' = Heard
  BY <1>0 DEF webVars, Heard
<1>4. CASE chat[k].conv # c
  <2>1. \A j \in Heard : chat'[j] = chat[j]
    BY <1>1, <1>2, <1>4
  <2> QED
    BY <1>0, <1>1, <1>2, <1>3, <1>4, <2>1, QuietPage DEF webVars
<1>5. CASE chat[k].conv = c
  <2>1. Heard = {k}
    <3>1. Undisturbed(c)
      BY UndisturbedBefore DEF PatientContext
    <3>2. k \in Server!Waiting(c)
      BY <1>2, <1>5 DEF Server!Waiting
    <3>3. k \in Heard
      BY <3>1, <3>2, WaitingIsHeard DEF PatientContext
    <3> QED
      BY <1>1, <3>3
  <2>2. Here(c)' = Append(Append(Here(c), Human(k)), View(k, "all"))
    <3>1. /\ history'[c] = history[c] \o <<Server!RoundOf(k, 1)>>
          /\ Server!RoundOf(k, 1).chat = k /\ Server!RoundOf(k, 1).views = 1
      BY <1>2, <1>5 DEF Server!RoundOf
    <3>2. Server!RoundOf(k, 1) \in Server!Round
      <4>1. PatientNumbers /\ Undisturbed(c)
        BY UndisturbedBefore DEF PatientContext, AllInv, PatientInv
      <4>2. chat[k].chat_order = Len(history[c]) + 1
        BY <1>2, <1>5, <4>1 DEF PatientNumbers, PatientContext, Expected, Server!Waiting
      <4>3. chat[k].chat_order \in Nat \ {0}
        BY <1>1, <4>2
      <4> QED
        BY <4>3 DEF Server!RoundOf, Server!Round
    <3>3. PICK r \in Server!Round : r = Server!RoundOf(k, 1)
      BY <3>2
    <3>4. Messages(history[c] \o <<r>>) = Messages(history[c]) \o Spoken(r)
      BY <1>1, MessagesGrow
    <3>5. Here(c) \o Spoken(r) = Append(Append(Here(c), Human(r.chat)), View(r.chat, "all"))
      BY <1>1, <3>1, <3>3, SpokenIs
    <3> QED
      BY <3>1, <3>3, <3>4, <3>5 DEF Here
  <2>3. Full(c, k) = Here(c)' /\ Full(c, k)' = Here(c)'
    BY <1>1, <1>2, <2>2 DEF Full
  <2>4. InTime(c)' /\ FetchFits(c)'
    <3>1. InTime(c)'
      BY <1>0, <1>1, <1>2, <1>3, <2>1 DEF webVars, PageFits, InTime
    <3>2. FetchFits(c)'
      <4>1. ASSUME fetch.state = "answered" PROVE ~page.direct /\ fetch.messages = <<>>
        <5>1. ~page.direct /\ history[c] = <<>>
          BY <1>1, <1>2, <2>1, <4>1 DEF PageFits, InTime
        <5>2. Here(c) = <<>>
          BY <5>1, NoRounds DEF Here
        <5> QED
          BY <1>1, <4>1, <5>1, <5>2 DEF PageFits, FetchFits
      <4> QED
        BY <1>0, <4>1 DEF webVars, FetchFits
    <3> QED
      BY <3>1, <3>2
  <2>5. BeforeFits(c)' /\ ShownFits(c)'
    <3>1. BeforeFits(c)'
      BY <1>0, <1>1, <1>3, <2>1, <2>3 DEF webVars, PageFits, BeforeFits
    <3>2. ShownFits(c)'
      BY <1>0, <1>1, <1>3, <2>1, <2>3 DEF webVars, PageFits, ShownFits
    <3> QED
      BY <3>1, <3>2
  <2> QED
    BY <2>4, <2>5 DEF PageFits
<1> QED
  BY <1>4, <1>5

(* What server, worker and network do besides. *)
LEMMA OtherPage ==
  ASSUME NEW c \in Conv, PatientContext(c), NEW k \in Chat,
         \/ Arrives(k) \/ Starts(k) \/ Yields(k, "part") \/ Yields(k, "all") \/ Breaks(k)
         \/ RaisesOut(k) \/ Disconnects(k) \/ ThreadReturns(k) \/ ConnectionFails(k)
  PROVE  PageFits(c)'
<1>0. /\ stream \in [Chat -> Stream] /\ Server!TypeOK
      /\ \A j \in Heard : j \in Chat /\ chat[j].conv = page.conv
      /\ chat \in [Chat -> [state : {"new", "waiting", "stored", "lost"}, conv : Conv,
                            kind : Server!Kind, chat_order : Nat]]
  BY ContextFacts DEF Server!TypeOK
<1>1. /\ page' = page /\ fetch' = fetch
      /\ UNCHANGED webVars \/ StreamFails(k) \/ UnheardFails(k)
  BY DEF Arrives, Starts, Yields, Breaks, RaisesOut, Disconnects, ThreadReturns,
         ConnectionFails, StreamFails, UnheardFails, webVars
<1>2. page.conv = c /\ PageFits(c)
  BY <1>1, ContextFacts DEF PatientContext
<1>3. \A j \in Chat : chat'[j].conv = chat[j].conv
  BY ChatsGoOn DEF PatientContext, AllInv
<1>4. ~StreamFails(k)
  <2> SUFFICES ASSUME StreamFails(k) PROVE FALSE
    OBVIOUS
  <2>1. stream[k].state = "open" /\ stream'[k].state = "failed"
    BY <1>0 DEF StreamFails, Stream
  <2>2. chat'[k].conv = c
    BY <1>0, <1>2, <1>3, <2>1 DEF Heard
  <2> QED
    BY <2>1, <2>2 DEF PatientContext, Undisturbed
<1>5. /\ shown' = shown /\ Heard' = Heard
      /\ \A j \in Heard : stream'[j] = stream[j]
  <2>1. CASE UNCHANGED webVars
    BY <2>1 DEF webVars, Heard
  <2>2. CASE UnheardFails(k)
    <3>1. /\ stream[k].state = "unheard" /\ stream'[k].state = "closed" /\ shown' = shown
          /\ \A j \in Chat \ {k} : stream'[j] = stream[j]
      BY <1>0, <2>2 DEF UnheardFails
    <3> QED
      BY <3>1 DEF Heard
  <2> QED
    BY <1>1, <1>4, <2>1, <2>2
<1>6. ASSUME history'[c] = history[c],
             \A j \in Heard : chat'[j].state = "stored" <=> chat[j].state = "stored"
      PROVE  PageFits(c)'
  BY <1>1, <1>2, <1>5, <1>6, QuietPage
<1>7. CASE Arrives(k)
  <2>1. /\ chat[k].state = "new" /\ history' = history
        /\ chat' = [chat EXCEPT ![k] =
             [state |-> "waiting", conv |-> chat[k].conv, kind |-> chat[k].kind,
              chat_order |-> Len(history[chat[k].conv]) + 1]]
    BY <1>0, <1>7, ChatMoves DEF Arrives
  <2>2. \A j \in Heard : chat'[j].state = "stored" <=> chat[j].state = "stored"
    BY <1>0, <2>1
  <2> QED
    BY <1>6, <2>1, <2>2
<1>8. CASE Breaks(k)
  <2>1. /\ chat[k].state = "waiting" /\ chat' = [chat EXCEPT ![k].state = "stored"]
        /\ \A d \in Conv : d # chat[k].conv => history'[d] = history[d]
        /\ wire[k] # "all" /\ wire' = wire /\ stream' = stream
    BY <1>0, <1>8, ChatMoves DEF Breaks, webVars
  <2>2. chat[k].conv # c
    <3>1. stream'[k].state # "new" /\ stream'[k].state # "ended"
      BY <2>1 DEF PatientContext, AllInv, SystemInv, Link
    <3>2. chat'[k].state = "stored"
      BY <1>0, <2>1
    <3> QED
      BY <1>3, <2>1, <3>1, <3>2 DEF PatientContext, Undisturbed
  <2>3. \A j \in Heard : chat'[j] = chat[j]
    BY <1>0, <1>2, <2>1, <2>2
  <2> QED
    BY <1>6, <2>1, <2>2, <2>3
<1>9. CASE RaisesOut(k) \/ Disconnects(k)
  <2>1. /\ chat[k].state = "waiting" /\ history' = history
        /\ chat' = [chat EXCEPT ![k].state = "lost"]
    BY <1>0, <1>9, ChatMoves DEF RaisesOut, Disconnects
  <2>2. \A j \in Heard : chat'[j].state = "stored" <=> chat[j].state = "stored"
    BY <1>0, <2>1
  <2> QED
    BY <1>6, <2>1, <2>2
<1>10. CASE \/ Starts(k) \/ Yields(k, "part") \/ Yields(k, "all") \/ ThreadReturns(k)
            \/ ConnectionFails(k)
  BY <1>6, <1>10 DEF Starts, Yields, ThreadReturns, ConnectionFails, serverVars
<1> QED
  BY <1>7, <1>8, <1>9, <1>10

(* Every step keeps what the page shows of an undisturbed dialogue. *)
LEMMA PatientPageKept ==
  ASSUME AllInv, ShownInv, Next
  PROVE  PatientPage'
<1> SUFFICES ASSUME user = "patient", NEW c \in Conv, (page.conv = c /\ Undisturbed(c))'
             PROVE  PageFits(c)'
  BY UserStays DEF PatientPage
<1>0. PatientContext(c)
  BY DEF PatientContext
<1>1. ASSUME NEW d \in Conv, DeleteDialogue(d) PROVE PageFits(c)'
  <2>1. /\ Heard = {} /\ fetch.state \notin {"asked", "answered"} /\ chat' = chat
        /\ history' = [history EXCEPT ![d] = <<>>]
    BY <1>1 DEF DeleteDialogue, MayAct, Server!dialogue_delete
  <2>2. /\ page \in Page /\ c # NoConv /\ Server!TypeOK /\ shown \in Seq(Message)
        /\ page.conv = c => PageFits(c)
    BY <1>0, ContextFacts
  <2>3. CASE UNCHANGED webVars /\ page.conv # d
    <3>1. page.conv = c
      BY <2>3 DEF webVars
    <3>2. history'[c] = history[c]
      BY <2>1, <2>2, <2>3, <3>1 DEF Server!TypeOK
    <3> QED
      BY <2>1, <2>2, <2>3, <3>1, <3>2, QuietPage DEF webVars, Heard
  <2>4. CASE page.conv = d /\ LoseDialogue
    <3>1. /\ page' \in Page /\ page'.conv = page.conv /\ page'.deleted = TRUE
          /\ fetch' = fetch /\ shown' = shown /\ Heard' = {}
      BY <2>1, <2>2, <2>4 DEF LoseDialogue, Page, Heard
    <3>2. history'[c] = <<>>
      BY <2>1, <2>2, <2>4, <3>1 DEF Server!TypeOK
    <3>3. Here(c)' = <<>>
      BY <3>2, NoRounds DEF Here
    <3>4. Fits(page', shown', <<>>)
      BY <2>2, <3>1, FitsFacts
    <3> QED
      BY <2>1, <3>1, <3>3, <3>4 DEF PageFits, InTime, FetchFits, BeforeFits, ShownFits
  <2>5. ~Leave
    BY <2>2 DEF Leave, Home
  <2> QED
    BY <1>1, <2>3, <2>4, <2>5 DEF DeleteDialogue
<1>2. ASSUME NEW k \in Chat, Finishes(k) PROVE PageFits(c)'
  BY <1>0, <1>2, StoringPage DEF Finishes, webVars
<1> QED
  BY <1>0, <1>1, <1>2, UserPage, HistoryPage, HearingPage, OtherPage DEF Next

(* What a patient user has on the page, always. *)
THEOREM PatientPageKeeps == Spec => []ShownInv
<1>1. Init => ShownInv
  <2> SUFFICES ASSUME Init PROVE ShownInv
    OBVIOUS
  <2>1. /\ page.conv = NoConv /\ \A c \in Conv : history[c] = <<>>
        /\ \A k \in Chat : stream[k].state = "new"
    BY DEF Init, WebInit, Home, Server!Init
  <2> QED
    BY <2>1, WebAssumption DEF ShownInv, HeardHere, PatientPage, Heard
<1>2. ASSUME ShownInv, UNCHANGED vars PROVE ShownInv'
  BY <1>2 DEF vars, webVars, serverVars, ShownInv, HeardHere, PatientPage, Heard, IsOpen,
              Undisturbed, PageFits, InTime, FetchFits, BeforeFits, ShownFits, Here, Full
<1>3. AllInv /\ ShownInv /\ [Next]_vars => ShownInv'
  BY <1>2, HeardHereKept, PatientPageKept DEF ShownInv
<1> QED
  BY <1>1, <1>3, PatientKeeps, PTL DEF Spec

(* What a user who waits for answers and histories sees of a dialogue whose    *)
(* questions were all answered in full is what is stored of it, or the end of  *)
(* it on a page that was mounted with a message: no chunk, history or round of *)
(* another dialogue or of an earlier moment is put in its place.  A page that  *)
(* stays when its dialogue is deleted ends with what is stored from then on.   *)
THEOREM ShownAlwaysStored == Spec => []ShownIsStored
<1>1. AllInv /\ ShownInv => ShownIsStored
  <2> SUFFICES ASSUME AllInv, ShownInv, user = "patient", IsOpen, Heard = {},
                      fetch.state = "loaded", Whole(page.conv)
               PROVE  Fits(page, shown, Here(page.conv))
    BY DEF ShownIsStored, Fits, Here
  <2>1. PICK c \in Conv : page.conv = c
    BY DEF AllInv, SystemInv, WebInv, WebTypeOK, IsOpen, Page
  <2>2. Undisturbed(c)
    BY <2>1 DEF Whole, Undisturbed
  <2>3. Fits(page, shown, Here(c))
    BY <2>1, <2>2 DEF ShownInv, PatientPage, PageFits, ShownFits
  <2> QED
    BY <2>1, <2>3
<1> QED
  BY <1>1, PatientKeeps, PatientPageKeeps, PTL
=============================================================================
