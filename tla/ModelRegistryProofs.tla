------------------------ MODULE ModelRegistryProofs --------------------------
(***************************************************************************)
(* Proofs about ModelRegistry, for every set of names and addresses with   *)
(* every padded spelling of them, every timeout and every scan interval;   *)
(* at the end, that it implements the lease directory.                     *)
(***************************************************************************)
EXTENDS ModelRegistry, WellFoundedInduction, TLAPS

\* Entries a scan in progress has not reached yet.
Unvisited(n, i) ==
  \/ n \in checker.todo
  \/ checker.pc \in {"scan", "mark"} /\ n = checker.cur /\ i >= checker.pos

\* What a scan has achieved so far: monitored entries behind it are not overdue,
\* those ahead of it are at most one interval late.
ScanProgress ==
  checker.pc \in {"next", "scan", "mark"} =>
    \A n \in Name : \A i \in DOMAIN registry[n] :
      LET ins == registry[n][i] IN
      ins.healthy /\ ins.check_healthy =>
        \/ ins.age <= HeartbeatTimeout
        \/ ins.age <= HeartbeatTimeout + CheckInterval /\ Unvisited(n, i)

\* The entry about to be marked exists, and is overdue or was heard from since.
MarkTarget ==
  checker.pc = "mark" =>
    /\ checker.pos \in DOMAIN registry[checker.cur]
    /\ LET ins == registry[checker.cur][checker.pos] IN Overdue(ins) \/ ins.age = 0

IInv == TypeOK /\ OneInstancePerAddress /\ DetectionBound /\ ScanProgress /\ MarkTarget
-----------------------------------------------------------------------------
\* Replacing an element keeps a sequence a sequence of the same length.
LEMMA UpdateSeq ==
  ASSUME NEW S, NEW s \in Seq(S), NEW i \in DOMAIN s, NEW e \in S
  PROVE  /\ [s EXCEPT ![i] = e] \in Seq(S)
         /\ DOMAIN [s EXCEPT ![i] = e] = DOMAIN s
         /\ Len([s EXCEPT ![i] = e]) = Len(s)
  OBVIOUS

\* A set of positions that is not empty has a first one.
LEMMA FirstExists ==
  ASSUME NEW S \in SUBSET Nat, S # {}
  PROVE  First(S) \in S
<1> DEFINE R == OpToRel(<, Nat)
<1>1. IsWellFoundedOn(R, Nat)
  BY NatLessThanWellFounded
<1>2. \A x, y \in Nat : x < y => <<x, y>> \in R
  BY DEF OpToRel
<1> HIDE DEF R
<1>3. PICK x \in S : \A y \in S : ~ (<<y, x>> \in R)
  BY <1>1, WFMin
<1>4. ASSUME NEW y \in S
      PROVE  x <= y
  <2>1. x \in Nat /\ y \in Nat /\ <<y, x>> \notin R
    BY <1>3
  <2>2. ~(y < x)
    BY <1>2, <2>1, Zenon
  <2>3. QED
    BY <2>1, <2>2
<1>5. QED
  BY <1>3, <1>4 DEF First

\* The first match is a match, however many entries share the address.
LEMMA FirstIsMatch ==
  ASSUME TypeOK, NEW n \in Name, NEW a \in Addr, Registered(n, a)
  PROVE  Position(n, a) \in Matching(n, a)
<1>1. Matching(n, a) \in SUBSET Nat /\ Matching(n, a) # {}
  BY DEF Registered, Matching, TypeOK
<1>2. QED
  BY <1>1, FirstExists DEF Position

(***************************************************************************)
(* What a handler may do to the lists: every entry keeps its place and its *)
(* address, and each entry of the new lists is fresh, withdrawn or the old *)
(* one.                                                                    *)
(***************************************************************************)
HandlerEffect ==
  /\ TypeOK' /\ OneInstancePerAddress'
  /\ keys' # {}
  /\ \A n \in Name : \A i \in DOMAIN registry[n] :
       i \in DOMAIN registry'[n] /\ registry'[n][i].addr = registry[n][i].addr
  /\ \A n \in Name : \A i \in DOMAIN registry'[n] :
       \/ registry'[n][i].age = 0
       \/ /\ i \in DOMAIN registry[n]
          /\ \/ registry'[n][i] = registry[n][i]
             \/ registry'[n][i] = Withdrawn(registry[n][i])

\* Replacing one entry by another of the same address is such an effect.
LEMMA ReplaceEffect ==
  ASSUME TypeOK, OneInstancePerAddress, UNCHANGED checker,
         NEW k \in Name, NEW i \in DOMAIN registry[k], NEW e \in Instance,
         e.addr = registry[k][i].addr,
         e.age = 0 \/ e = Withdrawn(registry[k][i]),
         keys' = keys \cup {k},
         registry' = WithEntry(k, i, e)
  PROVE  HandlerEffect
<1> DEFINE new == [registry[k] EXCEPT ![i] = e]
<1>1. /\ registry[k] \in Seq(Instance)
      /\ new \in Seq(Instance) /\ DOMAIN new = DOMAIN registry[k]
      /\ new[i] = e /\ \A j \in DOMAIN new : j # i => new[j] = registry[k][j]
  BY UpdateSeq DEF TypeOK
<1> HIDE DEF new
<1>2. registry' = [registry EXCEPT ![k] = new]
  BY DEF new, WithEntry
<1>3. registry'[k] = new /\ \A n \in Name : n # k => registry'[n] = registry[n]
  BY <1>2 DEF TypeOK
<1>4. TypeOK'
  BY <1>1, <1>2, <1>3 DEF TypeOK, Checker
<1>5. \A n \in Name : \A j \in DOMAIN registry[n] :
        j \in DOMAIN registry'[n] /\ registry'[n][j].addr = registry[n][j].addr
  BY <1>1, <1>3
<1>6. OneInstancePerAddress'
  BY <1>1, <1>3, <1>5 DEF OneInstancePerAddress
<1>7. ASSUME NEW n \in Name, NEW j \in DOMAIN registry'[n]
      PROVE  \/ registry'[n][j].age = 0
             \/ /\ j \in DOMAIN registry[n]
                /\ \/ registry'[n][j] = registry[n][j]
                   \/ registry'[n][j] = Withdrawn(registry[n][j])
  <2>1. CASE n = k /\ j = i
    BY <1>1, <1>3, <2>1
  <2>2. CASE n # k \/ j # i
    BY <1>1, <1>3, <1>7, <2>2
  <2>3. QED
    BY <2>1, <2>2
<1>8. keys' # {}
  OBVIOUS
<1>9. QED
  BY <1>4, <1>5, <1>6, <1>7, <1>8 DEF HandlerEffect

\* A new entry is a well-typed instance.
LEMMA FreshTyped == \A a \in Addr, check \in BOOLEAN : NewInstance(a, check) \in Instance
  BY RegistryAssumption DEF NewInstance, Instance, AgeCap

\* Refreshing or withdrawing a well-typed instance gives one, at the same address.
LEMMA ChangedTyped ==
  ASSUME NEW ins \in Instance
  PROVE  /\ Refreshed(ins) \in Instance
         /\ Refreshed(ins).addr = ins.addr /\ Refreshed(ins).age = 0
         /\ Withdrawn(ins) \in Instance /\ Withdrawn(ins).addr = ins.addr
         /\ Withdrawn(ins).age = ins.age /\ ~Withdrawn(ins).healthy
<1>1. 0 \in 0..AgeCap
  BY RegistryAssumption DEF AgeCap
<1>2. QED
  BY <1>1 DEF Refreshed, Withdrawn, Instance

\* Registering under k, which the code has stripped.
LEMMA RegisterEffect ==
  ASSUME TypeOK, OneInstancePerAddress, NEW n \in Name, NEW a \in Addr,
         NEW check \in BOOLEAN, register_instance(n, a, check)
  PROVE  HandlerEffect
<1> DEFINE k == Strip[n]
           b == StripAddr[a]
<1>1. k \in Name /\ b \in Addr
  BY RegistryAssumption
<1> HIDE DEF k, b
<1>2. UNCHANGED checker /\ keys' = keys \cup {k}
  BY DEF register_instance, TouchKey, k
<1>3. CASE Registered(k, b)
  <2> DEFINE i == Position(k, b)
             e == Refreshed(registry[k][i])
  <2>1. i \in DOMAIN registry[k] /\ registry[k] \in Seq(Instance)
    BY <1>1, <1>3, FirstIsMatch DEF Matching, TypeOK
  <2> HIDE DEF i
  <2>2. registry[k][i] \in Instance
    BY <2>1
  <2>3. e \in Instance /\ e.addr = registry[k][i].addr /\ e.age = 0
    BY <2>2, ChangedTyped
  <2>4. registry' = WithEntry(k, i, e)
    BY <1>3 DEF register_instance, k, b, i, e
  <2> HIDE DEF e
  <2>5. QED
    BY <1>1, <1>2, <2>1, <2>3, <2>4, ReplaceEffect
<1>4. CASE ~Registered(k, b)
  <2> DEFINE e == NewInstance(a, check)
             new == Append(registry[k], e)
  <2>1. e \in Instance /\ e.addr = a /\ e.age = 0
    BY FreshTyped DEF NewInstance
  <2>2. registry' = [registry EXCEPT ![k] = new]
    BY <1>1, <1>4 DEF register_instance, k, b
  <2> HIDE DEF e
  <2>3. /\ registry[k] \in Seq(Instance) /\ new \in Seq(Instance)
        /\ DOMAIN new = DOMAIN registry[k] \cup {Len(registry[k]) + 1}
        /\ Len(registry[k]) + 1 \notin DOMAIN registry[k]
        /\ new[Len(registry[k]) + 1] = e
        /\ \A j \in DOMAIN registry[k] : new[j] = registry[k][j]
    BY <1>1, <2>1 DEF TypeOK
  <2> HIDE DEF new
  <2>4. registry'[k] = new /\ \A m \in Name : m # k => registry'[m] = registry[m]
    BY <1>1, <2>2 DEF TypeOK
  <2>5. TypeOK'
    BY <1>1, <1>2, <2>2, <2>3, <2>4 DEF TypeOK, Checker
  <2>6. \A m \in Name : \A j \in DOMAIN registry[m] :
          j \in DOMAIN registry'[m] /\ registry'[m][j].addr = registry[m][j].addr
    BY <2>3, <2>4
  <2>7. \/ Padded(a)
        \/ \A j \in DOMAIN registry[k] : registry[k][j].addr # a
    BY <1>4 DEF Registered, Matching, Padded, b
  <2>8. OneInstancePerAddress'
    <3> SUFFICES ASSUME NEW m \in Name, NEW p \in DOMAIN registry'[m],
                        NEW q \in DOMAIN registry'[m],
                        registry'[m][p].addr = registry'[m][q].addr,
                        ~Padded(registry'[m][p].addr)
                 PROVE  p = q
      BY DEF OneInstancePerAddress
    <3>1. CASE m # k
      BY <2>4, <3>1 DEF OneInstancePerAddress
    <3>2. CASE m = k /\ p \in DOMAIN registry[k] /\ q \in DOMAIN registry[k]
      BY <2>3, <2>4, <3>2 DEF OneInstancePerAddress
    <3>3. CASE m = k /\ ~(p \in DOMAIN registry[k] /\ q \in DOMAIN registry[k])
      BY <2>1, <2>3, <2>4, <2>7, <3>3
    <3>4. QED
      BY <3>1, <3>2, <3>3
  <2>9. QED
    BY <1>1, <1>2, <2>1, <2>3, <2>4, <2>5, <2>6, <2>8 DEF HandlerEffect
<1>5. QED
  BY <1>3, <1>4

\* Deregistering is such an effect, under the stripped name.
LEMMA DeregisterEffect ==
  ASSUME TypeOK, OneInstancePerAddress, NEW n \in Name, NEW a \in Addr,
         deregister_instance(n, a)
  PROVE  HandlerEffect
<1> DEFINE k == Strip[n]
           b == StripAddr[a]
           i == Position(k, b)
           e == Withdrawn(registry[k][i])
<1>1. k \in Name /\ b \in Addr
  BY RegistryAssumption
<1>2. UNCHANGED checker /\ keys' = keys \cup {k}
  BY DEF deregister_instance, TouchKey
<1>3. CASE Registered(k, b)
  <2>1. i \in DOMAIN registry[k] /\ registry[k] \in Seq(Instance)
    BY <1>1, <1>3, FirstIsMatch DEF Matching, TypeOK
  <2>2. registry' = WithEntry(k, i, e)
    BY <1>3 DEF deregister_instance
  <2> HIDE DEF k, b, i
  <2>3. registry[k][i] \in Instance
    BY <2>1
  <2>4. e \in Instance /\ e.addr = registry[k][i].addr
    BY <2>3, ChangedTyped
  <2>5. QED
    BY <1>1, <1>2, <2>1, <2>2, <2>4, ReplaceEffect
<1>4. CASE ~Registered(k, b)
  <2>1. UNCHANGED registry
    BY <1>4 DEF deregister_instance
  <2>2. QED
    BY <1>1, <1>2, <2>1 DEF HandlerEffect, TypeOK, OneInstancePerAddress, Checker
<1>5. QED
  BY <1>3, <1>4

\* So is a heartbeat, under the name as it came.
LEMMA HeartbeatEffect ==
  ASSUME TypeOK, OneInstancePerAddress, NEW n \in Name, NEW a \in Addr,
         send_heartbeat(n, a)
  PROVE  HandlerEffect
<1> DEFINE i == Position(n, a)
           e == Refreshed(registry[n][i])
<1>1. UNCHANGED checker /\ keys' = keys \cup {n}
  BY DEF send_heartbeat, TouchKey
<1>2. CASE Registered(n, a)
  <2>1. i \in DOMAIN registry[n] /\ registry[n] \in Seq(Instance)
    BY <1>2, FirstIsMatch DEF Matching, TypeOK
  <2>2. registry' = WithEntry(n, i, e)
    BY <1>2 DEF send_heartbeat
  <2> HIDE DEF i
  <2>3. registry[n][i] \in Instance
    BY <2>1
  <2>4. e \in Instance /\ e.addr = registry[n][i].addr /\ e.age = 0
    BY <2>3, ChangedTyped
  <2>5. QED
    BY <1>1, <2>1, <2>2, <2>4, ReplaceEffect
<1>3. CASE ~Registered(n, a)
  <2>1. UNCHANGED registry
    BY <1>3 DEF send_heartbeat
  <2>2. QED
    BY <1>1, <2>1 DEF HandlerEffect, TypeOK, OneInstancePerAddress, Checker
<1>4. QED
  BY <1>2, <1>3

\* So is a query, which may create its key.
LEMMA QueryEffect ==
  ASSUME TypeOK, OneInstancePerAddress, NEW n \in Name, get_all_instances(n)
  PROVE  HandlerEffect
  BY DEF get_all_instances, TouchKey, HandlerEffect, TypeOK, OneInstancePerAddress, Checker

\* Every request handler of the controller.
LEMMA AnyHandlerEffect ==
  ASSUME TypeOK, OneInstancePerAddress, Handler
  PROVE  HandlerEffect /\ UNCHANGED checker
<1>1. ASSUME NEW n \in Name, get_all_instances(n)
      PROVE  HandlerEffect /\ UNCHANGED checker
  BY <1>1, QueryEffect DEF get_all_instances
<1>2. ASSUME NEW n \in Name, NEW a \in Addr, deregister_instance(n, a)
      PROVE  HandlerEffect /\ UNCHANGED checker
  BY <1>2, DeregisterEffect DEF deregister_instance
<1>3. ASSUME NEW n \in Name, NEW a \in Addr, send_heartbeat(n, a)
      PROVE  HandlerEffect /\ UNCHANGED checker
  BY <1>3, HeartbeatEffect DEF send_heartbeat
<1>4. ASSUME NEW n \in Name, NEW a \in Addr, NEW check \in BOOLEAN,
             register_instance(n, a, check)
      PROVE  HandlerEffect /\ UNCHANGED checker
  BY <1>4, RegisterEffect DEF register_instance
<1>5. QED
  BY <1>1, <1>2, <1>3, <1>4 DEF Handler
-----------------------------------------------------------------------------
\* The invariant holds when __init__ has started the thread.
LEMMA InitIInv == Init => IInv
<1> SUFFICES ASSUME Init PROVE IInv
  OBVIOUS
<1>1. checker = FreshChecker /\ FreshChecker \in Checker
  BY RegistryAssumption DEF Init, FreshChecker, Checker
<1>2. TypeOK
  BY <1>1 DEF Init, TypeOK
<1>3. OneInstancePerAddress /\ DetectionBound
  BY DEF Init, OneInstancePerAddress, DetectionBound
<1>4. ScanProgress /\ MarkTarget
  BY <1>1 DEF FreshChecker, ScanProgress, MarkTarget
<1>5. QED
  BY <1>2, <1>3, <1>4 DEF IInv

\* A handler only adds entries that were just heard from.
LEMMA HandlerKeepsIInv ==
  ASSUME IInv, HandlerEffect, UNCHANGED checker
  PROVE  IInv'
<1> USE DEF HandlerEffect, IInv
<1>1. \A ins \in Instance : /\ Withdrawn(ins).healthy = FALSE
                            /\ Withdrawn(ins).age = ins.age
                            /\ Withdrawn(ins).check_healthy = ins.check_healthy
  BY DEF Withdrawn, Instance
<1>2. \A n \in Name : \A i \in DOMAIN registry[n] : registry[n][i] \in Instance
  BY DEF TypeOK
<1>3. DetectionBound'
  <2> SUFFICES ASSUME checker.pc = "sleep",
                      NEW n \in Name, NEW i \in DOMAIN registry'[n],
                      registry'[n][i].healthy, registry'[n][i].check_healthy
               PROVE  registry'[n][i].age <= HeartbeatTimeout + (CheckInterval - checker.due)
    BY DEF DetectionBound
  <2>1. CASE registry'[n][i].age = 0
    BY <2>1, RegistryAssumption DEF TypeOK, Checker
  <2>2. CASE i \in DOMAIN registry[n] /\ registry'[n][i] = registry[n][i]
    BY <2>2 DEF DetectionBound
  <2>3. CASE i \in DOMAIN registry[n] /\ registry'[n][i] = Withdrawn(registry[n][i])
    BY <2>3, <1>1, <1>2
  <2>4. QED
    BY <2>1, <2>2, <2>3
<1>4. ScanProgress'
  <2> SUFFICES ASSUME checker.pc \in {"next", "scan", "mark"},
                      NEW n \in Name, NEW i \in DOMAIN registry'[n],
                      registry'[n][i].healthy, registry'[n][i].check_healthy
               PROVE  \/ registry'[n][i].age <= HeartbeatTimeout
                      \/ /\ registry'[n][i].age <= HeartbeatTimeout + CheckInterval
                         /\ Unvisited(n, i)
    BY DEF ScanProgress, Unvisited
  <2>1. CASE registry'[n][i].age = 0
    BY <2>1, RegistryAssumption
  <2>2. CASE i \in DOMAIN registry[n] /\ registry'[n][i] = registry[n][i]
    BY <2>2 DEF ScanProgress
  <2>3. CASE i \in DOMAIN registry[n] /\ registry'[n][i] = Withdrawn(registry[n][i])
    BY <2>3, <1>1, <1>2
  <2>4. QED
    BY <2>1, <2>2, <2>3
<1>5. MarkTarget'
  <2> SUFFICES ASSUME checker.pc = "mark"
               PROVE  /\ checker.pos \in DOMAIN registry'[checker.cur]
                      /\ LET ins == registry'[checker.cur][checker.pos] IN
                         Overdue(ins) \/ ins.age = 0
    BY DEF MarkTarget, Overdue
  <2>1. checker.cur \in Name /\ checker.pos \in DOMAIN registry[checker.cur]
    BY DEF MarkTarget, TypeOK, Checker
  <2>2. QED
    BY <1>1, <1>2, <2>1 DEF MarkTarget, Overdue
<1>6. QED
  BY <1>3, <1>4, <1>5

\* A scan begins: no entry has been visited, and none is later than the interval.
LEMMA WakeKeepsIInv == IInv /\ CheckerWakes => IInv'
<1> SUFFICES ASSUME IInv, CheckerWakes PROVE IInv'
  OBVIOUS
<1> USE DEF IInv
<1>1. /\ checker' = [checker EXCEPT !.pc = "next", !.size = keys, !.todo = keys]
      /\ checker.pc = "sleep" /\ checker.due = 0 /\ UNCHANGED <<keys, registry>>
  BY DEF CheckerWakes
<1>2. TypeOK' /\ OneInstancePerAddress'
  BY <1>1 DEF TypeOK, Checker, OneInstancePerAddress
<1>3. checker'.pc = "next" /\ checker'.todo = keys
  BY <1>1 DEF TypeOK, Checker
<1>4. DetectionBound' /\ MarkTarget'
  BY <1>3 DEF DetectionBound, MarkTarget
<1>5. ScanProgress'
  <2> SUFFICES ASSUME NEW n \in Name, NEW i \in DOMAIN registry[n],
                      registry[n][i].healthy, registry[n][i].check_healthy
               PROVE  registry[n][i].age <= HeartbeatTimeout + CheckInterval /\ n \in keys
    BY <1>1, <1>3 DEF ScanProgress, Unvisited
  <2>1. registry[n] # <<>>
    OBVIOUS
  <2>2. QED
    BY <1>1, <2>1, RegistryAssumption DEF TypeOK, DetectionBound
<1>6. QED
  BY <1>2, <1>4, <1>5

\* The dict iterator advances, ends the scan, or kills the thread.
LEMMA NextListKeepsIInv == IInv /\ NextList => IInv'
<1> SUFFICES ASSUME IInv, NextList PROVE IInv'
  OBVIOUS
<1> USE DEF IInv
<1>1. checker.pc = "next" /\ UNCHANGED <<keys, registry>>
  BY DEF NextList
<1>2. OneInstancePerAddress'
  BY <1>1 DEF OneInstancePerAddress
<1>3. \A n \in Name : \A i \in DOMAIN registry[n] :
        registry[n][i] \in Instance /\ i \in Nat \ {0}
  BY DEF TypeOK
<1>4. CASE checker' = [checker EXCEPT !.pc = "dead"]
  <2>1. checker'.pc = "dead" /\ checker' \in Checker
    BY <1>4 DEF TypeOK, Checker
  <2>2. QED
    BY <1>1, <1>2, <2>1 DEF TypeOK, DetectionBound, ScanProgress, MarkTarget
<1>5. CASE /\ checker.todo = {}
           /\ checker' = [checker EXCEPT !.pc = "sleep", !.due = CheckInterval]
  <2> CheckInterval \in 0..CheckInterval
    BY RegistryAssumption
  <2>1. checker'.pc = "sleep" /\ checker'.due = CheckInterval /\ checker' \in Checker
    BY <1>5, Zenon DEF TypeOK, Checker
  <2>2. \A n \in Name : \A i \in DOMAIN registry[n] :
          registry[n][i].healthy /\ registry[n][i].check_healthy =>
            registry[n][i].age <= HeartbeatTimeout
    BY <1>1, <1>5 DEF ScanProgress, Unvisited
  <2>3. QED
    BY <1>1, <1>2, <2>1, <2>2, RegistryAssumption
       DEF TypeOK, DetectionBound, ScanProgress, MarkTarget
<1>6. ASSUME NEW n \in checker.todo,
             checker' = [checker EXCEPT !.pc = "scan", !.cur = n, !.pos = 1, !.todo = @ \ {n}]
      PROVE  IInv'
  <2> n \in Name /\ 1 \in Nat \ {0} /\ checker.todo \ {n} \in SUBSET Name
    BY <1>6 DEF TypeOK, Checker
  <2>1. /\ checker'.pc = "scan" /\ checker'.cur = n /\ checker'.pos = 1
        /\ checker'.todo = checker.todo \ {n} /\ checker' \in Checker
    BY <1>6, Zenon DEF TypeOK, Checker
  <2>2. \A m \in Name : \A i \in DOMAIN registry[m] : Unvisited(m, i) => Unvisited(m, i)'
    BY <1>1, <1>3, <2>1 DEF Unvisited
  <2>3. ScanProgress'
    BY <1>1, <2>1, <2>2 DEF ScanProgress
  <2>4. QED
    BY <1>1, <1>2, <2>1, <2>3 DEF TypeOK, DetectionBound, MarkTarget
<1>7. QED
  BY <1>4, <1>5, <1>6 DEF NextList

\* The list iterator advances past an entry only if it is not overdue.
LEMMA InspectKeepsIInv == IInv /\ Inspect => IInv'
<1> SUFFICES ASSUME IInv, Inspect PROVE IInv'
  OBVIOUS
<1> USE DEF IInv
<1> DEFINE list == registry[checker.cur]
           c == checker.cur
           p == checker.pos
<1>1. checker.pc = "scan" /\ UNCHANGED <<keys, registry>> /\ c \in Name /\ p \in Nat \ {0}
  BY DEF Inspect, TypeOK, Checker
<1>2. OneInstancePerAddress'
  BY <1>1 DEF OneInstancePerAddress
<1>3. \A n \in Name : \A i \in DOMAIN registry[n] :
        registry[n][i] \in Instance /\ i \in 1..Len(registry[n])
  BY DEF TypeOK
<1>4. CASE p > Len(list) /\ checker' = [checker EXCEPT !.pc = "next"]
  <2>1. checker'.pc = "next" /\ checker'.todo = checker.todo /\ checker' \in Checker
    BY <1>4 DEF TypeOK, Checker
  <2>2. \A n \in Name : \A i \in DOMAIN registry[n] : Unvisited(n, i) => Unvisited(n, i)'
    BY <1>1, <1>3, <1>4, <2>1 DEF Unvisited, TypeOK
  <2>3. QED
    BY <1>1, <1>2, <2>1, <2>2 DEF TypeOK, DetectionBound, MarkTarget, ScanProgress
<1>5. CASE p <= Len(list) /\ Overdue(list[p]) /\ checker' = [checker EXCEPT !.pc = "mark"]
  <2>1. /\ checker'.pc = "mark" /\ checker'.todo = checker.todo /\ checker'.cur = c
        /\ checker'.pos = p /\ checker' \in Checker
    BY <1>5 DEF TypeOK, Checker
  <2>2. p \in DOMAIN list
    BY <1>1, <1>5 DEF TypeOK
  <2>3. \A n \in Name : \A i \in DOMAIN registry[n] : Unvisited(n, i) => Unvisited(n, i)'
    BY <1>1, <2>1 DEF Unvisited
  <2>4. QED
    BY <1>1, <1>2, <1>5, <2>1, <2>2, <2>3
       DEF TypeOK, DetectionBound, MarkTarget, ScanProgress, Overdue
<1>6. CASE p <= Len(list) /\ ~Overdue(list[p]) /\ checker' = [checker EXCEPT !.pos = @ + 1]
  <2> p + 1 \in Nat \ {0}
    BY <1>1
  <2>1. /\ checker'.pc = "scan" /\ checker'.todo = checker.todo /\ checker'.cur = c
        /\ checker'.pos = p + 1 /\ checker' \in Checker
    BY <1>1, <1>6, Zenon DEF TypeOK, Checker
  <2>2. ScanProgress'
    <3> SUFFICES ASSUME NEW n \in Name, NEW i \in DOMAIN registry[n],
                        registry[n][i].healthy, registry[n][i].check_healthy
                 PROVE  \/ registry[n][i].age <= HeartbeatTimeout
                        \/ /\ registry[n][i].age <= HeartbeatTimeout + CheckInterval
                           /\ Unvisited(n, i)'
      BY <1>1, <2>1 DEF ScanProgress
    <3>1. CASE n = c /\ i = p
      <4>1. registry[n][i].age \in Nat
        BY <1>3, RegistryAssumption DEF Instance, AgeCap
      <4>2. QED
        BY <1>6, <3>1, <4>1, RegistryAssumption DEF Overdue
    <3>2. CASE ~(n = c /\ i = p)
      <4>1. Unvisited(n, i) => Unvisited(n, i)'
        BY <1>1, <1>3, <2>1, <3>2 DEF Unvisited
      <4>2. QED
        BY <1>1, <4>1 DEF ScanProgress
    <3>3. QED
      BY <3>1, <3>2
  <2>3. QED
    BY <1>1, <1>2, <2>1, <2>2 DEF TypeOK, DetectionBound, MarkTarget
<1>7. Len(list) \in Nat
  BY <1>1 DEF TypeOK
<1>8. QED
  BY <1>1, <1>4, <1>5, <1>6, <1>7 DEF Inspect

\* The overdue entry is withdrawn, and the scan goes on behind it.
LEMMA MarkKeepsIInv == IInv /\ MarkUnhealthy => IInv'
<1> SUFFICES ASSUME IInv, MarkUnhealthy PROVE IInv'
  OBVIOUS
<1> USE DEF IInv
<1> DEFINE c == checker.cur
           p == checker.pos
           new == [registry[c] EXCEPT ![p] = Withdrawn(registry[c][p])]
<1>1. /\ checker.pc = "mark" /\ UNCHANGED keys /\ c \in Name /\ p \in Nat \ {0}
      /\ checker' = [checker EXCEPT !.pc = "scan", !.pos = p + 1]
      /\ registry' = [registry EXCEPT ![c] = new]
  BY DEF MarkUnhealthy, WithEntry, TypeOK, Checker
<1>2. p \in DOMAIN registry[c] /\ registry[c] \in Seq(Instance)
  BY <1>1 DEF MarkTarget, TypeOK
<1>3. /\ Withdrawn(registry[c][p]) \in Instance /\ ~Withdrawn(registry[c][p]).healthy
      /\ Withdrawn(registry[c][p]).addr = registry[c][p].addr
  BY <1>2, ChangedTyped
<1>4. /\ new \in Seq(Instance) /\ DOMAIN new = DOMAIN registry[c]
      /\ new[p] = Withdrawn(registry[c][p])
      /\ \A i \in DOMAIN new : i # p => new[i] = registry[c][i]
  BY <1>2, <1>3, UpdateSeq
<1>5. p + 1 \in Nat \ {0}
  BY <1>1
<1>6. /\ checker'.pc = "scan" /\ checker'.todo = checker.todo /\ checker'.cur = c
      /\ checker'.pos = p + 1 /\ checker' \in Checker
  BY <1>1, <1>5, Zenon DEF TypeOK, Checker
<1> HIDE DEF new
<1>7. registry'[c] = new /\ \A n \in Name : n # c => registry'[n] = registry[n]
  BY <1>1 DEF TypeOK
<1>8. TypeOK'
  BY <1>1, <1>2, <1>4, <1>6, <1>7 DEF TypeOK
<1>9. OneInstancePerAddress'
  BY <1>3, <1>4, <1>7 DEF OneInstancePerAddress
<1>10. ScanProgress'
  <2> SUFFICES ASSUME NEW n \in Name, NEW i \in DOMAIN registry'[n],
                      registry'[n][i].healthy, registry'[n][i].check_healthy
               PROVE  \/ registry'[n][i].age <= HeartbeatTimeout
                      \/ /\ registry'[n][i].age <= HeartbeatTimeout + CheckInterval
                         /\ Unvisited(n, i)'
    BY DEF ScanProgress
  <2>1. ~(n = c /\ i = p)
    BY <1>3, <1>4, <1>7
  <2>2. i \in DOMAIN registry[n] /\ registry'[n][i] = registry[n][i] /\ i \in Nat
    BY <1>4, <1>7, <2>1 DEF TypeOK
  <2>3. Unvisited(n, i) => Unvisited(n, i)'
    BY <1>1, <1>6, <2>1, <2>2 DEF Unvisited
  <2>4. QED
    BY <1>1, <2>2, <2>3 DEF ScanProgress
<1>11. QED
  BY <1>6, <1>8, <1>9, <1>10 DEF DetectionBound, MarkTarget

\* The clock only ticks between scans, where DetectionBound leaves room for it.
LEMMA TickKeepsIInv == IInv /\ Tick => IInv'
<1> SUFFICES ASSUME IInv, Tick PROVE IInv'
  OBVIOUS
<1> USE DEF IInv
<1>1. ASSUME NEW ins \in Instance
      PROVE  /\ Older(ins) \in Instance /\ Older(ins).addr = ins.addr
             /\ Older(ins).healthy = ins.healthy
             /\ Older(ins).check_healthy = ins.check_healthy
             /\ ins.age \in Int /\ Older(ins).age \in Int /\ Older(ins).age <= ins.age + 1
  <2> DEFINE a == IF ins.age < AgeCap THEN ins.age + 1 ELSE ins.age
  <2>1. a \in 0..AgeCap /\ a \in Int /\ ins.age \in Int /\ a <= ins.age + 1
    BY RegistryAssumption DEF Instance, AgeCap
  <2>2. Older(ins) = [ins EXCEPT !.age = a]
    BY DEF Older
  <2> HIDE DEF a
  <2>3. QED
    BY <2>1, <2>2 DEF Instance
<1>2. \A n \in Name : registry[n] \in Seq(Instance)
  BY DEF TypeOK
<1>3. \A n \in Name :
        /\ registry'[n] \in Seq(Instance) /\ DOMAIN registry'[n] = DOMAIN registry[n]
        /\ \A i \in DOMAIN registry[n] : registry'[n][i] = Older(registry[n][i])
  <2> TAKE n \in Name
  <2>1. registry'[n] = [i \in DOMAIN registry[n] |-> Older(registry[n][i])]
    BY DEF Tick
  <2>2. DOMAIN registry[n] = 1..Len(registry[n]) /\ Len(registry[n]) \in Nat
    BY <1>2
  <2>3. \A i \in DOMAIN registry[n] : Older(registry[n][i]) \in Instance
    BY <1>1, <1>2
  <2>4. QED
    BY <2>1, <2>2, <2>3
<1>4. registry' \in [Name -> Seq(Instance)] /\ UNCHANGED keys
  BY <1>3 DEF Tick
<1>5. \A n \in Name : registry'[n] # <<>> => n \in keys'
  <2> TAKE n \in Name
  <2>1. registry[n] = <<>> => registry'[n] = <<>>
    BY <1>2, <1>3
  <2>2. QED
    BY <1>4, <2>1 DEF TypeOK
<1>6. OneInstancePerAddress'
  <2>1. \A n \in Name : \A i \in DOMAIN registry[n] :
          registry'[n][i].addr = registry[n][i].addr
    BY <1>1, <1>2, <1>3
  <2>2. QED
    BY <1>3, <2>1 DEF OneInstancePerAddress
<1>7. CASE checker.pc = "dead"
  <2>1. UNCHANGED checker
    BY <1>7 DEF Tick
  <2>2. QED
    BY <1>4, <1>5, <1>6, <1>7, <2>1 DEF TypeOK, DetectionBound, ScanProgress, MarkTarget
<1>8. CASE checker.pc = "sleep" /\ checker.due > 0
  <2>1. checker.due - 1 \in 0..CheckInterval
    BY <1>8, RegistryAssumption DEF TypeOK, Checker
  <2>2. checker' = [checker EXCEPT !.due = checker.due - 1]
    BY <1>8 DEF Tick
  <2>3. checker' \in Checker /\ checker'.pc = "sleep" /\ checker'.due = checker.due - 1
    BY <1>8, <2>1, <2>2, Zenon DEF TypeOK, Checker
  <2>4. DetectionBound'
    <3> SUFFICES ASSUME NEW n \in Name, NEW i \in DOMAIN registry'[n],
                        registry'[n][i].healthy, registry'[n][i].check_healthy
                 PROVE  registry'[n][i].age
                          <= HeartbeatTimeout + (CheckInterval - checker'.due)
      BY DEF DetectionBound
    <3>1. i \in DOMAIN registry[n] /\ registry[n][i] \in Instance
      BY <1>2, <1>3
    <3>2. registry[n][i].age <= HeartbeatTimeout + (CheckInterval - checker.due)
      BY <1>1, <1>3, <1>8, <3>1 DEF DetectionBound
    <3>3. /\ registry[n][i].age \in Int /\ registry'[n][i].age \in Int
          /\ registry'[n][i].age <= registry[n][i].age + 1
      BY <1>1, <1>3, <3>1
    <3>4. checker.due \in Int
      BY DEF TypeOK, Checker
    <3>5. QED
      BY <2>3, <3>2, <3>3, <3>4, RegistryAssumption
  <2>5. QED
    BY <1>4, <1>5, <1>6, <2>3, <2>4 DEF TypeOK, ScanProgress, MarkTarget
<1>9. QED
  BY <1>7, <1>8 DEF Tick, CheckerIdle

\* A restart of the controller empties the registry.
LEMMA RestartKeepsIInv == ControllerRestart => IInv'
<1> SUFFICES ASSUME ControllerRestart PROVE IInv'
  OBVIOUS
<1>1. checker' = FreshChecker /\ FreshChecker \in Checker
  BY RegistryAssumption DEF ControllerRestart, FreshChecker, Checker
<1>2. TypeOK'
  BY <1>1 DEF ControllerRestart, TypeOK
<1>3. OneInstancePerAddress' /\ DetectionBound'
  BY DEF ControllerRestart, OneInstancePerAddress, DetectionBound
<1>4. ScanProgress' /\ MarkTarget'
  BY <1>1 DEF FreshChecker, ScanProgress, MarkTarget
<1>5. QED
  BY <1>2, <1>3, <1>4 DEF IInv

\* Every step keeps the invariant.
LEMMA NextKeepsIInv == IInv /\ [Next]_registryVars => IInv'
<1> SUFFICES ASSUME IInv, [Next]_registryVars PROVE IInv'
  OBVIOUS
<1>1. CASE Handler
  BY <1>1, AnyHandlerEffect, HandlerKeepsIInv DEF IInv
<1>2. CASE CheckerStep
  BY <1>2, WakeKeepsIInv, NextListKeepsIInv, InspectKeepsIInv, MarkKeepsIInv DEF CheckerStep
<1>3. CASE Tick
  BY <1>3, TickKeepsIInv
<1>4. CASE ControllerRestart
  BY <1>4, RestartKeepsIInv
<1>5. CASE UNCHANGED registryVars
  BY <1>5 DEF registryVars, IInv, TypeOK, OneInstancePerAddress, DetectionBound,
              ScanProgress, MarkTarget, Unvisited, Overdue
<1>6. QED
  BY <1>1, <1>2, <1>3, <1>4, <1>5 DEF Next

\* The conjunction that makes the invariants below inductive.
THEOREM Inductive == Spec => []IInv
<1>1. QED
  BY InitIInv, NextKeepsIInv, PTL DEF Spec

\* The registry stays well typed, and a list is never filed under a missing key.
THEOREM TypeCorrect == Spec => []TypeOK
<1>1. IInv => TypeOK
  BY DEF IInv
<1>2. QED
  BY <1>1, Inductive, PTL

\* No two entries of one name ever share a host without blanks and port
\* (registry.py:141), although padded spellings of it are registered too.
THEOREM OneInstanceAlways == Spec => []OneInstancePerAddress
<1>1. IInv => OneInstancePerAddress
  BY DEF IInv
<1>2. QED
  BY <1>1, Inductive, PTL

\* As long as the checker thread lives, silence is noticed within the timeout
\* plus one scan interval, for every interleaving of handlers with the scan.
THEOREM DetectionBoundAlways == Spec => []DetectionBound
<1>1. IInv => DetectionBound
  BY DEF IInv
<1>2. QED
  BY <1>1, Inductive, PTL

\* Handlers, scans and ticks leave every entry at its place in its list.
THEOREM EntriesStayAlways == Spec => EntriesStay
<1>1. IInv /\ [Next]_registryVars =>
        [keys' # {} => \A n \in Name : \A i \in DOMAIN registry[n] :
           i \in DOMAIN registry'[n] /\ registry'[n][i].addr = registry[n][i].addr]_registryVars
  <2> SUFFICES ASSUME IInv, Next, keys' # {},
                      NEW n \in Name, NEW i \in DOMAIN registry[n]
               PROVE  i \in DOMAIN registry'[n] /\ registry'[n][i].addr = registry[n][i].addr
    OBVIOUS
  <2>1. registry[n] \in Seq(Instance) /\ registry[n][i] \in Instance
    BY DEF IInv, TypeOK
  <2>2. CASE Handler
    BY <2>2, AnyHandlerEffect DEF IInv, HandlerEffect
  <2>3. CASE MarkUnhealthy
    <3> DEFINE c == checker.cur
               p == checker.pos
    <3>1. /\ c \in Name /\ p \in DOMAIN registry[c] /\ registry[c] \in Seq(Instance)
          /\ registry' = WithEntry(c, p, Withdrawn(registry[c][p]))
      BY <2>3 DEF MarkUnhealthy, IInv, TypeOK, Checker, MarkTarget
    <3>2. /\ Withdrawn(registry[c][p]) \in Instance
          /\ Withdrawn(registry[c][p]).addr = registry[c][p].addr
      BY <3>1, ChangedTyped
    <3>3. QED
      BY <3>1, <3>2 DEF WithEntry, IInv, TypeOK
  <2>4. CASE CheckerWakes \/ NextList \/ Inspect
    BY <2>4 DEF CheckerWakes, NextList, Inspect
  <2>5. CASE Tick
    <3>1. Older(registry[n][i]).addr = registry[n][i].addr
      BY <2>1 DEF Older, Instance
    <3>2. registry'[n] = [j \in DOMAIN registry[n] |-> Older(registry[n][j])]
      BY <2>5 DEF Tick
    <3>3. QED
      BY <3>1, <3>2
  <2>6. CASE ControllerRestart
    BY <2>6 DEF ControllerRestart
  <2>7. QED
    BY <2>2, <2>3, <2>4, <2>5, <2>6 DEF Next, CheckerStep
<1>2. QED
  BY <1>1, Inductive, PTL DEF Spec, EntriesStay

\* The checker never condemns an instance on evidence older than its scan.
THEOREM SuspicionNeedsSilenceAlways == Spec => SuspicionNeedsSilence
<1>1. IInv /\ [Next]_registryVars =>
        [checker' # checker /\ keys' # {} =>
           \A n \in Name : \A i \in DOMAIN registry[n] :
             registry[n][i].healthy /\ ~registry'[n][i].healthy =>
               Overdue(registry[n][i]) \/ registry[n][i].age = 0]_registryVars
  <2> SUFFICES ASSUME IInv, Next, checker' # checker, keys' # {},
                      NEW n \in Name, NEW i \in DOMAIN registry[n],
                      registry[n][i].healthy, ~registry'[n][i].healthy
               PROVE  Overdue(registry[n][i]) \/ registry[n][i].age = 0
    OBVIOUS
  <2>1. registry[n] \in Seq(Instance) /\ registry[n][i] \in Instance
    BY DEF IInv, TypeOK
  <2>2. ~Handler
    BY AnyHandlerEffect DEF IInv
  <2>3. ~(CheckerWakes \/ NextList \/ Inspect)
    BY DEF CheckerWakes, NextList, Inspect
  <2>4. ~ControllerRestart
    BY DEF ControllerRestart
  <2>5. ~Tick
    <3>1. Older(registry[n][i]).healthy = registry[n][i].healthy
      BY <2>1 DEF Older, Instance
    <3>2. Tick => registry'[n] = [j \in DOMAIN registry[n] |-> Older(registry[n][j])]
      BY DEF Tick
    <3>3. QED
      BY <3>1, <3>2
  <2>6. CASE MarkUnhealthy
    <3> DEFINE c == checker.cur
               p == checker.pos
    <3>1. /\ c \in Name /\ p \in DOMAIN registry[c] /\ registry[c] \in Seq(Instance)
          /\ registry' = WithEntry(c, p, Withdrawn(registry[c][p]))
          /\ Overdue(registry[c][p]) \/ registry[c][p].age = 0
      BY <2>6 DEF MarkUnhealthy, IInv, TypeOK, Checker, MarkTarget
    <3>2. n = c /\ i = p
      BY <2>1, <3>1 DEF WithEntry, IInv, TypeOK
    <3>3. QED
      BY <3>1, <3>2
  <2>7. QED
    BY <2>2, <2>3, <2>4, <2>5, <2>6 DEF Next, CheckerStep
<1>2. QED
  BY <1>1, Inductive, PTL DEF Spec, SuspicionNeedsSilence

-----------------------------------------------------------------------------
(* The registry implements the lease directory *)

\* What the refinement reads off the lists needs one entry per address.
Listed == TypeOK /\ OneInstancePerAddress

\* A service of the directory is an entry of a list.
LEMMA EntryOfService ==
  ASSUME Listed, NEW s \in knownServices
  PROVE  /\ s \in Service /\ s[1] \in Name /\ s[2] \in Addr /\ s = <<s[1], s[2]>>
         /\ ~Padded(s[2])
         /\ Position(s[1], s[2]) \in DOMAIN registry[s[1]]
         /\ Entry(s) \in Instance /\ Entry(s).addr = s[2]
<1>1. /\ s \in Service /\ s[1] \in Name /\ s[2] \in Addr /\ s = <<s[1], s[2]>>
      /\ ~Padded(s[2])
  BY DEF knownServices, Service
<1>2. Registered(s[1], s[2])
  BY DEF knownServices
<1>3. Position(s[1], s[2]) \in Matching(s[1], s[2])
  BY <1>1, <1>2, FirstIsMatch DEF Listed
<1>4. /\ Position(s[1], s[2]) \in DOMAIN registry[s[1]]
      /\ registry[s[1]][Position(s[1], s[2])].addr = s[2]
  BY <1>3 DEF Matching
<1>5. registry[s[1]] \in Seq(Instance)
  BY <1>1 DEF Listed, TypeOK
<1>6. QED
  BY <1>1, <1>4, <1>5 DEF Entry

\* An entry of a list is a service of the directory, unless its host is padded.
LEMMA ServiceOfEntry ==
  ASSUME Listed, NEW n \in Name, NEW i \in DOMAIN registry[n],
         ~Padded(registry[n][i].addr)
  PROVE  LET s == <<n, registry[n][i].addr>> IN
         s \in knownServices /\ Position(s[1], s[2]) = i /\ Entry(s) = registry[n][i]
<1> DEFINE a == registry[n][i].addr
           s == <<n, a>>
<1> HIDE DEF a, s
<1>1. a \in Addr /\ registry[n] \in Seq(Instance)
  <2>1. registry[n] \in Seq(Instance)
    BY DEF Listed, TypeOK
  <2>2. registry[n][i] \in Instance
    BY <2>1
  <2>3. QED
    BY <2>1, <2>2 DEF a, Instance
<1> USE DEF a, s
<1>2. i \in Matching(n, a) /\ Registered(n, a)
  BY DEF Matching, Registered
<1>3. Position(n, a) \in Matching(n, a)
  BY <1>1, <1>2, FirstIsMatch DEF Listed
<1>4. Position(n, a) = i
  BY <1>3 DEF Matching, Listed, OneInstancePerAddress
<1>5. s[1] = n /\ s[2] = a /\ s \in Service
  BY <1>1 DEF Service
<1>6. QED
  BY <1>2, <1>4, <1>5 DEF knownServices, Entry

\* The list of each name changes at one place only, and no entry moves.
LEMMA OneEntryMoves ==
  ASSUME Listed, NEW k \in Name, NEW i \in DOMAIN registry[k], NEW e \in Instance,
         e.addr = registry[k][i].addr, registry' = WithEntry(k, i, e)
  PROVE  /\ \A n \in Name : DOMAIN registry'[n] = DOMAIN registry[n]
         /\ registry'[k][i] = e
         /\ \A n \in Name : \A j \in DOMAIN registry[n] :
              n # k \/ j # i => registry'[n][j] = registry[n][j]
         /\ knownServices' = knownServices
         /\ \A t \in Service : Position(t[1], t[2])' = Position(t[1], t[2])
<1>1. /\ registry[k] \in Seq(Instance)
      /\ [registry[k] EXCEPT ![i] = e] \in Seq(Instance)
      /\ DOMAIN [registry[k] EXCEPT ![i] = e] = DOMAIN registry[k]
  BY UpdateSeq DEF Listed, TypeOK
<1>2. /\ \A n \in Name : DOMAIN registry'[n] = DOMAIN registry[n]
      /\ registry'[k][i] = e
      /\ \A n \in Name : \A j \in DOMAIN registry[n] :
           n # k \/ j # i => registry'[n][j] = registry[n][j]
  BY <1>1 DEF WithEntry, Listed, TypeOK
<1>3. \A n \in Name : \A j \in DOMAIN registry[n] :
        registry'[n][j].addr = registry[n][j].addr
  BY <1>2
<1>4. ASSUME NEW n \in Name, NEW a \in Addr
      PROVE  Matching(n, a)' = Matching(n, a)
  BY <1>2, <1>3 DEF Matching
<1>5. knownServices' = knownServices
  BY <1>4 DEF knownServices, Service, Registered
<1>6. \A t \in Service : Position(t[1], t[2])' = Position(t[1], t[2])
  BY <1>4 DEF Service, Position
<1>7. QED
  BY <1>2, <1>5, <1>6

\* A change of an entry with a padded host is not noticed.
LEMMA PaddedEntryChanges ==
  ASSUME Listed, NEW k \in Name, NEW i \in DOMAIN registry[k], NEW e \in Instance,
         e.addr = registry[k][i].addr, Padded(e.addr), registry' = WithEntry(k, i, e)
  PROVE  UNCHANGED <<knownServices, monitoredServices, offeredServices, silenceOfServices>>
<1>1. knownServices' = knownServices
  BY OneEntryMoves
<1>2. ASSUME NEW t \in knownServices
      PROVE  Entry(t)' = Entry(t)
  <2>1. /\ t \in Service /\ t[1] \in Name /\ ~Padded(t[2])
        /\ Position(t[1], t[2]) \in DOMAIN registry[t[1]]
        /\ Entry(t).addr = t[2]
    BY EntryOfService
  <2>2. ~(t[1] = k /\ Position(t[1], t[2]) = i)
    BY <2>1 DEF Entry
  <2>3. Entry(t)' = registry'[t[1]][Position(t[1], t[2])]
    BY <2>1, OneEntryMoves DEF Entry
  <2>4. QED
    BY <2>1, <2>2, <2>3, OneEntryMoves DEF Entry
<1>3. monitoredServices' = monitoredServices /\ offeredServices' = offeredServices
  BY <1>1, <1>2 DEF monitoredServices, offeredServices
<1>4. silenceOfServices' = silenceOfServices
  BY <1>1, <1>2 DEF silenceOfServices
<1>5. QED
  BY <1>1, <1>3, <1>4

\* What changes in the directory when the i-th entry of k becomes e.
LEMMA OneEntryChanges ==
  ASSUME Listed, Listed', NEW k \in Name, NEW i \in DOMAIN registry[k], NEW e \in Instance,
         e.addr = registry[k][i].addr, e.check_healthy = registry[k][i].check_healthy,
         ~Padded(e.addr), registry' = WithEntry(k, i, e)
  PROVE  LET s == <<k, e.addr>> IN
         /\ s \in knownServices /\ Entry(s) = registry[k][i]
         /\ knownServices' = knownServices /\ monitoredServices' = monitoredServices
         /\ offeredServices' = IF e.healthy THEN offeredServices \cup {s}
                                            ELSE offeredServices \ {s}
         /\ silenceOfServices' = [silenceOfServices EXCEPT ![s] = e.age]
<1> DEFINE s == <<k, e.addr>>
<1>2. /\ \A n \in Name : DOMAIN registry'[n] = DOMAIN registry[n]
      /\ registry'[k][i] = e
      /\ \A n \in Name : \A j \in DOMAIN registry[n] :
           n # k \/ j # i => registry'[n][j] = registry[n][j]
  BY OneEntryMoves
<1>3. s \in knownServices /\ Entry(s) = registry[k][i] /\ Position(s[1], s[2]) = i
  BY ServiceOfEntry
<1>6. knownServices' = knownServices
  BY OneEntryMoves
<1>7. ASSUME NEW t \in Service
      PROVE  Position(t[1], t[2])' = Position(t[1], t[2])
  BY OneEntryMoves
<1>8. ASSUME NEW t \in knownServices
      PROVE  Entry(t)' = IF t = s THEN e ELSE Entry(t)
  <2>1. /\ t \in Service /\ t[1] \in Name /\ t = <<t[1], t[2]>>
        /\ Position(t[1], t[2]) \in DOMAIN registry[t[1]]
        /\ Entry(t).addr = t[2]
    BY EntryOfService
  <2>2. Entry(t)' = registry'[t[1]][Position(t[1], t[2])]
    BY <1>7, <2>1 DEF Entry
  <2>3. CASE t = s
    BY <1>2, <1>3, <2>2, <2>3
  <2>4. CASE t # s
    <3>1. ~(t[1] = k /\ Position(t[1], t[2]) = i)
      BY <2>1, <2>4 DEF Entry
    <3>2. QED
      BY <1>2, <2>1, <2>2, <2>4, <3>1 DEF Entry
  <2>5. QED
    BY <2>3, <2>4
<1> HIDE DEF s
<1>9. monitoredServices' = monitoredServices
  BY <1>3, <1>6, <1>8 DEF monitoredServices
<1>10. offeredServices' = IF e.healthy THEN offeredServices \cup {s} ELSE offeredServices \ {s}
  BY <1>3, <1>6, <1>8 DEF offeredServices
<1>11. silenceOfServices' = [silenceOfServices EXCEPT ![s] = e.age]
  BY <1>3, <1>6, <1>8 DEF silenceOfServices
<1>12. QED
  BY <1>3, <1>6, <1>9, <1>10, <1>11 DEF s

\* What changes when a worker is registered for the first time.
LEMMA NewEntry ==
  ASSUME Listed, Listed', NEW k \in Name, NEW a \in Addr, NEW check \in BOOLEAN,
         ~Registered(k, a), ~Padded(a),
         registry' = [registry EXCEPT ![k] = Append(registry[k], NewInstance(a, check))]
  PROVE  LET s == <<k, a>> IN
         /\ s \in Service \ knownServices
         /\ knownServices' = knownServices \cup {s}
         /\ monitoredServices' = IF check THEN monitoredServices \cup {s} ELSE monitoredServices
         /\ offeredServices' = offeredServices \cup {s}
         /\ silenceOfServices' = [silenceOfServices EXCEPT ![s] = 0]
<1> DEFINE s == <<k, a>>
           e == NewInstance(a, check)
           m == Len(registry[k]) + 1
<1>1. /\ e \in Instance /\ e.addr = a /\ e.healthy /\ e.check_healthy = check /\ e.age = 0
      /\ registry[k] \in Seq(Instance)
  BY FreshTyped DEF NewInstance, Listed, TypeOK
<1> HIDE DEF e
<1>2. /\ \A n \in Name : n # k => registry'[n] = registry[n]
      /\ registry'[k] = Append(registry[k], e)
  BY DEF Listed, TypeOK, e
<1>3. /\ DOMAIN registry'[k] = DOMAIN registry[k] \cup {m} /\ m \notin DOMAIN registry[k]
      /\ registry'[k][m] = e
      /\ \A i \in DOMAIN registry[k] : registry'[k][i] = registry[k][i]
  BY <1>1, <1>2
<1> HIDE DEF m
<1>4. s \in Service /\ s \notin knownServices /\ s[1] = k /\ s[2] = a
  BY DEF Service, knownServices
<1>5. Matching(k, a)' = {m}
  <2>1. \A i \in DOMAIN registry[k] : registry[k][i].addr # a
    BY DEF Registered, Matching
  <2>2. QED
    BY <1>1, <1>3, <2>1 DEF Matching
<1>6. Position(k, a)' = m
  <2>1. m \in Nat
    BY <1>1 DEF m
  <2>2. QED
    BY <1>5, <2>1 DEF Position, First
<1>7. ASSUME NEW n \in Name, NEW b \in Addr, <<n, b>> # s
      PROVE  Matching(n, b)' = Matching(n, b)
  <2>1. CASE n # k
    BY <1>2, <2>1 DEF Matching
  <2>2. CASE n = k /\ b # a
    BY <1>1, <1>3, <2>2 DEF Matching
  <2>3. QED
    BY <1>7, <2>1, <2>2
<1>8. knownServices' = knownServices \cup {s}
  <2>1. ASSUME NEW t \in Service
        PROVE  Registered(t[1], t[2])' <=> Registered(t[1], t[2]) \/ t = s
    BY <1>5, <1>7 DEF Service, Registered
  <2>2. QED
    BY <1>4, <2>1 DEF knownServices
<1>9. Entry(s)' = e
  BY <1>3, <1>4, <1>6 DEF Entry
<1>10. ASSUME NEW t \in knownServices
       PROVE  Entry(t)' = Entry(t)
  <2>1. /\ t[1] \in Name /\ t[2] \in Addr /\ t = <<t[1], t[2]>>
        /\ Position(t[1], t[2]) \in DOMAIN registry[t[1]]
    BY EntryOfService
  <2>2. Position(t[1], t[2])' = Position(t[1], t[2])
    BY <1>4, <1>7, <2>1 DEF Position
  <2>3. QED
    BY <1>2, <1>3, <2>1, <2>2 DEF Entry
<1> HIDE DEF s
<1>11. monitoredServices' = IF check THEN monitoredServices \cup {s} ELSE monitoredServices
  BY <1>1, <1>4, <1>8, <1>9, <1>10 DEF monitoredServices
<1>12. offeredServices' = offeredServices \cup {s}
  BY <1>1, <1>4, <1>8, <1>9, <1>10 DEF offeredServices
<1>13. silenceOfServices' = [silenceOfServices EXCEPT ![s] = 0]
  <2>1. knownServices \subseteq Service
    BY DEF knownServices
  <2>2. QED
    BY <1>1, <1>4, <1>8, <1>9, <1>10, <2>1 DEF silenceOfServices
<1>14. QED
  BY <1>4, <1>8, <1>11, <1>12, <1>13 DEF s

\* What is filed for a padded host is not noticed.
LEMMA PaddedEntryIsNew ==
  ASSUME Listed, NEW k \in Name, NEW a \in Addr, NEW check \in BOOLEAN, Padded(a),
         registry' = [registry EXCEPT ![k] = Append(registry[k], NewInstance(a, check))]
  PROVE  UNCHANGED <<knownServices, monitoredServices, offeredServices, silenceOfServices>>
<1> DEFINE e == NewInstance(a, check)
           m == Len(registry[k]) + 1
<1>1. e \in Instance /\ e.addr = a /\ registry[k] \in Seq(Instance)
  BY FreshTyped DEF NewInstance, Listed, TypeOK
<1> HIDE DEF e
<1>2. /\ \A n \in Name : n # k => registry'[n] = registry[n]
      /\ registry'[k] = Append(registry[k], e)
  BY DEF Listed, TypeOK, e
<1>3. /\ DOMAIN registry'[k] = DOMAIN registry[k] \cup {m} /\ m \notin DOMAIN registry[k]
      /\ registry'[k][m] = e
      /\ \A i \in DOMAIN registry[k] : registry'[k][i] = registry[k][i]
  BY <1>1, <1>2
<1> HIDE DEF m
<1>4. ASSUME NEW n \in Name, NEW b \in Addr, ~Padded(b)
      PROVE  Matching(n, b)' = Matching(n, b)
  <2>1. CASE n # k
    BY <1>2, <2>1 DEF Matching
  <2>2. CASE n = k
    <3>1. b # a
      BY <1>4
    <3>2. QED
      BY <1>1, <1>3, <2>2, <3>1 DEF Matching
  <2>3. QED
    BY <2>1, <2>2
<1>5. knownServices' = knownServices
  <2>1. ASSUME NEW t \in Service
        PROVE  Registered(t[1], t[2])' = Registered(t[1], t[2])
    BY <1>4 DEF Service, Registered
  <2>2. QED
    BY <2>1 DEF knownServices
<1>6. ASSUME NEW t \in knownServices
      PROVE  Entry(t)' = Entry(t)
  <2>1. /\ t[1] \in Name /\ t[2] \in Addr /\ ~Padded(t[2])
        /\ Position(t[1], t[2]) \in DOMAIN registry[t[1]]
    BY EntryOfService
  <2>2. Position(t[1], t[2])' = Position(t[1], t[2])
    BY <1>4, <2>1 DEF Position
  <2>3. QED
    BY <1>2, <1>3, <2>1, <2>2 DEF Entry
<1>7. monitoredServices' = monitoredServices /\ offeredServices' = offeredServices
  BY <1>5, <1>6 DEF monitoredServices, offeredServices
<1>8. silenceOfServices' = silenceOfServices
  BY <1>5, <1>6 DEF silenceOfServices
<1>9. QED
  BY <1>5, <1>7, <1>8

\* Where nothing is written, the directory stays as it is.
LEMMA NothingChanges ==
  ASSUME UNCHANGED registry
  PROVE  UNCHANGED <<knownServices, monitoredServices, offeredServices, silenceOfServices>>
  BY DEF knownServices, monitoredServices, offeredServices, silenceOfServices, Entry,
         Position, Registered, Matching

\* A handler leaves the checker's verdict with the service it is about.
LEMMA HandlerKeepsDoubt ==
  ASSUME IInv, HandlerEffect, UNCHANGED checker
  PROVE  UNCHANGED <<doubtedServices, checkerLives>>
<1>1. CASE checker.pc = "mark"
  <2>1. checker.cur \in Name /\ checker.pos \in DOMAIN registry[checker.cur]
    BY <1>1 DEF IInv, MarkTarget, TypeOK, Checker
  <2>2. QED
    BY <1>1, <2>1 DEF HandlerEffect, doubtedServices, checkerLives
<1>2. CASE checker.pc # "mark"
  BY <1>2 DEF doubtedServices, checkerLives
<1>3. QED
  BY <1>1, <1>2
-----------------------------------------------------------------------------
LeaseStep == [Lease!Next]_(Lease!vars)

\* The parts of the directory, which Lease!vars lists.
LEMMA StutterIsLeaseStep ==
  ASSUME UNCHANGED <<knownServices, monitoredServices, offeredServices, silenceOfServices>>,
         UNCHANGED <<doubtedServices, checkerLives>>
  PROVE  LeaseStep
  BY DEF LeaseStep, Lease!vars

\* A registration is a join of the worker at the stripped host, whether or not it
\* was known; one that files a padded host is not noticed.
LEMMA RegisterJoins ==
  ASSUME IInv, NEW n \in Name, NEW a \in Addr, NEW check \in BOOLEAN,
         register_instance(n, a, check)
  PROVE  LeaseStep
<1> DEFINE k == Strip[n]
           b == StripAddr[a]
           s == <<k, b>>
<1>1. k \in Name /\ b \in Addr /\ ~Padded(b)
  BY RegistryAssumption DEF Padded
<1>2. HandlerEffect /\ UNCHANGED checker
  BY RegisterEffect DEF IInv, register_instance
<1>3. Listed /\ Listed' /\ UNCHANGED <<doubtedServices, checkerLives>>
  BY <1>2, HandlerKeepsDoubt DEF Listed, IInv, HandlerEffect
<1> HIDE DEF k, b
<1>4. CASE Registered(k, b)
  <2> DEFINE i == Position(k, b)
             e == Refreshed(registry[k][i])
  <2>1. i \in DOMAIN registry[k] /\ registry[k][i].addr = b
    BY <1>1, <1>4, FirstIsMatch DEF Matching, IInv
  <2>2. registry' = WithEntry(k, i, e)
    BY <1>4 DEF register_instance, k, b
  <2> HIDE DEF i
  <2>3. registry[k][i] \in Instance
    BY <1>1, <2>1 DEF IInv, TypeOK
  <2>4. /\ e \in Instance /\ e.addr = b /\ e.age = 0 /\ e.healthy
        /\ e.check_healthy = registry[k][i].check_healthy
    BY <2>1, <2>3, ChangedTyped DEF Refreshed, Instance
  <2> HIDE DEF e
  <2>5. /\ s \in knownServices
        /\ knownServices' = knownServices /\ monitoredServices' = monitoredServices
        /\ offeredServices' = offeredServices \cup {s}
        /\ silenceOfServices' = [silenceOfServices EXCEPT ![s] = 0]
    BY <1>1, <1>3, <2>1, <2>2, <2>4, OneEntryChanges
  <2>6. Lease!Join(s) /\ s \in Service
    BY <1>3, <2>5 DEF Lease!Join, Lease!Heard, knownServices
  <2>7. QED
    BY <2>6 DEF LeaseStep, Lease!Next
<1>5. CASE ~Registered(k, b) /\ Padded(a)
  <2>1. registry' = [registry EXCEPT ![k] = Append(registry[k], NewInstance(a, check))]
    BY <1>5 DEF register_instance, k, b
  <2>2. QED
    BY <1>1, <1>3, <1>5, <2>1, PaddedEntryIsNew, StutterIsLeaseStep
<1>6. CASE ~Registered(k, b) /\ ~Padded(a)
  <2> a = b
    BY <1>6 DEF Padded, b
  <2>1. registry' = [registry EXCEPT ![k] = Append(registry[k], NewInstance(a, check))]
    BY <1>6 DEF register_instance, k, b
  <2>2. /\ s \in Service \ knownServices
        /\ knownServices' = knownServices \cup {s}
        /\ monitoredServices' = IF check THEN monitoredServices \cup {s} ELSE monitoredServices
        /\ offeredServices' = offeredServices \cup {s}
        /\ silenceOfServices' = [silenceOfServices EXCEPT ![s] = 0]
    BY <1>1, <1>3, <1>6, <2>1, NewEntry
  <2>3. Lease!Join(s)
    BY <1>3, <2>2 DEF Lease!Join, Lease!Heard
  <2>4. QED
    BY <2>2, <2>3 DEF LeaseStep, Lease!Next
<1>7. QED
  BY <1>4, <1>5, <1>6

\* A deregistration makes a known worker leave.
LEMMA DeregisterLeaves ==
  ASSUME IInv, NEW n \in Name, NEW a \in Addr, deregister_instance(n, a)
  PROVE  LeaseStep
<1> DEFINE k == Strip[n]
           b == StripAddr[a]
           s == <<k, b>>
<1>1. k \in Name /\ b \in Addr /\ ~Padded(b)
  BY RegistryAssumption DEF Padded
<1>2. HandlerEffect /\ UNCHANGED checker
  BY DeregisterEffect DEF IInv, deregister_instance
<1>3. Listed /\ Listed' /\ UNCHANGED <<doubtedServices, checkerLives>>
  BY <1>2, HandlerKeepsDoubt DEF Listed, IInv, HandlerEffect
<1> HIDE DEF k, b
<1>4. CASE Registered(k, b)
  <2> DEFINE i == Position(k, b)
             e == Withdrawn(registry[k][i])
  <2>1. i \in DOMAIN registry[k] /\ registry[k][i].addr = b
    BY <1>1, <1>4, FirstIsMatch DEF Matching, IInv
  <2>2. registry' = WithEntry(k, i, e)
    BY <1>4 DEF deregister_instance, k, b
  <2> HIDE DEF i
  <2>3. registry[k][i] \in Instance
    BY <1>1, <2>1 DEF IInv, TypeOK
  <2>4. /\ e \in Instance /\ e.addr = b /\ e.age = registry[k][i].age /\ ~e.healthy
        /\ e.check_healthy = registry[k][i].check_healthy
    BY <2>1, <2>3, ChangedTyped DEF Withdrawn, Instance
  <2> HIDE DEF e
  <2>5. /\ s \in knownServices /\ Entry(s) = registry[k][i]
        /\ knownServices' = knownServices /\ monitoredServices' = monitoredServices
        /\ offeredServices' = offeredServices \ {s}
        /\ silenceOfServices' = [silenceOfServices EXCEPT ![s] = e.age]
    BY <1>1, <1>3, <2>1, <2>2, <2>4, OneEntryChanges
  <2>6. s \in Service /\ silenceOfServices' = silenceOfServices
    <3> HIDE DEF s
    <3>1. s \in Service
      BY <2>5 DEF knownServices
    <3>2. silenceOfServices[s] = e.age
      BY <2>4, <2>5, <3>1 DEF silenceOfServices
    <3>3. silenceOfServices = [t \in Service |-> silenceOfServices[t]]
      BY DEF silenceOfServices
    <3>4. QED
      BY <2>5, <3>1, <3>2, <3>3
  <2>7. Lease!Leave(s)
    BY <1>3, <2>5, <2>6 DEF Lease!Leave
  <2>8. QED
    BY <2>6, <2>7 DEF LeaseStep, Lease!Next
<1>5. CASE ~Registered(k, b)
  <2>1. UNCHANGED registry
    BY <1>5 DEF deregister_instance, k, b
  <2>2. QED
    BY <1>3, <2>1, NothingChanges, StutterIsLeaseStep
<1>6. QED
  BY <1>4, <1>5

\* A heartbeat of a known worker is one, any other or a padded one is not noticed.
LEMMA HeartbeatIsHeard ==
  ASSUME IInv, NEW n \in Name, NEW a \in Addr, send_heartbeat(n, a)
  PROVE  LeaseStep
<1> DEFINE s == <<n, a>>
<1>1. HandlerEffect /\ UNCHANGED checker
  BY HeartbeatEffect DEF IInv, send_heartbeat
<1>2. Listed /\ Listed' /\ UNCHANGED <<doubtedServices, checkerLives>>
  BY <1>1, HandlerKeepsDoubt DEF Listed, IInv, HandlerEffect
<1>3. CASE Registered(n, a)
  <2> DEFINE i == Position(n, a)
             e == Refreshed(registry[n][i])
  <2>1. i \in DOMAIN registry[n] /\ registry[n][i].addr = a
    BY <1>3, FirstIsMatch DEF Matching, IInv
  <2>2. registry' = WithEntry(n, i, e)
    BY <1>3 DEF send_heartbeat
  <2> HIDE DEF i
  <2>3. registry[n][i] \in Instance
    BY <2>1 DEF IInv, TypeOK
  <2>4. /\ e \in Instance /\ e.addr = a /\ e.age = 0 /\ e.healthy
        /\ e.check_healthy = registry[n][i].check_healthy
    BY <2>1, <2>3, ChangedTyped DEF Refreshed, Instance
  <2> HIDE DEF e
  <2>5. CASE Padded(a)
    BY <1>2, <2>1, <2>2, <2>4, <2>5, PaddedEntryChanges, StutterIsLeaseStep
  <2>6. CASE ~Padded(a)
    <3>1. /\ s \in knownServices
          /\ knownServices' = knownServices /\ monitoredServices' = monitoredServices
          /\ offeredServices' = offeredServices \cup {s}
          /\ silenceOfServices' = [silenceOfServices EXCEPT ![s] = 0]
      BY <1>2, <2>1, <2>2, <2>4, <2>6, OneEntryChanges
    <3>2. Lease!Heartbeat(s) /\ s \in Service
      BY <1>2, <3>1 DEF Lease!Heartbeat, Lease!Heard, knownServices
    <3>3. QED
      BY <3>2 DEF LeaseStep, Lease!Next
  <2>7. QED
    BY <2>5, <2>6
<1>4. CASE ~Registered(n, a)
  <2>1. UNCHANGED registry
    BY <1>4 DEF send_heartbeat
  <2>2. QED
    BY <1>2, <2>1, NothingChanges, StutterIsLeaseStep
<1>5. QED
  BY <1>3, <1>4

\* A query is not noticed.
LEMMA QueryIsInvisible ==
  ASSUME NEW n \in Name, get_all_instances(n)
  PROVE  LeaseStep
<1>1. UNCHANGED registry /\ UNCHANGED <<doubtedServices, checkerLives>>
  BY DEF get_all_instances, doubtedServices, checkerLives
<1>2. QED
  BY <1>1, NothingChanges, StutterIsLeaseStep

\* Moving the iterators is not noticed, but for the end of the thread.
LEMMA CheckerMoves ==
  ASSUME IInv, CheckerWakes \/ NextList
  PROVE  LeaseStep
<1>1. /\ UNCHANGED registry /\ checker \in Checker
      /\ checker.pc \in {"sleep", "next"} /\ checker'.pc \in {"sleep", "next", "scan", "dead"}
  BY DEF CheckerWakes, NextList, IInv, TypeOK, Checker
<1>2. doubtedServices = {} /\ doubtedServices' = {} /\ checkerLives = TRUE
  BY <1>1 DEF doubtedServices, checkerLives
<1>3. UNCHANGED <<knownServices, monitoredServices, offeredServices, silenceOfServices>>
  BY <1>1, NothingChanges
<1>4. CASE checker'.pc = "dead"
  <2>1. checkerLives' = FALSE
    BY <1>4 DEF checkerLives
  <2>2. Lease!StopWatching
    BY <1>2, <1>3, <2>1 DEF Lease!StopWatching
  <2>3. QED
    BY <2>2 DEF LeaseStep, Lease!Next
<1>5. CASE checker'.pc # "dead"
  <2>1. checkerLives' = checkerLives
    BY <1>2, <1>5 DEF checkerLives
  <2>2. QED
    BY <1>2, <1>3, <2>1, StutterIsLeaseStep
<1>6. QED
  BY <1>4, <1>5

\* A comparison that finds an entry overdue is a doubt, unless its host is
\* padded.
LEMMA InspectDoubts ==
  ASSUME IInv, Inspect
  PROVE  LeaseStep
<1> DEFINE c == checker.cur
           p == checker.pos
           list == registry[c]
           s == <<c, list[p].addr>>
<1>1. /\ UNCHANGED registry /\ checker \in Checker /\ c \in Name /\ p \in Nat \ {0}
      /\ list \in Seq(Instance) /\ checker.pc = "scan"
  BY DEF Inspect, IInv, TypeOK, Checker
<1>2. doubtedServices = {} /\ checkerLives = TRUE
  BY <1>1 DEF doubtedServices, checkerLives
<1>3. UNCHANGED <<knownServices, monitoredServices, offeredServices, silenceOfServices>>
  BY <1>1, NothingChanges
<1>4. CASE p <= Len(list) /\ Overdue(list[p]) /\ checker' = [checker EXCEPT !.pc = "mark"]
  <2>1. /\ checker'.pc = "mark" /\ checker'.cur = c /\ checker'.pos = p
    BY <1>1, <1>4 DEF Checker
  <2>2. doubtedServices' = {s} \cap Service /\ checkerLives' = TRUE
    BY <1>1, <2>1 DEF doubtedServices, checkerLives
  <2>3. p \in DOMAIN list
    BY <1>1, <1>4
  <2>4. CASE Padded(list[p].addr)
    <3>1. s \notin Service
      BY <2>4 DEF Service
    <3>2. QED
      BY <1>2, <1>3, <2>2, <3>1, StutterIsLeaseStep
  <2>5. CASE ~Padded(list[p].addr)
    <3>1. s \in knownServices /\ Entry(s) = list[p]
      BY <1>1, <2>3, <2>5, ServiceOfEntry DEF IInv, Listed
    <3> HIDE DEF s
    <3>2. s \in Service /\ s \in monitoredServices /\ silenceOfServices[s] > HeartbeatTimeout
      BY <1>4, <3>1 DEF Overdue, monitoredServices, silenceOfServices, knownServices
    <3>3. Lease!Doubt(s)
      BY <1>2, <1>3, <2>2, <3>2 DEF Lease!Doubt
    <3>4. QED
      BY <3>2, <3>3 DEF LeaseStep, Lease!Next
  <2>6. QED
    BY <2>4, <2>5
<1>5. CASE checker'.pc \in {"scan", "next"}
  <2>1. doubtedServices' = {} /\ checkerLives' = TRUE
    BY <1>5 DEF doubtedServices, checkerLives
  <2>2. QED
    BY <1>2, <1>3, <2>1, StutterIsLeaseStep
<1>6. (p <= Len(list) /\ Overdue(list[p]) /\ checker' = [checker EXCEPT !.pc = "mark"])
        \/ checker'.pc \in {"scan", "next"}
  <2>1. Len(list) \in Nat
    BY <1>1
  <2>2. QED
    BY <1>1, <2>1 DEF Inspect, Checker
<1>7. QED
  BY <1>4, <1>5, <1>6

\* Writing healthy = False withdraws the service in doubt.
LEMMA MarkWithdraws ==
  ASSUME IInv, MarkUnhealthy
  PROVE  LeaseStep
<1> DEFINE c == checker.cur
           p == checker.pos
           e == Withdrawn(registry[c][p])
           s == <<c, registry[c][p].addr>>
<1>1. /\ checker \in Checker /\ c \in Name /\ p \in DOMAIN registry[c]
      /\ registry[c] \in Seq(Instance) /\ checker.pc = "mark"
      /\ registry' = WithEntry(c, p, e) /\ checker'.pc = "scan"
  BY DEF MarkUnhealthy, IInv, TypeOK, Checker, MarkTarget
<1>2. Listed /\ Listed'
  BY MarkKeepsIInv DEF Listed, IInv
<1>3. registry[c][p] \in Instance
  BY <1>1
<1>4. /\ e \in Instance /\ e.addr = registry[c][p].addr /\ e.age = registry[c][p].age
      /\ ~e.healthy /\ e.check_healthy = registry[c][p].check_healthy
  BY <1>3, ChangedTyped DEF Withdrawn, Instance
<1> HIDE DEF e
<1>5. /\ doubtedServices = {s} \cap Service /\ doubtedServices' = {}
      /\ checkerLives /\ checkerLives' = checkerLives
  BY <1>1 DEF doubtedServices, checkerLives
<1>6. CASE Padded(e.addr)
  <2>1. doubtedServices' = doubtedServices
    BY <1>4, <1>5, <1>6 DEF Service
  <2>2. QED
    BY <1>1, <1>2, <1>4, <1>5, <1>6, <2>1, PaddedEntryChanges, StutterIsLeaseStep
<1>7. CASE ~Padded(e.addr)
  <2>1. /\ s \in knownServices /\ Entry(s) = registry[c][p]
        /\ knownServices' = knownServices /\ monitoredServices' = monitoredServices
        /\ offeredServices' = offeredServices \ {s}
        /\ silenceOfServices' = [silenceOfServices EXCEPT ![s] = e.age]
    BY <1>1, <1>2, <1>4, <1>7, OneEntryChanges
  <2> HIDE DEF s
  <2>2. s \in Service /\ doubtedServices = {s}
    BY <1>5, <2>1 DEF knownServices
  <2>3. silenceOfServices[s] = e.age
    BY <1>4, <2>1, <2>2 DEF silenceOfServices
  <2>4. silenceOfServices = [t \in Service |-> silenceOfServices[t]]
    BY DEF silenceOfServices
  <2>5. silenceOfServices' = silenceOfServices
    BY <2>1, <2>2, <2>3, <2>4
  <2>6. Lease!Withdraw
    BY <1>5, <2>1, <2>2, <2>5 DEF Lease!Withdraw
  <2>7. QED
    BY <2>6 DEF LeaseStep, Lease!Next
<1>8. QED
  BY <1>6, <1>7

\* The clock may tick: what is offered and monitored has been heard from.
LEMMA TickIsTick ==
  ASSUME IInv, Tick
  PROVE  LeaseStep
<1>1. /\ \A n \in Name : registry[n] \in Seq(Instance)
      /\ checker \in Checker /\ checker.pc \in {"dead", "sleep"} /\ checker'.pc = checker.pc
      /\ checker.pc = "sleep" => checker.due > 0
      /\ \A n \in Name : registry'[n] = [i \in DOMAIN registry[n] |-> Older(registry[n][i])]
  BY DEF Tick, CheckerIdle, IInv, TypeOK, Checker
<1>2. /\ doubtedServices = {} /\ doubtedServices' = {} /\ checkerLives' = checkerLives
      /\ checkerLives => checker.pc = "sleep"
  BY <1>1 DEF doubtedServices, checkerLives
<1>3. ASSUME NEW ins \in Instance
      PROVE  /\ Older(ins).addr = ins.addr /\ Older(ins).healthy = ins.healthy
             /\ Older(ins).check_healthy = ins.check_healthy
             /\ Older(ins).age = IF ins.age < AgeCap THEN ins.age + 1 ELSE ins.age
  BY DEF Older, Instance
<1>4. /\ \A n \in Name : DOMAIN registry'[n] = DOMAIN registry[n]
      /\ \A n \in Name : \A i \in DOMAIN registry[n] :
           registry[n][i] \in Instance /\ registry'[n][i] = Older(registry[n][i])
  <2>1. ASSUME NEW n \in Name, NEW i \in DOMAIN registry[n]
        PROVE  registry[n][i] \in Instance
    BY <1>1
  <2>2. ASSUME NEW n \in Name
        PROVE  registry'[n] = [i \in DOMAIN registry[n] |-> Older(registry[n][i])]
    BY <1>1
  <2>3. QED
    BY <2>1, <2>2
<1>5. ASSUME NEW n \in Name, NEW a \in Addr
      PROVE  Matching(n, a)' = Matching(n, a)
  BY <1>3, <1>4 DEF Matching
<1>6. knownServices' = knownServices
  BY <1>5 DEF knownServices, Service, Registered
<1>7. ASSUME NEW t \in knownServices
      PROVE  /\ Entry(t) \in Instance /\ Entry(t)' = Older(Entry(t))
             /\ t \in Service /\ t[1] \in Name
             /\ Position(t[1], t[2]) \in DOMAIN registry[t[1]]
  <2>1. /\ t \in Service /\ t[1] \in Name /\ t[2] \in Addr
        /\ Position(t[1], t[2]) \in DOMAIN registry[t[1]] /\ Entry(t) \in Instance
    BY EntryOfService DEF IInv, Listed
  <2>2. Position(t[1], t[2])' = Position(t[1], t[2])
    BY <1>5, <2>1 DEF Position
  <2>3. QED
    BY <1>4, <2>1, <2>2 DEF Entry
<1>8. monitoredServices' = monitoredServices /\ offeredServices' = offeredServices
  BY <1>3, <1>6, <1>7 DEF monitoredServices, offeredServices
<1>9. silenceOfServices' =
        [s \in Service |-> IF s \in knownServices /\ silenceOfServices[s] < AgeCap
                           THEN silenceOfServices[s] + 1 ELSE silenceOfServices[s]]
  BY <1>3, <1>6, <1>7 DEF silenceOfServices
<1>10. ASSUME checkerLives, NEW s \in offeredServices \cap monitoredServices
       PROVE  silenceOfServices[s] < HeartbeatTimeout + CheckInterval
  <2>1. s \in knownServices /\ Entry(s).healthy /\ Entry(s).check_healthy
    BY DEF offeredServices, monitoredServices
  <2>2. silenceOfServices[s] = Entry(s).age
    BY <1>7, <2>1 DEF silenceOfServices
  <2>3. checker.pc = "sleep" /\ checker.due > 0 /\ checker.due \in 0..CheckInterval
    BY <1>1, <1>2, <1>10 DEF Checker
  <2>4. Entry(s).age <= HeartbeatTimeout + (CheckInterval - checker.due)
    BY <1>7, <2>1, <2>3 DEF IInv, DetectionBound, Entry
  <2>5. Entry(s).age \in Int
    BY <1>7, <2>1, RegistryAssumption DEF Instance, AgeCap
  <2>6. QED
    BY <2>2, <2>3, <2>4, <2>5, RegistryAssumption
<1>11. Lease!Tick
  BY <1>2, <1>6, <1>8, <1>9, <1>10 DEF Lease!Tick, Lease!SilenceCap, AgeCap
<1>12. QED
  BY <1>11 DEF LeaseStep, Lease!Next

\* With no lists there are no services, and the thread is about to look.
LEMMA EmptyDirectory ==
  ASSUME registry = [n \in Name |-> <<>>], checker = FreshChecker
  PROVE  /\ knownServices = {} /\ monitoredServices = {} /\ offeredServices = {}
         /\ silenceOfServices = [s \in Service |-> 0]
         /\ doubtedServices = {} /\ checkerLives = TRUE
<1>1. \A s \in Service : ~Registered(s[1], s[2])
  BY DEF Service, Registered, Matching
<1>2. knownServices = {}
  BY <1>1 DEF knownServices
<1>3. QED
  BY <1>2 DEF monitoredServices, offeredServices, silenceOfServices, doubtedServices,
              checkerLives, FreshChecker

\* Restarting the controller restarts the directory.
LEMMA RestartRestarts ==
  ASSUME ControllerRestart
  PROVE  LeaseStep
<1>1. \A s \in Service : ~Registered(s[1], s[2])'
  BY DEF ControllerRestart, Service, Registered, Matching
<1>2. knownServices' = {}
  BY <1>1 DEF knownServices
<1>3. /\ monitoredServices' = {} /\ offeredServices' = {}
      /\ silenceOfServices' = [s \in Service |-> 0]
  BY <1>2 DEF monitoredServices, offeredServices, silenceOfServices
<1>4. doubtedServices' = {} /\ checkerLives' = TRUE
  BY DEF ControllerRestart, doubtedServices, checkerLives, FreshChecker
<1>5. Lease!Restart
  BY <1>2, <1>3, <1>4 DEF Lease!Restart
<1>6. QED
  BY <1>5 DEF LeaseStep, Lease!Next
-----------------------------------------------------------------------------
\* Handlers, checker thread, clock and restarts implement the lease directory of
\* the hosts without blanks, whatever is filed for padded ones: its services
\* join, are heard from, leave, fall silent and are withdrawn in time for as long
\* as the checker thread lives.
THEOREM RegistryImplementsLease == Spec => ImplementsLease
<1>1. Init => Lease!Init
  BY EmptyDirectory DEF Init, Lease!Init
<1>2. IInv /\ [Next]_registryVars => [Lease!Next]_(Lease!vars)
  <2> SUFFICES ASSUME IInv, [Next]_registryVars
               PROVE  LeaseStep
    BY DEF LeaseStep
  <2>1. CASE Handler
    BY <2>1, RegisterJoins, DeregisterLeaves, HeartbeatIsHeard, QueryIsInvisible DEF Handler
  <2>2. CASE CheckerStep
    BY <2>2, CheckerMoves, InspectDoubts, MarkWithdraws DEF CheckerStep
  <2>3. CASE Tick
    BY <2>3, TickIsTick
  <2>4. CASE ControllerRestart
    BY <2>4, RestartRestarts
  <2>5. CASE UNCHANGED registryVars
    <3>1. UNCHANGED registry /\ UNCHANGED <<doubtedServices, checkerLives>>
      BY <2>5 DEF registryVars, doubtedServices, checkerLives
    <3>2. QED
      BY <3>1, NothingChanges, StutterIsLeaseStep
  <2>6. QED
    BY <2>1, <2>2, <2>3, <2>4, <2>5 DEF Next
<1>3. QED
  BY <1>1, <1>2, Inductive, PTL DEF Spec, ImplementsLease, Lease!Spec
=============================================================================
