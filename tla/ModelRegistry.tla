---------------------------- MODULE ModelRegistry ----------------------------
(***************************************************************************)
(* The model controller's EmbeddedModelRegistry.                           *)
(*                                                                         *)
(* The REST handlers of the controller are coroutines that never await     *)
(* inside the registry, so each one is a single atomic step.  The checker  *)
(* is a thread of its own: it iterates over the dict and over the lists    *)
(* while the handlers change both, so every bytecode boundary at which it  *)
(* can lose the interpreter lock is a step here.                           *)
(*                                                                         *)
(* Time is counted in ticks; an instance stores the ticks that passed      *)
(* since its last_heartbeat instead of a date.                             *)
(***************************************************************************)
EXTENDS Integers, Sequences, FiniteSets

CONSTANTS
  Name,              \* model names a caller may send, padded ones included
  Strip,             \* str.strip(): the name the registry files a name under
  Addr,              \* host:port pairs a caller may send, padded hosts included
  StripAddr,         \* str.strip() of the host: the pair an instance is looked up by
  MaxCopies,         \* bound on how often one padded host is filed
  HeartbeatTimeout,  \* heartbeat_timeout_secs, in ticks
  CheckInterval      \* heartbeat_interval_secs, in ticks

ASSUME RegistryAssumption ==
  /\ Name # {}
  /\ Strip \in [Name -> Name]
  /\ \A n \in Name : Strip[Strip[n]] = Strip[n]
  /\ StripAddr \in [Addr -> Addr]
  /\ \A a \in Addr : StripAddr[StripAddr[a]] = StripAddr[a]
  /\ MaxCopies \in Nat
  /\ HeartbeatTimeout \in Nat \ {0}
  /\ CheckInterval \in Nat \ {0}

VARIABLES
  keys,      \* the keys the defaultdict holds
  registry,  \* the list of instances under each name, <<>> for a missing key
  checker    \* the heartbeat_thread: where it is and what it iterates over

registryVars == <<keys, registry, checker>>

\* Ages beyond this bound are not told apart: every comparison is below it.
AgeCap == HeartbeatTimeout + CheckInterval + 1

Instance == [addr : Addr, check_healthy : BOOLEAN, healthy : BOOLEAN, age : 0..AgeCap]

(***************************************************************************)
(* pc is "sleep" in time.sleep, "next" before the dict iterator advances,  *)
(* "scan" before the list iterator does, "mark" between the comparison of  *)
(* last_heartbeat and the write of healthy, "dead" after an exception.     *)
(***************************************************************************)
Checker == [pc : {"sleep", "next", "scan", "mark", "dead"},
            due : 0..CheckInterval,    \* ticks left to sleep
            size : SUBSET Name,        \* the keys when the iterator was made
            todo : SUBSET Name,        \* keys the iterator has not reached
            cur : Name,                \* key of the list it is in
            pos : Nat \ {0}]           \* next position in that list

TypeOK ==
  /\ keys \in SUBSET Name
  /\ registry \in [Name -> Seq(Instance)]
  /\ \A n \in Name : registry[n] # <<>> => n \in keys
  /\ checker \in Checker

\* The thread as __init__ starts it: about to begin its first scan.
FreshChecker == [pc |-> "sleep", due |-> 0, size |-> {}, todo |-> {},
                 cur |-> CHOOSE n \in Name : TRUE, pos |-> 1]

Init ==
  /\ keys = {}
  /\ registry = [n \in Name |-> <<>>]
  /\ checker = FreshChecker
-----------------------------------------------------------------------------
(* The handlers *)

\* Mutant: only healthy instances count as existing.
MatchingHealthyOnly(n, a) ==
  {i \in DOMAIN registry[n] : registry[n][i].addr = a /\ registry[n][i].healthy}

\* Positions of the instances with that host and port; exist_ins[0] is the first.
Matching(n, a) == {i \in DOMAIN registry[n] : registry[n][i].addr = a}

First(S) == CHOOSE i \in S : \A j \in S : i <= j

\* Mutant: a plain dict read with get.
TouchKeyOfPlainDict(n) == keys' = keys

\* registry[model_name] on a defaultdict creates the key it does not find.
TouchKey(n) == keys' = keys \cup {n}

Registered(n, a) == Matching(n, a) # {}

Position(n, a) == First(Matching(n, a))

NewInstance(a, check) ==
  [addr |-> a, check_healthy |-> check, healthy |-> TRUE, age |-> 0]

\* Mutants: one of the two assignments is forgotten.
RefreshedStaysUnhealthy(ins) == [ins EXCEPT !.age = 0]
RefreshedKeepsAge(ins) == [ins EXCEPT !.healthy = TRUE]

Refreshed(ins) == [ins EXCEPT !.healthy = TRUE, !.age = 0]

Withdrawn(ins) == [ins EXCEPT !.healthy = FALSE]

\* The registry with the i-th instance of n changed in place.
WithEntry(n, i, ins) == [registry EXCEPT ![n] = [registry[n] EXCEPT ![i] = ins]]

Padded(a) == StripAddr[a] # a

(***************************************************************************)
(* The instance is looked up under its stripped name and host, but filed   *)
(* with the host as it came: a padded host is never found again and is     *)
(* filed anew by every registration, here up to MaxCopies times.           *)
(***************************************************************************)
register_instance(n, a, check) ==
  LET k == Strip[n]
      b == StripAddr[a]
      i == Position(k, b) IN
  /\ Padded(a) /\ ~Registered(k, b) => Cardinality(Matching(k, a)) < MaxCopies
  /\ TouchKey(k)
  /\ registry' = IF Registered(k, b)
                 THEN WithEntry(k, i, Refreshed(registry[k][i]))
                 ELSE [registry EXCEPT ![k] = Append(registry[k], NewInstance(a, check))]
  /\ UNCHANGED checker

\* Mutant: the instance is removed from the list under the checker's iterator.
deregister_removes(n, a) ==
  /\ TouchKey(Strip[n])
  /\ registry' = [registry EXCEPT ![Strip[n]] =
                    SelectSeq(@, LAMBDA ins : ins.addr # StripAddr[a])]
  /\ UNCHANGED checker

\* Host and name are stripped here too: an entry filed with a padded host stays.
deregister_instance(n, a) ==
  LET k == Strip[n]
      b == StripAddr[a]
      i == Position(k, b) IN
  /\ TouchKey(k)
  /\ registry' = IF Registered(k, b)
                 THEN WithEntry(k, i, Withdrawn(registry[k][i]))
                 ELSE registry
  /\ UNCHANGED checker

\* Mutant: a heartbeat registers an instance it does not find.
send_heartbeat_registers(n, a) == register_instance(n, a, TRUE)

\* Name and host are looked up as they came: a padded worker reaches the first
\* entry filed for it, and never the one its registration refreshed.
send_heartbeat(n, a) ==
  LET i == Position(n, a) IN
  /\ TouchKey(n)
  /\ registry' = IF Registered(n, a)
                 THEN WithEntry(n, i, Refreshed(registry[n][i]))
                 ELSE registry
  /\ UNCHANGED checker

\* A query; select_one_health_instance chooses from its answer.
get_all_instances(n) ==
  /\ TouchKey(n)
  /\ UNCHANGED <<registry, checker>>
-----------------------------------------------------------------------------
(* The checker thread *)

\* time.sleep returns and registry.values() makes an iterator.
CheckerWakes ==
  /\ checker.pc = "sleep" /\ checker.due = 0
  /\ checker' = [checker EXCEPT !.pc = "next", !.size = keys, !.todo = keys]
  /\ UNCHANGED <<keys, registry>>

(***************************************************************************)
(* The dict iterator compares the size of the dict with the size it saw    *)
(* when it was made, even at its end, and raises RuntimeError when they    *)
(* differ.  Nothing catches it: the thread ends.  Keys are never removed,  *)
(* so equal sizes are equal key sets, and the order in which the keys are  *)
(* visited makes no difference.                                            *)
(***************************************************************************)
NextList ==
  /\ checker.pc = "next"
  /\ \/ /\ keys # checker.size
        /\ checker' = [checker EXCEPT !.pc = "dead"]
     \/ /\ keys = checker.size /\ checker.todo = {}
        /\ checker' = [checker EXCEPT !.pc = "sleep", !.due = CheckInterval]
     \/ /\ keys = checker.size
        /\ \E n \in checker.todo :
             checker' = [checker EXCEPT !.pc = "scan", !.cur = n, !.pos = 1,
                                        !.todo = @ \ {n}]
  /\ UNCHANGED <<keys, registry>>

Overdue(ins) == ins.check_healthy /\ ins.age > HeartbeatTimeout

\* Mutant: the loop advances twice.
InspectSkips ==
  /\ checker.pc = "scan"
  /\ LET list == registry[checker.cur] IN
     checker' =
       IF checker.pos > Len(list) THEN [checker EXCEPT !.pc = "next"]
       ELSE IF Overdue(list[checker.pos]) THEN [checker EXCEPT !.pc = "mark"]
       ELSE [checker EXCEPT !.pos = @ + 2]
  /\ UNCHANGED <<keys, registry>>

\* The list iterator takes the list's length of the moment, so it sees appends.
Inspect ==
  /\ checker.pc = "scan"
  /\ LET list == registry[checker.cur] IN
     checker' =
       IF checker.pos > Len(list) THEN [checker EXCEPT !.pc = "next"]
       ELSE IF Overdue(list[checker.pos]) THEN [checker EXCEPT !.pc = "mark"]
       ELSE [checker EXCEPT !.pos = @ + 1]
  /\ UNCHANGED <<keys, registry>>

\* Mutants: the loop ends at the first overdue instance; all instances of the
\* name are withdrawn.
MarkUnhealthyBreaks ==
  /\ checker.pc = "mark"
  /\ registry' = WithEntry(checker.cur, checker.pos,
                           Withdrawn(registry[checker.cur][checker.pos]))
  /\ checker' = [checker EXCEPT !.pc = "next"]
  /\ UNCHANGED keys
MarkWholeList ==
  /\ checker.pc = "mark"
  /\ registry' = [registry EXCEPT ![checker.cur] =
                    [i \in DOMAIN @ |-> Withdrawn(@[i])]]
  /\ checker' = [checker EXCEPT !.pc = "scan", !.pos = @ + 1]
  /\ UNCHANGED keys

\* The decision may be stale: the age is not read again.
MarkUnhealthy ==
  /\ checker.pc = "mark"
  /\ registry' = WithEntry(checker.cur, checker.pos,
                           Withdrawn(registry[checker.cur][checker.pos]))
  /\ checker' = [checker EXCEPT !.pc = "scan", !.pos = @ + 1]
  /\ UNCHANGED keys

CheckerStep == CheckerWakes \/ NextList \/ Inspect \/ MarkUnhealthy
-----------------------------------------------------------------------------
\* A scan is short: the clock does not tick while the checker is awake or due.
CheckerIdle ==
  \/ checker.pc = "dead"
  \/ checker.pc = "sleep" /\ checker.due > 0

Older(ins) == [ins EXCEPT !.age = IF @ < AgeCap THEN @ + 1 ELSE @]

Tick ==
  /\ CheckerIdle
  /\ registry' = [n \in Name |-> [i \in DOMAIN registry[n] |-> Older(registry[n][i])]]
  /\ checker' = IF checker.pc = "sleep" THEN [checker EXCEPT !.due = @ - 1] ELSE checker
  /\ UNCHANGED keys

\* The controller process is restarted: the registry only lives in memory.
ControllerRestart ==
  /\ keys' = {}
  /\ registry' = [n \in Name |-> <<>>]
  /\ checker' = FreshChecker

Handler ==
  \E n \in Name :
    \/ get_all_instances(n)
    \/ \E a \in Addr : \/ deregister_instance(n, a)
                       \/ send_heartbeat(n, a)
                       \/ \E check \in BOOLEAN : register_instance(n, a, check)

Next == Handler \/ CheckerStep \/ Tick \/ ControllerRestart

Spec == Init /\ [][Next]_registryVars
-----------------------------------------------------------------------------
(* Properties *)

\* "One exist instance at most" (registry.py:141) for hosts without blanks: no
\* two entries of a name share such a host and port, whatever mix of
\* registrations (padded ones too), deregistrations and late heartbeats arrived.
\* exist_ins[0] would refresh only one of them.  Of a padded host, which the
\* code files as it came, there may be many entries.
OneInstancePerAddress ==
  \A n \in Name : \A i, j \in DOMAIN registry[n] :
    registry[n][i].addr = registry[n][j].addr /\ ~Padded(registry[n][i].addr) => i = j

\* Between two scans of a living checker no monitored instance is offered as
\* healthy for longer than the timeout plus the part of the interval elapsed.
DetectionBound ==
  checker.pc = "sleep" =>
    \A n \in Name : \A i \in DOMAIN registry[n] :
      LET ins == registry[n][i] IN
      ins.healthy /\ ins.check_healthy =>
        ins.age <= HeartbeatTimeout + (CheckInterval - checker.due)

\* The same bound without the proviso that the checker lives, as the test of
\* the timeout states it (test_registry.py:108).
DetectedInTime ==
  \A n \in Name : \A i \in DOMAIN registry[n] :
    LET ins == registry[n][i] IN
    ins.healthy /\ ins.check_healthy => ins.age <= HeartbeatTimeout + CheckInterval

\* A handler never moves or drops an entry of a list, so the position the
\* checker remembers between its comparison and its write still is the
\* instance it compared.  Only a restart of the controller empties the lists.
EntriesStay ==
  [][keys' # {} =>
       \A n \in Name : \A i \in DOMAIN registry[n] :
         i \in DOMAIN registry'[n] /\ registry'[n][i].addr = registry[n][i].addr
    ]_registryVars

\* The checker turns an instance unhealthy only when it is overdue, or when it
\* was overdue earlier in this very scan and was heard from since: a wrong
\* verdict is never older than the scan that made it.
SuspicionNeedsSilence ==
  [][checker' # checker /\ keys' # {} =>
       \A n \in Name : \A i \in DOMAIN registry[n] :
         registry[n][i].healthy /\ ~registry'[n][i].healthy =>
           Overdue(registry[n][i]) \/ registry[n][i].age = 0
    ]_registryVars
-----------------------------------------------------------------------------
(* The registry implements a lease directory *)

\* What a padded host was filed as is no service: no look-up by a stripped host
\* finds it.
Service == {s \in Name \X Addr : ~Padded(s[2])}

Entry(s) == registry[s[1]][Position(s[1], s[2])]

knownServices == {s \in Service : Registered(s[1], s[2])}

monitoredServices == {s \in knownServices : Entry(s).check_healthy}

offeredServices == {s \in knownServices : Entry(s).healthy}

silenceOfServices == [s \in Service |-> IF s \in knownServices THEN Entry(s).age ELSE 0]

doubtedServices ==
  IF checker.pc = "mark"
  THEN {<<checker.cur, registry[checker.cur][checker.pos].addr>>} \cap Service ELSE {}

checkerLives == checker.pc # "dead"

Lease == INSTANCE LeaseDirectory WITH
  Timeout <- HeartbeatTimeout,
  Interval <- CheckInterval,
  known <- knownServices,
  monitored <- monitoredServices,
  up <- offeredServices,
  silence <- silenceOfServices,
  doubt <- doubtedServices,
  watching <- checkerLives

\* Handlers, checker thread, clock and restarts together implement the lease
\* directory of the hosts without blanks: lists, defaultdict keys, entries of
\* padded hosts and the checker's unlocked iteration are invisible in it, except
\* that the checker may stop watching for good.
ImplementsLease == Lease!Spec
=============================================================================
