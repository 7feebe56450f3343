--------------------------- MODULE LeaseDirectory ----------------------------
(***************************************************************************)
(* What a registry of heartbeating services promises, without its threads, *)
(* lists and iterators.  While someone watches, no monitored service is    *)
(* offered for Timeout + Interval ticks of silence; a service stops being  *)
(* offered only when it leaves or after it was found silent for longer     *)
(* than Timeout.                                                           *)
(***************************************************************************)
EXTENDS Integers

CONSTANTS Service, Timeout, Interval

VARIABLES
  known,      \* services that ever joined
  monitored,  \* those of them whose silence counts
  up,         \* services offered to clients
  silence,    \* ticks since a service was heard from, 0 when it is not known
  doubt,      \* services found silent and about to be withdrawn
  watching    \* FALSE once nobody looks for silence any more

vars == <<known, monitored, up, silence, doubt, watching>>

SilenceCap == Timeout + Interval + 1

Init ==
  /\ known = {} /\ monitored = {} /\ up = {} /\ doubt = {}
  /\ silence = [s \in Service |-> 0]
  /\ watching = TRUE

Heard(s) ==
  /\ up' = up \cup {s}
  /\ silence' = [silence EXCEPT ![s] = 0]
  /\ UNCHANGED <<doubt, watching>>

\* A first join says whether the service is monitored, a later one does not.
Join(s) ==
  /\ known' = known \cup {s}
  /\ monitored' \in IF s \in known THEN {monitored} ELSE {monitored, monitored \cup {s}}
  /\ Heard(s)

Heartbeat(s) ==
  /\ s \in known
  /\ Heard(s)
  /\ UNCHANGED <<known, monitored>>

Leave(s) ==
  /\ up' = up \ {s}
  /\ UNCHANGED <<known, monitored, silence, doubt, watching>>

Doubt(s) ==
  /\ watching /\ doubt = {}
  /\ s \in monitored /\ silence[s] > Timeout
  /\ doubt' = {s}
  /\ UNCHANGED <<known, monitored, up, silence, watching>>

Withdraw ==
  /\ watching /\ doubt # {}
  /\ up' = up \ doubt
  /\ doubt' = {}
  /\ UNCHANGED <<known, monitored, silence, watching>>

StopWatching ==
  /\ watching /\ doubt = {}
  /\ watching' = FALSE
  /\ UNCHANGED <<known, monitored, up, silence, doubt>>

Tick ==
  /\ doubt = {}
  /\ watching => \A s \in up \cap monitored : silence[s] < Timeout + Interval
  /\ silence' = [s \in Service |->
       IF s \in known /\ silence[s] < SilenceCap THEN silence[s] + 1 ELSE silence[s]]
  /\ UNCHANGED <<known, monitored, up, doubt, watching>>

Restart ==
  /\ known' = {} /\ monitored' = {} /\ up' = {} /\ doubt' = {}
  /\ silence' = [s \in Service |-> 0]
  /\ watching' = TRUE

Next ==
  \/ \E s \in Service : Join(s) \/ Heartbeat(s) \/ Leave(s) \/ Doubt(s)
  \/ Withdraw \/ StopWatching \/ Tick \/ Restart

Spec == Init /\ [][Next]_vars
=============================================================================
