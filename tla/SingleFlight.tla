--------------------------- MODULE SingleFlight ---------------------------
(***************************************************************************)
(* What the supervisor promises of the conversation pipeline: one turn at  *)
(* a time holds it, a turn gets it at most once and in the order of the    *)
(* attempts, and once the gate is shut nobody gets it any more.            *)
(***************************************************************************)
EXTENDS Naturals

VARIABLES
  holder,    \* the turn that holds the pipeline, 0 if nobody does
  granted,   \* the turns that ever got it
  gate       \* "before", "open" or "shut"

flightVars == <<holder, granted, gate>>

Init == holder = 0 /\ granted = {} /\ gate = "before"

OpenGate ==
  /\ gate = "before"
  /\ gate' = "open"
  /\ UNCHANGED <<holder, granted>>

ShutGate ==
  /\ gate = "open"
  /\ gate' = "shut"
  /\ UNCHANGED <<holder, granted>>

Grant ==
  /\ gate = "open"
  /\ holder = 0
  /\ holder' \in Nat \ {0}
  /\ \A earlier \in granted : earlier < holder'
  /\ granted' = granted \cup {holder'}
  /\ UNCHANGED gate

Release ==
  /\ holder # 0
  /\ holder' = 0
  /\ UNCHANGED <<granted, gate>>

Next == OpenGate \/ ShutGate \/ Grant \/ Release

Safety == Init /\ [][Next]_flightVars
=============================================================================
