----------------------------- MODULE EventFeed -----------------------------
(***************************************************************************)
(* What EventBus.subscribe promises its caller, with queues, bounds and    *)
(* closing left out: a lossy but ordered feed.  A follower may miss events *)
(* (the drop-oldest policy of core/bus.py); it never gets one twice, out   *)
(* of order, from before it joined, or one nobody published, and as long   *)
(* as it follows it is brought to the newest event.                        *)
(***************************************************************************)
EXTENDS Naturals

CONSTANT Subs    \* the followers

VARIABLES
  head,          \* number of events published
  seen,          \* the newest event each follower was given
  standing       \* "none" before joining, "on" while following, then "off"

feedVars == <<head, seen, standing>>

Init ==
  /\ head = 0
  /\ seen = [s \in Subs |-> 0]
  /\ standing = [s \in Subs |-> "none"]

Emit ==
  /\ head' = head + 1
  /\ UNCHANGED <<seen, standing>>

Join(s) ==
  /\ standing[s] = "none"
  /\ standing' = [standing EXCEPT ![s] = "on"]
  /\ seen' = [seen EXCEPT ![s] = head]
  /\ UNCHANGED head

\* Any event newer than the last one may be next: those between are lost.
Deliver(s) ==
  /\ standing[s] = "on"
  /\ \E event \in (seen[s] + 1)..head : seen' = [seen EXCEPT ![s] = event]
  /\ UNCHANGED <<head, standing>>

Leave(s) ==
  /\ standing[s] = "on"
  /\ standing' = [standing EXCEPT ![s] = "off"]
  /\ UNCHANGED <<head, seen>>

Next == Emit \/ \E s \in Subs : Join(s) \/ Deliver(s) \/ Leave(s)

Safety == Init /\ [][Next]_feedVars

Spec == Safety /\ \A s \in Subs : WF_feedVars(Deliver(s))
=============================================================================
