----------------------------- MODULE ModeToggles -----------------------------
(***************************************************************************)
(* The switches of passive listening and of the agent's voice: what the    *)
(* backend reports about them (mode_state of backend/main.py), what the    *)
(* controller does, and what every window shows.  A window switches at     *)
(* once and sends mode.toggle over its socket (useVoiceMode.ts, ws.py);    *)
(* others post /mode/toggle (routes/mode.py).  Each such call awaits the   *)
(* controller and then writes the switch and publishes it, in one step.    *)
(*                                                                         *)
(* How the controller opens and closes the microphone, and what it does    *)
(* about push-to-talk, is SpeechController's; here it is not pressed, and  *)
(* no setting of the voice is changed.  Sockets do not break               *)
(* (BroadcastBridge), and no queue overflows (EventBus).                   *)
(***************************************************************************)
EXTENDS Naturals, Sequences, Functions

CONSTANTS Windows,     \* the windows: their sockets
          MaxToggles   \* bound of the model: calls

ToggleBounds == MaxToggles \in Nat /\ "route" \notin Windows

VARIABLES
  listening,  \* the controller's passive mode
  flag,       \* mode_state: what the backend reports
  toggle,     \* the calls: who makes it, the switch, its value, and where it stands
  door,       \* of each window: "closed", "greeted" with the status, "fed" by its pump
  feed,       \* the messages under way to each window
  view,       \* the switches as each window shows them
  blurred,    \* history: the reported modes may differ from the controller's
  missed      \* history: of each window, the switches of which it was not told

vars == <<listening, flag, toggle, door, feed, view, blurred, missed>>

Toggles == 1..MaxToggles
Modes == [continuous_listening |-> "continuous", live_wake |-> "wake"]
Keys == DOMAIN Modes \cup {"agent_voice"}
Shown == {"live_wake", "agent_voice"}
Route == "route"

None == [stage |-> "none", by |-> Route, key |-> "live_wake", value |-> FALSE]

\* The lifespan enables continuous listening or, that being off, the wake names.
Init ==
  /\ flag \in [Keys -> BOOLEAN]
  /\ listening = IF flag.continuous_listening THEN "continuous"
                 ELSE IF flag.live_wake THEN "wake" ELSE "off"
  /\ toggle = [t \in Toggles |-> None]
  /\ door = [w \in Windows |-> "closed"]
  /\ feed = [w \in Windows |-> <<>>]
  /\ view = [w \in Windows |-> [k \in Shown |-> k = "agent_voice"]]
  /\ blurred = (flag.continuous_listening /\ flag.live_wake)
  /\ missed = [w \in Windows |-> {}]

-----------------------------------------------------------------------------
(* The windows *)

Tells(facts) == [w \in Windows |-> IF door[w] = "fed" THEN Append(feed[w], facts) ELSE feed[w]]

\* The endpoint adds the socket and sends the status; its pump subscribes when the loop steps it.
Greet(w) ==
  /\ door[w] = "closed" /\ door' = [door EXCEPT ![w] = "greeted"]
  /\ feed' = [feed EXCEPT ![w] = <<Restrict(flag, Shown)>>]
  /\ UNCHANGED <<listening, flag, toggle, view, blurred, missed>>

Subscribe(w) ==
  /\ door[w] = "greeted" /\ door' = [door EXCEPT ![w] = "fed"]
  /\ UNCHANGED <<listening, flag, toggle, feed, view, blurred, missed>>

\* A window takes over the switches that a message mentions, and no others.
Deliver(w) ==
  /\ feed[w] # <<>> /\ feed' = [feed EXCEPT ![w] = Tail(@)]
  /\ LET facts == Head(feed[w])
     IN view' = [view EXCEPT ![w] = [k \in Shown |-> IF k \in DOMAIN facts THEN facts[k] ELSE @[k]]]
  /\ UNCHANGED <<listening, flag, toggle, door, blurred, missed>>

IsNext(t) == toggle[t].stage = "none" /\ \A u \in 1..(t - 1) : toggle[u].stage # "none"

\* toggleWakeListening() and toggleAgentVoice().
Press(t, w, k) ==
  /\ IsNext(t) /\ door[w] # "closed"
  /\ view' = [view EXCEPT ![w][k] = ~@]
  /\ toggle' = [toggle EXCEPT ![t] = [stage |-> "sent", by |-> w, key |-> k, value |-> ~view[w][k]]]
  /\ UNCHANGED <<listening, flag, door, feed, blurred, missed>>

Post(t, k, v) ==
  /\ IsNext(t)
  /\ toggle' = [toggle EXCEPT ![t] = [stage |-> "sent", by |-> Route, key |-> k, value |-> v]]
  /\ UNCHANGED <<listening, flag, door, feed, view, blurred, missed>>

-----------------------------------------------------------------------------
(* The calls                                                               *)

Passive(t) == toggle[t].key \in DOMAIN Modes
AtWork(t) == toggle[t].stage \in {"working", "overlapped"}
Overlaps(t) == \E u \in Toggles \ {t} : AtWork(u) /\ Passive(u)
Over(t) == toggle' = [toggle EXCEPT ![t].stage = "over"]

\* One passive mode excludes the other.
Report(key, v) ==
  [k \in Keys |-> IF k = key THEN v
                  ELSE flag[k] /\ ~(v /\ {key, k} \subseteq DOMAIN Modes)]

\* The switch is written and published.  The message does not mention the other mode, and whoever
\* switches one mode off switches off whichever the controller is in.
Commits(t, clean) ==
  LET q == toggle[t]
      stale == IF q.value /\ q.key = "continuous_listening" THEN {"live_wake"} ELSE {}
  IN /\ Over(t)
     /\ flag' = Report(q.key, q.value)
     /\ feed' = Tells([k \in {q.key} |-> q.value])
     /\ missed' = [w \in Windows |->
          (IF door[w] = "fed" THEN missed[w] \ {q.key}
           ELSE IF door[w] = "greeted" THEN missed[w] \cup {q.key} ELSE missed[w])
          \cup {k \in stale : flag[k]}]
     /\ blurred' = IF ~Passive(t) THEN blurred
                   ELSE ~clean \/ (~q.value /\ \E k \in DOMAIN Modes \ {q.key} : flag[k])

\* The controller has nothing to await: the mode is that already, none is on, or the voice is
\* switched on.
AtOnce(t) ==
  LET q == toggle[t]
  IN IF Passive(t) THEN listening = (IF q.value THEN Modes[q.key] ELSE "off") ELSE q.value

\* A socket's calls are handled one after another.
Begins(t) ==
  /\ toggle[t].stage = "sent"
  /\ toggle[t].by # Route =>
       \A u \in 1..(t - 1) : toggle[u].by = toggle[t].by => toggle[u].stage = "over"
  /\ UNCHANGED <<door, view>>
  /\ IF AtOnce(t)
       THEN Commits(t, ~Overlaps(t)) /\ UNCHANGED listening
       ELSE /\ listening' = IF Passive(t) THEN "off" ELSE listening
            /\ toggle' = [u \in Toggles |->
                 IF u # t /\ ~(AtWork(u) /\ Passive(u) /\ Passive(t)) THEN toggle[u]
                 ELSE [toggle[u] EXCEPT !.stage = IF u # t \/ (Passive(t) /\ Overlaps(t))
                                                  THEN "overlapped" ELSE "working"]]
            /\ UNCHANGED <<flag, feed, blurred, missed>>

\* The listener is at work, the other one or the speech has been stopped.
Returns(t) ==
  /\ AtWork(t)
  /\ listening' = IF Passive(t) /\ toggle[t].value THEN Modes[toggle[t].key] ELSE listening
  /\ Commits(t, toggle[t].stage = "working")
  /\ UNCHANGED <<door, view>>

\* The microphone does not open.  A window's call is answered by an error to all windows, which
\* take their wake listening for off.
Fails(t) ==
  /\ AtWork(t) /\ Passive(t) /\ toggle[t].value
  /\ Over(t)
  /\ blurred' = (blurred \/ toggle[t].stage = "overlapped" \/ \E k \in DOMAIN Modes : flag[k])
  /\ feed' = IF toggle[t].by = Route THEN feed ELSE Tells([k \in {"live_wake"} |-> FALSE])
  /\ missed' = [w \in Windows |->
       IF toggle[t].by = Route THEN missed[w]
       ELSE IF flag.live_wake \/ door[w] = "greeted" THEN missed[w] \cup {"live_wake"}
       ELSE IF door[w] = "fed" THEN missed[w] \ {"live_wake"} ELSE missed[w]]
  /\ UNCHANGED <<listening, flag, door, view>>

Next ==
  \/ \E w \in Windows : Greet(w) \/ Subscribe(w) \/ Deliver(w)
  \/ \E t \in Toggles :
       \/ \E w \in Windows : \E k \in Shown : Press(t, w, k)
       \/ \E k \in Keys : \E v \in BOOLEAN : Post(t, k, v)
       \/ Begins(t) \/ Returns(t) \/ Fails(t)

Spec == Init /\ [][Next]_vars

-----------------------------------------------------------------------------
TypeOK ==
  /\ listening \in {"off", "continuous", "wake"} /\ flag \in [Keys -> BOOLEAN]
  /\ \A t \in Toggles : /\ toggle[t].stage \in {"none", "sent", "working", "overlapped", "over"}
                        /\ toggle[t].by \in Windows \cup {Route} /\ toggle[t].key \in Keys
  /\ door \in [Windows -> {"closed", "greeted", "fed"}]
  /\ view \in [Windows -> [Shown -> BOOLEAN]] /\ missed \in [Windows -> SUBSET Keys]

Idle == \A t \in Toggles : toggle[t].stage \in {"none", "over"}

\* At rest the controller is in the mode that the backend reports, unless two calls overlapped in
\* it, one mode was switched off while the other was on, or a mode was left for one that did not
\* open; and every window shows what the backend reports, whoever switched, unless the switch
\* moved between the window's status and its subscription, or by a message about another one
\* (routes/mode.py:208, main.py:222, ws.py:216-235, useVoiceMode.ts:73).
ModesAreTold ==
  Idle =>
    /\ ~blurred => \A k \in DOMAIN Modes : flag[k] <=> listening = Modes[k]
    /\ \A w \in Windows : door[w] = "fed" /\ feed[w] = <<>> =>
         \A k \in Shown \ missed[w] : view[w][k] = flag[k]
=============================================================================
