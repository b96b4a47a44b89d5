---------------------------- MODULE UserSettings ----------------------------
(***************************************************************************)
(* What the dashboard changes and the next start finds again: the overlay  *)
(* user.yaml (backend/user_settings.py), which the loader merges over the  *)
(* checked-in configuration (core/config/loader.py) and wiring.py builds   *)
(* the program from, and the routes that write it: llm, interaction,       *)
(* memory, voice_clone, voice_profiles, pack, companions and mode.         *)
(*                                                                         *)
(* A write of the overlay reads, changes and replaces the file without a   *)
(* suspension, so it is one step and a crash leaves the old file or the    *)
(* new one.  Requests suspend while the avatar or the speech controller    *)
(* takes the new value over; two of them may then be at work on the same   *)
(* setting.                                                                *)
(***************************************************************************)
EXTENDS Naturals

CONSTANTS MaxRequests,  \* bound of the model: requests
          MaxRestarts,  \* bound of the model: restarts
          Installed     \* whether the client of Hindsight is installed

SettingsBounds == MaxRequests \in Nat /\ MaxRestarts \in Nat /\ Installed \in BOOLEAN

VARIABLES
  overlay,  \* the saved settings: user.yaml and the two files of personality and
            \* appearance; "unset" where they say nothing
  force,    \* the value the running program uses
  told,     \* the value the user was last told is chosen
  astray,   \* history: settings that a request moved and did not answer for, or that two
            \* requests worked on at the same time
  running,  \* "up", or "down" when the last start failed
  request,  \* the requests that suspend
  restarts  \* number of restarts

vars == <<overlay, force, told, astray, running, request, restarts>>

Requests == 1..MaxRequests

Voice == {"wake", "stt", "pause"}

\* In force at once, and only with the next start.
Chosen == {"backend", "model", "web_search", "presentation"}
Live == Chosen \cup Voice \cup {"pack", "personality", "appearance"}
AtStart == {"memory", "clone"}
Keys == Live \cup AtStart

\* "bare" is a profile of chatterbox-local that was imported without its reference.
Values(k) ==
  CASE k = "clone"  -> {"profile", "remote", "reference", "bare"}
    [] k = "memory" -> {"profile", "local", "hindsight"}
    [] OTHER        -> {"profile", "chosen"}

\* The checked-in configuration, under the overlay.
Merged(file) == [k \in Keys |-> IF file[k] = "unset" THEN "profile" ELSE file[k]]

\* build() raises WiringError for a clone without its reference, RuntimeError without the client.
Starts(file) == file["clone"] # "bare" /\ (file["memory"] = "hindsight" => Installed)

\* A request: its stage, the settings it wants changed, to which value, from which, the one
\* it is awaiting, and those another request worked on meanwhile.
None == [stage |-> "none", wants |-> {}, value |-> "profile", old |-> <<>>, at |-> "none",
         fought |-> {}]

Over == [None EXCEPT !.stage = "over"]

Busy(r) == request[r].stage \notin {"none", "over"}

Init ==
  /\ overlay = [k \in Keys |-> "unset"]
  /\ force = Merged(overlay)
  /\ told = force
  /\ astray = {}
  /\ running = "up"
  /\ request = [r \in Requests |-> None]
  /\ restarts = 0

Up == running = "up"

-----------------------------------------------------------------------------
(* Requests that do not suspend.  Operators named for a slip are those     *)
(* that the mutants of PROJECT.json put in place of the next one.          *)

IsNext(r) == request[r].stage = "none" /\ \A q \in Requests : q < r => request[q].stage # "none"

Immediate(r) == Up /\ IsNext(r) /\ request' = [request EXCEPT ![r] = Over]

\* POST /llm/settings, /llm/model, /llm/web-search and /interaction/settings: the value is
\* in force before it is written, and stays so when the file cannot be.
Choose(r, k, v, written) ==
  /\ Immediate(r) /\ k \in Chosen
  /\ force' = [force EXCEPT ![k] = v]
  /\ IF written
       THEN /\ overlay' = [overlay EXCEPT ![k] = v]
            /\ told' = [told EXCEPT ![k] = v] /\ astray' = astray \ {k}
       ELSE astray' = astray \cup {k} /\ UNCHANGED <<overlay, told>>
  /\ UNCHANGED <<running, restarts>>

\* POST /memory/settings, /voice/clone/reference, /voice/clone/remote and
\* /voice/profiles/{id}/activate, and of POST /personality/settings, which every reply reads
\* anew: a request that cannot write changes nothing.
Save(r, k, v) ==
  /\ Immediate(r) /\ k \in AtStart \cup {"personality"}
  /\ overlay' = [overlay EXCEPT ![k] = v]
  /\ told' = [told EXCEPT ![k] = v]
  /\ force' = IF k \in Live THEN [force EXCEPT ![k] = v] ELSE force
  /\ astray' = astray \ {k}
  /\ UNCHANGED <<running, restarts>>

-----------------------------------------------------------------------------
(* Requests that suspend *)

Rivals(r, wants) == {q \in Requests \ {r} : Busy(q) /\ request[q].wants \cap wants # {}}

First(wants) ==
  IF "wake" \in wants THEN "wake" ELSE IF "stt" \in wants THEN "stt" ELSE "pause"

After(k) == IF k = "wake" THEN {"stt", "pause"} ELSE IF k = "stt" THEN {"pause"} ELSE {}

\* Request r begins, and with those that are at work on the same settings it fights for them.
Asks(r, wants, v, stage, at) ==
  LET rivals == Rivals(r, wants)
      fought == wants \cap UNION {request[q].wants : q \in rivals}
  IN /\ Up /\ IsNext(r)
     /\ request' = [q \in Requests |->
          IF q = r THEN [stage |-> stage, wants |-> wants, value |-> v, at |-> at,
                         old |-> [k \in wants |-> force[k]], fought |-> fought]
          ELSE IF q \in rivals THEN [request[q] EXCEPT !.fought = @ \cup (request[q].wants \cap wants)]
          ELSE request[q]]
     /\ astray' = astray \cup fought

\* POST /voice/settings: the wake names are assigned before set_wake_names() suspends.
AskVoice(r, wants, v) ==
  /\ wants \subseteq Voice /\ wants # {}
  /\ LET k == First(wants)
     IN /\ Asks(r, wants, v, IF k = "wake" THEN "set" ELSE "setting", k)
        /\ force' = IF k = "wake" THEN [force EXCEPT ![k] = v] ELSE force
  /\ UNCHANGED <<overlay, told, running, restarts>>

\* set_stt_model() and set_post_speech_silence_duration() stopped passive listening.
Assign(r) ==
  /\ Up /\ request[r].stage = "setting"
  /\ force' = [force EXCEPT ![request[r].at] = request[r].value]
  /\ request' = [request EXCEPT ![r].stage = "set"]
  /\ UNCHANGED <<overlay, told, astray, running, restarts>>

\* A companion with a voice brings its reference along.
Wanted(r, k) == IF k = "clone" THEN "reference" ELSE request[r].value

\* The answer to the user: what was asked for is chosen.
Answers(r, wants) ==
  /\ told' = [k \in Keys |-> IF k \in wants THEN Wanted(r, k) ELSE told[k]]
  /\ astray' = (astray \ wants) \cup request[r].fought
  /\ request' = [request EXCEPT ![r] = Over]

Write(r, wants) ==
  overlay' = [k \in Keys |-> IF k \in wants THEN Wanted(r, k) ELSE overlay[k]]

UndoLast(r) ==
  LET q == request[r]
  IN /\ request' = [request EXCEPT ![r].stage = "undone"]
     /\ force' = [force EXCEPT ![q.at] = q.old[q.at]]
     /\ UNCHANGED <<overlay, told, astray, running, restarts>>

\* The settings are put back, all that were wanted, in the same order.
Undo(r) ==
  LET q == request[r]
      k == First(q.wants)
  IN /\ request' = [request EXCEPT ![r].stage = IF k = "wake" THEN "undone" ELSE "undoing",
                                   ![r].at = k]
     /\ force' = IF k = "wake" THEN [force EXCEPT ![k] = q.old[k]] ELSE force
     /\ UNCHANGED <<overlay, told, astray, running, restarts>>

\* The controller took the setting over; on to the next one, or to the file.
Taken(r, written) ==
  /\ Up /\ request[r].stage = "set"
  /\ LET q == request[r]
         rest == q.wants \cap After(q.at)
     IN \/ /\ rest # {} /\ written
           /\ request' = [request EXCEPT ![r].stage = "setting", ![r].at = First(rest)]
           /\ UNCHANGED <<overlay, force, told, astray, running, restarts>>
        \/ /\ rest = {} /\ written
           /\ Write(r, q.wants) /\ Answers(r, q.wants)
           /\ UNCHANGED <<force, running, restarts>>
        \/ rest = {} /\ ~written /\ Undo(r)

\* A setter raises, while listening is stopped or restored or the model is loaded.
SetterFails(r) ==
  /\ Up /\ request[r].stage \in {"setting", "set"}
  /\ Undo(r)

\* Putting a setting back may fail as well, before or after it is assigned.
PutBack(r, assigned) ==
  /\ Up /\ request[r].stage \in {"undoing", "undone"}
  /\ LET q == request[r]
         rest == q.wants \cap After(q.at)
         back == assigned \/ q.stage = "undone"
     IN /\ force' = IF assigned /\ q.stage = "undoing" THEN [force EXCEPT ![q.at] = q.old[q.at]]
                    ELSE force
        /\ astray' = IF back THEN astray ELSE astray \cup {q.at}
        /\ request' = IF rest = {} THEN [request EXCEPT ![r] = Over]
                      ELSE [request EXCEPT ![r].stage = "undoing", ![r].at = First(rest)]
        /\ UNCHANGED <<overlay, told, running, restarts>>

\* POST /pack/swap: the renderer loads the pack, shows the current directive with it, and the
\* choice is written.
AskPack(r, v) ==
  /\ Asks(r, {"pack"}, v, "loading", "pack")
  /\ UNCHANGED <<overlay, force, told, running, restarts>>

PackLoaded(r) ==
  /\ Up /\ request[r].stage = "loading" /\ request[r].wants = {"pack"}
  /\ force' = [force EXCEPT !["pack"] = request[r].value]
  /\ request' = [request EXCEPT ![r].stage = "showing"]
  /\ UNCHANGED <<overlay, told, astray, running, restarts>>

PackShown(r, written) ==
  /\ Up /\ request[r].stage = "showing"
  /\ IF written THEN Write(r, {"pack"}) /\ Answers(r, {"pack"})
     ELSE /\ request' = [request EXCEPT ![r] = Over]
          /\ astray' = astray \cup {"pack"}
          /\ UNCHANGED <<overlay, told>>
  /\ UNCHANGED <<force, running, restarts>>

LoadFails(r) ==
  /\ Up /\ request[r].stage = "loading"
  /\ request' = [request EXCEPT ![r] = Over]
  /\ UNCHANGED <<overlay, force, told, astray, running, restarts>>

\* POST /companions/{id}/activate; voiced says whether a voice came with it.
Steps == <<"pack", "personality", "appearance", "clone">>

AskCompanion(r, v, voiced) ==
  /\ Asks(r, {Steps[i] : i \in 1..(IF voiced THEN 4 ELSE 3)}, v, "loading", "pack")
  /\ UNCHANGED <<overlay, force, told, running, restarts>>

\* The pack is loaded; pack, personality, appearance and voice are written in this order, and
\* whatever fails leaves the first n of them where they are.  The appearance is in force just
\* before it is written.
CompanionLoaded(r, n, half) ==
  /\ Up /\ request[r].stage = "loading" /\ "personality" \in request[r].wants
  /\ LET wants == request[r].wants
         done == {Steps[i] : i \in 1..n}
         moved == done \cup {"pack"} \cup (IF half /\ n = 2 THEN {"appearance"} ELSE {})
     IN /\ done \subseteq wants
        /\ force' = [k \in Keys |->
                       IF k \in moved \cap Live THEN Wanted(r, k) ELSE force[k]]
        /\ Write(r, done)
        /\ IF done = wants THEN Answers(r, wants)
           ELSE /\ request' = [request EXCEPT ![r] = Over]
                /\ astray' = astray \cup moved
                /\ UNCHANGED told
  /\ UNCHANGED <<running, restarts>>

-----------------------------------------------------------------------------
\* The program ends, in the midst of whatever it does, and is started again.
Restart ==
  /\ restarts < MaxRestarts /\ restarts' = restarts + 1
  /\ force' = Merged(overlay)
  /\ running' = IF Starts(Merged(overlay)) THEN "up" ELSE "down"
  /\ request' = [r \in Requests |-> IF Busy(r) THEN Over ELSE request[r]]
  /\ astray' = {k \in Keys : Merged(overlay)[k] # told[k]}
  /\ UNCHANGED <<overlay, told>>

Next ==
  \/ \E r \in Requests : \E v \in {"profile", "chosen"} :
       \/ \E k \in Chosen : \E written \in BOOLEAN : Choose(r, k, v, written)
       \/ Save(r, "personality", v)
       \/ \E wants \in SUBSET Voice : AskVoice(r, wants, v)
       \/ AskPack(r, v)
       \/ \E voiced \in BOOLEAN : AskCompanion(r, v, voiced)
  \/ \E r \in Requests : \E k \in AtStart : \E v \in Values(k) \ {"profile"} : Save(r, k, v)
  \/ \E r \in Requests :
       \/ Assign(r) \/ SetterFails(r) \/ PackLoaded(r) \/ LoadFails(r)
       \/ \E ok \in BOOLEAN : Taken(r, ok) \/ PutBack(r, ok) \/ PackShown(r, ok)
       \/ \E n \in 0..4 : \E half \in BOOLEAN : CompanionLoaded(r, n, half)
  \/ Restart

Spec == Init /\ [][Next]_vars

-----------------------------------------------------------------------------
TypeOK ==
  /\ \A k \in Keys : /\ overlay[k] \in Values(k) \cup {"unset"}
                     /\ force[k] \in Values(k) /\ told[k] \in Values(k)
  /\ astray \subseteq Keys /\ running \in {"up", "down"} /\ restarts \in 0..MaxRestarts
  /\ \A r \in Requests :
       /\ request[r].stage \in {"none", "setting", "set", "undoing", "undone", "loading",
                                "showing", "over"}
       /\ request[r].fought \subseteq request[r].wants

\* What the user was told is chosen is what the next start will find and, unless it is for the
\* next start, what the program uses: after changes in several steps of which any may fail and
\* be put back, one step of several written, requests side by side and a restart at any time.
\* Excused are the settings that two requests fought over, and those that a request moved
\* without answering for them: where the file could not be written, where a setter failed again
\* while it was put back, and what a companion brought before the rest of it failed.
SettingsAreKept ==
  \A k \in Keys \ astray :
    /\ Merged(overlay)[k] = told[k]
    /\ Up /\ k \in Live /\ (\A r \in Requests : Busy(r) => k \notin request[r].wants)
         => force[k] = told[k]

\* The program starts again with whatever its dashboard let the user choose.  A local voice
\* whose profile came without the reference is selected and then refused at the start.
RestartIsSafe == running = "up"
=============================================================================
