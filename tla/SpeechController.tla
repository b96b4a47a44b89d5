-------------------------- MODULE SpeechController --------------------------
(***************************************************************************)
(* SpeechController (voice/controllers/speech.py): the one speech at a     *)
(* time, and the microphone that is paused and restored around it.         *)
(*                                                                         *)
(* Nothing in the controller is locked.  Its callers (the turn, which      *)
(* speaks; the users' sockets and routes, which press, release and switch; *)
(* the barge-in watcher; the lifespan, which stops it) interleave wherever *)
(* a call awaits, and the task of every utterance is one more actor.  What *)
(* remains of an actor's call is a sequence of blocks, each the code from  *)
(* one await to the next; an await of an adapter always suspends here.     *)
(***************************************************************************)
EXTENDS Naturals, Sequences, SequencesExt

CONSTANTS Turn, Barge, Lifespan,  \* the turn's task, the watcher, the lifespan
          Users,                  \* sockets and routes acting for a person
          MaxUtterances,          \* bound of the model: calls of say()
          Setups                  \* the circumstances a run of the program may be in:
                                  \* bargeIn   voice.modes.barge_in_enabled
                                  \* switches  the passive modes that are switched on
                                  \* micFails  opening or preparing the microphone may fail
                                  \* orderly   calls do not overlap with one another, nor
                                  \*           with the first step of an utterance's task or
                                  \*           its restoring, modes are not switched during
                                  \*           speech, and the adapter stops within 0.15 s

ASSUME SetupsAssumption ==
  \A s \in Setups : /\ s.switches \subseteq {"continuous", "wake"}
                    /\ {s.bargeIn, s.micFails, s.orderly} \subseteq BOOLEAN
ASSUME MaxUtterancesAssumption == MaxUtterances \in Nat

Utterances == 1..MaxUtterances
Callers == {Turn, Barge, Lifespan} \cup Users
Actors == Callers \cup Utterances

ASSUME ActorsAssumption ==
  /\ Turn # Barge /\ Turn # Lifespan /\ Barge # Lifespan
  /\ {Turn, Barge, Lifespan} \cap Users = {}
  /\ Callers \cap Utterances = {}

VARIABLES
  setup,      \* the circumstances of this run
  started,    \* _started: "on", "stopping" inside stop(), "off" after it
  current,    \* _current_tts_task and its id; 0 for None
  speech,     \* where the task of each utterance stands
  cancelled,  \* task.cancel() was called on it
  told,       \* the last TTS event published about it
  listening,  \* _live_listening and _listening_mode
  ptt,        \* _ptt_active
  resume,     \* _resume_listening_after_ptt
  stt,        \* the session open in the STT adapter
  stray,      \* some passive listener runs that no handle reaches any more
  todo,       \* the blocks each actor has still to run
  waits,      \* the utterance whose task an actor in interrupt() waits for
  mode,       \* the mode an actor will restore or open: its local `resume`
  chosen      \* what the users asked for last; read by the properties alone

output == <<current, speech, cancelled, told>>
input == <<listening, ptt, resume, stt, stray>>
actors == <<todo, waits, mode>>
controller == <<started, output, input, actors, chosen>>
vars == <<setup, controller>>

Modes == {"off", "continuous", "wake"}

(***************************************************************************)
(* "created"  not stepped yet; "readying" yields to the adapter, then      *)
(* waits for playback to begin or to be over; "unready" waits out the      *)
(* cancelled readiness wait, playback being over; "playing" and "mute"     *)
(* wait for the end of playback, "mute" because it never became ready;     *)
(* "recovering" stops the adapter after a failure or a deadline,           *)
(* "stopping" after a cancellation; "restoring" reopens the microphone;    *)
(* "dropped" was cancelled before its first step.                          *)
(***************************************************************************)
Playing == {"readying", "playing", "mute"}
Alive == Playing \cup {"created", "unready", "recovering", "stopping", "restoring"}
Over == {"done", "dropped"}

Terminal == {"finished", "failed", "interrupted"}

Init ==
  /\ setup \in Setups
  /\ started = "on"
  /\ current = 0
  /\ speech = [u \in Utterances |-> "none"]
  /\ cancelled = [u \in Utterances |-> FALSE]
  /\ told = [u \in Utterances |-> "none"]
  /\ listening = "off"
  /\ ptt = FALSE
  /\ resume = "off"
  /\ stt = "off"
  /\ stray = FALSE
  /\ todo = [a \in Actors |-> <<>>]
  /\ waits = [a \in Actors |-> 0]
  /\ mode = [a \in Actors |-> "off"]
  /\ chosen = "off"

-----------------------------------------------------------------------------
(* Pieces of blocks: each says how its actor goes on, and a little more.   *)
(* Operators named for a slip, here and below, are those that the mutants  *)
(* of PROJECT.json put in place of the one that follows them.              *)

\* The actor has these blocks left, and remembers m for them.
Then(a, m, blocks) ==
  /\ todo' = [todo EXCEPT ![a] = blocks]
  /\ mode' = [mode EXCEPT ![a] = m]

Return(a) == Then(a, "off", <<>>)

\* interrupt() up to its await: the handles are cleared at once, and the caller
\* waits for the cancelled task or, there being none, for the adapter's stop().
Interrupt(a, blocks) ==
  /\ Then(a, "off", blocks)
  /\ current' = 0
  /\ IF current = 0
       THEN UNCHANGED <<waits, cancelled>>
       ELSE /\ waits' = [waits EXCEPT ![a] = current]
            /\ cancelled' = [cancelled EXCEPT ![current] = TRUE]
  /\ UNCHANGED <<speech, told>>

\* _stop_passive_listening() of a live listener, up to the await of its task.
Hush(a, m, blocks) ==
  /\ listening' = "off"
  /\ Then(a, m, <<"close">> \o blocks)

\* The end of _start_passive_listening(): the handle of a listener that is there
\* already is overwritten.
Listen(a, m) ==
  /\ listening' = m
  /\ stray' = (stray \/ listening # "off")
  /\ Return(a)

\* stt.start() of a listener; with a session open already it returns at once, and
\* the session stays what it is.
OpenMic(a, m) ==
  IF stt = "off" THEN Then(a, m, <<"opened">>) /\ UNCHANGED <<listening, stray>>
                 ELSE Listen(a, m)

\* enable_continuous_listening() and enable_live_listening(), which order their
\* early returns differently; a listener of the other mode is stopped first.
Enable(a, m, pressed) ==
  IF pressed /\ ~(m = "wake" /\ listening = "wake")
    THEN /\ resume' = m
         /\ Return(a)
         /\ UNCHANGED <<listening, stray>>
    ELSE /\ CASE listening = m     -> Return(a) /\ UNCHANGED <<listening, stray>>
              [] listening = "off" -> OpenMic(a, m)
              [] OTHER             -> Hush(a, m, <<"open">>) /\ UNCHANGED stray
         /\ UNCHANGED resume

\* _restore_passive_listening() of what the actor remembered, if anything.
Restore(a, pressed) ==
  IF mode[a] = "off"
    THEN Return(a) /\ UNCHANGED <<listening, stray, resume>>
    ELSE Enable(a, mode[a], pressed)

FreeWhenDone(a) == waits[a] # 0 => speech[waits[a]] = "done"

\* The loop steps a new task well within interrupt()'s 0.15 s.
Free(a) ==
  waits[a] # 0 => \/ speech[waits[a]] \in Over
                  \/ ~setup.orderly /\ speech[waits[a]] # "created"

\* An actor goes on with its next block once what it awaits is over; interrupt()
\* goes on after 0.15 s at the latest, and swallows what its task raised.
At(a, block) ==
  /\ todo[a] # <<>> /\ Head(todo[a]) = block
  /\ Free(a)

Later(a) == Tail(todo[a])

Waited(a) == waits' = [waits EXCEPT ![a] = 0]

\* The loop also steps an utterance's task before the turn that queued it or the
\* lifespan comes back; those that act for others may come in between.
MayCall(a) ==
  /\ todo[a] = <<>>
  /\ started = "on"
  /\ a \in {Turn, Lifespan} => \A u \in Utterances : speech[u] # "created"
  /\ setup.orderly => /\ \A c \in Callers : todo[c] = <<>>
                /\ \A u \in Utterances : speech[u] \notin {"created", "restoring"}

-----------------------------------------------------------------------------
(* say() and interrupt() *)

Say ==
  /\ MayCall(Turn)
  /\ \E u \in Utterances : speech[u] = "none"
  /\ Interrupt(Turn, <<"say">>)
  /\ UNCHANGED <<started, input, chosen>>

\* The utterance's task is created; m is what it will restore when it ends.
Queue(m) ==
  \E u \in Utterances :
    /\ speech[u] = "none" /\ \A v \in 1..(u - 1) : speech[v] # "none"
    /\ current' = u
    /\ speech' = [speech EXCEPT ![u] = "created"]
    /\ told' = [told EXCEPT ![u] = "queued"]
    /\ mode' = [mode EXCEPT ![Turn] = "off", ![u] = m]
    /\ todo' = [todo EXCEPT ![Turn] = <<>>]
    /\ UNCHANGED cancelled

\* Unless barge-in is enabled, passive listening is paused for the utterance.
SayPause ==
  /\ At(Turn, "say")
  /\ Waited(Turn)
  /\ IF ~setup.bargeIn /\ listening # "off"
       THEN Hush(Turn, listening, <<"queue">>) /\ UNCHANGED output
       ELSE Queue("off") /\ UNCHANGED listening
  /\ UNCHANGED <<started, ptt, resume, stt, stray, chosen>>

SayQueue ==
  /\ At(Turn, "queue")
  /\ Queue(mode[Turn])
  /\ UNCHANGED <<started, input, waits, chosen>>

\* interrupt() by the acceptance of a turn, or by agent voice being switched off.
Silence(c) ==
  /\ c \in Users \cup {Turn}
  /\ MayCall(c)
  /\ Interrupt(c, <<"end">>)
  /\ UNCHANGED <<started, input, chosen>>

\* The call returns.
Ended(a) ==
  /\ At(a, "end")
  /\ Waited(a)
  /\ Return(a)
  /\ UNCHANGED <<started, output, input, chosen>>

-----------------------------------------------------------------------------
(* The task of an utterance: _speak_once() *)

Moves(u, from, to) ==
  /\ speech[u] = from
  /\ speech' = [speech EXCEPT ![u] = to]

\* A task cancelled before its first step never runs any of its body.
Drop(u) ==
  /\ Moves(u, "created", "dropped")
  /\ cancelled[u]
  /\ cancelled' = [cancelled EXCEPT ![u] = FALSE]
  /\ UNCHANGED <<started, current, told, input, actors, chosen>>

Begin(u) ==
  /\ ~cancelled[u]
  /\ Moves(u, "created", "readying")
  /\ UNCHANGED <<started, current, cancelled, told, input, actors, chosen>>

\* The adapter says whether playback began.  "Started" is for the current
\* utterance alone.
Ready(u, yes) ==
  /\ ~cancelled[u]
  /\ Moves(u, "readying", IF yes THEN "playing" ELSE "mute")
  /\ told' = IF yes /\ current = u
               THEN [told EXCEPT ![u] = "started"]
               ELSE told
  /\ UNCHANGED <<started, current, cancelled, input, actors, chosen>>

\* Playback is over before it was ready; the readiness wait is cancelled.
Unready(u) ==
  /\ ~cancelled[u]
  /\ Moves(u, "readying", "unready")
  /\ UNCHANGED <<started, current, cancelled, told, input, actors, chosen>>

\* The adapter raises, or playback exceeds its deadline.
Break(u) ==
  /\ ~cancelled[u]
  /\ \E from \in {"playing", "mute"} : Moves(u, from, "recovering")
  /\ UNCHANGED <<started, current, cancelled, told, input, actors, chosen>>

UnwindSilently(u) ==
  /\ cancelled[u]
  /\ \E from \in Playing \cup {"recovering"} : Moves(u, from, "done")
  /\ UNCHANGED <<started, current, cancelled, told, input, actors, chosen>>

\* CancelledError at one of the task's awaits: the adapter is stopped.
Unwind(u) ==
  /\ cancelled[u]
  /\ \E from \in Playing \cup {"recovering"} : Moves(u, from, "stopping")
  /\ UNCHANGED <<started, current, cancelled, told, input, actors, chosen>>

EndingsForgetCancel(u) ==
  CASE speech[u] = "playing" /\ ~cancelled[u] -> {"finished"}
    [] speech[u] = "mute" /\ ~cancelled[u]    -> {"failed"}
    [] speech[u] \in {"unready", "recovering"} -> {"failed"}
    [] speech[u] = "stopping"                 -> {"finished"}
    [] OTHER                                  -> {}

\* What the body ends with, by the await it ends at.  A cancellation that arrives
\* while the readiness wait or the stopped adapter is awaited may be swallowed.
Endings(u) ==
  CASE speech[u] = "playing" /\ ~cancelled[u] -> {"finished"}
    [] speech[u] = "mute" /\ ~cancelled[u]    -> {"failed"}
    [] speech[u] \in {"unready", "recovering"} -> {"failed"}
    [] speech[u] = "stopping"                 -> {"interrupted"}
    [] OTHER                                  -> {}

Release(u) == current' = IF current = u THEN 0 ELSE current

\* The finally clause: one terminal event, the handles cleared if they are still
\* this utterance's, and the microphone restored unless push-to-talk has it.
Finally(u) ==
  /\ \E how \in Endings(u) : told' = [told EXCEPT ![u] = how]
  /\ cancelled' = [cancelled EXCEPT ![u] = FALSE]
  /\ Release(u)
  /\ IF started = "on" /\ ~ptt
       THEN Restore(u, ptt)
       ELSE Return(u) /\ UNCHANGED <<listening, stray, resume>>
  /\ speech' = [speech EXCEPT ![u] = IF todo'[u] = <<>> THEN "done" ELSE "restoring"]
  /\ UNCHANGED <<started, ptt, stt, waits, chosen>>

Restored(u) ==
  /\ todo[u] = <<>>
  /\ Moves(u, "restoring", "done")
  /\ UNCHANGED <<started, current, cancelled, told, input, actors, chosen>>

Speak(u) ==
  \/ Drop(u) \/ Begin(u) \/ Unready(u) \/ Break(u) \/ Unwind(u)
  \/ \E yes \in BOOLEAN : Ready(u, yes)
  \/ Finally(u) \/ Restored(u)

-----------------------------------------------------------------------------
(* Opening and closing the microphone, for whatever actor is at it *)

\* stt.stop() closes the session at once; its end-of-stream mark ends one stray
\* listener, of perhaps several.
CloseMic ==
  /\ stt' = "off"
  /\ stray' \in IF stt = "off" THEN {stray} ELSE {stray, FALSE}

\* The listener's task is gone, and the session is closed.
Close(a) ==
  /\ At(a, "close")
  /\ CloseMic
  /\ Then(a, mode[a], Later(a))
  /\ UNCHANGED <<started, output, listening, ptt, resume, waits, chosen>>

Opened(a) ==
  /\ At(a, "opened")
  /\ started # "off"
  /\ stt' = mode[a]
  /\ Listen(a, mode[a])
  /\ UNCHANGED <<started, output, ptt, resume, waits, chosen>>

\* A listener of the other mode was stopped; now this one is opened.
Reopen(a) ==
  /\ At(a, "open")
  /\ OpenMic(a, mode[a])
  /\ UNCHANGED <<started, output, ptt, resume, stt, waits, chosen>>

\* The microphone does not open, or the closed adapter refuses.
OpenFails(a) ==
  /\ At(a, "opened")
  /\ setup.micFails \/ started = "off"
  /\ Return(a)
  /\ UNCHANGED <<started, output, input, waits, chosen>>

-----------------------------------------------------------------------------
(* Push-to-talk.  A press while it is active, a release while it is not, are *)
(* ignored by the first line of the handler.                                 *)

PttDown(c) ==
  /\ MayCall(c)
  /\ ~ptt
  /\ Interrupt(c, <<"ptt">>)
  /\ UNCHANGED <<started, input, chosen>>

PressedSavesReported(c, m) == ptt' = TRUE /\ resume' = "push_to_talk" /\ Return(c)

\* stt.start() of push-to-talk, and what follows it: UserSpeechStarted.
Pressed(c, m) == ptt' = TRUE /\ resume' = m /\ Return(c)

OpenPtt(c, m) ==
  IF stt = "off" THEN Then(c, m, <<"pttOpened">>) /\ UNCHANGED <<ptt, resume>>
                 ELSE Pressed(c, m)

PttPause(c) ==
  /\ At(c, "ptt")
  /\ Waited(c)
  /\ IF listening # "off"
       THEN Hush(c, listening, <<"pttOpen">>) /\ UNCHANGED <<ptt, resume>>
       ELSE OpenPtt(c, "off") /\ UNCHANGED listening
  /\ UNCHANGED <<started, output, stt, stray, chosen>>

PttOpen(c) ==
  /\ At(c, "pttOpen")
  /\ OpenPtt(c, mode[c])
  /\ UNCHANGED <<started, output, listening, stt, stray, waits, chosen>>

PttOpened(c) ==
  /\ At(c, "pttOpened")
  /\ started # "off"
  /\ stt' = "ptt"
  /\ Pressed(c, mode[c])
  /\ UNCHANGED <<started, output, listening, stray, waits, chosen>>

PttFails(c) ==
  /\ At(c, "pttOpened")
  /\ setup.micFails \/ started = "off"
  /\ Restore(c, ptt)
  /\ UNCHANGED <<started, output, ptt, stt, waits, chosen>>

PttUp(c) ==
  /\ MayCall(c)
  /\ ptt
  /\ resume' = "off"
  /\ Then(c, resume, <<"heard">>)
  /\ UNCHANGED <<started, output, listening, ptt, stt, stray, waits, chosen>>

HeardLeavesMicOpen(c) ==
  /\ At(c, "heard")
  /\ Then(c, mode[c], <<"released">>)
  /\ UNCHANGED <<started, output, input, waits, chosen>>

\* The final transcript, its deadline, or an error: the session is closed.
Heard(c) ==
  /\ At(c, "heard")
  /\ CloseMic
  /\ Then(c, mode[c], <<"released">>)
  /\ UNCHANGED <<started, output, listening, ptt, resume, waits, chosen>>

\* Push-to-talk is over, before what it paused is restored.
Released(c) ==
  /\ At(c, "released")
  /\ ptt' = FALSE
  /\ Restore(c, FALSE)
  /\ UNCHANGED <<started, output, stt, waits, chosen>>

Ptt(c) ==
  \/ PttPause(c) \/ PttOpen(c) \/ PttOpened(c) \/ PttFails(c)
  \/ Heard(c) \/ Released(c)

-----------------------------------------------------------------------------
(* Switching modes, reconfiguring, barge-in, stopping *)

MaySwitch == setup.orderly => \A u \in Utterances : speech[u] \notin Alive

SwitchOn(c, m) ==
  /\ MayCall(c)
  /\ MaySwitch
  /\ chosen' = m
  /\ Enable(c, m, ptt)
  /\ UNCHANGED <<started, output, ptt, stt, waits>>

\* disable_live_listening() knows of the microphone to restore after push-to-talk,
\* not of the one that a speaking utterance remembers.
SwitchOff(c) ==
  /\ MayCall(c)
  /\ MaySwitch
  /\ chosen' = "off"
  /\ resume' = "off"
  /\ IF listening = "off"
       THEN Return(c) /\ UNCHANGED listening
       ELSE Hush(c, "off", <<>>)
  /\ UNCHANGED <<started, output, ptt, stt, stray, waits>>

\* set_stt_model(), set_wake_names() or set_post_speech_silence_duration() while a
\* listener is live (otherwise they touch none of this state).
Reconfigure(c) ==
  /\ MayCall(c)
  /\ listening # "off"
  /\ MaySwitch
  /\ Hush(c, listening, <<"prepared">>)
  /\ UNCHANGED <<started, output, ptt, resume, stt, stray, waits, chosen>>

Reconfigured(c) ==
  /\ At(c, "prepared")
  /\ \/ Restore(c, ptt)
     \/ setup.micFails /\ Return(c) /\ UNCHANGED <<listening, stray, resume>>
  /\ UNCHANGED <<started, output, ptt, stt, waits, chosen>>

\* The watcher hears a voice while the adapter speaks, and waits the grace period.
Sounding == \E u \in Utterances : speech[u] \in Playing \cup {"recovering", "stopping"}

BargeSense ==
  /\ setup.bargeIn
  /\ MayCall(Barge)
  /\ Sounding
  /\ Then(Barge, "off", <<"barge">>)
  /\ UNCHANGED <<started, output, input, waits, chosen>>

\* The voice persists and something still speaks, or the watcher goes back.
BargeAct ==
  /\ At(Barge, "barge")
  /\ \/ Sounding /\ Interrupt(Barge, <<"end">>)
     \/ Return(Barge) /\ UNCHANGED <<output, waits>>
  /\ UNCHANGED <<started, input, chosen>>

\* stop(), once the conversation is closed.
Stop ==
  /\ MayCall(Lifespan)
  /\ todo[Turn] = <<>>
  /\ started' = "stopping"
  /\ resume' = "off"
  /\ IF listening = "off"
       THEN Interrupt(Lifespan, <<"shut">>) /\ UNCHANGED listening
       ELSE Hush(Lifespan, "off", <<"shutSpeech">>) /\ UNCHANGED <<output, waits>>
  /\ UNCHANGED <<ptt, stt, stray, chosen>>

StopSpeech ==
  /\ At(Lifespan, "shutSpeech")
  /\ Interrupt(Lifespan, <<"shut">>)
  /\ UNCHANGED <<started, input, chosen>>

\* The watcher is cancelled, the session stopped, and the adapters closed.
Shut ==
  /\ At(Lifespan, "shut")
  /\ started' = "off"
  /\ stt' = "off"
  /\ todo' = [todo EXCEPT ![Lifespan] = <<>>, ![Barge] = <<>>]
  /\ waits' = [waits EXCEPT ![Lifespan] = 0, ![Barge] = 0]
  /\ UNCHANGED <<output, listening, ptt, resume, stray, mode, chosen>>

-----------------------------------------------------------------------------
\* Whatever an actor has left to do.
Proceed(a) ==
  \/ Close(a) \/ Opened(a) \/ Reopen(a) \/ OpenFails(a) \/ Ended(a)
  \/ a \in Users /\ (Ptt(a) \/ Reconfigured(a))
  \/ a = Turn /\ (SayPause \/ SayQueue)
  \/ a = Barge /\ BargeAct
  \/ a = Lifespan /\ (StopSpeech \/ Shut)

Press(c) ==
  \/ PttDown(c) \/ PttUp(c) \/ SwitchOff(c) \/ Reconfigure(c)
  \/ \E m \in setup.switches : SwitchOn(c, m)

Step ==
  \/ Say \/ BargeSense \/ Stop
  \/ \E c \in Users \cup {Turn} : Silence(c)
  \/ \E c \in Users : Press(c)
  \/ \E u \in Utterances : Speak(u)
  \/ \E a \in Actors : Proceed(a)

Next == Step /\ UNCHANGED setup

\* The loop runs what can run, and every await of an adapter has a deadline; nobody
\* has to call the controller.
Fairness ==
  /\ \A u \in Utterances : WF_controller(Speak(u))
  /\ \A a \in Actors : WF_controller(Proceed(a))

Spec == Init /\ [][Next]_vars /\ Fairness

-----------------------------------------------------------------------------
Blocks == {"say", "queue", "end", "close", "open", "opened",
           "ptt", "pttOpen", "pttOpened", "heard", "released",
           "prepared", "barge", "shutSpeech", "shut"}

\* The type of every variable.
TypeOK ==
  /\ setup \in Setups
  /\ started \in {"on", "stopping", "off"}
  /\ current \in 0..MaxUtterances
  /\ speech \in [Utterances -> Alive \cup Over \cup {"none"}]
  /\ cancelled \in [Utterances -> BOOLEAN]
  /\ told \in [Utterances -> Terminal \cup {"none", "queued", "started"}]
  /\ listening \in Modes /\ resume \in Modes /\ chosen \in Modes
  /\ ptt \in BOOLEAN
  /\ stt \in Modes \cup {"ptt"}
  /\ stray \in BOOLEAN
  /\ todo \in [Actors -> Seq(Blocks)]
  /\ waits \in [Actors -> 0..MaxUtterances]
  /\ mode \in [Actors -> Modes]

\* Speech that nobody cancelled is reachable: its task is the controller's current
\* one, so the next press, turn or barge-in does silence it, however the
\* calls of the others were interleaved with its creation and its end.
SpeechReachable ==
  \A u \in Utterances :
     speech[u] \in Playing \cup {"created", "unready", "recovering"} /\ ~cancelled[u]
       => current = u

\* The events of an utterance come in their order, nothing follows the terminal
\* one, it ends as "finished" only if it was heard to start, and "a stopped
\* playback job cannot later replace listening with speaking": once an utterance
\* was interrupted it does not start any more.
Order == {<<"none", "queued">>, <<"queued", "started">>, <<"started", "finished">>}
           \cup {"queued", "started"} \X {"failed", "interrupted"}

EventOrder ==
  [][\A u \in Utterances : told'[u] # told[u] =>
        /\ <<told[u], told'[u]>> \in Order
        /\ cancelled[u] => told'[u] # "started"
        /\ ~cancelled[u] => told'[u] # "interrupted"]_vars

\* The documentation speaks of orderly circumstances.
Quiet ==
  /\ \A a \in Actors : todo[a] = <<>>
  /\ \A u \in Utterances : speech[u] \notin Alive
InUse == setup.orderly /\ Quiet /\ started = "on"

\* "At most one TTS task is alive at any moment."
OneAlive ==
  setup.orderly => \A u, v \in Utterances : speech[u] \in Alive /\ speech[v] \in Alive => u = v

\* "exactly one of TTSFinished | TTSFailed | TTSInterrupted" (the same clause of
\* the task resolves its _speech_ready future, for whoever waits for playback).
ExactlyOneTerminal ==
  setup.orderly => \A u \in Utterances : speech[u] \in Over => told[u] \in Terminal

\* The current utterance can be reached, one is alive at a time, and each has one terminal
\* event.
OneSpeech == SpeechReachable /\ OneAlive /\ ExactlyOneTerminal

\* Passive listening "resumes after the playback process exits" and after
\* push-to-talk, and disable_live_listening() "disable[s] either passive listening mode"
\* for good: with nothing under way, the mode that was asked for last is on, if the
\* microphone opens.
ListeningIsAsChosen == InUse /\ ~setup.micFails /\ ~ptt => listening = chosen

\* With nothing under way the microphone is open exactly for the mode that the
\* controller reports, and closed when it reports none; and at no moment are there
\* "two readers racing for the same microphone stream" (docs/V1.2_WINDOWS_TESTING.md).
MicrophoneMatches ==
  /\ setup.orderly => ~stray /\ ~(ptt /\ listening # "off")
  /\ InUse => stt = IF ptt THEN "ptt" ELSE listening

\* The microphone is as the user chose, and as is reported.
MicrophoneIsRight == ListeningIsAsChosen /\ MicrophoneMatches

\* Nobody waits on everybody: every call returns, the task of every utterance that was
\* queued comes to its end, and, as "empty audio ... always leaves transcribing", the
\* release of push-to-talk ends it.
CallsReturn ==
  /\ \A a \in Actors : todo[a] # <<>> ~> todo[a] = <<>>
  /\ \A u \in Utterances : speech[u] = "created" ~> speech[u] \in Over
  /\ \A c \in Users : todo[c] = <<"heard">> ~> ~ptt
=============================================================================
