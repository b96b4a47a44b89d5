------------------------- MODULE ConversationAvatar -------------------------
(***************************************************************************)
(* What the avatar shows of a conversation: the pipeline of a turn         *)
(* (routes/chat.py), the voice of its reply (voice/controllers/speech.py)  *)
(* and the orchestrator that consumes the events of both.                  *)
(*                                                                         *)
(* Turns follow one another, as TurnLease shows; the voice is what is left *)
(* of SpeechController when only what the avatar hears of it counts.       *)
(* Events that the director ignores in every state are left out.           *)
(***************************************************************************)
EXTENDS AvatarOrchestrator

CONSTANTS MaxTurns,  \* bound of the model: turns
          MaxHears,  \* bound of the model: UserSpeechStarted or WakeDetected
          Setups     \* the circumstances a run of the program may be in:
                     \* mode      interaction.response_presentation.mode
                     \* cues      the affects the model chooses for its replies
                     \* llmFails  the turns in which the language model may raise
                     \* tasks     the turns that may be delegated to a task runtime
                     \* hears     whether the user is heard
                     \* prompt    a cancelled utterance unwinds before interrupt() gives up

ASSUME SetupsAssumption ==
  \A s \in Setups : /\ s.mode \in {"parallel", "voice_ready", "text_only", "voice_only"}
                    /\ s.cues \subseteq DOMAIN Cue
                    /\ s.llmFails \cup s.tasks \subseteq Nat
                    /\ {s.prompt, s.hears} \subseteq BOOLEAN
ASSUME BoundAssumption == MaxTurns \in Nat /\ MaxHears \in Nat

VARIABLES
  setup,   \* the circumstances of this run
  turn,    \* the number of the turn
  phase,   \* what its task awaits
  cue,     \* the affect of its reply
  voice,   \* the utterance of each turn's reply
  current_utterance,  \* _current_tts_task; 0 for None
  hears,   \* number of times the user was heard
  overtaken  \* the last turn that was admitted, and not yet silencing the voice, when the
             \* playback of an older one began; read by properties alone

chat == <<setup, turn, phase, cue, voice, current_utterance, hears, overtaken>>
avatar == <<director, made, current, lock, holds, display, route, life, lost>>
all == <<vars, chat>>

Turns == 1..MaxTurns

ConversationInit ==
  /\ Init
  /\ setup \in Setups
  /\ turn = 0
  /\ phase = "none"
  /\ cue = "cue_idle"
  /\ voice = [t \in Turns |-> "none"]
  /\ current_utterance = 0
  /\ hears = 0
  /\ overtaken = 0

\* Several events published before the next await.
Announce(events) ==
  /\ published' = published + Len(events)
  /\ inbox' = inbox \o events
  /\ UNCHANGED avatar

Quietly == UNCHANGED <<intake, avatar>>

-----------------------------------------------------------------------------
(* The voice                                                               *)

\* interrupt(), up to its wait.
Interrupt ==
  /\ voice' = IF current_utterance = 0 THEN voice
                ELSE [voice EXCEPT ![current_utterance] =
                        IF @ = "queued" THEN "cancelled" ELSE "stopping"]
  /\ current_utterance' = 0

\* It waits for the cancelled task, 0.15 s at most.
Settled == setup.prompt => \A t \in Turns : voice[t] \notin {"cancelled", "stopping"}

\* Playback begins.
Ready(t) ==
  /\ voice[t] = "queued"
  /\ voice' = [voice EXCEPT ![t] = "playing"]
  /\ Announce(<<"tts_started">>)
  /\ overtaken' = IF phase = "accepted" THEN turn ELSE overtaken
  /\ UNCHANGED <<setup, turn, phase, cue, current_utterance, hears>>

Sounding == {"queued", "playing", "cancelled", "stopping"}

\* The utterance finishes, fails, or is done with being interrupted.
Over(t) ==
  /\ voice[t] \in Sounding
  /\ voice' = [voice EXCEPT ![t] = "over"]
  /\ current_utterance' = IF current_utterance = t THEN 0 ELSE current_utterance
  /\ Announce(<<"tts_over">>)
  /\ UNCHANGED <<setup, turn, phase, cue, hears, overtaken>>

\* An utterance cancelled before its task's first step says nothing.
Drop(t) ==
  /\ voice[t] = "cancelled"
  /\ voice' = [voice EXCEPT ![t] = "over"]
  /\ Quietly
  /\ UNCHANGED <<setup, turn, phase, cue, current_utterance, hears, overtaken>>

-----------------------------------------------------------------------------
(* The turn *)

\* A turn is admitted when none is active; thinking follows at once.
Accept ==
  /\ phase = "none"
  /\ turn < MaxTurns
  /\ turn' = turn + 1
  /\ phase' = "accepted"
  /\ Announce(<<"turn_thinking">>)
  /\ UNCHANGED <<setup, cue, voice, current_utterance, hears, overtaken>>

\* on_accepted stops the speech of the turn before.
Hush ==
  /\ phase = "accepted"
  /\ phase' = "hushing"
  /\ Interrupt
  /\ Quietly
  /\ UNCHANGED <<setup, turn, cue, hears, overtaken>>

\* run_chat_turn: the text is a task for a runtime, or for the language model.
Start ==
  /\ phase = "hushing"
  /\ Settled
  /\ \/ phase' = "task" /\ turn \in setup.tasks /\ Quietly
     \/ phase' = "thinking" /\ Announce(<<"llm_started">>)
  /\ UNCHANGED <<setup, turn, cue, voice, current_utterance, hears, overtaken>>

\* The turn's last events, published together; the lease is released with them.
FinishTurn(events) ==
  /\ phase' = "none"
  /\ Announce(events \o <<"turn_over">>)

\* _run_task_path: submitted and followed to its result, or given up with an error.
\* A stream of updates that breaks is one error more.
TaskEnds ==
  /\ phase = "task"
  /\ \E events \in {<<"task_completed">>, <<"error">>, <<"error", "task_completed">>,
                    <<"error", "error">>} : FinishTurn(events)
  /\ UNCHANGED <<setup, turn, cue, voice, current_utterance, hears, overtaken>>

\* The model may raise; what it said before is its reply all the same.
Errors == {<<>>} \cup IF turn \in setup.llmFails THEN {<<"error">>} ELSE {}

\* It ends with something to say.  The turn sleeps a moment, so that thinking is seen.
Generated ==
  /\ phase = "thinking"
  /\ phase' = "replying"
  /\ cue' \in setup.cues \cup {"cue_idle"}
  /\ \E events \in Errors : Announce(events)
  /\ UNCHANGED <<setup, turn, voice, current_utterance, hears, overtaken>>

\* It ends with nothing to say: LLMReplyComplete and the neutral cue.
Silent ==
  /\ phase = "thinking"
  /\ cue' = "cue_idle"
  /\ \E events \in Errors : FinishTurn(events \o <<"llm_replied", cue'>>)
  /\ UNCHANGED <<setup, turn, voice, current_utterance, hears, overtaken>>

\* The reply is displayed, unless it waits for the voice; and, where agent voice is
\* on, say() interrupts what is spoken.
Reply(aloud) ==
  /\ phase = "replying"
  /\ IF aloud /\ setup.mode # "text_only"
       THEN /\ phase' = "saying"
            /\ IF setup.mode = "voice_ready" THEN Quietly ELSE Announce(<<"llm_replied">>)
            /\ Interrupt
       ELSE /\ FinishTurn(<<"llm_replied", cue>>)
            /\ UNCHANGED <<voice, current_utterance>>
  /\ UNCHANGED <<setup, turn, cue, hears, overtaken>>

\* say() queues the utterance.  Only voice_ready waits for its playback to begin.
Say ==
  /\ phase = "saying"
  /\ Settled
  /\ voice' = [voice EXCEPT ![turn] = "queued"]
  /\ current_utterance' = turn
  /\ IF setup.mode = "voice_ready"
       THEN phase' = "readying" /\ Quietly
       ELSE FinishTurn(<<cue>>)
  /\ UNCHANGED <<setup, turn, cue, hears, overtaken>>

\* say() raises once it has interrupted: the turn does without.
SayFails ==
  /\ phase = "saying"
  /\ Settled
  /\ FinishTurn(IF setup.mode = "voice_ready" THEN <<"llm_replied", cue>> ELSE <<cue>>)
  /\ UNCHANGED <<setup, turn, cue, voice, current_utterance, hears, overtaken>>

\* Playback began, or is not going to, or the readiness wait gave up.
Readied ==
  /\ phase = "readying"
  /\ FinishTurn(<<"llm_replied", cue>>)
  /\ UNCHANGED <<setup, turn, cue, voice, current_utterance, hears, overtaken>>

\* Push-to-talk, which interrupts; or a wake word, heard when nothing is spoken.
Hear ==
  /\ setup.hears
  /\ hears < MaxHears
  /\ hears' = hears + 1
  /\ Interrupt
  /\ Announce(<<"heard">>)
  /\ UNCHANGED <<setup, turn, phase, cue, overtaken>>

-----------------------------------------------------------------------------
Voice == \E t \in Turns : Ready(t) \/ Over(t) \/ Drop(t)

TurnStep ==
  \/ Hush \/ Start \/ TaskEnds \/ Generated \/ Silent
  \/ \E aloud \in BOOLEAN : Reply(aloud)
  \/ Say \/ SayFails \/ Readied

\* No call of the renderer fails in a conversation.
Delivery == Wake \/ Handle \/ Applied

AvatarStep == (Delivery \/ ReturnStep) /\ UNCHANGED chat

ConversationNext == Accept \/ TurnStep \/ Voice \/ Hear \/ AvatarStep

ConversationSpec ==
  /\ ConversationInit
  /\ [][ConversationNext]_all
  /\ WF_all(TurnStep)
  /\ WF_all(Voice)
  /\ WF_all(Delivery /\ UNCHANGED chat)
  /\ WF_all(ReturnStep /\ UNCHANGED chat)

-----------------------------------------------------------------------------
(* Properties *)

\* The avatar has nothing left to digest.
Digested == inbox = <<>> /\ line = <<>> /\ returns = {}

\* Nobody is heard, and replies are neutral, without errors and tasks.
Undisturbed ==
  ~setup.hears /\ setup.cues = {} /\ setup.llmFails = {} /\ setup.tasks = {}

\* Nothing but turns moves the avatar: they do not wait for the voice, which stops in time.
Neutral == Undisturbed /\ setup.prompt /\ setup.mode # "voice_ready"

Playing == current_utterance # 0 /\ voice[current_utterance] = "playing"

\* The voice that is stopping has stopped before the model thinks, or did not begin to
\* play over the new turn.
InOrder == setup.prompt \/ overtaken # turn

\* Thinking: "A late terminal event from an older utterance must not clear a newer turn's
\* authoritative thinking state" (director.py, _next_state): while the model thinks the avatar
\* does, also where an older voice ends only then.  Speaking: "The avatar enters thinking,
\* then speaking; [...] exits speaking after playback" (docs/V1.3.2_WINDOWS_TESTING.md): after
\* its turn it speaks while the current utterance plays; and it never does when nothing is
\* heard, whatever else happens.
TurnIsShown ==
  Digested =>
    /\ Undisturbed /\ InOrder /\ phase = "thinking" => current.state = "thinking"
    /\ Neutral /\ phase = "none" /\ Playing => current.state = "speaking"
    /\ (\A t \in Turns : voice[t] \notin {"playing", "stopping"}) => current.state # "speaking"

\* However a turn and its voice end, the avatar comes to rest: it neither thinks,
\* speaks, celebrates nor worries for ever.
AvatarComesToRest == <>[](current.state \in {"idle", "listening"})
=============================================================================
