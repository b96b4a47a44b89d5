--------------------------- MODULE AvatarDirector ---------------------------
(***************************************************************************)
(* AvatarDirector (avatar/director.py): which state of the avatar answers  *)
(* an event of the bus, by the state the avatar is in.                     *)
(*                                                                         *)
(* An event is represented by what the director tells apart.  Of a         *)
(* directive only the state and the hold are kept: the emotion, the bubble *)
(* text and the gesture follow the event and steer nothing.                *)
(***************************************************************************)

States == {"idle", "listening", "thinking", "speaking", "happy", "error"}

\* The state of a new director, avatar.default_state.
Rest == "idle"

\* What a slip would make of it, put in its place by a mutant of PROJECT.json: the
\* end of a voice silences the thought of the next turn.
ReactionByTable ==
  [turn_thinking  |-> [to |-> "thinking", from |-> States \ {"thinking"}],
   turn_failed    |-> [to |-> "error", from |-> States \ {"error"}],
   turn_over      |-> [to |-> "idle", from |-> {"thinking"}],
   heard          |-> [to |-> "listening", from |-> States \ {"listening"}],
   llm_started    |-> [to |-> "thinking", from |-> States \ {"thinking", "speaking"}],
   llm_replied    |-> [to |-> "idle", from |-> {"thinking"}],
   tts_started    |-> [to |-> "speaking", from |-> States \ {"speaking"}],
   tts_chunk      |-> [to |-> "speaking", from |-> {"speaking"}],
   tts_over       |-> [to |-> "idle", from |-> {"speaking", "thinking"}],
   error          |-> [to |-> "error", from |-> States \ {"error"}],
   task_completed |-> [to |-> "happy", from |-> States \ {"happy", "error"}],
   other          |-> [to |-> "idle", from |-> {}]]

\* _next_state: the state an event leads to, and the states it leads from.  In the others
\* there is no directive: the dashes of the table, and (thinking, TTSFinished), for which
\* the table has idle and the code has nothing.
\*   turn_over   turn.state completed or cancelled
\*   heard       UserSpeechStarted, WakeDetected
\*   tts_over    TTSFinished, TTSInterrupted, TTSFailed
\*   other       every kind that is not listed, turn.state accepted and rejected
Reaction ==
  [turn_thinking  |-> [to |-> "thinking", from |-> States \ {"thinking"}],
   turn_failed    |-> [to |-> "error", from |-> States \ {"error"}],
   turn_over      |-> [to |-> "idle", from |-> {"thinking"}],
   heard          |-> [to |-> "listening", from |-> States \ {"listening"}],
   llm_started    |-> [to |-> "thinking", from |-> States \ {"thinking", "speaking"}],
   llm_replied    |-> [to |-> "idle", from |-> {"thinking"}],
   tts_started    |-> [to |-> "speaking", from |-> States \ {"speaking"}],
   tts_chunk      |-> [to |-> "speaking", from |-> {"speaking"}],
   tts_over       |-> [to |-> "idle", from |-> {"speaking"}],
   error          |-> [to |-> "error", from |-> States \ {"error"}],
   task_completed |-> [to |-> "happy", from |-> States \ {"happy", "error"}],
   other          |-> [to |-> "idle", from |-> {}]]

\* _apply_avatar_cue: an affect the model chose applies in every state.
Cue ==
  [cue_idle     |-> "idle",      \* neutral, and no action
   cue_happy    |-> "happy",     \* happy, or wave, nod, celebrate
   cue_error    |-> "error",     \* sad, angry, worried
   cue_thinking |-> "thinking"]  \* confused, focused, or think

Events == DOMAIN Reaction \cup DOMAIN Cue

Answers(state, event) ==
  event \in DOMAIN Reaction => state \in Reaction[event].from

\* The state on_event commits, of an event that it answers.
NextState(event) ==
  IF event \in DOMAIN Cue THEN Cue[event] ELSE Reaction[event].to

\* The directive asks to be followed by a return to idle after some time: happy and
\* error always do, and so does every cue but the neutral one.
Holds(event) ==
  \/ NextState(event) \in {"happy", "error"}
  \/ event \in DOMAIN Cue /\ NextState(event) # "idle"
=============================================================================
