------------------------- MODULE MCSpeechController -------------------------
(* The voice: the controller, the process that listens for it, and those that  *)
(* play its replies.  Each is checked against the environment that its module  *)
(* states, so a behaviour is one of them alone: its part.                      *)
EXTENDS SpeechController

CONSTANTS Configs, MaxCalls, MaxSayings, MaxFaults,     \* IsolatedWhisper
          Adapters, MaxReplies                          \* ReplyProcess

VARIABLES
  part,
  \* IsolatedWhisper
  sessionOn, closed, loaded, process, reading, isReady, worker, transcripts, lifecycle, call,
  sequence, session, reader, heard, astray, calls, said, faults,
  \* ReplyProcess
  adapter, task, interrupted, job, jobsCancelled, failed, target, line, playing, sound, asked,
  answers

Whisper == INSTANCE IsolatedWhisper WITH MaxUtterances <- MaxSayings, started <- sessionOn
Speaker == INSTANCE ReplyProcess WITH cancelled <- jobsCancelled, current <- playing

\* Any order of calls, and a microphone that may fail; and calls that wait for one
\* another, where what the documentation promises is to hold.
AnyOrder == [bargeIn |-> FALSE, switches |-> {"wake"}, micFails |-> TRUE, orderly |-> FALSE]
InOrder == [bargeIn |-> FALSE, switches |-> {"wake", "continuous"}, micFails |-> FALSE,
            orderly |-> TRUE]
BothOrders == {AnyOrder, InOrder}

WithBargeIn == {[AnyOrder EXCEPT !.bargeIn = TRUE]}

ASSUME PartsAssumption == Whisper!WhisperBounds /\ Speaker!ReplyBounds

whisperVars == <<sessionOn, closed, loaded, process, reading, isReady, worker, transcripts,
                 lifecycle, call, sequence, session, reader, heard, astray, calls, said, faults>>
speakerVars == <<adapter, task, interrupted, job, jobsCancelled, failed, target, line, playing,
                 sound, asked, answers>>

\* Where a part has several initial states, the others start in one of them.
VoiceParts ==
  /\ Init /\ (part # "controller" => setup = CHOOSE s \in Setups : TRUE)
  /\ Whisper!Init
  /\ Speaker!Init /\ (part # "speaker" => adapter = "piper")

VoiceInit == part \in {"controller", "whisper", "speaker"} /\ VoiceParts

VoiceNext ==
  \/ part = "controller" /\ Next /\ UNCHANGED <<part, whisperVars, speakerVars>>
  \/ part = "whisper" /\ Whisper!Next /\ UNCHANGED <<part, vars, speakerVars>>
  \/ part = "speaker" /\ Speaker!Next /\ UNCHANGED <<part, vars, whisperVars>>

\* The fairness of each part, in the behaviours that are its own.
ControllerFairness ==
  /\ \A u \in Utterances : WF_controller(part = "controller" /\ Speak(u))
  /\ \A a \in Actors : WF_controller(part = "controller" /\ Proceed(a))

WhisperFairness ==
  \A c \in Whisper!Callers : WF_whisperVars(part = "whisper" /\ Whisper!Working(c))

SpeakerFairness ==
  \A j \in Speaker!Replies : /\ WF_speakerVars(part = "speaker" /\ Speaker!TaskStep(j))
                             /\ WF_speakerVars(part = "speaker" /\ Speaker!JobStep(j))
                             /\ WF_speakerVars(part = "speaker" /\ Speaker!Dies(j))

VoiceSpec ==
  /\ VoiceInit /\ [][VoiceNext]_<<part, vars, whisperVars, speakerVars>>
  /\ ControllerFairness /\ WhisperFairness /\ SpeakerFairness

-----------------------------------------------------------------------------
\* The variables of every part keep their types.
VoiceTypes ==
  CASE part = "whisper" -> Whisper!TypeOK
    [] part = "speaker" -> Speaker!TypeOK
    [] OTHER            -> TypeOK

\* The controller is told what was said in its session (IsolatedWhisper).
TranscriptsAreFresh == part = "whisper" => Whisper!TranscriptsAreFresh

\* A microphone that is open is heard, by one recogniser at most, and none is left in the end
\* (IsolatedWhisper).
OneWorkerHears == part = "whisper" => Whisper!OpenIsHeard /\ Whisper!OneWorker

\* An interrupted reply falls silent (ReplyProcess).
FallsSilent == part = "speaker" => Speaker!FallsSilent

\* Whatever is asked of the voice comes to an end: the calls of the controller, those of
\* the recogniser, and every reply (SpeechController, IsolatedWhisper, ReplyProcess).
VoiceSettles == CallsReturn /\ Whisper!CallsReturn /\ Speaker!RepliesEnd
=============================================================================
