---------------------------- MODULE ReplyProcess ----------------------------
(***************************************************************************)
(* The speech adapters that play a reply in a process of its own:          *)
(* isolated Piper, Chatterbox, the system's command and ElevenLabs         *)
(* (voice/tts/), and the calls that SpeechController's tasks make on them. *)
(*                                                                         *)
(* As in PlaybackLane a reply has a task in the controller (_speak_once)   *)
(* and a job, the adapter's speak().  Its process is where it sounds.      *)
(* Chatterbox asks a server for the recording before: a worker that        *)
(* answers one request after the other.                                    *)
(***************************************************************************)
EXTENDS Naturals, Sequences, FiniteSets, SequencesExt

CONSTANTS Adapters,     \* which of the four is configured
          MaxReplies    \* bound: calls of speak()

ReplyBounds == /\ Adapters \subseteq {"piper", "chatterbox", "system", "elevenlabs"}
               /\ MaxReplies \in Nat

Replies == 1..MaxReplies

VARIABLES
  adapter,      \* the one in use
  task,         \* where _speak_once of each reply stands
  interrupted,  \* the replies whose task interrupt() cancelled
  job,          \* where speak() of each reply stands
  cancelled,    \* the jobs that are cancelled and have not met it yet
  failed,       \* the jobs that raised
  target,       \* whose process the stop() of a task or of a job waits for; 0 for nobody's
  line,         \* _turn_lock or _io_lock: its holder, then those that wait
  current,      \* the reply whose process the adapter holds; 0 for None
  sound,        \* what became of the process of each reply
  asked,        \* what the worker has been asked for and has not made yet
  answers       \* what it has answered and nobody has read

callVars == <<task, interrupted>>
jobVars == <<job, cancelled, failed, line, current>>
workerVars == <<asked, answers>>
replyVars == <<adapter, callVars, jobVars, target, sound, workerVars>>

TaskStates == {"none", "readying", "waiting", "unwinding", "settling", "stopping", "over"}
JobStates == {"none", "created", "clearing", "queued", "making", "playing", "aborting", "over"}
Stopper == [of : Replies, by : {"task", "job"}]

Init ==
  /\ adapter \in Adapters
  /\ task = [j \in Replies |-> "none"]
  /\ interrupted = {}
  /\ job = [j \in Replies |-> "none"]
  /\ cancelled = {} /\ failed = {}
  /\ target = [s \in Stopper |-> 0]
  /\ line = <<>>
  /\ current = 0
  /\ sound = [j \in Replies |-> "none"]
  /\ asked = <<>> /\ answers = <<>>

Sounding(p) == p # 0 /\ sound[p] \in {"on", "dying"}

-----------------------------------------------------------------------------
(* stop() *)

\* Up to its wait: the process that the adapter holds is terminated.
StopCall(s, p) ==
  /\ target' = [target EXCEPT ![s] = IF Sounding(p) THEN p ELSE 0]
  /\ sound' = IF Sounding(p) THEN [sound EXCEPT ![p] = "dying"] ELSE sound

\* The wait is over: the process is gone, killed in the end.
Stopped(s) == ~Sounding(target[s])

\* Chatterbox then discards a worker that is at work for somebody.
AtWork == \E k \in Replies : job[k] = "making"
Discard ==
  IF adapter = "chatterbox" /\ AtWork
    THEN asked' = <<>> /\ answers' = <<>>
    ELSE UNCHANGED workerVars

\* With nothing to wait for, stop() does that at once.
DiscardUnless(p) == IF Sounding(p) THEN UNCHANGED workerVars ELSE Discard

-----------------------------------------------------------------------------
(* The controller *)

Live(j) == job[j] \notin {"none", "over"}
CancelJob(j) == cancelled' = IF Live(j) THEN cancelled \cup {j} ELSE cancelled
TaskOf(j) == [of |-> j, by |-> "task"]
JobOf(j) == [of |-> j, by |-> "job"]

\* say() goes on when the previous task is over, or 0.15 s after it was cancelled: it
\* waits then for a process to end.
Lingers(k) ==
  /\ k \in interrupted
  /\ \/ task[k] \in {"unwinding", "stopping"} /\ ~Stopped(TaskOf(k))
     \/ job[k] = "aborting" /\ ~Stopped(JobOf(k))

Say(j) ==
  /\ task[j] = "none"
  /\ \A k \in 1..(j - 1) : task[k] = "over" \/ Lingers(k)
  /\ task' = [task EXCEPT ![j] = "readying"]
  /\ job' = [job EXCEPT ![j] = "created"]
  /\ UNCHANGED <<adapter, interrupted, cancelled, failed, line, current, target, sound, workerVars>>

\* interrupt(): a task that awaits the job passes its cancellation on at once.
Interrupt(j) ==
  /\ task[j] \in {"readying", "waiting"} /\ j \notin interrupted
  /\ interrupted' = interrupted \cup {j}
  /\ IF task[j] = "waiting" THEN CancelJob(j) ELSE UNCHANGED cancelled
  /\ UNCHANGED <<adapter, task, job, failed, line, current, target, sound, workerVars>>

\* Playback began, or did not in time.
Ready(j) ==
  /\ task[j] = "readying" /\ job[j] # "created" /\ j \notin interrupted
  /\ task' = [task EXCEPT ![j] = "waiting"]
  /\ UNCHANGED <<adapter, interrupted, jobVars, target, sound, workerVars>>

\* CancelledError while the task waits for readiness, or the playback deadline.
Unwind(j) ==
  /\ \/ task[j] = "readying" /\ job[j] # "created" /\ j \in interrupted
     \/ task[j] = "waiting" /\ j \notin interrupted /\ Live(j)
  /\ task' = [task EXCEPT ![j] = "unwinding"]
  /\ CancelJob(j)
  /\ StopCall(TaskOf(j), current) /\ DiscardUnless(current)
  /\ UNCHANGED <<adapter, interrupted, job, failed, line, current>>

Unwound(j) ==
  /\ task[j] = "unwinding" /\ Stopped(TaskOf(j))
  /\ task' = [task EXCEPT ![j] = "settling"]
  /\ target' = [target EXCEPT ![TaskOf(j)] = 0]
  /\ IF target[TaskOf(j)] # 0 THEN Discard ELSE UNCHANGED workerVars
  /\ UNCHANGED <<adapter, interrupted, jobVars, sound>>

Settle(j) ==
  /\ task[j] = "settling" /\ job[j] = "over"
  /\ task' = [task EXCEPT ![j] = "over"]
  /\ UNCHANGED <<adapter, interrupted, jobVars, target, sound, workerVars>>

\* The job is over.  Unless it just ended, the adapter is stopped once more.
Finish(j) ==
  /\ task[j] = "waiting" /\ job[j] = "over"
  /\ IF j \in interrupted \cup failed
       THEN /\ task' = [task EXCEPT ![j] = "stopping"]
            /\ StopCall(TaskOf(j), current) /\ DiscardUnless(current)
       ELSE /\ task' = [task EXCEPT ![j] = "over"]
            /\ UNCHANGED <<target, sound, workerVars>>
  /\ UNCHANGED <<adapter, interrupted, jobVars>>

Finished(j) ==
  /\ task[j] = "stopping" /\ Stopped(TaskOf(j))
  /\ task' = [task EXCEPT ![j] = "over"]
  /\ target' = [target EXCEPT ![TaskOf(j)] = 0]
  /\ IF target[TaskOf(j)] # 0 THEN Discard ELSE UNCHANGED workerVars
  /\ UNCHANGED <<adapter, interrupted, jobVars, sound>>

-----------------------------------------------------------------------------
(* The job *)

Locked == {"piper", "chatterbox"}       \* the adapters that make replies queue

\* The line without j, who is in it once, if at all.
Without(j) ==
  LET at == {i \in DOMAIN line : line[i] = j}
  IN IF at = {} THEN line ELSE RemoveAt(line, CHOOSE i \in at : TRUE)

\* The end of speak(), with its finally, which Piper keeps to its own process.
Over(j, raised) ==
  /\ job' = [job EXCEPT ![j] = "over"]
  /\ cancelled' = cancelled \ {j}
  /\ failed' = IF raised THEN failed \cup {j} ELSE failed
  /\ line' = Without(j)
  /\ current' = IF job[j] \in {"created", "clearing"} \/ (adapter = "piper" /\ current # j)
                  THEN current ELSE 0

\* The first step: Piper queues, the others stop what plays.
Begin(j) ==
  /\ job[j] = "created" /\ j \notin cancelled
  /\ IF adapter = "piper"
       THEN /\ job' = [job EXCEPT ![j] = "queued"]
            /\ line' = Append(line, j)
            /\ UNCHANGED <<target, sound, workerVars>>
       ELSE /\ job' = [job EXCEPT ![j] = "clearing"]
            /\ StopCall(JobOf(j), current) /\ DiscardUnless(current)
            /\ UNCHANGED line
  /\ UNCHANGED <<adapter, callVars, cancelled, failed, current>>

\* Chatterbox queues for its worker; a command or a request is made at once.
Clear(j) ==
  /\ job[j] = "clearing" /\ Stopped(JobOf(j)) /\ j \notin cancelled
  /\ target' = [target EXCEPT ![JobOf(j)] = 0]
  /\ IF adapter = "chatterbox"
       THEN job' = [job EXCEPT ![j] = "queued"] /\ line' = Append(line, j)
       ELSE job' = [job EXCEPT ![j] = "making"] /\ UNCHANGED line
  /\ IF target[JobOf(j)] # 0 THEN Discard ELSE UNCHANGED workerVars
  /\ UNCHANGED <<adapter, callVars, cancelled, failed, current, sound>>

\* The lock is free: Piper spawns its process, which makes the recording and plays it;
\* Chatterbox makes sure of its worker and writes the request.
Enter(j) ==
  /\ job[j] = "queued" /\ Head(line) = j /\ j \notin cancelled
  /\ \/ /\ adapter = "piper"
        /\ job' = [job EXCEPT ![j] = "playing"]
        /\ current' = j /\ sound' = [sound EXCEPT ![j] = "on"]
        /\ UNCHANGED <<cancelled, failed, line, asked>>
     \/ /\ adapter = "chatterbox"
        /\ job' = [job EXCEPT ![j] = "making"]
        /\ asked' = Append(asked, j)
        /\ UNCHANGED <<cancelled, failed, line, current, sound>>
     \/ Over(j, TRUE) /\ UNCHANGED <<sound, asked>>
  /\ UNCHANGED <<adapter, callVars, target, answers>>

\* Nobody who has waited for a process that is gone is still to run.
Settled == \A k \in Replies : job[k] = "aborting" => ~Stopped(JobOf(k))

Play(j) ==
  /\ job' = [job EXCEPT ![j] = "playing"]
  /\ current' = j /\ sound' = [sound EXCEPT ![j] = "on"]
  /\ line' = Without(j)
  /\ UNCHANGED <<cancelled, failed>>

\* The recording was made, or was not; Chatterbox believes the next answer of its worker
\* and looks for the file.
Made(j) ==
  /\ job[j] = "making" /\ j \notin cancelled /\ Settled
  /\ \/ adapter # "chatterbox" /\ Play(j) /\ UNCHANGED answers
     \/ /\ adapter = "chatterbox" /\ answers # <<>>
        /\ answers' = Tail(answers)
        /\ IF j \in ToSet(answers) THEN Play(j) ELSE Over(j, TRUE) /\ UNCHANGED sound
     \/ Over(j, TRUE) /\ UNCHANGED <<sound, answers>>
  /\ UNCHANGED <<adapter, callVars, target, asked>>

\* The process has ended.
Played(j) ==
  /\ job[j] = "playing" /\ ~Sounding(j) /\ j \notin cancelled
  /\ \E raised \in BOOLEAN : Over(j, raised)
  /\ UNCHANGED <<adapter, callVars, target, sound, workerVars>>

\* A slip: a cancelled playback of Piper is not terminated.
QuitWithoutStop(j) ==
  /\ j \in cancelled /\ job[j] \in {"created", "clearing", "queued", "making", "playing"}
  /\ Over(j, FALSE)
  /\ UNCHANGED <<adapter, callVars, target, sound, workerVars>>

\* The job meets its cancellation.  Piper terminates its own process, Chatterbox stops
\* the adapter, once it works for the job; the others leave a process that plays.
Quit(j) ==
  /\ j \in cancelled /\ job[j] \in {"created", "clearing", "queued", "making", "playing"}
  /\ IF \/ adapter = "piper" /\ job[j] = "playing"
        \/ adapter = "chatterbox" /\ job[j] \in {"queued", "making", "playing"}
       THEN LET p == IF adapter = "piper" THEN j ELSE current
            IN /\ job' = [job EXCEPT ![j] = "aborting"]
               /\ cancelled' = cancelled \ {j}
               /\ line' = IF adapter = "chatterbox" THEN Without(j) ELSE line
               /\ StopCall(JobOf(j), p)
               /\ UNCHANGED <<failed, current, workerVars>>
       ELSE /\ Over(j, FALSE)
            /\ UNCHANGED <<target, sound, workerVars>>
  /\ UNCHANGED <<adapter, callVars>>

\* Its cleanup is over; by now the worker may be at work for the next reply.
Aborted(j) ==
  /\ job[j] = "aborting" /\ Stopped(JobOf(j))
  /\ target' = [target EXCEPT ![JobOf(j)] = 0]
  /\ Over(j, FALSE)
  /\ Discard
  /\ UNCHANGED <<adapter, callVars, sound>>

-----------------------------------------------------------------------------
(* The processes *)

Ends(j) ==
  /\ Sounding(j)
  /\ sound' = [sound EXCEPT ![j] = "off"]
  /\ UNCHANGED <<adapter, callVars, jobVars, target, workerVars>>

\* A process that was terminated ends, or is killed.
Dies(j) == sound[j] = "dying" /\ Ends(j)

\* A recording is made and answered for.
Answer ==
  /\ asked # <<>>
  /\ asked' = Tail(asked) /\ answers' = Append(answers, Head(asked))
  /\ UNCHANGED <<adapter, callVars, jobVars, target, sound>>

-----------------------------------------------------------------------------
TaskStep(j) == Ready(j) \/ Unwind(j) \/ Unwound(j) \/ Settle(j) \/ Finish(j) \/ Finished(j)

JobStep(j) ==
  Begin(j) \/ Clear(j) \/ Enter(j) \/ Made(j) \/ Played(j) \/ Quit(j) \/ Aborted(j)

Next ==
  \/ \E j \in Replies : Say(j) \/ Interrupt(j) \/ TaskStep(j) \/ JobStep(j) \/ Ends(j)
  \/ Answer

Spec ==
  /\ Init /\ [][Next]_replyVars
  /\ \A j \in Replies : /\ WF_replyVars(TaskStep(j))
                        /\ WF_replyVars(JobStep(j))
                        /\ WF_replyVars(Dies(j))

-----------------------------------------------------------------------------
TypeOK ==
  /\ adapter \in Adapters
  /\ task \in [Replies -> TaskStates] /\ job \in [Replies -> JobStates]
  /\ {interrupted, cancelled, failed} \subseteq SUBSET Replies
  /\ target \in [Stopper -> 0..MaxReplies]
  /\ IsInjective(line) /\ ToSet(line) \subseteq Replies
  /\ current \in 0..MaxReplies
  /\ sound \in [Replies -> {"none", "on", "dying", "off"}]
  /\ ToSet(asked) \cup ToSet(answers) \subseteq Replies

\* The process of a reply does not outlive the reply.
Outlives(j) == task[j] = "over" /\ Sounding(j)

\* A reply that was interrupted, or whose deadline passed, falls silent before the
\* controller is through with it, although later replies come and stop() is aimed at
\* whatever the adapter holds.
FallsSilent == adapter \in Locked => \A j \in Replies : ~Outlives(j)

\* docs/event_flows.md:80: "Hotkey pressed while TTS is speaking: TTS is cancelled
\* immediately".  With a system command it plays on.
InterruptionSilences == \A j \in interrupted : ~Outlives(j)

\* Every reply comes to an end, and with it its task.
RepliesEnd == \A j \in Replies : (task[j] # "none") ~> (task[j] = "over")
=============================================================================
