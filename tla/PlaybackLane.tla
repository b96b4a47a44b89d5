---------------------------- MODULE PlaybackLane ----------------------------
(***************************************************************************)
(* RealtimeTTSAdapter (voice/tts/realtimetts_adapter.py): one reply at a   *)
(* time behind an asyncio lock, played by a worker thread that owns the    *)
(* engine and is replaced when a playback cannot be stopped; and the calls *)
(* that SpeechController's tasks make on it.                               *)
(*                                                                         *)
(* Three kinds of actors: the task of a reply in the controller            *)
(* (_speak_once), the adapter's speak() that it started as a task of its   *)
(* own (here: its job), and the threads, which the loop only hears from.   *)
(* A reply is a nonempty string.  The Event that wait_until_ready() reads  *)
(* decides nothing here: that wait is over at any moment.  Operators named *)
(* for a slip are those that the mutants of PROJECT.json put in place.     *)
(***************************************************************************)
EXTENDS Naturals, Sequences

CONSTANT MaxReplies     \* bound of the model: calls of speak()

ASSUME MaxRepliesAssumption == MaxReplies \in Nat

Replies == 1..MaxReplies
Lanes == 1..(MaxReplies + 1)    \* a reply replaces the lane once at most

VARIABLES
  adapter,      \* "open", "closing" inside close(), "closed" after it
  task,         \* where _speak_once of each reply stands
  interrupted,  \* the replies whose task interrupt() cancelled
  job,          \* where speak() of each reply stands
  cancelled,    \* the jobs that are cancelled and have not met it yet
  aborted,      \* the jobs whose cleanup was cancelled in its turn
  line,         \* _turn_lock: its holder, then those that wait
  event,        \* the reply whose cancel_event _cancel is; 0 for nobody's
  flagged,      \* the replies whose cancel_event is set
  lane,         \* _executor
  work,         \* what each lane has to run, its head being run
  stage,        \* how far the playback at the head of a lane is
  engine,       \* the lane that built _engine, 0 for None
  answer        \* what the lane last answered each job

calls == <<adapter, task, interrupted>>
jobs == <<job, cancelled, aborted, line, event>>
threads == <<lane, work, stage, engine, answer>>
vars == <<calls, jobs, flagged, threads>>

\* A task waits for readiness, for the end of playback, or, past its deadline or
\* its cancellation, for the end of the adapter's cleanup.
Current == {"readying", "waiting", "expired"}
TaskStates == Current \cup {"none", "settling", "over"}

Holding == {"preparing", "playing", "stopping", "draining"}
JobStates == Holding \cup {"none", "created", "queued", "over"}

\* "making": the engine is there, the stream is not; "made": stop() sees the stream;
\* "committed": the last look at cancel_event is past; "sounding": in stream.play().
Stages == {"idle", "making", "made", "committed", "sounding"}

Item(what, j) == [what |-> what, of |-> j]

Init ==
  /\ adapter = "open"
  /\ task = [j \in Replies |-> "none"]
  /\ interrupted = {}
  /\ job = [j \in Replies |-> "none"]
  /\ cancelled = {} /\ aborted = {} /\ flagged = {}
  /\ line = <<>>
  /\ event = 0
  /\ lane = 1
  /\ work = [l \in Lanes |-> <<>>]
  /\ stage = [l \in Lanes |-> "idle"]
  /\ engine = 1                           \* prepare() at start-up built it
  /\ answer = [j \in Replies |-> "none"]

-----------------------------------------------------------------------------
(* The controller *)

Live(j) == job[j] \notin {"none", "over"}

\* task.cancel() of the job, if there is something left to cancel.
CancelJob(j) == cancelled' = IF Live(j) THEN cancelled \cup {j} ELSE cancelled

\* stop() up to its bounded wait: whatever reply holds the lock is flagged.
StopCall == flagged' = flagged \cup ({event} \ {0})

\* The lock's release woke the next job before the task of the last one.
Woken == line # <<>> /\ job[Head(line)] = "queued"

\* say() goes on when the previous task is over, or 0.15 s after it was cancelled:
\* by then the loop has done all it can, and the task waits for the cleanup alone.
Lingers(k) ==
  /\ k \in interrupted /\ task[k] # "readying"
  /\ job[k] \in {"stopping", "draining"} /\ k \notin cancelled

Say ==
  \E j \in Replies :
    /\ adapter = "open"
    /\ task[j] = "none"
    /\ \A k \in 1..(j - 1) : task[k] = "over" \/ Lingers(k)
    /\ task' = [task EXCEPT ![j] = "readying"]
    /\ job' = [job EXCEPT ![j] = "created"]
    /\ UNCHANGED <<adapter, interrupted, cancelled, aborted, line, event, flagged, threads>>

\* interrupt(): a task that awaits the job passes its cancellation on at once.
Interrupt(j) ==
  /\ task[j] \in Current /\ j \notin interrupted
  /\ interrupted' = interrupted \cup {j}
  /\ IF task[j] = "readying" THEN UNCHANGED cancelled ELSE CancelJob(j)
  /\ UNCHANGED <<adapter, task, job, aborted, line, event, flagged, threads>>

\* Playback began, or did not in time, or is over already.  The job's first step came
\* before, while the task slept for one turn of the loop.
Ready(j) ==
  /\ task[j] = "readying" /\ job[j] # "created" /\ j \notin interrupted
  /\ task' = [task EXCEPT ![j] = "waiting"]
  /\ UNCHANGED <<adapter, interrupted, jobs, flagged, threads>>

\* CancelledError in the readiness wait: the job is cancelled, the adapter stopped.
Unwind(j) ==
  /\ task[j] = "readying" /\ job[j] # "created" /\ j \in interrupted
  /\ task' = [task EXCEPT ![j] = "settling"]
  /\ CancelJob(j)
  /\ StopCall
  /\ UNCHANGED <<adapter, interrupted, job, aborted, line, event, threads>>

\* The playback deadline.
Expire(j) ==
  /\ task[j] = "waiting" /\ j \notin interrupted /\ Live(j)
  /\ task' = [task EXCEPT ![j] = "expired"]
  /\ CancelJob(j)
  /\ UNCHANGED <<adapter, interrupted, job, aborted, line, event, flagged, threads>>

\* The job is over.  Unless it just ended, the adapter is stopped once more, and
\* whoever holds the lock by now is what is stopped.
Finish(j) ==
  /\ task[j] \in {"waiting", "expired", "settling"}
  /\ job[j] = "over" /\ ~Woken
  /\ task' = [task EXCEPT ![j] = "over"]
  /\ IF \/ task[j] = "settling"
        \/ task[j] = "waiting" /\ j \notin interrupted /\ answer[j] # "failed"
       THEN UNCHANGED flagged
       ELSE StopCall
  /\ UNCHANGED <<adapter, interrupted, jobs, threads>>

TaskStep(j) == Ready(j) \/ Unwind(j) \/ Expire(j) \/ Finish(j)

-----------------------------------------------------------------------------
(* speak() *)

\* The line without a job that waits in it.
Without(j) ==
  IF \E i \in DOMAIN line : line[i] = j
    THEN LET i == CHOOSE i \in DOMAIN line : line[i] = j
         IN SubSeq(line, 1, i - 1) \o SubSeq(line, i + 1, Len(line))
    ELSE line

\* The end of speak(), with its finally clause: the lock and _cancel are given up.
Over(j) ==
  /\ job' = [job EXCEPT ![j] = "over"]
  /\ line' = IF line # <<>> /\ Head(line) = j THEN Tail(line) ELSE Without(j)
  /\ event' = IF event = j THEN 0 ELSE event
  /\ cancelled' = cancelled \ {j}

\* With the lock: a cancel_event of its own, and the engine is asked for.
Enter(j) ==
  /\ job' = [job EXCEPT ![j] = "preparing"]
  /\ event' = j
  /\ work' = [work EXCEPT ![lane] = Append(@, Item("prepare", j))]

\* The first step, up to the lock or beyond it.
Arrive(j) ==
  /\ job[j] = "created"
  /\ adapter = "open"
  /\ line' = Append(line, j)
  /\ IF line = <<>>
       THEN Enter(j)
       ELSE job' = [job EXCEPT ![j] = "queued"] /\ UNCHANGED <<event, work>>
  /\ UNCHANGED <<calls, cancelled, aborted, flagged, lane, stage, engine, answer>>

Admit(j) ==
  /\ job[j] = "queued" /\ Head(line) = j /\ j \notin cancelled
  /\ adapter = "open"
  /\ Enter(j)
  /\ UNCHANGED <<calls, cancelled, aborted, line, flagged, lane, stage, engine, answer>>

\* The engine is there: the playback is handed to the lane.
Play(j) ==
  /\ job[j] = "preparing" /\ j \notin cancelled
  /\ answer[j] = "prepared" /\ adapter # "closed"
  /\ job' = [job EXCEPT ![j] = "playing"]
  /\ work' = [work EXCEPT ![lane] = Append(@, Item("play", j))]
  /\ UNCHANGED <<calls, cancelled, aborted, line, event, flagged, lane, stage, engine, answer>>

\* A closed adapter or lane refuses; so does an engine that cannot be built.
Refused(j) ==
  /\ j \notin cancelled
  /\ \/ job[j] = "created" /\ adapter # "open"
     \/ job[j] = "queued" /\ Head(line) = j /\ adapter # "open"
     \/ job[j] = "preparing" /\ answer[j] = "prepared" /\ adapter = "closed"
     \/ job[j] = "preparing" /\ answer[j] = "failed"
  /\ Over(j)
  /\ answer' = [answer EXCEPT ![j] = "failed"]
  /\ UNCHANGED <<calls, aborted, flagged, lane, work, stage, engine>>

Answered(j) == answer[j] \in {"played", "skipped", "failed"}

Played(j) ==
  /\ job[j] = "playing" /\ Answered(j) /\ j \notin cancelled
  /\ Over(j)
  /\ UNCHANGED <<calls, aborted, flagged, threads>>

\* CancelledError before there is a playback to wait for.
Dropped(j) ==
  /\ job[j] \in {"queued", "preparing"} /\ j \in cancelled
  /\ Over(j)
  /\ flagged' = IF job[j] = "preparing" THEN flagged \cup {j} ELSE flagged
  /\ UNCHANGED <<calls, aborted, threads>>

\* The stream of a job exists, or has existed.
HasStream(j) ==
  \/ Answered(j)
  \/ \E l \in Lanes : /\ work[l] # <<>> /\ Head(work[l]) = Item("play", j)
                      /\ stage[l] \in {"made", "committed", "sounding"}

\* CancelledError during playback: the stream is stopped by a helper thread, for
\* 0.35 s at most, and then the lane is waited for.
Quit(j) ==
  /\ job[j] = "playing" /\ j \in cancelled
  /\ job' = [job EXCEPT ![j] = IF HasStream(j) THEN "stopping" ELSE "draining"]
  /\ cancelled' = cancelled \ {j}
  /\ flagged' = flagged \cup {j}
  /\ UNCHANGED <<calls, aborted, line, event, threads>>

Stopped(j) ==
  /\ job[j] = "stopping" /\ j \notin cancelled
  /\ job' = [job EXCEPT ![j] = "draining"]
  /\ UNCHANGED <<calls, cancelled, aborted, line, event, flagged, threads>>

Drained(j) ==
  /\ job[j] = "draining" /\ Answered(j) /\ j \notin cancelled
  /\ Over(j)
  /\ UNCHANGED <<calls, aborted, flagged, threads>>

RotateKeepsLane(j) ==
  /\ job[j] = "draining" /\ ~Answered(j) /\ j \notin cancelled
  /\ Over(j)
  /\ UNCHANGED <<calls, aborted, flagged, threads>>

\* The playback does not end within two seconds: _rotate_worker_lane().
Rotate(j) ==
  /\ job[j] = "draining" /\ ~Answered(j) /\ j \notin cancelled
  /\ Over(j)
  /\ lane' = lane + 1
  /\ engine' = 0
  /\ UNCHANGED <<calls, aborted, flagged, work, stage, answer>>

\* A second cancellation ends the cleanup where it is.
Abort(j) ==
  /\ job[j] \in {"stopping", "draining"} /\ j \in cancelled
  /\ aborted' = aborted \cup {j}
  /\ Over(j)
  /\ UNCHANGED <<calls, flagged, threads>>

JobStep(j) ==
  \/ Arrive(j) \/ Admit(j) \/ Play(j) \/ Refused(j) \/ Played(j) \/ Dropped(j)
  \/ Quit(j) \/ Stopped(j) \/ Drained(j) \/ Rotate(j) \/ Abort(j)

-----------------------------------------------------------------------------
(* The threads.  Any of them may stay in the library for ever. *)

Running(l, what) == work[l] # <<>> /\ Head(work[l]).what = what

\* The head is done; its job hears of it.
Return(l, how) ==
  /\ work' = [work EXCEPT ![l] = Tail(@)]
  /\ stage' = [stage EXCEPT ![l] = "idle"]
  /\ answer' = [answer EXCEPT ![Head(work[l]).of] = how]

\* _ensure_engine().
Built(l) == engine' = IF engine = 0 THEN l ELSE engine

\* The future of a job that is over was cancelled with it.
Prepare(l) ==
  /\ Running(l, "prepare")
  /\ \/ Built(l) /\ Return(l, "prepared")
     \/ engine = 0 /\ Return(l, "failed") /\ UNCHANGED engine
  /\ UNCHANGED <<calls, jobs, flagged, lane>>

Further(s) == CASE s = "idle" -> "making" [] s = "making" -> "made"
              [] s = "made" -> "committed" [] s = "committed" -> "sounding"

\* _play_blocking() looks at cancel_event before it builds, before it makes the
\* stream and before it plays; after that only stop() can end it.  The first look and
\* the building are one step: prepare() has built this lane's engine before.
Advance(l) ==
  /\ Running(l, "play")
  /\ stage[l] # "sounding"
  /\ IF stage[l] # "committed" /\ Head(work[l]).of \in flagged
       THEN Return(l, "skipped") /\ UNCHANGED engine
       ELSE /\ stage' = [stage EXCEPT ![l] = Further(@)]
            /\ IF stage[l] = "idle" THEN Built(l) ELSE UNCHANGED engine
            /\ UNCHANGED <<work, answer>>
  /\ UNCHANGED <<calls, jobs, flagged, lane>>

\* The reply was heard to its end or was stopped, or the library raised.
Silent(l) ==
  /\ Running(l, "play")
  /\ \/ stage[l] = "sounding" /\ Return(l, "played")
     \/ stage[l] # "idle" /\ Return(l, "failed")
  /\ UNCHANGED <<calls, jobs, flagged, lane, engine>>

CloseEngine(l) ==
  /\ Running(l, "close")
  /\ work' = [work EXCEPT ![l] = Tail(@)]
  /\ engine' = 0
  /\ UNCHANGED <<calls, jobs, flagged, lane, stage, answer>>

Thread(l) == Prepare(l) \/ Advance(l) \/ Silent(l) \/ CloseEngine(l)

-----------------------------------------------------------------------------
(* close(), after the controller has interrupted what was spoken *)

Close ==
  /\ adapter = "open"
  /\ \A j \in Replies : task[j] \in Current => j \in interrupted /\ task[j] # "readying"
  /\ adapter' = "closing"
  /\ StopCall
  /\ work' = [work EXCEPT ![lane] = Append(@, Item("close", 0))]
  /\ UNCHANGED <<task, interrupted, jobs, lane, stage, engine, answer>>

\* The engine is closed, or two seconds have passed.
Closed ==
  /\ adapter = "closing"
  /\ adapter' = "closed"
  /\ UNCHANGED <<task, interrupted, jobs, flagged, threads>>

Next ==
  \/ Say \/ Close \/ Closed
  \/ \E j \in Replies : Interrupt(j) \/ TaskStep(j) \/ JobStep(j)
  \/ \E l \in Lanes : Thread(l)

\* The loop runs what can run and its timers fire, and no thread has to come back.  A reply takes
\* a few steps only, so one condition on all of them says what one for each would.
LoopStep == \E j \in Replies : TaskStep(j) \/ JobStep(j)
Fairness == WF_vars(LoopStep)

Spec == Init /\ [][Next]_vars /\ Fairness

-----------------------------------------------------------------------------
\* The type of every variable.
TypeOK ==
  /\ adapter \in {"open", "closing", "closed"}
  /\ task \in [Replies -> TaskStates]
  /\ job \in [Replies -> JobStates]
  /\ {interrupted, cancelled, aborted, flagged} \subseteq SUBSET Replies
  /\ line \in Seq(Replies)
  /\ event \in 0..MaxReplies
  /\ lane \in Lanes
  /\ work \in [Lanes -> Seq([what : {"prepare", "play", "close"}, of : 0..MaxReplies])]
  /\ stage \in [Lanes -> Stages]
  /\ engine \in {0} \cup Lanes
  /\ answer \in [Replies -> {"none", "prepared", "played", "skipped", "failed"}]

\* "do not let cancellation abandon a still-running executor job": when speak() is over
\* its playback is not left on the lane that the next reply will use, unless the
\* cleanup itself was cancelled.
LaneIsFree ==
  \A j \in Replies \ aborted :
     job[j] = "over" => \A i \in 1..Len(work[lane]) : work[lane][i] # Item("play", j)

\* An engine is used by the thread that built it alone: "It must never be reused on the
\* replacement lane".
EngineStaysOnItsLane == engine \in {0, lane}

\* What an abandoned playback may still do stays away from later replies: neither their lane
\* nor their engine is its own.
LaneSurvives == LaneIsFree /\ EngineStaysOnItsLane

\* No reply waits for ever for the one before it, nor for a library that hangs.
RepliesEnd == \A j \in Replies : task[j] = "readying" ~> task[j] = "over"

\* "Interrupt one reply, then verify the next reply speaks": who is told to stop
\* is who was interrupted.
NextReplySpeaks ==
  \A j \in flagged : job[j] \in {"preparing", "playing"} => j \in interrupted
=============================================================================
