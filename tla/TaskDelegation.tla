--------------------------- MODULE TaskDelegation ---------------------------
(***************************************************************************)
(* A task delegated by a turn: the router, the adapter that runs it (a     *)
(* command, the claude CLI, or an mcp-agent run), the turn that publishes  *)
(* its updates (routes/chat.py, _run_task_path), and the cancel button of  *)
(* its card.                                                               *)
(*                                                                         *)
(* The adapter's task (_run) and the pumps of the process's output share   *)
(* the event loop; the process runs on its own behind a pipe that can be   *)
(* full.  LocalShellAdapter and ClaudeCodeAdapter differ in how they       *)
(* start; both pumps of a process are one here.                            *)
(***************************************************************************)
EXTENDS Naturals, Sequences

CONSTANTS Registered, \* tasks.runtimes
          Default,    \* tasks.default_runtime
          QueueMax,   \* queue_maxsize
          PipeMax,    \* lines that fit into the pipe and its reader
          MaxLines,   \* bound of the model: lines, or events, of a task
          MaxCancels  \* bound of the model: presses of the cancel button

Runtimes == {"local_shell", "claude_code", "mcp_agent"}

RuntimesAssumption == Registered \subseteq Runtimes /\ Default \in Registered
BoundsAssumption ==
  {QueueMax, PipeMax, MaxLines, MaxCancels} \subseteq Nat /\ QueueMax > 1 /\ PipeMax > 0

VARIABLES
  owner,     \* the adapter that took the task
  runner,    \* where its _run stands
  process,   \* "none", "running", "ok" or "bad"
  signal,    \* the signal on its way to it
  lines,     \* number of lines, or events, it has still to write
  pipe,      \* number of lines in the pipe
  pump,      \* the task that reads them
  cancelled, \* the task's flag of that name
  doomed,    \* _run was cancelled (mcp_agent)
  status,    \* last_status
  queue,     \* the updates
  turn,      \* where _run_task_path stands
  heard,     \* the last update published
  completed, \* the result published
  canceller, \* where cancel() stands
  cancels    \* number of calls of cancel()

adapter == <<runner, status, queue>>
external == <<process, signal, lines, pipe>>
user == <<canceller, cancels>>
told == <<turn, heard, completed>>
vars == <<owner, adapter, external, pump, cancelled, doomed, told, user>>

Terminal == {"succeeded", "failed", "cancelled"}

Init ==
  /\ owner = "none"
  /\ runner = "none"
  /\ process = "none"
  /\ signal = "none"
  /\ lines \in 0..MaxLines
  /\ pipe = 0
  /\ pump = "off"
  /\ cancelled = FALSE
  /\ doomed = FALSE
  /\ status = "queued"
  /\ queue = <<>>
  /\ turn = "idle"
  /\ heard = "none"
  /\ completed = "none"
  /\ canceller = "idle"
  /\ cancels = 0

-----------------------------------------------------------------------------
(* Submitting.  Operators named for a slip are those that the mutants of   *)
(* PROJECT.json put in place of the next one.                              *)

\* detect_task_intent names one of these in the request.
Preferred == Runtimes

\* submit() of the router: what the request requires plays no part.
Route(preferred) == IF preferred \in Registered THEN preferred ELSE Default

\* _offer: the oldest update makes room.
Offer(q, item) == Append(IF Len(q) < QueueMax THEN q ELSE Tail(q), item)

\* The task's outcome and the end of its updates are queued together.
Outcome(result) ==
  /\ runner' = "done"
  /\ status' = result
  /\ queue' = Offer(Offer(queue, result), "end")

\* The command is not on the allowlist or mcp-agent is not installed: the task fails
\* before it has a runner, which never happens with claude.
Submit ==
  /\ turn = "idle"
  /\ turn' = "updates"
  /\ \E preferred \in Preferred : owner' = Route(preferred)
  /\ \/ runner' = "created" /\ UNCHANGED <<status, queue>>
     \/ owner' # "claude_code" /\ Outcome("failed")
  /\ UNCHANGED <<external, pump, cancelled, doomed, heard, completed, user>>

-----------------------------------------------------------------------------
(* _run of a process *)

Spawns == owner # "mcp_agent"

\* The working directory is refused, or the CLI not found; otherwise the process is
\* being created.
Start ==
  /\ runner = "created"
  /\ Spawns
  /\ \/ runner' = "spawning" /\ UNCHANGED <<status, queue>>
     \/ Outcome("failed")
  /\ UNCHANGED <<owner, external, pump, cancelled, doomed, told, user>>

SpawnFails ==
  /\ runner = "spawning"
  /\ Outcome("failed")
  /\ UNCHANGED <<owner, external, pump, cancelled, doomed, told, user>>

\* The cancelled flag is not looked at.
Spawned ==
  /\ runner = "spawning"
  /\ process' = "running"
  /\ status' = "running"
  /\ queue' = Offer(queue, "running")
  /\ runner' = IF owner = "claude_code" THEN "feeding" ELSE "waiting"
  /\ pump' = IF owner = "claude_code" THEN "off" ELSE "on"
  /\ UNCHANGED <<owner, signal, lines, pipe, cancelled, doomed, told, user>>

\* claude has read its prompt, or is gone.
Fed ==
  /\ runner = "feeding"
  /\ runner' = "waiting"
  /\ pump' = "on"
  /\ UNCHANGED <<owner, status, queue, external, cancelled, doomed, told, user>>

PumpReads ==
  /\ pump = "on"
  /\ pipe > 0
  /\ pipe' = pipe - 1
  /\ queue' = Offer(queue, "running")
  /\ UNCHANGED <<owner, runner, status, process, signal, lines, pump, cancelled, doomed, told, user>>

\* A line that is too long for the reader raises, and nobody reads any more.
PumpGivesUp ==
  /\ pump = "on"
  /\ pipe > 0
  /\ pump' = "gave_up"
  /\ UNCHANGED <<owner, adapter, external, cancelled, doomed, told, user>>

PumpEnds ==
  /\ pump = "on"
  /\ pipe = 0
  /\ process \in {"ok", "bad"}
  /\ pump' = "over"
  /\ UNCHANGED <<owner, adapter, external, cancelled, doomed, told, user>>

ExitedUndrained == process \in {"ok", "bad"}

\* process.wait() is over, and so are the pumps.
Exited == process \in {"ok", "bad"} /\ pump \in {"over", "gave_up"}

Finish ==
  /\ runner = "waiting"
  /\ Exited
  /\ Outcome(IF cancelled THEN "cancelled" ELSE IF process = "ok" THEN "succeeded" ELSE "failed")
  /\ UNCHANGED <<owner, external, pump, cancelled, doomed, told, user>>

-----------------------------------------------------------------------------
(* The process.  It reads its prompt before it writes, and does not end     *)
(* while it is stuck in a write.                                            *)

Unstuck == process = "running" /\ runner # "feeding" /\ pipe < PipeMax

Write ==
  /\ Unstuck
  /\ lines > 0
  /\ lines' = lines - 1
  /\ pipe' = pipe + 1
  /\ UNCHANGED <<owner, adapter, process, signal, pump, cancelled, doomed, told, user>>

Exit ==
  /\ Unstuck
  /\ process' \in {"ok", "bad"}
  /\ UNCHANGED <<owner, adapter, signal, lines, pipe, pump, cancelled, doomed, told, user>>

\* A signal ends it, unless it is the one that can be ignored.
Signalled ==
  /\ process = "running"
  /\ signal # "none"
  /\ signal' = "none"
  /\ process' \in IF signal = "term" THEN {"running", "bad"} ELSE {"bad"}
  /\ UNCHANGED <<owner, adapter, lines, pipe, pump, cancelled, doomed, told, user>>

-----------------------------------------------------------------------------
(* _run of an mcp-agent run *)

AgentStarts ==
  /\ runner = "created"
  /\ ~Spawns
  /\ \/ Outcome("failed")
     \/ runner' = "running" /\ status' = "running" /\ queue' = Offer(queue, "running")
  /\ UNCHANGED <<owner, external, pump, cancelled, doomed, told, user>>

AgentReports ==
  /\ runner = "running"
  /\ ~doomed
  /\ lines > 0
  /\ lines' = lines - 1
  /\ queue' = Offer(queue, "running")
  /\ UNCHANGED <<owner, runner, status, process, signal, pipe, pump, cancelled, doomed, told, user>>

AgentEnds ==
  /\ runner = "running"
  /\ ~doomed
  /\ Outcome("failed") \/ Outcome(IF cancelled THEN "cancelled" ELSE "succeeded")
  /\ UNCHANGED <<owner, external, pump, cancelled, doomed, told, user>>

\* The cancellation reaches it; last_status stays what it is.
AgentCancelled ==
  /\ runner = "running"
  /\ doomed
  /\ runner' = "done"
  /\ queue' = Offer(Offer(queue, "cancelled"), "end")
  /\ UNCHANGED <<owner, status, external, pump, cancelled, doomed, told, user>>

-----------------------------------------------------------------------------
(* cancel(), by the window that shows the card of the task *)

\* The window knows of the task once _run has begun.
Cancel ==
  /\ runner \notin {"none", "created"}
  /\ canceller = "idle"
  /\ cancels < MaxCancels
  /\ cancels' = cancels + 1
  /\ cancelled' = TRUE
  /\ canceller' = IF Spawns THEN (IF process = "running" THEN "grace" ELSE "idle")
                  ELSE IF runner = "running" THEN "agent" ELSE "idle"
  /\ signal' = IF process = "running" /\ signal = "none" THEN "term" ELSE signal
  /\ UNCHANGED <<owner, adapter, process, lines, pipe, pump, doomed, told>>

GraceEndsMildly ==
  /\ canceller = "grace"
  /\ canceller' = "idle"
  /\ UNCHANGED <<owner, adapter, external, pump, cancelled, doomed, told, cancels>>

\* The process ended within the grace period, or is killed.
GraceEnds ==
  /\ canceller = "grace"
  /\ canceller' = "idle"
  /\ signal' = IF process = "running" THEN "kill" ELSE signal
  /\ UNCHANGED <<owner, adapter, process, lines, pipe, pump, cancelled, doomed, told, cancels>>

\* The agent was told, and now its task is cancelled if it is not over.
AgentTold ==
  /\ canceller = "agent"
  /\ canceller' = "idle"
  /\ doomed' = (runner # "done")
  /\ UNCHANGED <<owner, adapter, external, pump, cancelled, told, cancels>>

-----------------------------------------------------------------------------
(* _run_task_path *)

\* result(): whoever was cancelled is cancelled, whatever became of it.
Result == CASE cancelled -> "cancelled"
            [] ~cancelled /\ status = "failed" -> "failed"
            [] OTHER -> "succeeded"

\* The next update; the end of them finds _run over, so that the result is there.
Hear ==
  /\ turn = "updates"
  /\ queue # <<>>
  /\ queue' = Tail(queue)
  /\ IF Head(queue) = "end" THEN turn' = "over" /\ completed' = Result /\ UNCHANGED heard
                            ELSE heard' = Head(queue) /\ UNCHANGED <<turn, completed>>
  /\ UNCHANGED <<owner, runner, status, external, pump, cancelled, doomed, user>>

\* The turn is cancelled with the application; the process goes on.
Abandon ==
  /\ turn = "updates"
  /\ turn' = "abandoned"
  /\ UNCHANGED <<owner, adapter, external, pump, cancelled, doomed, heard, completed, user>>

-----------------------------------------------------------------------------
Running == Start \/ SpawnFails \/ Spawned \/ Fed \/ Finish \/ AgentStarts \/ AgentEnds
             \/ AgentCancelled
Pumping == PumpReads \/ PumpEnds
Cancelling == GraceEnds \/ AgentTold

Next ==
  \/ Submit \/ Running \/ AgentReports \/ Pumping \/ PumpGivesUp
  \/ Write \/ Exit \/ Signalled
  \/ Cancel \/ Cancelling \/ Hear \/ Abandon

\* The event loop runs whatever can run; a process that is not stuck, and an agent's
\* run, come to an end.
Fairness ==
  /\ WF_vars(Running) /\ WF_vars(Pumping) /\ WF_vars(Cancelling) /\ WF_vars(Hear)
  /\ WF_vars(Exit) /\ WF_vars(Signalled)

Spec == Init /\ [][Next]_vars /\ Fairness

-----------------------------------------------------------------------------
(* Properties *)

\* The types of the variables, and which adapter's parts are in use.
TypeOK ==
  /\ owner \in Registered \cup {"none"}
  /\ runner \in {"none", "created", "spawning", "feeding", "waiting", "running", "done"}
  /\ process \in {"none", "running", "ok", "bad"} /\ (process # "none" => Spawns)
  /\ signal \in {"none", "term", "kill"}
  /\ lines \in 0..MaxLines /\ pipe \in 0..PipeMax
  /\ pump \in {"off", "on", "over", "gave_up"}
  /\ {cancelled, doomed} \subseteq BOOLEAN
  /\ status \in Terminal \cup {"queued", "running"}
  /\ queue \in Seq(Terminal \cup {"running", "end"}) /\ Len(queue) <= QueueMax
  /\ turn \in {"idle", "updates", "over", "abandoned"}
  /\ heard \in Terminal \cup {"none", "running"}
  /\ completed \in Terminal \cup {"none"}
  /\ canceller \in {"idle", "grace", "agent"}
  /\ cancels \in 0..MaxCancels

\* However many updates were dropped on the way, the card of a task that is over shows
\* its outcome, which is the result the conversation is given; and nothing is heard of a
\* task after its outcome, not even what its process wrote last.
OutcomeIsTold ==
  /\ [](turn = "over" => heard \in Terminal /\ (cancels = 0 => completed = heard))
  /\ [][(heard \in Terminal) => UNCHANGED heard]_vars

\* A turn that delegated does not wait for ever for its task, unless a line of output
\* was too long; and cancel() "reliably terminates the underlying process".
TasksEnd ==
  /\ turn = "updates" ~> turn # "updates" \/ pump = "gave_up"
  /\ canceller = "grace" ~> process \in {"ok", "bad"}

\* What a comment of cancel() promises of a task that "hasn't started yet; the run loop
\* will check `cancelled`": no process goes on for a task that was cancelled.
CancelledIsStopped ==
  cancelled /\ process = "running" => canceller = "grace" \/ signal = "kill"
=============================================================================
