----------------------------- MODULE TurnLease -----------------------------
(***************************************************************************)
(* Turn admission and the life of a turn: RuntimeSupervisor                *)
(* (backend/supervisor.py), ConversationCoordinator (conversation.py) and  *)
(* the lifespan that opens and closes them (main.py).                      *)
(*                                                                         *)
(* The supervisor's lock is never held across a suspension, so admitting a *)
(* turn and finishing one are single steps.  A turn's task is one process  *)
(* whose steps end where it awaits; task.cancel() only marks the task, and *)
(* the CancelledError is raised by the task's next step, at the await it   *)
(* is suspended in.  Where that await is, decides what becomes of it.      *)
(***************************************************************************)
EXTENDS Naturals, Sequences, FiniteSets

CONSTANTS MaxTurns,      \* bound of the model: admission attempts
          HistoryTurns   \* max_turns of ConversationMemory

ASSUME MaxTurnsAssumption == MaxTurns \in Nat
ASSUME HistoryTurnsAssumption == HistoryTurns \in Nat

VARIABLES
  runtime,     \* RuntimeSupervisor._state
  active,      \* the turn of RuntimeSupervisor._active, 0 for None
  sequence,    \* RuntimeSupervisor._sequence
  phase,       \* where the task of each turn stands
  cancelled,   \* the task's pending cancellation
  outcome,     \* how the task of each turn ended
  memory,      \* ConversationMemory._turns, a turn standing for its pair
  feed,        \* the TurnStateChanged events published, in order
  lifespan     \* where the application's lifespan stands

vars == <<runtime, active, sequence, phase, cancelled, outcome, memory, feed,
          lifespan>>

Turns == 1..MaxTurns

(***************************************************************************)
(* "created"   the task exists and has not taken its first step;           *)
(* "stopping"  on_accepted awaits tts.stop(), no speech being in flight;   *)
(* "settling"  on_accepted awaits the cleanup of interrupted speech;       *)
(* "running"   suspended in run_turn: memory, the model, the thinking time *)
(*             or the wait for playback;                                   *)
(* "saying"    run_turn is in speech.say(), which interrupts speech first. *)
(***************************************************************************)
Live == {"created", "stopping", "settling", "running", "saying"}

Phases == Live \cup {"none", "refused", "done"}

Outcomes == {"none", "replied", "silent", "failed", "cancelled"}

RuntimeStates == {"starting", "ready", "stopping", "stopped"}

\* The pairs kept, the oldest being pushed out of a full deque.
Remember(m, t) ==
  IF HistoryTurns = 0 THEN m
  ELSE Append(IF Len(m) < HistoryTurns THEN m ELSE Tail(m), t)

Event(t, state) == [turn |-> t, state |-> state]

Init ==
  /\ runtime = "starting"
  /\ active = 0
  /\ sequence = 0
  /\ phase = [t \in Turns |-> "none"]
  /\ cancelled = [t \in Turns |-> FALSE]
  /\ outcome = [t \in Turns |-> "none"]
  /\ memory = <<>>
  /\ feed = <<>>
  /\ lifespan = "starting"

-----------------------------------------------------------------------------
(* Submission.  Operators named for a slip, here and below, are those that *)
(* the mutants of PROJECT.json put in place of the one that follows them.  *)

SubmitIgnoresLease ==
  LET t == sequence + 1
  IN /\ t \in Turns
     /\ sequence' = t
     /\ IF runtime = "ready"
          THEN /\ active' = t
               /\ phase' = [phase EXCEPT ![t] = "created"]
               /\ feed' = Append(Append(feed, Event(t, "accepted")), Event(t, "thinking"))
          ELSE /\ phase' = [phase EXCEPT ![t] = "refused"]
               /\ feed' = Append(feed, Event(t, "rejected"))
               /\ UNCHANGED active
     /\ UNCHANGED <<runtime, cancelled, outcome, memory, lifespan>>

SubmitIgnoresState ==
  LET t == sequence + 1
  IN /\ t \in Turns
     /\ sequence' = t
     /\ IF active = 0
          THEN /\ active' = t
               /\ phase' = [phase EXCEPT ![t] = "created"]
               /\ feed' = Append(Append(feed, Event(t, "accepted")), Event(t, "thinking"))
          ELSE /\ phase' = [phase EXCEPT ![t] = "refused"]
               /\ feed' = Append(feed, Event(t, "rejected"))
               /\ UNCHANGED active
     /\ UNCHANGED <<runtime, cancelled, outcome, memory, lifespan>>

\* submit_background of a nonempty text by the toolbar, the dashboard or the
\* consumer of final transcripts: try_begin_turn and, if admitted, a task.
\* (Blank text is refused without reaching the supervisor.)
Submit ==
  LET t == sequence + 1
  IN /\ t \in Turns
     /\ sequence' = t
     /\ IF runtime = "ready" /\ active = 0
          THEN /\ active' = t
               /\ phase' = [phase EXCEPT ![t] = "created"]
               /\ feed' = Append(Append(feed, Event(t, "accepted")), Event(t, "thinking"))
          ELSE /\ phase' = [phase EXCEPT ![t] = "refused"]
               /\ feed' = Append(feed, Event(t, "rejected"))
               /\ UNCHANGED active
     /\ UNCHANGED <<runtime, cancelled, outcome, memory, lifespan>>

-----------------------------------------------------------------------------
(* The task of an admitted turn: ConversationCoordinator._execute *)

Step(t, from, to) ==
  /\ phase[t] = from
  /\ ~cancelled[t]
  /\ phase' = [phase EXCEPT ![t] = to]
  /\ UNCHANGED <<runtime, active, sequence, cancelled, outcome, memory, feed,
                 lifespan>>

\* The first step runs on_accepted up to its await in speech.interrupt().
Begin(t) == Step(t, "created", "stopping") \/ Step(t, "created", "settling")

\* on_accepted is done; run_turn starts on the remembered history.
Accepted(t) == Step(t, "stopping", "running") \/ Step(t, "settling", "running")

\* run_turn queues the reply's speech; queued, it goes on.
Say(t) == Step(t, "running", "saying")
Said(t) == Step(t, "saying", "running")

FinishTurnUnheard(t, state) ==
  /\ active' = IF active = t THEN 0 ELSE active
  /\ UNCHANGED feed

\* _finish_turn: only the turn that holds the lease releases it.
FinishTurn(t, state) ==
  IF active = t
    THEN /\ active' = 0
         /\ feed' = Append(feed, Event(t, state))
    ELSE UNCHANGED <<active, feed>>

End(t, how) ==
  /\ phase' = [phase EXCEPT ![t] = "done"]
  /\ outcome' = [outcome EXCEPT ![t] = how]
  /\ UNCHANGED <<runtime, sequence, lifespan>>

\* run_turn returns a reply, which is remembered before the turn completes.
Reply(t) ==
  /\ phase[t] = "running"
  /\ ~cancelled[t]
  /\ memory' = Remember(memory, t)
  /\ FinishTurn(t, "completed")
  /\ End(t, "replied")
  /\ UNCHANGED cancelled

\* run_turn returns nothing to say: a delegated task, an empty reply, or a model
\* that failed and whose error was published.
Silent(t) ==
  /\ phase[t] = "running"
  /\ ~cancelled[t]
  /\ FinishTurn(t, "completed")
  /\ End(t, "silent")
  /\ UNCHANGED <<cancelled, memory>>

FailKeepsLease(t) ==
  /\ phase[t] = "running"
  /\ ~cancelled[t]
  /\ End(t, "failed")
  /\ UNCHANGED <<active, feed, cancelled, memory>>

\* run_turn raises; on_accepted does not, interrupt() lets no Exception out.
Fail(t) ==
  /\ phase[t] = "running"
  /\ ~cancelled[t]
  /\ FinishTurn(t, "failed")
  /\ End(t, "failed")
  /\ UNCHANGED <<cancelled, memory>>

\* CancelledError at an await of on_accepted or run_turn that lets it through.
Cancelled(t) ==
  /\ phase[t] \in {"stopping", "running"}
  /\ cancelled[t]
  /\ FinishTurn(t, "cancelled")
  /\ End(t, "cancelled")
  /\ cancelled' = [cancelled EXCEPT ![t] = FALSE]
  /\ UNCHANGED memory

\* CancelledError while SpeechController.interrupt() waits for old speech to
\* settle: its except clause swallows it, and the turn runs on.
Swallow(t) ==
  /\ phase[t] \in {"settling", "saying"}
  /\ cancelled[t]
  /\ phase' = [phase EXCEPT ![t] = "running"]
  /\ cancelled' = [cancelled EXCEPT ![t] = FALSE]
  /\ UNCHANGED <<runtime, active, sequence, outcome, memory, feed, lifespan>>

TaskStep(t) ==
  \/ Begin(t) \/ Accepted(t) \/ Say(t) \/ Said(t)
  \/ Reply(t) \/ Silent(t) \/ Fail(t)
  \/ Cancelled(t) \/ Swallow(t)

-----------------------------------------------------------------------------
(* The lifespan *)

\* Everything is wired and started.
Ready ==
  /\ lifespan = "starting"
  /\ lifespan' = "serving"
  /\ runtime' = "ready"
  /\ UNCHANGED <<active, sequence, phase, cancelled, outcome, memory, feed>>

StopRefreshes ==
  /\ lifespan = "serving"
  /\ lifespan' = "stopping"
  /\ runtime' = "refreshing"
  /\ UNCHANGED <<active, sequence, phase, cancelled, outcome, memory, feed>>

\* Shutdown begins: no turn is admitted from here on.
Stop ==
  /\ lifespan = "serving"
  /\ lifespan' = "stopping"
  /\ runtime' = "stopping"
  /\ UNCHANGED <<active, sequence, phase, cancelled, outcome, memory, feed>>

\* conversation.close() cancels the tasks it knows.  The lifespan has just awaited
\* the consumer of final transcripts, and in that turn of the loop every task
\* created before took its first step: a task cancelled before that would never
\* reach the handler that releases its lease.
Close ==
  /\ lifespan = "stopping"
  /\ \A t \in Turns : phase[t] # "created"
  /\ lifespan' = "closing"
  /\ cancelled' = [t \in Turns |-> phase[t] \in Live]
  /\ UNCHANGED <<runtime, active, sequence, phase, outcome, memory, feed>>

StoppedEarly ==
  /\ lifespan = "closing"
  /\ lifespan' = "stopped"
  /\ runtime' = "stopped"
  /\ UNCHANGED <<active, sequence, phase, cancelled, outcome, memory, feed>>

\* gather() returned, and the bounded shutdown of the other parts is over.
Stopped ==
  /\ lifespan = "closing"
  /\ \A t \in Turns : phase[t] \notin Live
  /\ lifespan' = "stopped"
  /\ runtime' = "stopped"
  /\ UNCHANGED <<active, sequence, phase, cancelled, outcome, memory, feed>>

Next ==
  \/ Submit
  \/ \E t \in Turns : TaskStep(t)
  \/ Ready \/ Stop \/ Close \/ Stopped

(***************************************************************************)
(* The loop runs every task that can step.  A turn does not stay in its    *)
(* pipeline for ever (the model and the speech adapters have deadlines),   *)
(* and the lifespan runs its shutdown to the end once it began; nobody has *)
(* to submit a turn or to stop the application.  A turn ends once, so one  *)
(* condition on their ends says what one for each turn would.              *)
(***************************************************************************)
Ends == \E t \in Turns : Reply(t) \/ Silent(t) \/ Fail(t)

Fairness ==
  /\ \A t \in Turns : WF_vars(TaskStep(t))
  /\ SF_vars(Ends)
  /\ WF_vars(Close)
  /\ WF_vars(Stopped)

Safety == Init /\ [][Next]_vars

Spec == Safety /\ Fairness

-----------------------------------------------------------------------------
Terminal == {"completed", "failed", "cancelled"}

\* The type of every variable.
TypeOK ==
  /\ runtime \in RuntimeStates
  /\ active \in 0..MaxTurns
  /\ sequence \in 0..MaxTurns
  /\ phase \in [Turns -> Phases]
  /\ cancelled \in [Turns -> BOOLEAN]
  /\ outcome \in [Turns -> Outcomes]
  /\ memory \in Seq(Turns)
  /\ feed \in Seq([turn : Turns,
                   state : Terminal \cup {"accepted", "thinking", "rejected"}])
  /\ lifespan \in {"starting", "serving", "stopping", "closing", "stopped"}

\* A turn holds the lease exactly as long as its task runs: two turns are never in
\* the pipeline together, and no dead task leaves the lease behind, however
\* submissions, failures and cancellations interleave.
LiveHoldsLease ==
  /\ \A t \in Turns : phase[t] \in Live => active = t
  /\ active # 0 => phase[active] \in Live

\* A turn publishes one terminal state at most, only after it was accepted, and
\* it says how the turn's task ended.
OneTerminal ==
  \A i \in 1..Len(feed) :
     feed[i].state \in Terminal =>
       LET t == feed[i].turn
       IN /\ \A k \in 1..Len(feed) :
                k # i /\ feed[k].turn = t => k < i /\ feed[k].state \notin Terminal
          /\ outcome[t] = IF feed[i].state = "completed" THEN outcome[t] ELSE feed[i].state
          /\ feed[i].state = "completed" => outcome[t] \in {"replied", "silent"}

\* Turn states are published turn by turn: between the acceptance of a turn and
\* that of the next, the first one's single terminal state was published, so no late
\* event of an older turn can release a newer one's controls.
FeedIsSerial ==
  /\ OneTerminal
  /\ \A i, j \in 1..Len(feed) :
       i < j /\ feed[i].state = "accepted" /\ feed[j].state = "accepted"
         => /\ feed[i].turn < feed[j].turn
            /\ \E k \in i..j : feed[k].turn = feed[i].turn /\ feed[k].state \in Terminal

\* The history offered to the model is the last turns that were answered, in
\* order: neither a failed, a cancelled nor a silent turn enters it.
Replied == {t \in Turns : outcome[t] = "replied"}

MemoryIsRecent ==
  /\ Len(memory) <= HistoryTurns
  /\ \A i \in 1..Len(memory) :
        /\ memory[i] \in Replied
        /\ Cardinality({t \in Replied : t >= memory[i]}) = Len(memory) - i + 1
  /\ Len(memory) < HistoryTurns => Len(memory) = Cardinality(Replied)

\* Turn states are published turn by turn, and the history is that of the turns that were
\* answered last.
TurnsAreSerial == FeedIsSerial /\ MemoryIsRecent

\* When the lifespan reports "stopped" no turn is at work, and none was accepted
\* after shutdown began.
StoppedIsQuiet ==
  /\ lifespan = "stopped" => active = 0 /\ \A t \in Turns : phase[t] \notin Live
  /\ lifespan \in {"closing", "stopped"} => \A t \in Turns : phase[t] # "created"

\* The supervisor implements the single-flight lease.
Admitted == {t \in Turns : phase[t] \in Live \cup {"done"}}

Gate == CASE runtime = "starting" -> "before"
          [] runtime = "ready" -> "open"
          [] OTHER -> "shut"

Flight == INSTANCE SingleFlight WITH holder <- active, granted <- Admitted,
                                     gate <- Gate

FlightSafety == Flight!Safety

\* Callers "must retry after the active turn reaches a terminal state": every accepted
\* turn reaches one, in service and through shutdown, and shutdown completes whatever
\* the turn in flight does with its cancellation.
TurnsTerminate ==
  /\ \A t \in Turns :
        active = t ~> \E i \in 1..Len(feed) : feed[i].turn = t /\ feed[i].state \in Terminal
  /\ lifespan = "stopping" ~> lifespan = "stopped"

=============================================================================
