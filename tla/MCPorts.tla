------------------------------- MODULE MCPorts -------------------------------
(* What stands behind the ports and the routes of the backend: the thread that *)
(* plays replies, the link to a renderer in another process, a task delegated  *)
(* to another process, the language models, and the saved settings.  They      *)
(* share nothing, so a behaviour is one of them alone.                         *)
EXTENDS PlaybackLane

CONSTANTS QueueMax, MaxFrames, MaxFaults,
          Registered, Default, PipeMax, MaxLines, MaxCancels,
          Backends, Primary, Fallback, MemoryBackend, Attempts, MaxGenerations, MaxChunks,
          MaxChanges, MaxRequests, MaxRestarts, Installed

VARIABLES
  part,
  \* RendererLink
  installed, linkStage, linkQueue, frames, client, alive, sender, flight, reader, up, got, faults,
  \* TaskDelegation
  owner, runner, process, signal, lines, pipe, pump, taskCancelled, doomed, status, taskQueue,
  turn, heard, completed, canceller, cancels,
  \* LanguageModel
  wiring, active, settings, closed, generation, user, chosen, attempt, model, why, called, out,
  changes,
  \* UserSettings
  overlay, force, told, astray, running, request, restarts

Link == INSTANCE RendererLink WITH stage <- linkStage, queue <- linkQueue
Task == INSTANCE TaskDelegation WITH cancelled <- taskCancelled, queue <- taskQueue

Model == INSTANCE LanguageModel WITH stage <- generation
Saved == INSTANCE UserSettings

ASSUME PortsAssumption ==
  /\ Link!BoundsAssumption /\ Task!RuntimesAssumption /\ Task!BoundsAssumption
  /\ Model!BoundsAssumption /\ Saved!SettingsBounds

linkVars == <<installed, linkStage, linkQueue, frames, client, alive, sender, flight, reader, up,
              got, faults>>
taskVars == <<owner, runner, process, signal, lines, pipe, pump, taskCancelled, doomed, status,
              taskQueue, turn, heard, completed, canceller, cancels>>
modelVars == <<wiring, active, settings, closed, generation, user, chosen, attempt, model, why,
               called, out, changes>>
savedVars == <<overlay, force, told, astray, running, request, restarts>>
portVars == <<part, vars, linkVars, taskVars, modelVars, savedVars>>

\* The primary searches the web or lacks its key; the fallback is a model without either, and
\* may lack its key as well.
Plain == [model |-> "other", web |-> FALSE, key |-> "missing", environment |-> FALSE]
Keyed == [Plain EXCEPT !.key = "environment", !.environment = TRUE]
Searching == [Keyed EXCEPT !.model = "openrouter", !.web = TRUE]
Typical == {s \in [Backends -> {Plain, Keyed, Searching}] :
              s[Primary] \in {Plain, Searching} /\ s[Fallback] \in {Plain, Keyed}}

\* Where a part has several initial states, the others start in one of them.
PortsInit ==
  /\ part \in {"lane", "link", "task", "model", "saved"}
  /\ Init
  /\ Link!Init /\ (part # "link" => installed)
  /\ Task!Init /\ (part # "task" => lines = 0)
  /\ Model!Init /\ (IF part = "model" THEN settings \in Typical
                   ELSE wiring = "router" /\ settings = [b \in Backends |-> Plain])
  /\ Saved!Init

PortsNext ==
  \/ part = "lane" /\ Next /\ UNCHANGED <<part, linkVars, taskVars, modelVars, savedVars>>
  \/ part = "link" /\ Link!Next /\ UNCHANGED <<part, vars, taskVars, modelVars, savedVars>>
  \/ part = "task" /\ Task!Next /\ UNCHANGED <<part, vars, linkVars, modelVars, savedVars>>
  \/ part = "model" /\ Model!Next /\ UNCHANGED <<part, vars, linkVars, taskVars, savedVars>>
  \/ part = "saved" /\ Saved!Next /\ UNCHANGED <<part, vars, linkVars, taskVars, modelVars>>

\* The fairness of each part, in the behaviours that are its own.
LaneFairness == WF_vars(part = "lane" /\ LoopStep)

LinkFairness ==
  /\ WF_linkVars(part = "link" /\ (Link!Connecting \/ Link!Sending))
  /\ WF_linkVars(part = "link" /\ Link!Listening)
  /\ WF_linkVars(part = "link" /\ Link!Stopping)
  /\ WF_linkVars(part = "link" /\ Link!Comes)

TaskFairness ==
  /\ WF_taskVars(part = "task" /\ Task!Running)
  /\ WF_taskVars(part = "task" /\ Task!Pumping)
  /\ WF_taskVars(part = "task" /\ Task!Cancelling)
  /\ WF_taskVars(part = "task" /\ Task!Hear)
  /\ WF_taskVars(part = "task" /\ Task!Exit)
  /\ WF_taskVars(part = "task" /\ Task!Signalled)

ModelFairness == WF_modelVars(part = "model" /\ Model!Going)

PortsSpec ==
  /\ PortsInit /\ [][PortsNext]_portVars
  /\ LaneFairness /\ LinkFairness /\ TaskFairness /\ ModelFairness

-----------------------------------------------------------------------------
\* The variables of every part keep their types.
PortTypes ==
  CASE part = "lane"  -> TypeOK
    [] part = "link"  -> Link!TypeOK
    [] part = "task"  -> Task!TypeOK
    [] part = "model" -> Model!TypeOK
    [] part = "saved" -> Saved!TypeOK

\* A frame is lost for a stated reason only, and a link that was shut down is quiet
\* (RendererLink).
FramesAreKept == []Link!ClosedIsQuiet /\ Link!LossIsExcused

\* The outcome of a delegated task is the last thing that is told (TaskDelegation).
OutcomeIsTold == Task!OutcomeIsTold

\* A reply is one answer of one model, and a provider is asked again for a reason only
\* (LanguageModel).
OneAnswer == part = "model" => Model!OneAnswer /\ Model!AskedAgainForAReason

\* The settings are those the user was told (UserSettings).
SettingsAreKept == part = "saved" => Saved!SettingsAreKept

\* What was begun behind a port ends: a reply, though its thread may hang; what is queued
\* for a renderer; a task that a turn waits for; a generation.
PortsSettle == RepliesEnd /\ Link!LinkDrains /\ Task!TasksEnd /\ Model!GenerationsEnd
=============================================================================
