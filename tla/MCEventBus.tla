----------------------------- MODULE MCEventBus -----------------------------
(* The event bus and what runs beside a conversation: the consumers of the     *)
(* core's runtime, the session of the camera, the recogniser in the backend's  *)
(* process.  They share nothing, so a behaviour is one of them alone.          *)
(*                                                                             *)
(* Two subscriptions and queues of two, so that a queue overflows, a close     *)
(* finds it full, and one subscriber lags while the other keeps up.            *)
EXTENDS EventBus

CONSTANTS s1, s2,
          StoreQueue, Kinds, MaxEvents, MaxStarts, MaxEdits,
          FrameQueue, CameraStarts, CameraStops, MaxReads,
          Signatures, MaxCalls, MaxEnds, MaxItems

MCSubs == {s1, s2}

VARIABLES
  part,
  \* RuntimeStore
  started, stopping, stage, storeClosed, storeQueue, storeConsumer, store, reloader, file, current,
  changed, events, missed, starts, edits,
  \* VisionSession
  injected, running, visionClosed, capture, task, detectors, starting, visionStopping, loops, source,
  camera, streams, consumer, raced,
  \* RealtimeRecorder
  listens, micClosed, recorder, signature, shutdown, session, call, lock, built, posted, transcripts,
  listening, due, ends, items, overlapped, outlived, failed

Runtime == INSTANCE RuntimeStore WITH
  QueueSize <- StoreQueue, busClosed <- storeClosed, queue <- storeQueue,
  consumer <- storeConsumer, published <- events

Vision == INSTANCE VisionSession WITH
  QueueSize <- FrameQueue, MaxStarts <- CameraStarts, MaxStops <- CameraStops,
  closed <- visionClosed, stopping <- visionStopping

Recogniser == INSTANCE RealtimeRecorder WITH
  started <- listens, closed <- micClosed, queue <- transcripts

ASSUME BesideAssumption ==
  Runtime!RuntimeBounds /\ Vision!SessionBounds /\ Recogniser!RecorderBounds

storeVars == <<started, stopping, stage, storeClosed, storeQueue, storeConsumer, store, reloader,
               file, current, changed, events, missed, starts, edits>>
visionVars == <<injected, running, visionClosed, capture, task, detectors, starting, visionStopping,
                loops, source, camera, streams, consumer, raced>>
micVars == <<listens, micClosed, recorder, signature, shutdown, session, call, lock, built, posted,
             transcripts, listening, due, ends, items, overlapped, outlived, failed>>
besideVars == <<part, vars, storeVars, visionVars, micVars>>

\* Where a part has several initial states, the others start in one of them.
BesideInit ==
  /\ part \in {"bus", "store", "vision", "microphone"}
  /\ Init /\ Runtime!Init /\ Recogniser!Init
  /\ Vision!Init /\ (part # "vision" => injected)

BesideNext ==
  \/ part = "bus" /\ Next /\ UNCHANGED <<part, storeVars, visionVars, micVars>>
  \/ part = "store" /\ Runtime!Next /\ UNCHANGED <<part, vars, visionVars, micVars>>
  \/ part = "vision" /\ Vision!Next /\ UNCHANGED <<part, vars, storeVars, micVars>>
  \/ part = "microphone" /\ Recogniser!Next /\ UNCHANGED <<part, vars, storeVars, visionVars>>

\* The fairness of each part, in the behaviours that are its own.
BusFairness == \A s \in Subs : WF_vars(part = "bus" /\ Consume(s))

StoreFairness ==
  /\ \A c \in Runtime!Consumers : WF_storeVars(part = "store" /\ Runtime!Consume(c))
  /\ WF_storeVars(part = "store" /\ Runtime!ReloaderStopped)

VisionFairness ==
  /\ \A t \in Vision!StopCalls : WF_visionVars(part = "vision" /\ Vision!StopEnds(t))
  /\ \A s \in Vision!Streams : WF_visionVars(part = "vision" /\ Vision!Consume(s))

MicrophoneFairness == WF_micVars(part = "microphone" /\ Recogniser!Consume)

BesideSpec ==
  /\ BesideInit /\ [][BesideNext]_besideVars
  /\ BusFairness /\ StoreFairness /\ VisionFairness /\ MicrophoneFairness

-----------------------------------------------------------------------------
\* The snapshot says what the newest events say, and the reloader what the file says
\* (RuntimeStore).
SnapshotIsCurrent == part = "store" => Runtime!TypeOK /\ Runtime!SnapshotIsCurrent

\* stop() reaches the camera and the loop that are there, and the newest frames are the ones that
\* wait (VisionSession).
CameraIsHeld == part = "vision" => Vision!TypeOK /\ Vision!CameraIsHeld /\ Vision!NewestIsKept

\* There is one recorder, heard in its session and by its session (RealtimeRecorder).
RecorderIsRight ==
  part = "microphone" =>
    Recogniser!TypeOK /\ Recogniser!RecorderIsRight /\ Recogniser!SessionIsHeard

\* Whoever iterates comes to an end: a subscriber of a closed bus, the consumers and the watcher of
\* a runtime that stops, those of a camera that was stopped, and the listener of a session.
IterationsEnd ==
  /\ CloseEndsIteration
  /\ Runtime!RuntimeEnds /\ Vision!ConsumersEnd /\ Recogniser!ListeningEnds
=============================================================================
