---------------------------- MODULE VisionSession ----------------------------
(***************************************************************************)
(* The life of a vision session (vision/adapters/mediapipe_adapter.py and  *)
(* vision/pipeline/capture.py): start() asks for consent, loads detectors  *)
(* and opens a camera, whose thread posts frames to the event loop; a loop *)
(* takes them from a short queue and publishes frames and detections to    *)
(* one consumer each; stop() cancels the loop, closes the camera and ends  *)
(* the consumers.                                                          *)
(*                                                                         *)
(* A step ends where the code awaits something that is not at hand.  The   *)
(* calls of start() and stop() may come at any time and overlap.           *)
(***************************************************************************)
EXTENDS Naturals, Sequences, FiniteSetsExt

CONSTANTS MaxStarts,   \* bound of the model: calls of start()
          MaxStops,    \* bound of the model: calls of stop()
          QueueSize,   \* frames that wait for the loop
          MaxReads     \* bound of the model: frames read, of all cameras

SessionBounds ==
  QueueSize \in Nat \ {0} /\ {MaxReads, MaxStarts, MaxStops} \subseteq Nat

\* Calls are numbered as they arrive.
StartCalls == 1..MaxStarts
StopCalls == 1..MaxStops

Streams == {"frames", "detections"}
NoCall == 0
End == 0    \* the sentinel; frames are numbered from 1
Item == 1   \* a frame or a detection, as its consumer tells it from the end

VARIABLES
  injected,   \* whether the caller gave the adapter the capture to use
  running,
  closed,
  capture,    \* the capture of the adapter, named by the start() that made it
  task,       \* the loop of the adapter, named likewise
  detectors,  \* "none", "cold" or "warm"
  starting,   \* start() calls: "idle", "consent", "done"
  stopping,   \* stop() calls: "idle", "waits" for the loop, "done"
  loops,      \* loops by the start() that created them: "none", "new", "waits", "ended"
  source,     \* the capture a loop reads
  camera,     \* captures: the event, the device, its threads that are alive, frames read, the
              \* callbacks posted to the event loop, and the queue of frames
  streams,    \* what was published and not consumed
  consumer,   \* "reads" or "ended"
  raced       \* history: a start() resumed after another call had decided otherwise

vars == <<injected, running, closed, capture, task, detectors, starting, stopping, loops, source,
          camera, streams, consumer, raced>>

Closed == [event |-> FALSE, open |-> FALSE, threads |-> 0, reads |-> 0,
           posted |-> <<>>, queue |-> <<>>]

Init ==
  /\ injected \in BOOLEAN
  /\ running = FALSE /\ closed = FALSE /\ raced = FALSE
  /\ capture = NoCall /\ task = NoCall /\ detectors = "none"
  /\ starting = [s \in StartCalls |-> "idle"]
  /\ stopping = [s \in StopCalls |-> "idle"]
  /\ loops = [s \in StartCalls |-> "none"]
  /\ source = [s \in StartCalls |-> NoCall]
  /\ camera = [s \in StartCalls |-> Closed]
  /\ streams = [s \in Streams |-> <<>>]
  /\ consumer = [s \in Streams |-> "reads"]

-----------------------------------------------------------------------------
\* start() up to its first await: refused, or consent is asked for.
Start(s) ==
  /\ starting[s] = "idle" /\ \A e \in 1..(s - 1) : starting[e] # "idle"
  /\ starting' = [starting EXCEPT ![s] = IF running \/ closed THEN "done" ELSE "consent"]
  /\ UNCHANGED <<injected, running, closed, capture, task, detectors, stopping, loops, source,
                 camera, streams, consumer, raced>>

Refused(s) ==
  /\ starting[s] = "consent"
  /\ starting' = [starting EXCEPT ![s] = "done"]
  /\ UNCHANGED <<injected, running, closed, capture, task, detectors, stopping, loops, source,
                 camera, streams, consumer, raced>>

\* No detector can be loaded, or the camera does not open.
StartFails(s) ==
  /\ starting[s] = "consent"
  /\ starting' = [starting EXCEPT ![s] = "done"]
  /\ detectors' \in {detectors, "cold"}
  /\ raced' = (raced \/ running \/ closed)
  /\ UNCHANGED <<injected, running, closed, capture, task, stopping, loops, source, camera,
                 streams, consumer>>

\* The capture that a start() uses: its own, or the injected one, named by the first to use it.
CaptureOf(s) ==
  IF injected /\ \E c \in StartCalls : camera[c] # Closed
  THEN CHOOSE c \in StartCalls : camera[c] # Closed
  ELSE s

\* VideoCapture.start(): nothing if it runs; otherwise the device is opened and read by a thread.
Opened(c) ==
  IF c.event THEN c ELSE [c EXCEPT !.event = TRUE, !.open = TRUE, !.threads = @ + 1]

\* The rest of start() once consent is given; what it checked before is not checked again.
Granted(s) ==
  LET c == CaptureOf(s) IN
  /\ starting[s] = "consent"
  /\ starting' = [starting EXCEPT ![s] = "done"]
  /\ detectors' = "cold"
  /\ camera' = [camera EXCEPT ![c] = Opened(@)]
  /\ capture' = c
  /\ running' = TRUE
  /\ task' = s
  /\ loops' = [loops EXCEPT ![s] = "new"]
  /\ raced' = (raced \/ running \/ closed)
  /\ UNCHANGED <<injected, closed, stopping, source, streams, consumer>>

-----------------------------------------------------------------------------
MayRead == MapThenSumSet(LAMBDA c : camera[c].reads, StartCalls) < MaxReads

\* A thread returns from cap.read() with a frame, which it posts, or with an exception, which
\* ends it; with neither it reads on.  It ends when the event is cleared.
ThreadReads(c) ==
  /\ camera[c].threads > 0 /\ MayRead
  /\ \/ camera' = [camera EXCEPT ![c].reads = @ + 1,
                                 ![c].posted = Append(@, camera[c].reads + 1),
                                 ![c].threads = IF camera[c].event THEN @ ELSE @ - 1]
     \/ camera' = [camera EXCEPT ![c].threads = @ - 1]
  /\ UNCHANGED <<injected, running, closed, capture, task, detectors, starting, stopping, loops,
                 source, streams, consumer, raced>>

\* VideoCapture._offer(): the oldest frame makes room.
Offered(q, n) == Append(IF Len(q) >= QueueSize THEN Tail(q) ELSE q, n)

\* put_nowait(None): lost when the queue is full.
Ended(q) == IF Len(q) >= QueueSize THEN q ELSE Append(q, End)

\* The event loop runs the oldest callback of a capture.
Posted(c) ==
  LET n == Head(camera[c].posted) IN
  /\ camera[c].posted # <<>>
  /\ camera' = [camera EXCEPT ![c].posted = Tail(@),
                              ![c].queue = IF n = End THEN Ended(@) ELSE Offered(@, n)]
  /\ UNCHANGED <<injected, running, closed, capture, task, detectors, starting, stopping, loops,
                 source, streams, consumer, raced>>

-----------------------------------------------------------------------------
\* What a loop takes of a queue without waiting: all, up to the end mark; one item when stop()
\* was called while it waited.
Taken(q) ==
  IF ~running THEN 1
  ELSE IF \E i \in DOMAIN q : q[i] = End
       THEN CHOOSE i \in DOMAIN q : q[i] = End /\ \A j \in 1..(i - 1) : q[j] # End
       ELSE Len(q)

\* A turn of _run_loop; it finds its capture when it first runs.  Any frame may be dropped by the
\* throttle, and those that are published may yield detections.
RunLoop(s) ==
  LET c == IF loops[s] = "new" THEN capture ELSE source[s]
      q == IF c = NoCall THEN <<>> ELSE camera[c].queue
      n == Taken(q)
      got == IF q[n] = End THEN n - 1 ELSE n
      items(k) == [i \in 1..k |-> Item]
  IN
  /\ loops[s] = "new" \/ (loops[s] = "waits" /\ q # <<>>)
  /\ source' = [source EXCEPT ![s] = c]
  /\ detectors' = IF loops[s] = "new" /\ detectors = "cold" THEN "warm" ELSE detectors
  /\ IF q = <<>> \/ (loops[s] = "new" /\ ~running)
     THEN /\ loops' = [loops EXCEPT ![s] = IF running THEN "waits" ELSE "ended"]
          /\ UNCHANGED <<camera, streams>>
     ELSE /\ \E seen \in 0..got : \E hits \in 0..seen :
               streams' = [streams EXCEPT !["frames"] = @ \o items(seen),
                                          !["detections"] = @ \o items(hits)]
          /\ camera' = [camera EXCEPT ![c].queue = SubSeq(q, n + 1, Len(q))]
          /\ loops' = [loops EXCEPT ![s] = IF running /\ q[n] # End THEN "waits" ELSE "ended"]
  /\ UNCHANGED <<injected, running, closed, capture, task, starting, stopping, consumer, raced>>

-----------------------------------------------------------------------------
\* VideoCapture.stop(): the event is cleared, the thread joined for a second at most, the device
\* released, and the end mark posted.  A thread may post one more frame before it sees the event,
\* or hang in cap.read() and outlive the join.
Stopped(c) ==
  LET off == [c EXCEPT !.event = FALSE, !.open = FALSE]
      one == [off EXCEPT !.threads = @ - 1]
      last == [one EXCEPT !.reads = @ + 1, !.posted = Append(@, c.reads + 1)]
      joined == {off} \cup (IF c.threads > 0 THEN {one} ELSE {})
                      \cup (IF c.threads > 0 /\ MayRead THEN {last} ELSE {})
  IN {[j EXCEPT !.posted = Append(@, End)] : j \in joined}

\* A slip in the operator that follows.
ShutDownForgetsCamera ==
  /\ capture' = NoCall
  /\ detectors' = "none"
  /\ streams' = [s \in Streams |-> Append(streams[s], End)]
  /\ UNCHANGED camera

\* What stop() does when the loop has ended: the camera, the detectors, the end marks.
ShutDown ==
  /\ IF capture = NoCall THEN UNCHANGED camera
     ELSE \E c \in Stopped(camera[capture]) : camera' = [camera EXCEPT ![capture] = c]
  /\ capture' = NoCall
  /\ detectors' = "none"
  /\ streams' = [s \in Streams |-> Append(streams[s], End)]

\* stop() up to its first await: the loop is cancelled, unless it has ended.
Stop(t) ==
  /\ stopping[t] = "idle" /\ \A e \in 1..(t - 1) : stopping[e] # "idle"
  /\ running' = FALSE /\ closed' = TRUE /\ task' = NoCall
  /\ IF task # NoCall /\ loops[task] # "ended"
     THEN /\ loops' = [loops EXCEPT ![task] = "ended"]
          /\ stopping' = [stopping EXCEPT ![t] = "waits"]
          /\ UNCHANGED <<camera, capture, detectors, streams>>
     ELSE /\ stopping' = [stopping EXCEPT ![t] = "done"]
          /\ ShutDown
          /\ UNCHANGED loops
  /\ UNCHANGED <<injected, starting, source, consumer, raced>>

StopEnds(t) ==
  /\ stopping[t] = "waits"
  /\ stopping' = [stopping EXCEPT ![t] = "done"]
  /\ ShutDown
  /\ UNCHANGED <<injected, running, closed, task, starting, loops, source, consumer, raced>>

\* A consumer of frames or of detections.
Consume(s) ==
  /\ consumer[s] = "reads" /\ streams[s] # <<>>
  /\ streams' = [streams EXCEPT ![s] = Tail(@)]
  /\ consumer' = [consumer EXCEPT ![s] = IF Head(streams[s]) = End THEN "ended" ELSE "reads"]
  /\ UNCHANGED <<injected, running, closed, capture, task, detectors, starting, stopping, loops,
                 source, camera, raced>>

Next ==
  \/ \E s \in StartCalls : Start(s) \/ Refused(s) \/ StartFails(s) \/ Granted(s) \/ RunLoop(s)
  \/ \E c \in StartCalls : ThreadReads(c) \/ Posted(c)
  \/ \E t \in StopCalls : Stop(t) \/ StopEnds(t)
  \/ \E s \in Streams : Consume(s)

\* The event loop runs what is ready; neither callers nor the camera are obliged to anything.
Fairness ==
  /\ \A t \in StopCalls : WF_vars(StopEnds(t))
  /\ \A s \in Streams : WF_vars(Consume(s))

Spec == Init /\ [][Next]_vars /\ Fairness

-----------------------------------------------------------------------------
Cameras == [event : BOOLEAN, open : BOOLEAN, threads : Nat, reads : Nat,
            posted : Seq(Nat), queue : Seq(Nat)]

TypeOK ==
  /\ {injected, running, closed, raced} \subseteq BOOLEAN
  /\ {capture, task} \subseteq StartCalls \cup {NoCall}
  /\ detectors \in {"none", "cold", "warm"}
  /\ starting \in [StartCalls -> {"idle", "consent", "done"}]
  /\ stopping \in [StopCalls -> {"idle", "waits", "done"}]
  /\ loops \in [StartCalls -> {"none", "new", "waits", "ended"}]
  /\ source \in [StartCalls -> StartCalls \cup {NoCall}]
  /\ camera \in [StartCalls -> Cameras] /\ \A c \in StartCalls : Len(camera[c].queue) <= QueueSize
  /\ streams \in [Streams -> Seq({Item, End})] /\ consumer \in [Streams -> {"reads", "ended"}]

\* Unless calls overlapped while consent was asked for, an open camera is the adapter's own, and
\* one loop at most is alive, so that stop() reaches both; when every stop() called has returned
\* no camera is open and no detector loaded (mediapipe_adapter.py:131-184, capture.py:115-133).
CameraIsHeld ==
  ~raced =>
    /\ \A c \in StartCalls : camera[c].open => capture = c
    /\ \A s \in StartCalls : loops[s] \in {"new", "waits"} => task = s
    /\ (closed /\ \A t \in StopCalls : stopping[t] # "waits") =>
         detectors = "none" /\ \A c \in StartCalls : ~camera[c].open /\ ~camera[c].event

\* The queue of a camera keeps the order of reading and its newest frames: what was read after a
\* frame that waits is behind it, in the queue or on its way there (capture.py:154-166).
NewestIsKept ==
  \A c \in StartCalls :
    LET k == camera[c]
        frames == k.queue \o k.posted
    IN \A i \in DOMAIN frames :
         frames[i] # End =>
           \A n \in 1..k.reads :
             n > frames[i] <=> \E j \in (i + 1)..Len(frames) : frames[j] = n

\* Once a stop() is done the consumers come to their end, whatever else was published
\* (mediapipe_adapter.py:182-184, 413-427).
ConsumersEnd ==
  \A s \in Streams : (\E t \in StopCalls : stopping[t] = "done") ~> consumer[s] = "ended"
=============================================================================
