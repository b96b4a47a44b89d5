---------------------------- MODULE RendererLink ----------------------------
(***************************************************************************)
(* The link to a renderer in a process of its own (ExternalAvatarAdapter,  *)
(* and UnityAvatarAdapter which is the same but for names): callers put    *)
(* frames into a bounded queue, a sender task connects, sends and          *)
(* reconnects, a reader task listens to the renderer and notices broken    *)
(* connections, and shutdown() ends them.                                  *)
(*                                                                         *)
(* All of it runs on one event loop: an action is what happens between two *)
(* awaits.  Frames are numbered in the order of the calls.                 *)
(***************************************************************************)
EXTENDS Naturals, Sequences

CONSTANTS QueueMax,  \* queue_max
          MaxFrames, \* bound of the model: frames handed to the adapter
          MaxFaults  \* bound of the model: the renderer going down, or stalling

BoundsAssumption == QueueMax \in Nat \ {0} /\ {MaxFrames, MaxFaults} \subseteq Nat

VARIABLES
  installed, \* whether the websockets package is there
  stage,     \* of the adapter: open, farewell (the frame of shutdown()), closing, closed
  queue,     \* _queue
  frames,    \* number of frames handed over
  client,    \* _client: none, closed (a client that is not open) or open
  alive,     \* whether the connection of the client still reaches the renderer
  sender,    \* _sender_task
  flight,    \* the frame it has in hand, or 0
  reader,    \* _reader_task
  up,        \* whether the renderer listens
  got,       \* the frames the renderer received
  faults     \* number of faults of the renderer

link == <<client, alive>>
outside == <<installed, up, faults>>
vars == <<stage, queue, frames, link, sender, flight, reader, got, outside>>

Init ==
  /\ installed \in BOOLEAN
  /\ stage = "open"
  /\ queue = <<>>
  /\ frames = 0
  /\ client = "none"
  /\ alive = FALSE
  /\ sender = "off"
  /\ flight = 0
  /\ reader = "off"
  /\ up = TRUE
  /\ got = <<>>
  /\ faults = 0

-----------------------------------------------------------------------------
(* The calls of the orchestrator.  Operators named for a slip are those    *)
(* that the mutants of PROJECT.json put in place of the next one.          *)

EnqueueUnbounded(frame) == Append(queue, frame)

\* The oldest frame makes room.
Enqueue(frame) == Append(IF Len(queue) < QueueMax THEN queue ELSE Tail(queue), frame)

\* _ensure_started: the loops are started, and started again when they ended.
Call ==
  /\ stage \in {"open", "farewell"}
  /\ frames < MaxFrames
  /\ frames' = frames + 1
  /\ queue' = Enqueue(frames')
  /\ sender' = IF sender # "off" THEN sender
               ELSE IF client = "open" THEN "waiting" ELSE "connecting"
  /\ reader' = IF reader = "off" THEN "polling" ELSE reader
  /\ UNCHANGED <<stage, link, flight, got, outside>>

-----------------------------------------------------------------------------
(* _sender_loop *)

Connected ==
  /\ sender = "connecting"
  /\ installed /\ up
  /\ client' = "open"
  /\ alive' = TRUE
  /\ sender' = "waiting"
  /\ UNCHANGED <<stage, queue, frames, flight, reader, got, outside>>

\* Without the package the loop returns; otherwise it tries again later.
ConnectFails ==
  /\ sender = "connecting"
  /\ ~(installed /\ up)
  /\ sender' = IF installed THEN "backoff" ELSE "off"
  /\ UNCHANGED <<stage, queue, frames, link, flight, reader, got, outside>>

Take ==
  /\ sender = "waiting"
  /\ queue # <<>>
  /\ flight' = Head(queue)
  /\ queue' = Tail(queue)
  /\ sender' = "sending"
  /\ UNCHANGED <<stage, frames, link, reader, got, outside>>

\* send() returns once the frame is in the socket's buffer, where it is lost when the
\* connection is dead and nobody noticed.
Sent ==
  /\ sender = "sending"
  /\ client = "open"
  /\ got' = IF alive THEN Append(got, flight) ELSE got
  /\ flight' = 0
  /\ sender' = "waiting"
  /\ UNCHANGED <<stage, queue, frames, link, reader, outside>>

RequeueForgets == UNCHANGED queue

\* The frame that failed is put back, behind the others, if there is room.
Requeue == queue' = IF Len(queue) < QueueMax THEN Append(queue, flight) ELSE queue

Failed ==
  /\ sender = "sending"
  /\ Requeue
  /\ flight' = 0
  /\ client' = "closed"
  /\ sender' = "closing"
  /\ UNCHANGED <<stage, frames, alive, reader>>

\* send() raises: the client is not open any more, or its connection is dead.
SendFails ==
  /\ Failed
  /\ client = "closed" \/ ~alive
  /\ UNCHANGED <<got, outside>>

\* The renderer stalls and send() gives up, with the frame written or not.
SendTimesOut ==
  /\ Failed
  /\ client = "open" /\ alive
  /\ faults < MaxFaults
  /\ faults' = faults + 1
  /\ got' \in {got, Append(got, flight)}
  /\ UNCHANGED <<installed, up>>

\* The client is closed and dropped; whoever reads it reads a client of the past.
ClientDropped ==
  /\ sender = "closing"
  /\ client' = "none"
  /\ alive' = FALSE
  /\ sender' = "backoff"
  /\ reader' = IF reader = "reading" THEN "leaving" ELSE reader
  /\ UNCHANGED <<stage, queue, frames, flight, got, outside>>

\* A new client is built, or the old one connected again.
BackoffEnds ==
  /\ sender = "backoff"
  /\ sender' = "connecting"
  /\ UNCHANGED <<stage, queue, frames, link, flight, reader, got, outside>>

-----------------------------------------------------------------------------
(* _reader_loop; the frames it reads only change counters *)

Listen ==
  /\ reader = "polling"
  /\ client = "open"
  /\ reader' = "reading"
  /\ UNCHANGED <<stage, queue, frames, link, sender, flight, got, outside>>

\* The connection ended.  When it broke the client is not open any more; when the
\* renderer closed it properly the client does not notice.
ListenEnds ==
  /\ \/ /\ reader = "reading"
        /\ ~alive
        /\ client' \in {client, "closed"}
     \/ /\ reader = "leaving"
        /\ UNCHANGED client
  /\ reader' = "polling"
  /\ UNCHANGED <<stage, queue, frames, alive, sender, flight, got, outside>>

-----------------------------------------------------------------------------
(* shutdown() *)

\* A last frame is sent if the client is open, and nobody waits for the queue.
Shutdown ==
  /\ stage = "open"
  /\ stage' = "farewell"
  /\ UNCHANGED <<queue, frames, link, sender, flight, reader, got, outside>>

\* The frame was sent or not: both loops are cancelled, wherever they are.
Closing ==
  /\ stage = "farewell"
  /\ stage' = "closing"
  /\ sender' = "off"
  /\ flight' = 0
  /\ reader' = "off"
  /\ UNCHANGED <<queue, frames, link, got, outside>>

Closed ==
  /\ stage = "closing"
  /\ stage' = "closed"
  /\ client' = IF client = "none" THEN "none" ELSE "closed"
  /\ alive' = FALSE
  /\ UNCHANGED <<queue, frames, sender, flight, reader, got, outside>>

-----------------------------------------------------------------------------
(* The renderer *)

Goes ==
  /\ up
  /\ faults < MaxFaults
  /\ faults' = faults + 1
  /\ up' = FALSE
  /\ alive' = FALSE
  /\ UNCHANGED <<installed, stage, queue, frames, client, sender, flight, reader, got>>

Comes ==
  /\ ~up
  /\ up' = TRUE
  /\ UNCHANGED <<installed, faults, stage, queue, frames, link, sender, flight, reader, got>>

-----------------------------------------------------------------------------
Connecting == Connected \/ ConnectFails \/ BackoffEnds
Sending == Take \/ Sent \/ SendFails \/ ClientDropped
Listening == Listen \/ ListenEnds
Stopping == Closing \/ Closed

Next == Call \/ Shutdown \/ Connecting \/ Sending \/ SendTimesOut \/ Listening \/ Stopping
          \/ Goes \/ Comes

\* The event loop runs whatever can run, a write ends by its timeout, and a renderer
\* that went down comes back.
Fairness == WF_vars(Connecting \/ Sending) /\ WF_vars(Listening) /\ WF_vars(Stopping) /\ WF_vars(Comes)

Spec == Init /\ [][Next]_vars /\ Fairness

-----------------------------------------------------------------------------
(* Properties *)

\* The types of the variables; the queue never outgrows its bound.
TypeOK ==
  /\ {installed, alive, up} \subseteq BOOLEAN
  /\ stage \in {"open", "farewell", "closing", "closed"}
  /\ frames \in 0..MaxFrames /\ faults \in 0..MaxFaults
  /\ queue \in Seq(1..frames) /\ Len(queue) <= QueueMax
  /\ got \in Seq(1..frames)
  /\ client \in {"none", "closed", "open"}
  /\ sender \in {"off", "connecting", "backoff", "waiting", "sending", "closing"}
  /\ flight \in 0..frames /\ (flight # 0 <=> sender = "sending")
  /\ reader \in {"off", "polling", "reading", "leaving"}

In(s) == {s[i] : i \in DOMAIN s}
Held == In(queue) \cup ({flight} \ {0})

\* A frame leaves the link without reaching the renderer only because the queue is
\* full, and then it is not the newest; because the connection is dead and took it;
\* or because the adapter is shut down.
LossIsExcused ==
  [][\A frame \in Held \ Held' :
       \/ frame \in In(got')
       \/ Len(queue) = QueueMax /\ frame # frames'
       \/ ~alive /\ sender' = "waiting"
       \/ stage' = "closing"]_vars

\* Whatever the renderer does, the adapter ends up with nothing left to send, unless it
\* is shut down: a connection that breaks while frames are held is noticed and replaced.
LinkDrains == installed /\ Held # {} ~> Held = {} \/ stage # "open"

\* A link that was shut down stays so: no task runs and no connection is open that
\* could reach the renderer after its successor was started.
ClosedIsQuiet == stage = "closed" => sender = "off" /\ reader = "off" /\ client # "open" /\ ~alive

\* "On a successful reconnect, the adapter resumes from the in-flight frame (the one that
\* failed is re-queued at the front)": the renderer never goes back to an older frame.
FramesInOrder == \A i, j \in DOMAIN got : i <= j => got[i] <= got[j]
=============================================================================
