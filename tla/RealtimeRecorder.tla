--------------------------- MODULE RealtimeRecorder ---------------------------
(***************************************************************************)
(* The push-to-talk recogniser in the backend's process (voice/stt/        *)
(* realtimestt_adapter.py): a recorder that is loaded once and kept warm,  *)
(* a thread that pumps its final transcripts, callbacks posted to the      *)
(* event loop, and the queue that one consumer reads.                      *)
(*                                                                         *)
(* The recorder is RealtimeSTT's: it answers when it likes, and a pump may *)
(* stay in its text() past the second for which a replacement waits.  All  *)
(* pumps read the adapter's current events, so there is one of each.       *)
(***************************************************************************)
EXTENDS Naturals, Sequences

CONSTANTS Signatures,   \* configurations that need recorders of their own
          MaxCalls,     \* bound of the model: calls of start() and prepare()
          MaxEnds,      \* bound of the model: calls of stop() and close()
          MaxItems      \* bound of the model: transcripts

RecorderBounds == {MaxCalls, MaxEnds, MaxItems} \subseteq Nat

Calls == 1..MaxCalls
Recorders == 1..MaxCalls   \* a recorder is named by the call that built it
None == 0
End == [final |-> FALSE, n |-> 0]   \* the sentinel; transcripts are numbered from 1

VARIABLES
  started, closed,
  recorder,     \* the adapter's recorder
  signature,    \* the configuration it was built for
  shutdown, session,   \* the two events
  call,         \* the calls: kind, configuration and stage
  lock,         \* the call that holds the lock of prepare()
  built,        \* recorders: alive, microphone, something heard, and the pump
  posted,       \* transcripts posted to the event loop
  queue,        \* what the consumer has not taken
  listening,    \* there is a consumer
  due,          \* history: the finals that were queued in this session and not taken
  ends, items,
  overlapped,   \* history: a call came while a recorder was being replaced
  outlived,     \* history: a pump outlived its recorder
  failed        \* history: a recorder could not be built

vars == <<started, closed, recorder, signature, shutdown, session, call, lock, built, posted, queue,
          listening, due, ends, items, overlapped, outlived, failed>>

Unbuilt == [live |-> FALSE, microphone |-> FALSE, heard |-> FALSE, pump |-> "none"]

Init ==
  /\ started = FALSE /\ closed = FALSE /\ recorder = None /\ signature = "none"
  /\ shutdown = FALSE /\ session = FALSE /\ lock = None
  /\ call = [c \in Calls |-> [kind |-> "none", wants |-> "none", stage |-> "idle"]]
  /\ built = [r \in Recorders |-> Unbuilt]
  /\ posted = <<>> /\ queue = <<>> /\ listening = FALSE /\ due = <<>>
  /\ ends = 0 /\ items = 0 /\ overlapped = FALSE /\ outlived = FALSE /\ failed = FALSE

-----------------------------------------------------------------------------
\* The finals that the loop of _enqueue_item takes out of the queue.
Finals(q) ==
  LET finals[i \in 0..Len(q)] ==
        IF i = 0 THEN <<>> ELSE IF q[i].final THEN Append(finals[i - 1], q[i]) ELSE finals[i - 1]
  IN finals[Len(q)]

\* A slip in the operator that follows.
EnqueuedBounded(q, item) == IF Len(q) >= 1 THEN <<item>> ELSE Append(q, item)

\* _enqueue_item: the end is terminal, finals keep their order, one preview at most.
Enqueued(q, item) ==
  IF item = End THEN <<End>>
  ELSE Append(Finals(q), IF \E i \in DOMAIN q : q[i] = End THEN End ELSE item)

\* The rest of start() and prepare() when the recorder is there: start() drains the queue, what
\* ends the earlier session's consumer too, and opens the microphone.  It is refused when close()
\* has taken the recorder meanwhile, and raises with the queue drained.
Ready(c, k) ==
  LET refused == k.kind = "start" /\ recorder = None
  IN /\ call' = [call EXCEPT ![c] = [k EXCEPT !.stage = IF refused THEN "refused" ELSE "done"]]
     /\ IF k.kind = "start" THEN queue' = <<>> /\ due' = <<>> ELSE UNCHANGED <<queue, due>>
     /\ IF k.kind # "start" \/ refused THEN UNCHANGED <<started, closed, session, built>>
        ELSE /\ started' = TRUE /\ closed' = FALSE /\ session' = TRUE
             /\ built' = [built EXCEPT ![recorder].microphone = built[recorder].live,
                                       ![recorder].heard = built[recorder].live]

Fits(wants) == recorder # None /\ signature = wants

Replacing == lock # None

\* start() or prepare() up to its first await.
Begin(c, kind, wants) ==
  LET k == [kind |-> kind, wants |-> wants, stage |-> "idle"]
      pauses(stage) == /\ call' = [call EXCEPT ![c] = [k EXCEPT !.stage = stage]]
                       /\ UNCHANGED <<started, closed, session, built, queue, due>>
  IN /\ call[c].stage = "idle" /\ \A e \in 1..(c - 1) : call[e].stage # "idle"
     /\ IF kind = "start" /\ started THEN pauses("done") /\ UNCHANGED lock
        ELSE IF Fits(wants) THEN Ready(c, k) /\ UNCHANGED lock
        ELSE IF Replacing THEN pauses("waits") /\ UNCHANGED lock
        ELSE pauses("retires") /\ lock' = c
     /\ overlapped' = (overlapped \/ (Replacing /\ kind = "start"))
     /\ UNCHANGED <<recorder, signature, shutdown, posted, listening, ends, items, outlived, failed>>

\* The lock is free: what it protects is checked again.
Acquire(c) ==
  /\ call[c].stage = "waits" /\ ~Replacing
  /\ IF Fits(call[c].wants)
     THEN Ready(c, call[c]) /\ UNCHANGED lock
     ELSE /\ lock' = c
          /\ call' = [call EXCEPT ![c].stage = "retires"]
          /\ UNCHANGED <<started, closed, session, built, queue, due>>
  /\ UNCHANGED <<recorder, signature, shutdown, posted, listening, ends, items, overlapped, outlived,
                 failed>>

-----------------------------------------------------------------------------
\* _replace_recorder, in a thread: the old recorder is stopped.
Shut(r) == [built EXCEPT ![r].live = FALSE, ![r].microphone = FALSE]

Retire(c) ==
  /\ call[c].stage = "retires"
  /\ call' = [call EXCEPT ![c].stage = "joins"]
  /\ IF recorder = None THEN UNCHANGED <<shutdown, session, built>>
     ELSE shutdown' = TRUE /\ session' = TRUE /\ built' = Shut(recorder)
  /\ UNCHANGED <<started, closed, recorder, signature, lock, posted, queue, listening, due, ends,
                 items, overlapped, outlived, failed>>

Alive(r) == built[r].pump \in {"waits", "reads"}

\* Its pump has ended or was waited for long enough, and the events are replaced.
Joined(c) ==
  /\ call[c].stage = "joins"
  /\ call' = [call EXCEPT ![c].stage = "builds"]
  /\ shutdown' = FALSE /\ session' = FALSE
  /\ outlived' = (outlived \/ \E r \in Recorders : Alive(r))
  /\ UNCHANGED <<started, closed, recorder, signature, lock, built, posted, queue, listening, due,
                 ends, items, overlapped, failed>>

Built(c) ==
  /\ call[c].stage = "builds"
  /\ call' = [call EXCEPT ![c].stage = "resumes"]
  /\ recorder' = c /\ signature' = call[c].wants
  /\ built' = [built EXCEPT ![c] = [live |-> TRUE, microphone |-> FALSE, heard |-> FALSE,
                                    pump |-> "waits"]]
  /\ UNCHANGED <<started, closed, shutdown, session, lock, posted, queue, listening, due, ends,
                 items, overlapped, outlived, failed>>

\* The library or the model is missing: the call raises, and what it retired stays in place.
BuildFails(c) ==
  /\ call[c].stage = "builds"
  /\ call' = [call EXCEPT ![c].stage = "done"]
  /\ lock' = None /\ failed' = TRUE
  /\ UNCHANGED <<started, closed, recorder, signature, shutdown, session, built, posted, queue,
                 listening, due, ends, items, overlapped, outlived>>

\* The event loop resumes the call that waited for the thread.
Resume(c) ==
  /\ call[c].stage = "resumes"
  /\ lock' = None
  /\ Ready(c, call[c])
  /\ UNCHANGED <<recorder, signature, shutdown, posted, listening, ends, items, overlapped, outlived,
                 failed>>

-----------------------------------------------------------------------------
\* A turn of the pump outside text().
PumpTurns(r) ==
  /\ built[r].pump = "waits" /\ (shutdown \/ session)
  /\ built' = [built EXCEPT ![r].pump = IF shutdown THEN "ended" ELSE "reads"]
  /\ UNCHANGED <<started, closed, recorder, signature, shutdown, session, call, lock, posted, queue,
                 listening, due, ends, items, overlapped, outlived, failed>>

Transcript(final) == [final |-> final, n |-> items + 1]

\* text() returns what was heard, which a session takes; or nothing, or it raises.
PumpReturns(r) ==
  /\ built[r].pump = "reads"
  /\ \/ /\ built[r].heard /\ items < MaxItems
        /\ built' = [built EXCEPT ![r].pump = "waits", ![r].heard = built[r].microphone]
        /\ IF started THEN posted' = Append(posted, Transcript(TRUE)) /\ items' = items + 1
                      ELSE UNCHANGED <<posted, items>>
     \/ /\ built' = [built EXCEPT ![r].pump = IF shutdown THEN "ended" ELSE "waits"]
        /\ UNCHANGED <<posted, items>>
  /\ UNCHANGED <<started, closed, recorder, signature, shutdown, session, call, lock, queue,
                 listening, due, ends, overlapped, outlived, failed>>

\* _on_partial, in a thread of the recorder.
Partial(r) ==
  /\ built[r].live /\ built[r].microphone /\ started /\ items < MaxItems
  /\ posted' = Append(posted, Transcript(FALSE)) /\ items' = items + 1
  /\ UNCHANGED <<started, closed, recorder, signature, shutdown, session, call, lock, built, queue,
                 listening, due, ends, overlapped, outlived, failed>>

\* The event loop runs the oldest callback.
Deliver ==
  /\ posted # <<>>
  /\ posted' = Tail(posted)
  /\ queue' = Enqueued(queue, Head(posted))
  /\ due' = IF started /\ Head(posted).final THEN Append(due, Head(posted)) ELSE due
  /\ UNCHANGED <<started, closed, recorder, signature, shutdown, session, call, lock, built,
                 listening, ends, items, overlapped, outlived, failed>>

Listen ==
  /\ ~listening /\ started
  /\ listening' = TRUE
  /\ UNCHANGED <<started, closed, recorder, signature, shutdown, session, call, lock, built, posted,
                 queue, due, ends, items, overlapped, outlived, failed>>

Consume ==
  /\ listening /\ queue # <<>>
  /\ queue' = Tail(queue)
  /\ listening' = (Head(queue) # End)
  /\ due' = IF due # <<>> /\ Head(queue) = Head(due) THEN Tail(due) ELSE due
  /\ UNCHANGED <<started, closed, recorder, signature, shutdown, session, call, lock, built, posted,
                 ends, items, overlapped, outlived, failed>>

-----------------------------------------------------------------------------
Stop ==
  /\ ends < MaxEnds /\ started
  /\ started' = FALSE /\ session' = FALSE
  /\ built' = IF recorder = None THEN built
              ELSE [built EXCEPT ![recorder].microphone = FALSE, ![recorder].heard = FALSE]
  /\ queue' = Enqueued(queue, End) /\ due' = <<>>
  /\ ends' = ends + 1 /\ overlapped' = (overlapped \/ Replacing)
  /\ UNCHANGED <<closed, recorder, signature, shutdown, call, lock, posted, listening, items,
                 outlived, failed>>

Close ==
  /\ ends < MaxEnds
  /\ started' = FALSE /\ closed' = TRUE /\ shutdown' = TRUE /\ session' = TRUE
  /\ recorder' = None
  /\ built' = IF recorder = None THEN built ELSE Shut(recorder)
  /\ queue' = Enqueued(queue, End) /\ due' = <<>>
  /\ ends' = ends + 1 /\ overlapped' = (overlapped \/ Replacing)
  /\ UNCHANGED <<signature, call, lock, posted, listening, items, outlived, failed>>

Next ==
  \/ \E c \in Calls :
       \/ \E kind \in {"start", "prepare"}, wants \in Signatures : Begin(c, kind, wants)
       \/ Acquire(c) \/ Retire(c) \/ Joined(c) \/ Built(c) \/ BuildFails(c) \/ Resume(c)
  \/ \E r \in Recorders : PumpTurns(r) \/ PumpReturns(r) \/ Partial(r)
  \/ Deliver \/ Listen \/ Consume \/ Stop \/ Close

\* The consumer runs when there is something to take.
Spec == Init /\ [][Next]_vars /\ WF_vars(Consume)

-----------------------------------------------------------------------------
TypeOK ==
  /\ {started, closed, shutdown, session, listening, overlapped, outlived, failed} \subseteq BOOLEAN
  /\ {recorder, lock} \subseteq Calls \cup {None}
  /\ signature \in Signatures \cup {"none"}
  /\ \A c \in Calls : call[c].stage \in {"idle", "waits", "retires", "joins", "builds", "resumes",
                                       "done", "refused"}
  /\ \A r \in Recorders : built[r].pump \in {"none", "waits", "reads", "ended"}
  /\ \A i \in DOMAIN queue : queue[i].n \in 0..MaxItems

\* Unless calls overlapped with a replacement: one recorder at most is alive and it is the
\* adapter's; its microphone is open in a session only; a session has a recorder that is alive and
\* a pump for it, unless one could not be built; and there is one pump at most, unless one outlived
\* its recorder (realtimestt_adapter.py:92-187, 230-271).
RecorderIsRight ==
  /\ ~overlapped =>
       \A r \in Recorders :
         /\ built[r].live => recorder = r
         /\ built[r].microphone => started
         /\ (started /\ recorder = r /\ ~Replacing /\ ~failed) => built[r].live /\ Alive(r)
  /\ ~outlived => \A r, s \in Recorders : Alive(r) /\ Alive(s) => r = s

\* A session is not ended by the mark of an earlier one, and no final is lost or moved: those that
\* were queued in it are in the queue until they are taken, with one preview behind them at most
\* (realtimestt_adapter.py:97-99, 310-360).
SessionIsHeard ==
  started =>
    /\ \A i \in DOMAIN queue : queue[i] # End
    /\ Finals(queue) = due
    /\ Len(queue) <= Len(due) + 1

\* A start() found that close() had taken its recorder.
Refused == \E c \in Calls : call[c].stage = "refused"

\* The consumer of a session that was stopped comes to its end, unless the next one has begun or a
\* refused start() has drained the mark it waits for (realtimestt_adapter.py:97-103, 230-245,
\* 277-282).
ListeningEnds == (listening /\ ~started) ~> (~listening \/ started \/ Refused)
=============================================================================
