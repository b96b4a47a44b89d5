---------------------------- MODULE RuntimeStore ----------------------------
(***************************************************************************)
(* The runtime of the core (core/runtime.py, store.py, lifecycle.py,       *)
(* logging/bus_tap.py, config/reloader.py): two consumers of the event     *)
(* bus, one that folds events into the snapshot and one that logs them,    *)
(* the watcher of the configuration file, and their start and stop, which  *)
(* the time limit of the backend's shutdown (backend/main.py) may cut      *)
(* short.                                                                  *)
(*                                                                         *)
(* The bus is that of EventBus.tla, seen from its subscriptions: a queue   *)
(* for each, which drops its oldest item, and an end mark.                 *)
(***************************************************************************)
EXTENDS Naturals, Sequences

CONSTANTS QueueSize,   \* the bound of a subscription
          Kinds,       \* kinds of the events that others publish
          MaxEvents,   \* bound of the model: events published
          MaxStarts,   \* bound of the model: calls of start()
          MaxEdits     \* bound of the model: changes of the file

RuntimeBounds == QueueSize \in Nat \ {0} /\ {MaxEvents, MaxStarts, MaxEdits} \subseteq Nat

VARIABLES
  started, stopping,
  stage,      \* stop(): "idle", "reloader" and "closing" while it waits for these
  busClosed,
  queue,      \* the subscriptions' queues
  consumer,   \* "none", "runs" or "ended"
  store,      \* the snapshot
  reloader,   \* "none", "new" until it watches the file, "watches"
  file,       \* what the file says of live_wake, or "broken"
  current,    \* the configuration the reloader compares with
  changed,    \* the watcher has a change to report
  published,  \* history: the events published since the first start()
  missed,     \* history: the file was changed before it was watched
  starts, edits

vars == <<started, stopping, stage, busClosed, queue, consumer, store, reloader, file, current,
          changed, published, missed, starts, edits>>

Consumers == {"updater", "tap"}
End == [kind |-> "end"]

\* The events the snapshot tells apart.  A rejected utterance stands for those it ignores.
Texts == {[kind |-> k, text |-> k] : k \in {"typed", "spoken", "rejected", "reply"}}
Others == [kind : {"tts_started", "tts_ended", "wake",
                   "task_submitted", "task_updated", "task_completed"}]
Configs == [kind : {"config"}, wake : {"on", "off"}]
Events == Texts \cup Others \cup Configs

-----------------------------------------------------------------------------
\* RuntimeStore.update.
Update(s, e) ==
  CASE e.kind \in {"typed", "spoken"}  -> [s EXCEPT !.user = e.text]
    [] e.kind = "reply"                -> [s EXCEPT !.assistant = e.text]
    [] e.kind = "tts_started"          -> [s EXCEPT !.speaking = TRUE]
    [] e.kind = "tts_ended"            -> [s EXCEPT !.speaking = FALSE]
    [] e.kind = "wake"                 -> [s EXCEPT !.wake = "on"]
    [] e.kind = "task_submitted"       -> [s EXCEPT !.task = "queued"]
    [] e.kind = "task_updated"         -> [s EXCEPT !.task = "running"]
    [] e.kind = "task_completed"       -> [s EXCEPT !.task = "done"]
    [] e.kind = "config"               -> [s EXCEPT !.wake = e.wake]
    [] OTHER                           -> s

Empty == [user |-> "none", assistant |-> "none", speaking |-> FALSE, wake |-> "off",
          task |-> "none"]

\* _store_updater over a queue, up to the end mark.
Folded(s, q) ==
  LET fold[i \in 0..Len(q)] ==
        IF i = 0 THEN s ELSE IF q[i] = End THEN fold[i - 1] ELSE Update(fold[i - 1], q[i])
  IN fold[Len(q)]

\* A slip in the operator that follows.
PutDropsNewest(q, item) == IF Len(q) < QueueSize THEN Append(q, item) ELSE q

\* _Subscription.offer and close.
Put(q, item) == Append(IF Len(q) < QueueSize THEN q ELSE Tail(q), item)

PublishEvent(e) ==
  IF busClosed THEN UNCHANGED <<queue, published>>
  ELSE /\ queue' = [c \in Consumers |-> IF consumer[c] = "runs" THEN Put(queue[c], e)
                                        ELSE queue[c]]
       /\ published' = IF started THEN Append(published, e) ELSE published

Init ==
  /\ started = FALSE /\ stopping = FALSE /\ stage = "idle" /\ busClosed = FALSE
  /\ queue = [c \in Consumers |-> <<>>]
  /\ consumer = [c \in Consumers |-> "none"]
  /\ store = Empty
  /\ reloader = "none" /\ file = "off" /\ current = "off" /\ changed = FALSE
  /\ published = <<>> /\ missed = FALSE /\ starts = 0 /\ edits = 0

-----------------------------------------------------------------------------
\* start(): subscriptions, consumers and, where the configuration asks for it, the reloader.  The
\* subscriptions of a closed bus end at once.
Start(watch) ==
  /\ starts < MaxStarts /\ starts' = starts + 1
  /\ IF started
     THEN UNCHANGED <<started, queue, consumer, reloader, changed, current, missed>>
     ELSE /\ started' = TRUE
          /\ consumer' = [c \in Consumers |-> "runs"]
          /\ queue' = [c \in Consumers |-> IF busClosed THEN <<End>> ELSE <<>>]
          /\ reloader' = IF watch THEN "new" ELSE "none"
          /\ changed' = FALSE /\ current' = "off" /\ missed' = (file # "off")
  /\ UNCHANGED <<stopping, stage, busClosed, store, file, published, edits>>

Publish(e) ==
  /\ Len(published) < MaxEvents
  /\ PublishEvent(e)
  /\ UNCHANGED <<started, stopping, stage, busClosed, consumer, store, reloader, file, current,
                 changed, missed, starts, edits>>

\* A consumer takes all that waits: nothing suspends it in between.
Consume(c) ==
  /\ consumer[c] = "runs" /\ queue[c] # <<>>
  /\ queue' = [queue EXCEPT ![c] = <<>>]
  /\ consumer' = [consumer EXCEPT ![c] = IF queue[c][Len(queue[c])] = End THEN "ended" ELSE @]
  /\ store' = IF c = "updater" THEN Folded(store, queue[c]) ELSE store
  /\ UNCHANGED <<started, stopping, stage, busClosed, reloader, file, current, changed, published,
                 missed, starts, edits>>

-----------------------------------------------------------------------------
\* The file is saved by an editor, perhaps half-written.
Edit(v) ==
  /\ edits < MaxEdits /\ edits' = edits + 1
  /\ file' = v
  /\ changed' = (changed \/ reloader = "watches")
  /\ missed' = (missed \/ reloader # "watches")
  /\ UNCHANGED <<started, stopping, stage, busClosed, queue, consumer, store, reloader, current,
                 published, starts>>

Watch ==
  /\ reloader = "new"
  /\ reloader' = "watches"
  /\ UNCHANGED <<started, stopping, stage, busClosed, queue, consumer, store, file, current,
                 changed, published, missed, starts, edits>>

\* _reload_once: a file that cannot be loaded, and one that says nothing new, changes nothing.
Reload ==
  /\ reloader = "watches" /\ changed
  /\ changed' = FALSE /\ missed' = FALSE
  /\ IF file \in {"broken", current}
     THEN UNCHANGED <<current, queue, published>>
     ELSE /\ current' = file
          /\ PublishEvent([kind |-> "config", wake |-> file])
  /\ UNCHANGED <<started, stopping, stage, busClosed, consumer, store, reloader, file, starts,
                 edits>>

-----------------------------------------------------------------------------
\* EventBus.aclose up to its sleep.
CloseBus ==
  /\ busClosed' = TRUE
  /\ queue' = [c \in Consumers |-> IF busClosed \/ consumer[c] # "runs" THEN queue[c]
                                   ELSE Put(queue[c], End)]
  /\ stage' = IF busClosed THEN "cancelling" ELSE "closing"

\* stop(), which signals, the shutdown and the context manager may call together: the first one
\* works, the others return at once.
Stop ==
  /\ started /\ ~stopping
  /\ stopping' = TRUE
  /\ IF reloader # "none"
     THEN stage' = "reloader" /\ UNCHANGED <<busClosed, queue>>
     ELSE CloseBus
  /\ UNCHANGED <<started, consumer, store, reloader, file, current, changed, published, missed,
                 starts, edits>>

ReloaderStopped ==
  /\ stage = "reloader"
  /\ reloader' = "none" /\ changed' = FALSE
  /\ CloseBus
  /\ UNCHANGED <<started, stopping, consumer, store, file, current, published, missed, starts,
                 edits>>

\* The consumers are cancelled and awaited.
Cancelled ==
  /\ stage \in {"closing", "cancelling"}
  /\ stage' = "idle"
  /\ consumer' = [c \in Consumers |-> "ended"]
  /\ queue' = [c \in Consumers |-> <<>>]
  /\ started' = FALSE /\ stopping' = FALSE
  /\ UNCHANGED <<busClosed, store, reloader, file, current, changed, published, missed, starts,
                 edits>>

\* The time limit of the shutdown cancels stop() while the bus closes: the consumers are left to
\* the end mark, and later calls of stop() find one at work.  Elsewhere stop() swallows it.
TimedOut ==
  /\ stage = "closing"
  /\ stage' = "idle"
  /\ UNCHANGED <<started, stopping, busClosed, queue, consumer, store, reloader, file, current,
                 changed, published, missed, starts, edits>>

Next ==
  \/ \E watch \in BOOLEAN : Start(watch)
  \/ \E e \in Texts \cup Others : e.kind \in Kinds /\ Publish(e)
  \/ \E c \in Consumers : Consume(c)
  \/ \E v \in {"on", "off", "broken"} : Edit(v)
  \/ Watch \/ Reload \/ Stop \/ ReloaderStopped \/ Cancelled \/ TimedOut

Spec ==
  /\ Init /\ [][Next]_vars
  /\ \A c \in Consumers : WF_vars(Consume(c))
  /\ WF_vars(ReloaderStopped)

-----------------------------------------------------------------------------
TypeOK ==
  /\ {started, stopping, busClosed, changed, missed} \subseteq BOOLEAN
  /\ stage \in {"idle", "reloader", "closing", "cancelling"}
  /\ \A c \in Consumers : queue[c] \in Seq(Events \cup {End}) /\ Len(queue[c]) <= QueueSize
  /\ consumer \in [Consumers -> {"none", "runs", "ended"}]
  /\ reloader \in {"none", "new", "watches"}
  /\ {file, current} \subseteq {"on", "off", "broken"}

\* The field of the snapshot an event speaks of, and what it says.
Field(e) ==
  CASE e.kind \in {"typed", "spoken"}         -> "user"
    [] e.kind = "reply"                       -> "assistant"
    [] e.kind \in {"tts_started", "tts_ended"} -> "speaking"
    [] e.kind \in {"wake", "config"}          -> "wake"
    [] e.kind = "rejected"                    -> "none"
    [] OTHER                                  -> "task"

Says(e) ==
  CASE e.kind \in {"typed", "spoken", "reply"} -> e.text
    [] e.kind = "tts_started"                  -> TRUE
    [] e.kind = "tts_ended"                    -> FALSE
    [] e.kind = "wake"                         -> "on"
    [] e.kind = "config"                       -> e.wake
    [] e.kind = "task_submitted"               -> "queued"
    [] e.kind = "task_updated"                 -> "running"
    [] e.kind = "task_completed"               -> "done"

\* Once its queue is empty the snapshot says of every field what the newest event about it says,
\* unless more events than a queue holds came after that one; the reloader has told the bus of
\* the file as it is; and a runtime that is not started has nothing running (store.py:60-125,
\* bus.py:51-66, reloader.py:111-130, runtime.py:124-144).
SnapshotIsCurrent ==
  /\ (consumer["updater"] = "runs" /\ queue["updater"] = <<>> /\ ~busClosed) =>
       \A i \in DOMAIN published :
         LET e == published[i] IN
         (/\ Field(e) # "none"
          /\ i > Len(published) - QueueSize
          /\ \A j \in (i + 1)..Len(published) : Field(published[j]) # Field(e))
         => store[Field(e)] = Says(e)
  /\ (reloader = "watches" /\ ~changed /\ ~missed /\ file # "broken") => current = file
  /\ ~started => reloader = "none" /\ \A c \in Consumers : consumer[c] # "runs"

\* A stop() that has begun ends the consumers and the watcher, also when it is cut short
\* (runtime.py:124-144, main.py:361-373).
RuntimeEnds ==
  (stopping /\ busClosed) ~> (reloader = "none" /\ \A c \in Consumers : queue[c] = <<>>)
=============================================================================
