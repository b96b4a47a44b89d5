----------------------------- MODULE EventBus -----------------------------
(***************************************************************************)
(* The in-process event bus (core/bus.py): EventBus and _Subscription.     *)
(*                                                                         *)
(* The process is one asyncio loop, so a step ends where a coroutine       *)
(* awaits.  publish, subscribe and the synchronous part of aclose are one  *)
(* step each; a consumer is the coroutine that iterates a subscription.    *)
(*                                                                         *)
(* An event is represented by its publication number, so the order and the *)
(* gaps a consumer sees can be stated.  Sentinel stands for the None that  *)
(* _Subscription.close queues.                                             *)
(***************************************************************************)
EXTENDS Naturals, Sequences

CONSTANTS Subs,        \* the calls of subscribe() a run can make
          MaxSize,     \* the queue bound, DEFAULT_QUEUE_MAXSIZE in the code
          MaxPublish   \* bound of the model: publications in one behaviour

ASSUME MaxSizeAssumption == MaxSize \in Nat \ {0}
ASSUME MaxPublishAssumption == MaxPublish \in Nat

VARIABLES
  busClosed,    \* EventBus._closed
  published,    \* number of events fanned out so far
  registered,   \* EventBus._subs
  queue,        \* _Subscription.queue
  closed,       \* _Subscription._closed
  iter,         \* where the consumer of the async generator _iter stands
  seen          \* the last event a consumer received

vars == <<busClosed, published, registered, queue, closed, iter, seen>>

Sentinel == 0

(***************************************************************************)
(* "unused"    subscribe() has not been called;                            *)
(* "fresh"     the generator exists, no one has advanced it;               *)
(* "waiting"   suspended in queue.get();                                   *)
(* "handling"  an item was yielded, the body of the async for runs;        *)
(* "abandoned" the body raised or was cancelled: the generator is          *)
(*             unreachable and its finally block is still to run;          *)
(* "done"      the finally block has run;                                  *)
(* "leaked"    the generator was dropped before its first step, and a      *)
(*             generator that never started runs no finally block.         *)
(***************************************************************************)
IterStates ==
  {"unused", "fresh", "waiting", "handling", "abandoned", "done", "leaked"}

\* The consumers that are, or still will be, in their loop.
Following == {"fresh", "waiting", "handling"}

Init ==
  /\ busClosed = FALSE
  /\ published = 0
  /\ registered = {}
  /\ queue = [s \in Subs |-> <<>>]
  /\ closed = [s \in Subs |-> FALSE]
  /\ iter = [s \in Subs |-> "unused"]
  /\ seen = [s \in Subs |-> 0]

-----------------------------------------------------------------------------

\* Slips in the operator that follows them, here Put: the mutants of
\* PROJECT.json put them in its place.
PutUnbounded(q, item) == Append(q, item)
PutDropsNewest(q, item) == IF Len(q) < MaxSize THEN Append(q, item) ELSE q
\* put_nowait, or drop the oldest item and put when the queue is full.
Put(q, item) == Append(IF Len(q) < MaxSize THEN q ELSE Tail(q), item)

\* _Subscription.offer on the queue of an open subscription.
Offer(q, event) == Put(q, event)

CloseGivesUpWhenFull(s, q) ==
  IF closed[s] \/ Len(q) = MaxSize THEN q ELSE Append(q, Sentinel)

\* _Subscription.close on queue q of subscription s: once, and the sentinel
\* takes the oldest item's place in a full queue.
CloseOn(s, q) == IF closed[s] THEN q ELSE Put(q, Sentinel)

\* _reap_closed.
Open == {s \in registered : ~closed[s]}

Publish ==
  /\ ~busClosed
  /\ published < MaxPublish
  /\ published' = published + 1
  /\ registered' = Open
  /\ queue' = [s \in Subs |->
                 IF s \in Open THEN Offer(queue[s], published') ELSE queue[s]]
  /\ UNCHANGED <<busClosed, closed, iter, seen>>

Subscribe(s) ==
  /\ iter[s] = "unused"
  /\ iter' = [iter EXCEPT ![s] = "fresh"]
  /\ seen' = [seen EXCEPT ![s] = published]
  /\ IF busClosed
       THEN /\ closed' = [closed EXCEPT ![s] = TRUE]
            /\ queue' = [queue EXCEPT ![s] = CloseOn(s, queue[s])]
            /\ registered' = Open
       ELSE /\ registered' = Open \cup {s}
            /\ UNCHANGED <<closed, queue>>
  /\ UNCHANGED <<busClosed, published>>

\* The consumer advances the generator for the first time.
Start(s) ==
  /\ iter[s] = "fresh"
  /\ iter' = [iter EXCEPT ![s] = "waiting"]
  /\ UNCHANGED <<busClosed, published, registered, queue, closed, seen>>

\* queue.get() returns an event, which is yielded to the consumer.
Get(s) ==
  /\ iter[s] = "waiting"
  /\ queue[s] # <<>>
  /\ Head(queue[s]) # Sentinel
  /\ seen' = [seen EXCEPT ![s] = Head(queue[s])]
  /\ queue' = [queue EXCEPT ![s] = Tail(@)]
  /\ iter' = [iter EXCEPT ![s] = "handling"]
  /\ UNCHANGED <<busClosed, published, registered, closed>>

\* The consumer's body is done with the event and asks for the next one.
Resume(s) ==
  /\ iter[s] = "handling"
  /\ iter' = [iter EXCEPT ![s] = "waiting"]
  /\ UNCHANGED <<busClosed, published, registered, queue, closed, seen>>

\* The finally block of _iter, with q the queue it finds.
Finally(s, q) ==
  /\ closed' = [closed EXCEPT ![s] = TRUE]
  /\ queue' = [queue EXCEPT ![s] = CloseOn(s, q)]
  /\ registered' = registered \ {s}
  /\ iter' = [iter EXCEPT ![s] = "done"]
  /\ UNCHANGED <<busClosed, published, seen>>

\* queue.get() returns the sentinel: the generator returns.
Finish(s) ==
  /\ iter[s] = "waiting"
  /\ queue[s] # <<>>
  /\ Head(queue[s]) = Sentinel
  /\ Finally(s, Tail(queue[s]))

\* The consumer's task is cancelled while it waits in queue.get().
Cancel(s) ==
  /\ iter[s] = "waiting"
  /\ Finally(s, queue[s])

\* The consumer's body raises, or is cancelled, between two items.
Abandon(s) ==
  /\ iter[s] = "handling"
  /\ iter' = [iter EXCEPT ![s] = "abandoned"]
  /\ UNCHANGED <<busClosed, published, registered, queue, closed, seen>>

\* The loop closes the unreachable generator.
Finalise(s) ==
  /\ iter[s] = "abandoned"
  /\ Finally(s, queue[s])

\* The consumer's task is cancelled before its first step.
Leak(s) ==
  /\ iter[s] = "fresh"
  /\ iter' = [iter EXCEPT ![s] = "leaked"]
  /\ UNCHANGED <<busClosed, published, registered, queue, closed, seen>>

ACloseForgets ==
  /\ ~busClosed
  /\ busClosed' = TRUE
  /\ registered' = {}
  /\ UNCHANGED <<published, queue, closed, iter, seen>>

\* aclose: close every registered subscription and forget it.
AClose ==
  /\ ~busClosed
  /\ busClosed' = TRUE
  /\ closed' = [s \in Subs |-> closed[s] \/ s \in registered]
  /\ queue' = [s \in Subs |->
                 IF s \in registered THEN CloseOn(s, queue[s]) ELSE queue[s]]
  /\ registered' = {}
  /\ UNCHANGED <<published, iter, seen>>

Consume(s) == Start(s) \/ Get(s) \/ Resume(s) \/ Finish(s) \/ Finalise(s)

Disturb(s) == Cancel(s) \/ Abandon(s) \/ Leak(s)

Next ==
  \/ Publish
  \/ AClose
  \/ \E s \in Subs : Subscribe(s) \/ Consume(s) \/ Disturb(s)

(***************************************************************************)
(* The loop runs a ready coroutine and handler bodies return; no one has   *)
(* to publish, subscribe, close the bus or cancel a consumer.              *)
(***************************************************************************)
Fairness == \A s \in Subs : WF_vars(Consume(s))

Safety == Init /\ [][Next]_vars

Spec == Safety /\ Fairness

-----------------------------------------------------------------------------
\* The type of every variable of the bus and its subscriptions; a queue never holds
\* more than maxsize items, the sentinel included, although offer and close both put
\* without waiting (bus.py:85-153).
TypeOK ==
  /\ busClosed \in BOOLEAN
  /\ published \in Nat
  /\ registered \subseteq Subs
  /\ queue \in [Subs -> Seq(Nat)] /\ \A s \in Subs : Len(queue[s]) <= MaxSize
  /\ closed \in [Subs -> BOOLEAN]
  /\ iter \in [Subs -> IterStates]
  /\ seen \in [Subs -> Nat]

\* A subscription that publish still fans out to is open and was obtained from
\* subscribe, so the fan-out never feeds a queue nobody can close; and once the
\* bus is closed none is registered and none is open.
RegisteredOpen ==
  /\ \A s \in registered : ~closed[s] /\ iter[s] \notin {"unused", "done"}
  /\ \A s \in Subs : iter[s] \in Following /\ ~closed[s] => s \in registered
  /\ busClosed => registered = {}

\* A subscription holds the sentinel only in last place and only once it is
\* closed: offer must refuse events after close, or an event would sit behind
\* the sentinel and be lost, and drop-oldest could push the sentinel out.
SentinelLast ==
  \A s \in Subs : \A i \in 1..Len(queue[s]) :
     queue[s][i] = Sentinel => closed[s] /\ i = Len(queue[s])

\* No consumer waits on a closed subscription for ever: whenever a closed
\* subscription still has a live iterator, its queue ends in the sentinel that
\* wakes the pending get(), even when close found the queue full.
WakeUpPending ==
  \A s \in Subs :
     closed[s] /\ iter[s] \in Following
        => queue[s] # <<>> /\ queue[s][Len(queue[s])] = Sentinel

\* A subscription is sound: fed only while it is open, and able to end.
SubscriptionSound == RegisteredOpen /\ SentinelLast /\ WakeUpPending

\* What an open subscription has pending is the latest events without a gap:
\* drop-oldest loses events only at the front, so a slow consumer that catches
\* up sees the newest event and nothing out of order or twice.
PendingIsLatest ==
  \A s \in Subs : s \in registered =>
     /\ \A i \in 1..Len(queue[s]) :
           queue[s][i] = published - Len(queue[s]) + i
     /\ seen[s] + Len(queue[s]) <= published
     /\ queue[s] = <<>> => seen[s] = published

\* What a subscriber is promised, read off the detailed state: a feed of
\* increasing event numbers that it follows from the moment it joined.
Standing(s) ==
  CASE iter[s] = "unused" -> "none"
    [] iter[s] \in Following -> "on"
    [] OTHER -> "off"

Feed == INSTANCE EventFeed WITH head <- published,
                                standing <- [s \in Subs |-> Standing(s)]

\* The bus implements the feed: it never repeats, reorders or invents an event,
\* never delivers one published before the subscription, and keeps delivering.
FeedSafety == Feed!Safety
FeedSpec == Feed!Spec

\* Closing the bus ends every iteration: each consumer drains what it has and
\* leaves its loop.
CloseEndsIteration ==
  busClosed ~> (\A s \in Subs : iter[s] \in {"unused", "done", "leaked"})
=============================================================================
