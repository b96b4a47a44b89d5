--------------------------- MODULE EventBusProofs ---------------------------
(***************************************************************************)
(* The safety properties of EventBus for every set of subscriptions, every *)
(* queue bound and every number of publications, and of what runs beside   *)
(* it (MCEventBus) the snapshot of the runtime, the session of the camera  *)
(* and the recogniser in the backend's process, for every queue bound and  *)
(* every number of calls, of events, of frames and of transcripts.         *)
(*                                                                         *)
(* The inductive invariant is a predicate of one subscription, Sound, over *)
(* the values of its variables.  Lemmas say how Sound survives what can be *)
(* done to a subscription (an event is offered, the queue is closed, the   *)
(* consumer takes an event); each action is then an application of them.   *)
(* The snapshot follows from what the fold over a queue says (FoldSays).   *)
(* The session's invariant has a part about one capture, Sane, and a part  *)
(* about who holds it, Held; the recogniser's has one about its recorder,  *)
(* MicHeld, one about the pumps, OnePump, and one about the queue of a     *)
(* session, Session, as the loop of _enqueue_item reads it (FinalsFirst).  *)
(***************************************************************************)
EXTENDS MCEventBus, WellFoundedInduction, SequenceTheorems, TLAPS

(***************************************************************************)
(* A subscription is "none" until it is obtained, "open" as long as the    *)
(* bus fans out to it and then "closed".                                   *)
(***************************************************************************)
Mode(s) == IF closed[s] THEN "closed" ELSE IF s \in registered THEN "open" ELSE "none"

Modes == {"none", "open", "closed"}

(***************************************************************************)
(* q, m, it, sn: the queue, the mode, the consumer, the last event seen;   *)
(* pub: the number of events published.                                    *)
(***************************************************************************)
\* The sentinel closes the queue.
Marked(q, m) ==
  \A i \in 1..Len(q) : q[i] = Sentinel => m = "closed" /\ i = Len(q)

\* The events queued are new to the consumer and in order.
Rising(q, sn, pub) ==
  /\ \A i \in 1..Len(q) : q[i] # Sentinel => sn < q[i] /\ q[i] <= pub
  /\ \A i, j \in 1..Len(q) : i < j /\ q[j] # Sentinel => q[i] < q[j]

\* The queue holds the latest events without a gap.
Latest(q, sn, pub) ==
  /\ \A i \in 1..Len(q) : q[i] = pub - Len(q) + i
  /\ sn + Len(q) <= pub
  /\ q = <<>> => sn = pub

WakesUp(q) == q # <<>> /\ q[Len(q)] = Sentinel

Sound(q, m, it, sn, pub) ==
  /\ Len(q) <= MaxSize
  /\ it = "unused" <=> m = "none"
  /\ it = "done" => m = "closed"
  /\ m = "none" => q = <<>>
  /\ sn <= pub
  /\ Marked(q, m)
  /\ Rising(q, sn, pub)
  /\ m = "closed" /\ it \in Following => WakesUp(q)
  /\ m = "open" => Latest(q, sn, pub)

\* The types that need no more than the step at hand.
Typed ==
  /\ busClosed \in BOOLEAN
  /\ published \in Nat
  /\ registered \subseteq Subs
  /\ queue \in [Subs -> Seq(Nat)]
  /\ closed \in [Subs -> BOOLEAN]
  /\ iter \in [Subs -> IterStates]
  /\ seen \in [Subs -> Nat]

IInv ==
  /\ Typed
  /\ busClosed => registered = {}
  /\ \A s \in registered : ~closed[s]
  /\ \A s \in Subs : Sound(queue[s], Mode(s), iter[s], seen[s], published)

\* What Put returns: the item in last place behind the latest items that fit.
LEMMA PutFacts ==
  ASSUME NEW q \in Seq(Nat), NEW item \in Nat, Len(q) <= MaxSize
  PROVE  LET r == Put(q, item)
         IN  /\ r \in Seq(Nat)
             /\ Len(r) = IF Len(q) < MaxSize THEN Len(q) + 1 ELSE MaxSize
             /\ r # <<>>
             /\ r[Len(r)] = item
             /\ \A i \in 1..(Len(r) - 1) : r[i] = q[i + Len(q) + 1 - Len(r)]
<1>1. CASE Len(q) < MaxSize
  BY <1>1, MaxSizeAssumption DEF Put
<1>2. CASE ~(Len(q) < MaxSize)
  <2>1. q # <<>> /\ Len(q) = MaxSize
    BY <1>2, MaxSizeAssumption
  <2>2. /\ Tail(q) \in Seq(Nat)
        /\ Len(Tail(q)) = MaxSize - 1
        /\ \A i \in 1..(MaxSize - 1) : Tail(q)[i] = q[i + 1]
    BY <2>1, MaxSizeAssumption
  <2>3. Put(q, item) = Append(Tail(q), item)
    BY <1>2 DEF Put
  <2>4. /\ Append(Tail(q), item) \in Seq(Nat)
        /\ Len(Append(Tail(q), item)) = MaxSize
        /\ Append(Tail(q), item)[MaxSize] = item
        /\ \A i \in 1..(MaxSize - 1) : Append(Tail(q), item)[i] = q[i + 1]
    BY <2>2, MaxSizeAssumption
  <2>5. \A i \in 1..(MaxSize - 1) : i + Len(q) + 1 - MaxSize = i + 1
    BY <2>1, MaxSizeAssumption
  <2>6. Append(Tail(q), item) # <<>>
    BY <2>4, MaxSizeAssumption
  <2> QED  BY <1>2, <2>1, <2>3, <2>4, <2>5, <2>6
<1> QED  BY <1>1, <1>2

\* Offering event pub + 1 to a registered subscription keeps it sound.
LEMMA OfferSound ==
  ASSUME NEW q \in Seq(Nat), NEW it \in IterStates, NEW sn \in Nat, NEW pub \in Nat,
         Sound(q, "open", it, sn, pub)
  PROVE  Sound(Put(q, pub + 1), "open", it, sn, pub + 1)
<1> DEFINE r == Put(q, pub + 1)
<1>1. Len(q) <= MaxSize /\ pub + 1 \in Nat
  BY DEF Sound
<1>2. /\ r \in Seq(Nat)
      /\ Len(r) = IF Len(q) < MaxSize THEN Len(q) + 1 ELSE MaxSize
      /\ r[Len(r)] = pub + 1
      /\ \A i \in 1..(Len(r) - 1) : r[i] = q[i + Len(q) + 1 - Len(r)]
  BY <1>1, PutFacts
<1>3. Len(r) <= MaxSize /\ Len(r) <= Len(q) + 1 /\ Len(r) \in Nat \ {0}
  BY <1>1, <1>2, MaxSizeAssumption
<1>0. Latest(q, sn, pub)
  BY DEF Sound
<1>4. \A i \in 1..Len(q) : q[i] = pub - Len(q) + i
  BY <1>0 DEF Latest
<1>5. sn + Len(q) <= pub
  BY <1>0 DEF Latest
<1>6. \A i \in 1..Len(r) : r[i] = (pub + 1) - Len(r) + i
  <2> TAKE i \in 1..Len(r)
  <2>1. CASE i = Len(r)
    BY <2>1, <1>2
  <2>2. CASE i # Len(r)
    <3>1. i + Len(q) + 1 - Len(r) \in 1..Len(q)
      BY <2>2, <1>3
    <3>2. r[i] = q[i + Len(q) + 1 - Len(r)]
      BY <2>2, <1>2, <1>3
    <3> QED  BY <3>1, <3>2, <1>4, <1>3
  <2> QED  BY <2>1, <2>2
<1>7. sn + Len(r) <= pub + 1
  BY <1>3, <1>5
<1> HIDE DEF r
<1>8. \A i \in 1..Len(r) : r[i] # Sentinel /\ sn < r[i] /\ r[i] <= pub + 1
  BY <1>6, <1>7, <1>3 DEF Sentinel
<1>9. \A i, j \in 1..Len(r) : i < j => r[i] < r[j]
  BY <1>6, <1>3
<1>10. Sound(r, "open", it, sn, pub + 1)
  <2>1. it \notin {"unused", "done"} /\ sn <= pub + 1
    BY DEF Sound
  <2>2. Latest(r, sn, pub + 1)
    BY <1>3, <1>6, <1>7 DEF Latest
  <2>3. Marked(r, "open") /\ Rising(r, sn, pub + 1)
    BY <1>8, <1>9 DEF Marked, Rising
  <2> QED  BY <2>1, <2>2, <2>3, <1>3 DEF Sound
<1> QED  BY <1>10 DEF r

\* Publishing leaves a subscription that is not registered sound.
LEMMA IgnoreSound ==
  ASSUME NEW q \in Seq(Nat), NEW m \in Modes, NEW it \in IterStates,
         NEW sn \in Nat, NEW pub \in Nat,
         Sound(q, m, it, sn, pub), m # "open"
  PROVE  Sound(q, m, it, sn, pub + 1)
BY DEF Sound, Rising

\* Closing an open subscription, by the bus or by its iterator, keeps it sound.
LEMMA CloseSound ==
  ASSUME NEW q \in Seq(Nat), NEW it \in IterStates, NEW sn \in Nat, NEW pub \in Nat,
         Sound(q, "open", it, sn, pub)
  PROVE  Sound(Put(q, Sentinel), "closed", it, sn, pub)
<1> DEFINE r == Put(q, Sentinel)
<1>1. Len(q) <= MaxSize /\ Sentinel \in Nat
  BY DEF Sound, Sentinel
<1>2. /\ r \in Seq(Nat)
      /\ Len(r) = IF Len(q) < MaxSize THEN Len(q) + 1 ELSE MaxSize
      /\ r # <<>>
      /\ r[Len(r)] = Sentinel
      /\ \A i \in 1..(Len(r) - 1) : r[i] = q[i + Len(q) + 1 - Len(r)]
  BY <1>1, PutFacts
<1>3. Len(r) <= MaxSize /\ Len(r) <= Len(q) + 1 /\ Len(r) \in Nat \ {0}
  BY <1>1, <1>2, MaxSizeAssumption
<1>0. Marked(q, "open") /\ Rising(q, sn, pub)
  BY DEF Sound
<1>4. \A i \in 1..Len(q) : q[i] # Sentinel /\ sn < q[i] /\ q[i] <= pub
  BY <1>0 DEF Marked, Rising
<1>5. \A i, j \in 1..Len(q) : i < j => q[i] < q[j]
  BY <1>0, <1>4 DEF Rising
<1>6. \A i \in 1..(Len(r) - 1) : i + Len(q) + 1 - Len(r) \in 1..Len(q)
  BY <1>3
<1> HIDE DEF r
<1>7. \A i \in 1..(Len(r) - 1) : r[i] # Sentinel /\ sn < r[i] /\ r[i] <= pub
  BY <1>2, <1>4, <1>6
<1>8. \A i, j \in 1..(Len(r) - 1) : i < j => r[i] < r[j]
  <2> TAKE i, j \in 1..(Len(r) - 1)
  <2> DEFINE At(n) == n + Len(q) + 1 - Len(r)
  <2>1. At(i) \in 1..Len(q) /\ At(j) \in 1..Len(q)
    BY <1>6
  <2>2. r[i] = q[At(i)] /\ r[j] = q[At(j)]
    BY <1>2
  <2>3. i < j => At(i) < At(j)
    BY <1>3
  <2> HIDE DEF At
  <2> QED  BY <2>1, <2>2, <2>3, <1>5
<1>9. \A i \in 1..Len(r) : i # Len(r) => i \in 1..(Len(r) - 1)
  BY <1>3
<1>10. Sound(r, "closed", it, sn, pub)
  <2>1. it # "unused" /\ sn <= pub
    BY DEF Sound
  <2>2. \A i \in 1..Len(r) : r[i] = Sentinel => i = Len(r)
    BY <1>7, <1>9
  <2>3. \A i \in 1..Len(r) : r[i] # Sentinel => sn < r[i] /\ r[i] <= pub
    BY <1>2, <1>7, <1>9
  <2>4. ASSUME NEW i \in 1..Len(r), NEW j \in 1..Len(r), i < j, r[j] # Sentinel
        PROVE  r[i] < r[j]
    <3>1. j # Len(r)
      BY <2>4, <1>2
    <3>2. i # Len(r)
      BY <2>4, <1>3
    <3> QED  BY <3>1, <3>2, <2>4, <1>8, <1>9
  <2>5. WakesUp(r) /\ Marked(r, "closed") /\ Rising(r, sn, pub)
    BY <1>2, <2>2, <2>3, <2>4 DEF WakesUp, Marked, Rising
  <2> QED  BY <2>1, <2>5, <1>3 DEF Sound
<1> QED  BY <1>10 DEF r

\* Taking the event at the head of the queue keeps a subscription sound.
LEMMA TakeSound ==
  ASSUME NEW q \in Seq(Nat), NEW m \in Modes,
         NEW sn \in Nat, NEW pub \in Nat,
         Sound(q, m, "waiting", sn, pub), q # <<>>, Head(q) # Sentinel
  PROVE  Sound(Tail(q), m, "handling", Head(q), pub)
<1> DEFINE r == Tail(q)
<1>1. /\ r \in Seq(Nat)
      /\ Len(r) = Len(q) - 1
      /\ \A i \in 1..Len(r) : r[i] = q[i + 1] /\ i + 1 \in 1..Len(q)
      /\ Len(q) \in Nat \ {0}
      /\ Head(q) = q[1]
  OBVIOUS
<1>0. /\ \A i \in 1..Len(q) : q[i] = Sentinel => m = "closed" /\ i = Len(q)
      /\ \A i \in 1..Len(q) : q[i] # Sentinel => sn < q[i] /\ q[i] <= pub
      /\ \A i, j \in 1..Len(q) : i < j /\ q[j] # Sentinel => q[i] < q[j]
  BY DEF Sound, Marked, Rising
<1> HIDE DEF r
<1>2. /\ 1 \in 1..Len(q) /\ q[1] # Sentinel
      /\ sn < q[1] /\ q[1] <= pub /\ q[1] \in Nat
  BY <1>0, <1>1
<1>3. \A i \in 1..Len(r) : r[i] = Sentinel => m = "closed" /\ i = Len(r)
  <2> TAKE i \in 1..Len(r)
  <2>1. i + 1 \in 1..Len(q) /\ r[i] = q[i + 1] /\ (i + 1 = Len(q) => i = Len(r))
    BY <1>1
  <2> QED  BY <2>1, <1>0
<1>4. \A i \in 1..Len(r) : r[i] # Sentinel => q[1] < r[i] /\ r[i] <= pub
  <2> TAKE i \in 1..Len(r)
  <2>1. 1 < i + 1 /\ i + 1 \in 1..Len(q) /\ r[i] = q[i + 1]
    BY <1>1
  <2> QED  BY <2>1, <1>0, <1>2
<1>5. \A i, j \in 1..Len(r) : i < j /\ r[j] # Sentinel => r[i] < r[j]
  <2> TAKE i, j \in 1..Len(r)
  <2>0. r[i] = q[i + 1] /\ r[j] = q[j + 1]
    BY <1>1
  <2>1. /\ i < j => i + 1 < j + 1
        /\ i + 1 \in 1..Len(q) /\ j + 1 \in 1..Len(q)
        /\ r[i] = q[i + 1] /\ r[j] = q[j + 1]
    BY <1>1, <2>0
  <2> QED  BY <2>1, <1>0
<1>6. m = "closed" => WakesUp(r)
  <2> HAVE m = "closed"
  <2>1. q[Len(q)] = Sentinel
    BY DEF Sound, Following, WakesUp
  <2>2. Len(q) # 1
    BY <2>1, <1>1
  <2> QED  BY <2>1, <2>2, <1>1 DEF WakesUp
<1>7. m = "open" => Latest(r, q[1], pub)
  <2> HAVE m = "open"
  <2>1. Latest(q, sn, pub)
    BY DEF Sound
  <2>2. \A i \in 1..Len(r) : r[i] = pub - Len(r) + i
    BY <2>1, <1>1 DEF Latest
  <2>3. q[1] = pub - Len(q) + 1
    BY <2>1, <1>2 DEF Latest
  <2> QED  BY <2>2, <2>3, <1>1 DEF Latest
<1>8. Len(r) <= MaxSize /\ m # "none"
  BY <1>1, MaxSizeAssumption DEF Sound
<1>9. Sound(r, m, "handling", q[1], pub)
  BY <1>2, <1>3, <1>4, <1>5, <1>6, <1>7, <1>8 DEF Sound, Marked, Rising
<1> QED  BY <1>1, <1>9 DEF r

-----------------------------------------------------------------------------
LEMMA InitSound == Init => IInv
<1> SUFFICES ASSUME Init PROVE IInv
  OBVIOUS
<1>1. Typed
  <2>1. <<>> \in Seq(Nat) /\ "unused" \in IterStates
    BY DEF IterStates
  <2> QED  BY <2>1 DEF Init, Typed
<1>2. Sound(<<>>, "none", "unused", 0, 0)
  BY MaxSizeAssumption DEF Sound, Following, Marked, Rising
<1>3. \A s \in Subs : Mode(s) = "none"
  BY DEF Init, Mode
<1> QED  BY <1>1, <1>2, <1>3 DEF Init, IInv

\* In a sound state there is nothing for _reap_closed to drop.
LEMMA ReapIdle ==
  ASSUME IInv
  PROVE  /\ Open = registered
         /\ \A s \in registered : Mode(s) = "open"
BY DEF IInv, Open, Mode, Typed

LEMMA PublishSound == IInv /\ Publish => IInv'
<1> SUFFICES ASSUME IInv, Publish PROVE IInv'
  OBVIOUS
<1>1. Open = registered /\ \A s \in registered : Mode(s) = "open"
  BY ReapIdle
<1>2. \A s \in Subs : Sound(queue[s], Mode(s), iter[s], seen[s], published)
  BY DEF IInv
<1>3. \A s \in registered : Len(queue[s]) <= MaxSize
  BY <1>2 DEF Sound, IInv, Typed
<1>4. published' = published + 1 /\ published \in Nat /\ published' \in Nat
  BY DEF Publish, IInv, Typed
<1>5. UNCHANGED <<busClosed, registered, closed, iter, seen>>
  BY <1>1 DEF Publish
<1>6. \A s \in Subs : queue'[s] = IF s \in registered THEN Put(queue[s], published + 1)
                                                     ELSE queue[s]
  BY <1>1, <1>4 DEF Publish, Offer
<1>7. \A s \in Subs : queue'[s] \in Seq(Nat)
  <2> TAKE s \in Subs
  <2>1. queue[s] \in Seq(Nat) /\ published + 1 \in Nat
    BY <1>4 DEF IInv, Typed
  <2>2. CASE s \in registered
    <3>1. Put(queue[s], published + 1) \in Seq(Nat)
      BY <2>1, <2>2, <1>3, PutFacts
    <3> QED  BY <3>1, <2>2, <1>6
  <2>3. CASE s \notin registered
    BY <2>1, <2>3, <1>6
  <2> QED  BY <2>2, <2>3
<1>8. Typed'
  BY <1>4, <1>5, <1>7 DEF Publish, IInv, Typed
<1>9. \A s \in Subs : Mode(s)' = Mode(s)
  BY <1>5 DEF Mode
<1>10. ASSUME NEW s \in Subs
       PROVE  Sound(queue'[s], Mode(s), iter[s], seen[s], published + 1)
  <2>1. queue[s] \in Seq(Nat) /\ iter[s] \in IterStates /\ seen[s] \in Nat /\ Mode(s) \in Modes
    BY DEF IInv, Typed, Mode, Modes
  <2>2. CASE s \in registered
    <3>1. Sound(queue[s], "open", iter[s], seen[s], published)
      BY <1>1, <1>2, <2>2
    <3> QED  BY <3>1, <2>1, <2>2, <1>1, <1>4, <1>6, OfferSound
  <2>3. CASE s \notin registered
    <3>1. Mode(s) # "open"
      BY <2>3 DEF Mode
    <3> QED  BY <3>1, <2>1, <2>3, <1>2, <1>4, <1>6, IgnoreSound
  <2> QED  BY <2>2, <2>3
<1> QED  BY <1>4, <1>5, <1>8, <1>9, <1>10 DEF IInv

(***************************************************************************)
(* A step that touches one subscription keeps the invariant if it leaves   *)
(* that one sound.                                                         *)
(***************************************************************************)
LEMMA OneSound ==
  ASSUME NEW s \in Subs, IInv, Typed', published' = published,
         \A t \in Subs \ {s} : /\ queue'[t] = queue[t] /\ closed'[t] = closed[t]
                               /\ iter'[t] = iter[t] /\ seen'[t] = seen[t]
                               /\ t \in registered' <=> t \in registered,
         s \in registered' => ~closed'[s] /\ ~busClosed',
         busClosed' = busClosed,
         Sound(queue'[s], Mode(s)', iter'[s], seen'[s], published)
  PROVE  IInv'
<1>1. \A t \in Subs \ {s} : Mode(t)' = Mode(t)
  BY DEF Mode
<1>2. \A t \in Subs : Sound(queue'[t], Mode(t)', iter'[t], seen'[t], published)
  BY <1>1 DEF IInv
<1>3. \A t \in registered' : t \in Subs
  BY DEF Typed
<1>4. \A t \in registered' : ~closed'[t]
  BY <1>3 DEF IInv
<1>5. busClosed' => registered' = {}
  BY <1>3 DEF IInv
<1> QED  BY <1>2, <1>4, <1>5 DEF IInv

LEMMA SubscribeSound == ASSUME NEW s \in Subs, IInv, Subscribe(s) PROVE IInv'
<1>1. Open = registered
  BY ReapIdle
<1>2. iter[s] = "unused" /\ Sound(queue[s], Mode(s), iter[s], seen[s], published)
  BY DEF Subscribe, IInv
<1>3. Mode(s) = "none" /\ queue[s] = <<>>
  BY <1>2 DEF Sound
<1>4. ~closed[s] /\ s \notin registered
  BY <1>3 DEF Mode
<1>5. /\ Put(<<>>, Sentinel) \in Seq(Nat)
      /\ Len(Put(<<>>, Sentinel)) = 1
      /\ Put(<<>>, Sentinel)[1] = Sentinel
      /\ Put(<<>>, Sentinel) # <<>>
  BY MaxSizeAssumption DEF Put, Sentinel
<1>6. CloseOn(s, queue[s]) = Put(<<>>, Sentinel)
  BY <1>3, <1>4 DEF CloseOn
<1>7. CASE busClosed
  <2>1. /\ closed' = [closed EXCEPT ![s] = TRUE]
        /\ queue' = [queue EXCEPT ![s] = Put(<<>>, Sentinel)]
        /\ registered' = registered
        /\ iter' = [iter EXCEPT ![s] = "fresh"]
        /\ seen' = [seen EXCEPT ![s] = published]
        /\ UNCHANGED <<busClosed, published>>
    BY <1>1, <1>6, <1>7 DEF Subscribe
  <2>2. Typed'
    BY <2>1, <1>5 DEF IInv, Typed, IterStates
  <2>3. Mode(s)' = "closed"
    BY <2>1 DEF Mode, IInv, Typed
  <2>4. Sound(Put(<<>>, Sentinel), "closed", "fresh", published, published)
    <3> DEFINE q == Put(<<>>, Sentinel)
    <3>1. Len(q) = 1 /\ q[1] = Sentinel /\ q # <<>>
      BY <1>5
    <3> HIDE DEF q
    <3>5. \A i \in 1..Len(q) : i = 1
      <4>1. \A i \in 1..1 : i = 1
        OBVIOUS
      <4> QED  BY <4>1, <3>1
    <3>2. Marked(q, "closed") /\ Rising(q, published, published) /\ WakesUp(q)
      BY <3>1, <3>5 DEF Marked, Rising, WakesUp
    <3>3. published <= published /\ Len(q) <= MaxSize
      BY <3>1, MaxSizeAssumption DEF IInv, Typed
    <3>4. Sound(q, "closed", "fresh", published, published)
      BY <3>2, <3>3 DEF Sound
    <3> QED  BY <3>4 DEF q
  <2> QED  BY <2>1, <2>2, <2>3, <2>4, <1>4, OneSound DEF IInv, Typed
<1>8. CASE ~busClosed
  <2>1. /\ registered' = registered \cup {s}
        /\ iter' = [iter EXCEPT ![s] = "fresh"]
        /\ seen' = [seen EXCEPT ![s] = published]
        /\ UNCHANGED <<busClosed, published, closed, queue>>
    BY <1>1, <1>8 DEF Subscribe
  <2>2. Typed'
    BY <2>1 DEF IInv, Typed, IterStates
  <2>3. Mode(s)' = "open"
    BY <2>1, <1>4 DEF Mode
  <2>4. Sound(<<>>, "open", "fresh", published, published)
    BY MaxSizeAssumption DEF Sound, IInv, Typed, Marked, Rising, Latest
  <2> QED  BY <2>1, <2>2, <2>3, <2>4, <1>3, <1>4, <1>8, OneSound DEF IInv, Typed
<1> QED  BY <1>7, <1>8

\* Steps that move a consumer and change nothing else.
LEMMA MoveSound ==
  ASSUME NEW s \in Subs, IInv, Start(s) \/ Resume(s) \/ Abandon(s) \/ Leak(s)
  PROVE  IInv'
<1>1. UNCHANGED <<busClosed, published, registered, queue, closed, seen>>
  BY DEF Start, Resume, Abandon, Leak
<1>2. /\ iter[s] \in Following
      /\ iter'[s] \in {"waiting", "abandoned", "leaked"}
      /\ \A t \in Subs \ {s} : iter'[t] = iter[t]
      /\ iter' \in [Subs -> IterStates]
  BY DEF Start, Resume, Abandon, Leak, IInv, Typed, Following, IterStates
<1>3. Typed'
  BY <1>1, <1>2 DEF IInv, Typed
<1>4. Sound(queue[s], Mode(s), iter'[s], seen[s], published)
  <2>1. Sound(queue[s], Mode(s), iter[s], seen[s], published)
    BY DEF IInv
  <2>2. iter'[s] # "unused" /\ iter'[s] # "done" /\ iter[s] # "unused"
    BY <1>2 DEF Following
  <2> QED  BY <2>1, <2>2, <1>2 DEF Sound
<1>5. Mode(s)' = Mode(s)
  BY <1>1 DEF Mode
<1> QED  BY <1>1, <1>2, <1>3, <1>4, <1>5, OneSound DEF IInv

LEMMA GetSound == ASSUME NEW s \in Subs, IInv, Get(s) PROVE IInv'
<1>1. /\ queue[s] \in Seq(Nat) /\ Head(queue[s]) \in Nat /\ Tail(queue[s]) \in Seq(Nat)
      /\ queue[s] # <<>> /\ Head(queue[s]) # Sentinel
  BY DEF Get, IInv, Typed
<1>2. /\ queue' = [queue EXCEPT ![s] = Tail(queue[s])]
      /\ seen' = [seen EXCEPT ![s] = Head(queue[s])]
      /\ iter' = [iter EXCEPT ![s] = "handling"]
      /\ UNCHANGED <<busClosed, published, registered, closed>>
  BY DEF Get
<1>3. Typed'
  BY <1>1, <1>2 DEF IInv, Typed, IterStates
<1>4. Mode(s) \in Modes /\ Mode(s)' = Mode(s) /\ seen[s] \in Nat /\ published \in Nat
  BY <1>2 DEF Mode, Modes, IInv, Typed
<1>5. Sound(queue[s], Mode(s), "waiting", seen[s], published)
  BY DEF Get, IInv
<1>6. Sound(Tail(queue[s]), Mode(s), "handling", Head(queue[s]), published)
  BY <1>1, <1>4, <1>5, TakeSound
<1>7. queue'[s] = Tail(queue[s]) /\ seen'[s] = Head(queue[s]) /\ iter'[s] = "handling"
  BY <1>2 DEF IInv, Typed
<1>8. Sound(queue'[s], Mode(s)', iter'[s], seen'[s], published)
  BY <1>4, <1>6, <1>7
<1>9. s \in registered' => ~closed'[s] /\ ~busClosed'
  BY <1>2 DEF IInv
<1> QED  BY <1>2, <1>3, <1>8, <1>9, OneSound DEF IInv, Typed

\* The finally block, reached with the queue q that the generator leaves.
LEMMA FinallySound ==
  ASSUME NEW s \in Subs, NEW q \in Seq(Nat), IInv, Finally(s, q),
         iter[s] # "unused",
         \/ q = queue[s]
         \/ closed[s] /\ q = <<>>
  PROVE  IInv'
<1>1. Sound(queue[s], Mode(s), iter[s], seen[s], published)
  BY DEF IInv
<1>2. /\ Len(queue[s]) <= MaxSize /\ queue[s] \in Seq(Nat) /\ Sentinel \in Nat
      /\ seen[s] \in Nat /\ published \in Nat /\ iter[s] \in IterStates
  BY <1>1 DEF Sound, IInv, Typed, Sentinel
<1>3. CloseOn(s, q) \in Seq(Nat) /\ Sound(CloseOn(s, q), "closed", "done", seen[s], published)
  <2>1. CASE closed[s]
    <3>1. Mode(s) = "closed" /\ CloseOn(s, q) = q
      BY <2>1 DEF Mode, CloseOn
    <3>2. Sound(q, "closed", "done", seen[s], published)
      <4>1. Sound(queue[s], "closed", iter[s], seen[s], published)
        BY <3>1, <1>1
      <4>2. CASE q = queue[s]
        BY <4>1, <4>2 DEF Sound, Following
      <4>3. CASE q = <<>>
        <5>1. Len(q) = 0 /\ 1..Len(q) = {}
          BY <4>3
        <5>2. Marked(q, "closed") /\ Rising(q, seen[s], published)
          BY <5>1 DEF Marked, Rising
        <5>3. seen[s] <= published /\ Len(q) <= MaxSize
          BY <4>1, <5>1, MaxSizeAssumption DEF Sound
        <5> QED  BY <5>2, <5>3 DEF Sound, Following
      <4> QED  BY <4>2, <4>3
    <3> QED  BY <3>1, <3>2
  <2>2. CASE ~closed[s]
    <3>1. CloseOn(s, q) = Put(queue[s], Sentinel)
      BY <2>2 DEF CloseOn
    <3>2. Mode(s) = "open"
      BY <1>1, <2>2 DEF Sound, Mode
    <3>3. Put(queue[s], Sentinel) \in Seq(Nat)
      BY <1>2, PutFacts
    <3>4. Sound(Put(queue[s], Sentinel), "closed", iter[s], seen[s], published)
      BY <1>1, <1>2, <3>2, CloseSound
    <3>5. Sound(Put(queue[s], Sentinel), "closed", "done", seen[s], published)
      BY <3>4 DEF Sound, Following
    <3> QED  BY <3>1, <3>3, <3>5
  <2> QED  BY <2>1, <2>2
<1>4. /\ closed' = [closed EXCEPT ![s] = TRUE]
      /\ queue' = [queue EXCEPT ![s] = CloseOn(s, q)]
      /\ registered' = registered \ {s}
      /\ iter' = [iter EXCEPT ![s] = "done"]
      /\ UNCHANGED <<busClosed, published, seen>>
  BY DEF Finally
<1>5. Typed'
  BY <1>3, <1>4 DEF IInv, Typed, IterStates
<1>6. Mode(s)' = "closed"
  BY <1>4 DEF Mode, IInv, Typed
<1> QED  BY <1>3, <1>4, <1>5, <1>6, OneSound DEF IInv, Typed

LEMMA LeaveSound ==
  ASSUME NEW s \in Subs, IInv, Finish(s) \/ Cancel(s) \/ Finalise(s)
  PROVE  IInv'
<1>1. queue[s] \in Seq(Nat) /\ Sound(queue[s], Mode(s), iter[s], seen[s], published)
  BY DEF IInv, Typed
<1>2. CASE Finish(s)
  <2>1. queue[s] # <<>> /\ queue[s][1] = Sentinel
    BY <1>1, <1>2 DEF Finish
  <2>2. Mode(s) = "closed" /\ 1 = Len(queue[s])
    <3>1. Marked(queue[s], Mode(s)) /\ 1 \in 1..Len(queue[s])
      BY <2>1, <1>1 DEF Sound
    <3> QED  BY <3>1, <2>1 DEF Marked
  <2>3. Tail(queue[s]) = <<>> /\ Tail(queue[s]) \in Seq(Nat)
    <3>1. ASSUME NEW q \in Seq(Nat), q # <<>>
          PROVE  Tail(q) \in Seq(Nat) /\ Len(Tail(q)) = Len(q) - 1
      BY <3>1
    <3>2. \A q \in Seq(Nat) : Len(q) = 0 => q = <<>>
      OBVIOUS
    <3>3. Tail(queue[s]) \in Seq(Nat) /\ Len(Tail(queue[s])) = Len(queue[s]) - 1
      BY <3>1, <2>1, <1>1
    <3>4. Len(Tail(queue[s])) = 0
      BY <3>3, <2>2
    <3> QED  BY <3>2, <3>3, <3>4
  <2>4. closed[s]
    BY <2>2 DEF Mode
  <2> QED  BY <2>3, <2>4, <1>2, FinallySound DEF Finish
<1>3. CASE Cancel(s)
  BY <1>1, <1>3, FinallySound DEF Cancel
<1>4. CASE Finalise(s)
  BY <1>1, <1>4, FinallySound DEF Finalise
<1> QED  BY <1>2, <1>3, <1>4

LEMMA ACloseSound == IInv /\ AClose => IInv'
<1> SUFFICES ASSUME IInv, AClose PROVE IInv'
  OBVIOUS
<1>1. \A s \in Subs : Sound(queue[s], Mode(s), iter[s], seen[s], published)
  BY DEF IInv
<1>2. \A s \in registered : Mode(s) = "open" /\ CloseOn(s, queue[s]) = Put(queue[s], Sentinel)
  BY DEF IInv, Mode, CloseOn
<1>3. \A s \in registered : Put(queue[s], Sentinel) \in Seq(Nat)
  BY <1>1, PutFacts DEF IInv, Typed, Sentinel, Sound
<1>4. /\ \A s \in Subs : queue'[s] = IF s \in registered THEN Put(queue[s], Sentinel)
                                                       ELSE queue[s]
      /\ registered' = {}
      /\ busClosed' = TRUE
      /\ UNCHANGED <<published, iter, seen>>
  BY <1>2 DEF AClose
<1>5. Typed'
  BY <1>3, <1>4 DEF AClose, IInv, Typed
<1>6. ASSUME NEW s \in Subs
      PROVE  Sound(queue'[s], Mode(s)', iter[s], seen[s], published)
  <2>1. CASE s \in registered
    <3>1. Sound(queue[s], "open", iter[s], seen[s], published)
      BY <1>1, <1>2, <2>1
    <3>2. Sound(Put(queue[s], Sentinel), "closed", iter[s], seen[s], published)
      BY <3>1, CloseSound DEF IInv, Typed
    <3>3. Mode(s)' = "closed"
      BY <2>1 DEF AClose, Mode
    <3> QED  BY <3>2, <3>3, <2>1, <1>4
  <2>2. CASE s \notin registered
    <3>1. Mode(s)' = Mode(s)
      BY <2>2 DEF AClose, Mode
    <3> QED  BY <3>1, <2>2, <1>1, <1>4
  <2> QED  BY <2>1, <2>2
<1> QED  BY <1>4, <1>5, <1>6 DEF IInv

\* Every subscription is sound in every reachable state of the bus: the
\* inductive invariant the theorems below rest on.
THEOREM Soundness == Safety => []IInv
<1>1. IInv /\ [Next]_vars => IInv'
  <2> SUFFICES ASSUME IInv, [Next]_vars PROVE IInv'
    OBVIOUS
  <2>1. CASE UNCHANGED vars
    BY <2>1 DEF vars, IInv, Typed, Mode
  <2>2. CASE Publish
    BY <2>2, PublishSound
  <2>3. CASE AClose
    BY <2>3, ACloseSound
  <2>4. ASSUME NEW s \in Subs, Subscribe(s) \/ Consume(s) \/ Disturb(s) PROVE IInv'
    BY <2>4, SubscribeSound, MoveSound, GetSound, LeaveSound DEF Consume, Disturb
  <2> QED  BY <2>1, <2>2, <2>3, <2>4 DEF Next
<1> QED  BY <1>1, InitSound, PTL DEF Safety

\* The variables keep their types, and the queue bound holds for every subscription
\* although nobody waits to put.
THEOREM TypeCorrect == Safety => []TypeOK
<1>1. IInv => TypeOK
  BY DEF IInv, Typed, Sound, TypeOK
<1> QED  BY <1>1, Soundness, PTL

\* The bus fans out to open subscriptions only, and to none once it is closed.
THEOREM FanOutOpen == Safety => []RegisteredOpen
<1>1. IInv => RegisteredOpen
  <2> SUFFICES ASSUME IInv PROVE RegisteredOpen
    OBVIOUS
  <2>1. ASSUME NEW s \in registered PROVE ~closed[s] /\ iter[s] \notin {"unused", "done"}
    <3>1. s \in Subs /\ ~closed[s] /\ Mode(s) = "open"
      BY <2>1 DEF IInv, Typed, Mode
    <3> QED  BY <3>1 DEF IInv, Sound
  <2>2. ASSUME NEW s \in Subs, iter[s] \in Following, ~closed[s] PROVE s \in registered
    <3>1. Sound(queue[s], Mode(s), iter[s], seen[s], published) /\ iter[s] # "unused"
      BY <2>2 DEF IInv, Following
    <3>2. Mode(s) # "none"
      BY <3>1 DEF Sound
    <3> QED  BY <3>2, <2>2 DEF Mode
  <2> QED  BY <2>1, <2>2 DEF RegisteredOpen, IInv
<1> QED  BY <1>1, Soundness, PTL

\* The sentinel is last in its queue, and only a closed subscription has it.
THEOREM SentinelEnds == Safety => []SentinelLast
<1>1. IInv => SentinelLast
  <2> SUFFICES ASSUME IInv, NEW s \in Subs, NEW i \in 1..Len(queue[s]),
                      queue[s][i] = Sentinel
               PROVE  closed[s] /\ i = Len(queue[s])
    BY DEF SentinelLast
  <2>1. Marked(queue[s], Mode(s))
    BY DEF IInv, Sound
  <2>2. Mode(s) = "closed" /\ i = Len(queue[s])
    BY <2>1 DEF Marked
  <2> QED  BY <2>2 DEF Mode
<1> QED  BY <1>1, Soundness, PTL

\* Whatever the queue held when it was closed, the sentinel got in: a consumer
\* that still iterates a closed subscription is bound to be woken.
THEOREM Wakes == Safety => []WakeUpPending
<1>1. IInv => WakeUpPending
  <2> SUFFICES ASSUME IInv, NEW s \in Subs, closed[s], iter[s] \in Following
               PROVE  queue[s] # <<>> /\ queue[s][Len(queue[s])] = Sentinel
    BY DEF WakeUpPending
  <2>1. Mode(s) = "closed"
    BY DEF Mode
  <2>2. WakesUp(queue[s])
    BY <2>1 DEF IInv, Sound
  <2> QED  BY <2>2 DEF WakesUp
<1> QED  BY <1>1, Soundness, PTL

\* All of it: a subscription is fed only while it is open, and able to end.
THEOREM SubscriptionsSound == Safety => []SubscriptionSound
<1>1. RegisteredOpen /\ SentinelLast /\ WakeUpPending => SubscriptionSound
  BY DEF SubscriptionSound
<1> QED  BY <1>1, FanOutOpen, SentinelEnds, Wakes, PTL

\* What is queued for an open subscription is the latest events, gapless.
THEOREM NewestKept == Safety => []PendingIsLatest
<1>1. IInv => PendingIsLatest
  <2> SUFFICES ASSUME IInv, NEW s \in Subs, s \in registered
               PROVE  Latest(queue[s], seen[s], published)
    BY DEF PendingIsLatest, Latest
  <2>1. Mode(s) = "open"
    BY DEF IInv, Mode
  <2> QED  BY <2>1 DEF IInv, Sound
<1> QED  BY <1>1, Soundness, PTL

\* The bus implements the ordered feed: what a consumer receives is new to it,
\* was published, and comes in order, whatever was dropped on the way.
THEOREM ImplementsFeed == Safety => FeedSafety
<1> DEFINE standing == [s \in Subs |-> Standing(s)]
<1>1. Init => Feed!Init
  BY DEF Init, Feed!Init, Standing, Following
<1>2. IInv /\ [Next]_vars => [Feed!Next]_<<published, seen, standing>>
  <2> SUFFICES ASSUME IInv, [Next]_vars
               PROVE  [Feed!Next]_<<published, seen, standing>>
    OBVIOUS
  <2> USE DEF Feed!Next
  <2>1. CASE UNCHANGED vars
    BY <2>1 DEF vars, Standing
  <2>2. CASE Publish
    <3>1. standing' = standing
      BY <2>2 DEF Publish, Standing
    <3> QED  BY <2>2, <3>1 DEF Publish, Feed!Emit
  <2>3. CASE AClose
    <3>1. standing' = standing
      BY <2>3 DEF AClose, Standing
    <3> QED  BY <2>3, <3>1 DEF AClose
  <2>4. ASSUME NEW s \in Subs, Subscribe(s)
        PROVE  [Feed!Next]_<<published, seen, standing>>
    <3>1. standing[s] = "none" /\ standing' = [standing EXCEPT ![s] = "on"]
      BY <2>4 DEF Subscribe, Standing, Following, IInv, Typed
    <3>2. Feed!Join(s)
      BY <2>4, <3>1 DEF Subscribe, Feed!Join
    <3> QED  BY <3>2
  <2>5. ASSUME NEW s \in Subs, Start(s) \/ Resume(s)
        PROVE  [Feed!Next]_<<published, seen, standing>>
    <3>1. standing' = standing
      BY <2>5 DEF Start, Resume, Standing, Following, IInv, Typed
    <3> QED  BY <2>5, <3>1 DEF Start, Resume
  <2>6. ASSUME NEW s \in Subs, Get(s)
        PROVE  [Feed!Next]_<<published, seen, standing>>
    <3>1. standing[s] = "on" /\ standing' = standing
      BY <2>6 DEF Get, Standing, Following, IInv, Typed
    <3>2. Head(queue[s]) \in (seen[s] + 1)..published
      <4>1. /\ Rising(queue[s], seen[s], published) /\ 1 \in 1..Len(queue[s])
            /\ Head(queue[s]) = queue[s][1] /\ queue[s][1] \in Nat
            /\ seen[s] \in Nat /\ published \in Nat /\ queue[s][1] # Sentinel
        BY <2>6 DEF Get, IInv, Sound, Typed
      <4>2. seen[s] < queue[s][1] /\ queue[s][1] <= published
        BY <4>1 DEF Rising
      <4> QED  BY <4>1, <4>2
    <3>3. Feed!Deliver(s)
      BY <2>6, <3>1, <3>2 DEF Get, Feed!Deliver
    <3> QED  BY <3>3
  <2>7. ASSUME NEW s \in Subs, Finish(s) \/ Cancel(s) \/ Abandon(s) \/ Leak(s)
        PROVE  [Feed!Next]_<<published, seen, standing>>
    <3>1. standing[s] = "on" /\ standing' = [standing EXCEPT ![s] = "off"]
      BY <2>7 DEF Finish, Cancel, Abandon, Leak, Finally, Standing, Following, IInv, Typed
    <3>2. Feed!Leave(s)
      BY <2>7, <3>1 DEF Finish, Cancel, Abandon, Leak, Finally, Feed!Leave
    <3> QED  BY <3>2
  <2>8. ASSUME NEW s \in Subs, Finalise(s)
        PROVE  [Feed!Next]_<<published, seen, standing>>
    <3>1. standing' = standing
      BY <2>8 DEF Finalise, Finally, Standing, Following, IInv, Typed
    <3> QED  BY <2>8, <3>1 DEF Finalise, Finally
  <2> QED  BY <2>1, <2>2, <2>3, <2>4, <2>5, <2>6, <2>7, <2>8 DEF Next, Consume, Disturb
<1> QED  BY <1>1, <1>2, Soundness, PTL DEF Safety, FeedSafety, Feed!Safety, Feed!feedVars

-----------------------------------------------------------------------------
(* Least numbers *)

\* A set of numbers that is not empty has a least one.
LEMMA Least ==
  ASSUME NEW T \in SUBSET Nat, T # {}
  PROVE  \E n \in T : \A m \in T : n <= m
<1> DEFINE less == OpToRel(<, Nat)
<1>1. IsWellFoundedOn(less, Nat)
  BY NatLessThanWellFounded
<1> HIDE DEF less
<1>2. \E n \in T : \A m \in T : ~(<<m, n>> \in less)
  BY <1>1, WFMin
<1>3. \A m, n \in Nat : m < n => <<m, n>> \in less
  BY DEF less, OpToRel
<1>4. PICK n \in T : \A m \in T : ~(<<m, n>> \in less)
  BY <1>2
<1>5. \A m \in T : ~(m < n)
  BY <1>3, <1>4
<1>6. \A m \in T : n <= m
  BY <1>5
<1> QED  BY <1>6

-----------------------------------------------------------------------------
(* The runtime and its snapshot *)

\* The fields of the snapshot that events are about.
Fields == {"user", "assistant", "speaking", "wake", "task"}

Utterances == {"none", "typed", "spoken", "rejected", "reply"}

\* What they can say.
Stores ==
  [user : Utterances, assistant : Utterances, speaking : BOOLEAN, wake : {"on", "off"},
   task : {"none", "queued", "running", "done"}]

\* What a queue holds.
Items == Runtime!Events \cup {Runtime!End}

\* An item of the queue that is about a field of the snapshot.
About(e, f) == e # Runtime!End /\ Runtime!Field(e) = f

\* _store_updater handles one item.
Taking(s, e) == IF e = Runtime!End THEN s ELSE Runtime!Update(s, e)

\* What an event is made of.
LEMMA Kinded ==
  ASSUME NEW e \in Runtime!Events
  PROVE  /\ e # Runtime!End
         /\ \/ e.kind \in {"typed", "spoken", "rejected", "reply"} /\ e.text \in Utterances
            \/ e.kind \in {"tts_started", "tts_ended", "wake",
                           "task_submitted", "task_updated", "task_completed"}
            \/ e.kind = "config" /\ e.wake \in {"on", "off"}
<1>1. CASE e \in Runtime!Texts
  <2>1. PICK k \in {"typed", "spoken", "rejected", "reply"} : e = [kind |-> k, text |-> k]
    BY <1>1 DEF Runtime!Texts
  <2>2. e.kind = k /\ e.text = k /\ Runtime!End.kind = "end"
    BY <2>1 DEF Runtime!End
  <2>3. e # Runtime!End
    BY <2>2
  <2>4. k \in Utterances
    BY DEF Utterances
  <2> QED  BY <2>2, <2>3, <2>4
<1>2. CASE e \in Runtime!Others
  BY <1>2 DEF Runtime!Others, Runtime!End
<1>3. CASE e \in Runtime!Configs
  BY <1>3 DEF Runtime!Configs, Runtime!End
<1> QED  BY <1>1, <1>2, <1>3 DEF Runtime!Events

\* An event is about a field of the snapshot, or about none.
LEMMA Fielded ==
  ASSUME NEW e \in Runtime!Events, Runtime!Field(e) # "none"
  PROVE  Runtime!Field(e) \in Fields
BY Kinded DEF Runtime!Field, Fields

\* An event changes the field it is about, to what it says.
LEMMA Updates ==
  ASSUME NEW s \in Stores, NEW e \in Runtime!Events
  PROVE  /\ Runtime!Update(s, e) \in Stores
         /\ \A f \in Fields : Runtime!Update(s, e)[f] = IF f = Runtime!Field(e) THEN Runtime!Says(e) ELSE s[f]
<1>1. CASE e.kind \in {"typed", "spoken"}
  <2>1. /\ Runtime!Update(s, e) = [s EXCEPT !.user = e.text]
        /\ Runtime!Field(e) = "user" /\ Runtime!Says(e) = e.text
    BY <1>1 DEF Runtime!Update, Runtime!Field, Runtime!Says
  <2>2. e.text \in Utterances
    BY <1>1, Kinded
  <2>3. /\ [s EXCEPT !.user = e.text] \in Stores
        /\ \A f \in Fields : [s EXCEPT !.user = e.text][f] = IF f = "user" THEN e.text ELSE s[f]
    BY <2>2 DEF Stores, Fields
  <2> QED  BY <2>1, <2>3
<1>2. CASE e.kind = "reply"
  <2>1. /\ Runtime!Update(s, e) = [s EXCEPT !.assistant = e.text]
        /\ Runtime!Field(e) = "assistant" /\ Runtime!Says(e) = e.text
    BY <1>2 DEF Runtime!Update, Runtime!Field, Runtime!Says
  <2>2. e.text \in Utterances
    BY <1>2, Kinded
  <2>3. /\ [s EXCEPT !.assistant = e.text] \in Stores
        /\ \A f \in Fields : [s EXCEPT !.assistant = e.text][f] = IF f = "assistant" THEN e.text ELSE s[f]
    BY <2>2 DEF Stores, Fields
  <2> QED  BY <2>1, <2>3
<1>3. CASE e.kind = "tts_started"
  <2>1. /\ Runtime!Update(s, e) = [s EXCEPT !.speaking = TRUE]
        /\ Runtime!Field(e) = "speaking" /\ Runtime!Says(e) = TRUE
    BY <1>3 DEF Runtime!Update, Runtime!Field, Runtime!Says
  <2>2. TRUE \in BOOLEAN
    BY <1>3, Kinded DEF Utterances
  <2>3. /\ [s EXCEPT !.speaking = TRUE] \in Stores
        /\ \A f \in Fields : [s EXCEPT !.speaking = TRUE][f] = IF f = "speaking" THEN TRUE ELSE s[f]
    BY <2>2 DEF Stores, Fields
  <2> QED  BY <2>1, <2>3
<1>4. CASE e.kind = "tts_ended"
  <2>1. /\ Runtime!Update(s, e) = [s EXCEPT !.speaking = FALSE]
        /\ Runtime!Field(e) = "speaking" /\ Runtime!Says(e) = FALSE
    BY <1>4 DEF Runtime!Update, Runtime!Field, Runtime!Says
  <2>2. FALSE \in BOOLEAN
    BY <1>4, Kinded DEF Utterances
  <2>3. /\ [s EXCEPT !.speaking = FALSE] \in Stores
        /\ \A f \in Fields : [s EXCEPT !.speaking = FALSE][f] = IF f = "speaking" THEN FALSE ELSE s[f]
    BY <2>2 DEF Stores, Fields
  <2> QED  BY <2>1, <2>3
<1>5. CASE e.kind = "wake"
  <2>1. /\ Runtime!Update(s, e) = [s EXCEPT !.wake = "on"]
        /\ Runtime!Field(e) = "wake" /\ Runtime!Says(e) = "on"
    BY <1>5 DEF Runtime!Update, Runtime!Field, Runtime!Says
  <2>2. "on" \in {"on", "off"}
    BY <1>5, Kinded DEF Utterances
  <2>3. /\ [s EXCEPT !.wake = "on"] \in Stores
        /\ \A f \in Fields : [s EXCEPT !.wake = "on"][f] = IF f = "wake" THEN "on" ELSE s[f]
    BY <2>2 DEF Stores, Fields
  <2> QED  BY <2>1, <2>3
<1>6. CASE e.kind = "task_submitted"
  <2>1. /\ Runtime!Update(s, e) = [s EXCEPT !.task = "queued"]
        /\ Runtime!Field(e) = "task" /\ Runtime!Says(e) = "queued"
    BY <1>6 DEF Runtime!Update, Runtime!Field, Runtime!Says
  <2>2. "queued" \in {"none", "queued", "running", "done"}
    BY <1>6, Kinded DEF Utterances
  <2>3. /\ [s EXCEPT !.task = "queued"] \in Stores
        /\ \A f \in Fields : [s EXCEPT !.task = "queued"][f] = IF f = "task" THEN "queued" ELSE s[f]
    BY <2>2 DEF Stores, Fields
  <2> QED  BY <2>1, <2>3
<1>7. CASE e.kind = "task_updated"
  <2>1. /\ Runtime!Update(s, e) = [s EXCEPT !.task = "running"]
        /\ Runtime!Field(e) = "task" /\ Runtime!Says(e) = "running"
    BY <1>7 DEF Runtime!Update, Runtime!Field, Runtime!Says
  <2>2. "running" \in {"none", "queued", "running", "done"}
    BY <1>7, Kinded DEF Utterances
  <2>3. /\ [s EXCEPT !.task = "running"] \in Stores
        /\ \A f \in Fields : [s EXCEPT !.task = "running"][f] = IF f = "task" THEN "running" ELSE s[f]
    BY <2>2 DEF Stores, Fields
  <2> QED  BY <2>1, <2>3
<1>8. CASE e.kind = "task_completed"
  <2>1. /\ Runtime!Update(s, e) = [s EXCEPT !.task = "done"]
        /\ Runtime!Field(e) = "task" /\ Runtime!Says(e) = "done"
    BY <1>8 DEF Runtime!Update, Runtime!Field, Runtime!Says
  <2>2. "done" \in {"none", "queued", "running", "done"}
    BY <1>8, Kinded DEF Utterances
  <2>3. /\ [s EXCEPT !.task = "done"] \in Stores
        /\ \A f \in Fields : [s EXCEPT !.task = "done"][f] = IF f = "task" THEN "done" ELSE s[f]
    BY <2>2 DEF Stores, Fields
  <2> QED  BY <2>1, <2>3
<1>9. CASE e.kind = "config"
  <2>1. /\ Runtime!Update(s, e) = [s EXCEPT !.wake = e.wake]
        /\ Runtime!Field(e) = "wake" /\ Runtime!Says(e) = e.wake
    BY <1>9 DEF Runtime!Update, Runtime!Field, Runtime!Says
  <2>2. e.wake \in {"on", "off"}
    BY <1>9, Kinded DEF Utterances
  <2>3. /\ [s EXCEPT !.wake = e.wake] \in Stores
        /\ \A f \in Fields : [s EXCEPT !.wake = e.wake][f] = IF f = "wake" THEN e.wake ELSE s[f]
    BY <2>2 DEF Stores, Fields
  <2> QED  BY <2>1, <2>3
<1>10. CASE e.kind = "rejected"
  <2>1. Runtime!Update(s, e) = s /\ Runtime!Field(e) = "none"
    BY <1>10 DEF Runtime!Update, Runtime!Field
  <2> QED  BY <2>1 DEF Fields
<1> QED  BY <1>1, <1>2, <1>3, <1>4, <1>5, <1>6, <1>7, <1>8, <1>9, <1>10, Kinded

\* The fold over a queue is a function that satisfies its equations.
LEMMA Folds ==
  ASSUME NEW s, NEW q \in Seq(Items)
  PROVE  \E g : /\ g = [i \in 0..Len(q) |-> IF i = 0 THEN s
                          ELSE IF q[i] = Runtime!End THEN g[i - 1] ELSE Runtime!Update(g[i - 1], q[i])]
                /\ Runtime!Folded(s, q) = g[Len(q)]
<1> DEFINE Is(g, l) == g = [i \in 0..l |-> IF i = 0 THEN s
                              ELSE IF q[i] = Runtime!End THEN g[i - 1] ELSE Runtime!Update(g[i - 1], q[i])]
           T == {l \in 0..Len(q) : ~ \E g : Is(g, l)}
<1>0. Len(q) \in Nat
  OBVIOUS
<1>1. ASSUME T # {} PROVE FALSE
  <2>1. T \in SUBSET Nat
    BY <1>0
  <2>2. PICK l \in T : \A m \in T : l <= m
    BY <1>1, <2>1, Least
  <2>3. l # 0
    <3> DEFINE g == [i \in 0..0 |-> s]
    <3>1. Is(g, 0)
      OBVIOUS
    <3> QED  BY <3>1, <2>2
  <2>4. l - 1 \in 0..Len(q) /\ l \in Nat /\ ~(l <= l - 1)
    BY <1>0, <2>2, <2>3
  <2>5. PICK g : Is(g, l - 1)
    BY <2>2, <2>4
  <2> DEFINE h == [i \in 0..l |-> IF i = l THEN Taking(g[l - 1], q[l]) ELSE g[i]]
  <2>6. \A i \in 0..l : h[i] = IF i = 0 THEN s
              ELSE IF q[i] = Runtime!End THEN h[i - 1] ELSE Runtime!Update(h[i - 1], q[i])
    <3> SUFFICES ASSUME NEW i \in 0..l
                 PROVE  h[i] = IF i = 0 THEN s
                    ELSE IF q[i] = Runtime!End THEN h[i - 1] ELSE Runtime!Update(h[i - 1], q[i])
      OBVIOUS
    <3>1. CASE i = l
      <4>1. h[i] = Taking(g[l - 1], q[l])
        BY <2>4, <3>1
      <4>2. i # 0 /\ h[i - 1] = g[l - 1]
        BY <2>3, <2>4, <3>1
      <4> QED  BY <3>1, <4>1, <4>2 DEF Taking
    <3>2. CASE i # l /\ i # 0
      <4>1. i \in 0..(l - 1) /\ i - 1 \in 0..(l - 1) /\ i - 1 \in 0..l /\ i - 1 # l
        BY <2>4, <3>2
      <4>2. h[i] = g[i] /\ h[i - 1] = g[i - 1]
        BY <3>2, <4>1
      <4>3. g[i] = IF q[i] = Runtime!End THEN g[i - 1] ELSE Runtime!Update(g[i - 1], q[i])
        BY <2>5, <3>2, <4>1
      <4> QED  BY <3>2, <4>2, <4>3
    <3>3. CASE i # l /\ i = 0
      <4>1. 0 \in 0..(l - 1)
        BY <2>3, <2>4
      <4>2. g[0] = s
        BY <2>5, <4>1
      <4> QED  BY <3>3, <4>2
    <3> QED  BY <3>1, <3>2, <3>3
  <2>7. h = [i \in 0..l |-> h[i]]
    OBVIOUS
  <2> HIDE DEF h
  <2>8. Is(h, l)
    BY <2>6, <2>7
  <2> QED  BY <2>2, <2>8
<1>2. \E g : Is(g, Len(q))
  <2>1. Len(q) \in 0..Len(q)
    BY <1>0
  <2> QED  BY <1>1, <2>1
<1> DEFINE fold == CHOOSE g : Is(g, Len(q))
<1>3. Is(fold, Len(q))
  BY <1>2, Zenon
<1>4. Runtime!Folded(s, q) = fold[Len(q)]
  BY Zenon DEF Runtime!Folded
<1> QED  BY <1>3, <1>4, Zenon

\* The fold says of a field what the last item about it says.
LEMMA FoldSays ==
  ASSUME NEW s \in Stores, NEW q \in Seq(Items)
  PROVE  /\ Runtime!Folded(s, q) \in Stores
         /\ \A f \in Fields :
              (\A k \in 1..Len(q) : ~About(q[k], f)) => Runtime!Folded(s, q)[f] = s[f]
         /\ \A f \in Fields, k \in 1..Len(q) :
              About(q[k], f) /\ (\A j \in (k + 1)..Len(q) : ~About(q[j], f))
                => Runtime!Folded(s, q)[f] = Runtime!Says(q[k])
<1>1. PICK g : /\ g = [i \in 0..Len(q) |-> IF i = 0 THEN s
                         ELSE IF q[i] = Runtime!End THEN g[i - 1] ELSE Runtime!Update(g[i - 1], q[i])]
               /\ Runtime!Folded(s, q) = g[Len(q)]
  BY Folds
<1> DEFINE R(l) ==
             /\ g[l] \in Stores
             /\ \A f \in Fields : (\A k \in 1..l : ~About(q[k], f)) => g[l][f] = s[f]
             /\ \A f \in Fields, k \in 1..l :
                  About(q[k], f) /\ (\A j \in (k + 1)..l : ~About(q[j], f)) => g[l][f] = Runtime!Says(q[k])
           T == {l \in 0..Len(q) : ~R(l)}
<1>0. Len(q) \in Nat
  OBVIOUS
<1>2. g[0] = s /\ \A l \in 1..Len(q) : g[l] = Taking(g[l - 1], q[l])
  BY <1>0, <1>1 DEF Taking
<1>3. R(0)
  BY <1>2
<1>4. ASSUME NEW l \in 1..Len(q), R(l - 1) PROVE R(l)
  <2>0. l \in Nat /\ l # 0 /\ q[l] \in Items /\ l - 1 \in Nat /\ \A i \in 1..l : i = l \/ i \in 1..(l - 1)
    BY <1>0
  <2>1. /\ g[l] \in Stores
        /\ \A f \in Fields : g[l][f] = IF About(q[l], f) THEN Runtime!Says(q[l]) ELSE g[l - 1][f]
    <3>1. CASE q[l] = Runtime!End
      BY <1>2, <1>4, <3>1 DEF Taking, About
    <3>2. CASE q[l] # Runtime!End
      <4>1. q[l] \in Runtime!Events
        BY <2>0, <3>2 DEF Items
      <4>2. g[l] = Runtime!Update(g[l - 1], q[l])
        BY <1>2, <3>2 DEF Taking
      <4>3. \A f \in Fields : About(q[l], f) <=> f = Runtime!Field(q[l])
        BY <3>2 DEF About
      <4> QED  BY <1>4, <4>1, <4>2, <4>3, Updates
    <3> QED  BY <3>1, <3>2
  <2>2. ASSUME NEW f \in Fields, \A k \in 1..l : ~About(q[k], f) PROVE g[l][f] = s[f]
    <3>1. ~About(q[l], f) /\ \A k \in 1..(l - 1) : ~About(q[k], f)
      BY <2>0, <2>2
    <3> QED  BY <1>4, <2>1, <3>1
  <2>3. ASSUME NEW f \in Fields, NEW k \in 1..l, About(q[k], f),
               \A j \in (k + 1)..l : ~About(q[j], f)
        PROVE  g[l][f] = Runtime!Says(q[k])
    <3>1. CASE k = l
      BY <2>1, <2>3, <3>1
    <3>2. CASE k # l
      <4>1. k \in 1..(l - 1) /\ l \in (k + 1)..l /\ \A j \in (k + 1)..(l - 1) : j \in (k + 1)..l
        BY <2>0, <3>2
      <4>2. ~About(q[l], f) /\ \A j \in (k + 1)..(l - 1) : ~About(q[j], f)
        BY <2>3, <4>1
      <4> QED  BY <1>4, <2>1, <2>3, <4>1, <4>2
    <3> QED  BY <3>1, <3>2
  <2> QED  BY <2>1, <2>2, <2>3
<1>5. ASSUME T # {} PROVE FALSE
  <2>1. T \in SUBSET Nat
    BY <1>0
  <2> HIDE DEF R
  <2>2. PICK l \in T : \A m \in T : l <= m
    BY <1>5, <2>1, Least
  <2>3. l \in 0..Len(q) /\ ~R(l)
    BY <2>2
  <2>4. l # 0
    BY <1>3, <2>3
  <2>5. l \in 1..Len(q) /\ l - 1 \in 0..Len(q) /\ ~(l <= l - 1)
    BY <1>0, <2>3, <2>4
  <2>6. R(l - 1)
    BY <2>2, <2>5
  <2> QED  BY <1>4, <2>3, <2>5, <2>6
<1>6. R(Len(q))
  <2> HIDE DEF R
  <2>1. Len(q) \in 0..Len(q)
    BY <1>0
  <2> QED  BY <1>5, <2>1
<1>7. Runtime!Folded(s, q) = g[Len(q)]
  BY <1>1
<1> QED  BY <1>6, <1>7

-----------------------------------------------------------------------------
\* What waits are the events published last.
Suffix(q, es) == Len(q) <= Len(es) /\ \A i \in 1..Len(q) : q[i] = es[Len(es) - Len(q) + i]

\* What a snapshot says when all but what waits was folded into it, of the events that a queue could
\* still hold.
Shown(s, es, q) ==
  \A i \in 1..(Len(es) - Len(q)), f \in Fields :
    (/\ i > Len(es) - StoreQueue
     /\ About(es[i], f)
     /\ \A j \in (i + 1)..(Len(es) - Len(q)) : ~About(es[j], f))
    => s[f] = Runtime!Says(es[i])

\* What is assumed of the bounds.
LEMMA StoreBounds == StoreQueue \in Nat \ {0} /\ StoreQueue >= 1
BY BesideAssumption DEF Runtime!RuntimeBounds

\* Putting an item into a queue that may be full.
LEMMA Puts ==
  ASSUME NEW q \in Seq(Items), Len(q) <= StoreQueue, NEW x \in Items
  PROVE  /\ Runtime!Put(q, x) \in Seq(Items)
         /\ Len(Runtime!Put(q, x)) = IF Len(q) < StoreQueue THEN Len(q) + 1 ELSE Len(q)
         /\ Runtime!Put(q, x)[Len(Runtime!Put(q, x))] = x
         /\ \A i \in 1..(Len(Runtime!Put(q, x)) - 1) :
              Runtime!Put(q, x)[i] = IF Len(q) < StoreQueue THEN q[i] ELSE q[i + 1]
<1> DEFINE t == IF Len(q) < StoreQueue THEN q ELSE Tail(q)
           p == Append(t, x)
<1>0. Len(q) \in Nat
  OBVIOUS
<1>1. /\ t \in Seq(Items) /\ Len(t) = IF Len(q) < StoreQueue THEN Len(q) ELSE Len(q) - 1
      /\ \A i \in 1..Len(t) : t[i] = IF Len(q) < StoreQueue THEN q[i] ELSE q[i + 1]
  <2>1. CASE Len(q) < StoreQueue
    BY <2>1
  <2>2. CASE ~(Len(q) < StoreQueue)
    <3>1. q # <<>>
      BY <2>2, StoreBounds
    <3> QED  BY <2>2, <3>1, HeadTailProperties
  <2> QED  BY <2>1, <2>2
<1> HIDE DEF t
<1>2. Len(t) \in Nat
  BY <1>1
<1>3. /\ p \in Seq(Items) /\ Len(p) = Len(t) + 1 /\ p[Len(t) + 1] = x
      /\ \A i \in 1..Len(t) : p[i] = t[i]
  BY <1>1, AppendProperties
<1>4. Runtime!Put(q, x) = p
  BY DEF Runtime!Put, t
<1> HIDE DEF p
<1>5. Len(p) - 1 = Len(t) /\ Len(p) = IF Len(q) < StoreQueue THEN Len(q) + 1 ELSE Len(q)
  BY <1>0, <1>1, <1>2, <1>3
<1>6. \A i \in 1..(Len(p) - 1) : p[i] = IF Len(q) < StoreQueue THEN q[i] ELSE q[i + 1]
  BY <1>1, <1>3, <1>5
<1> QED  BY <1>3, <1>4, <1>5, <1>6

\* An event is published.
LEMMA Offers ==
  ASSUME NEW q \in Seq(Items), Len(q) <= StoreQueue, NEW es \in Seq(Runtime!Events),
         NEW s \in Stores, NEW e \in Runtime!Events, Suffix(q, es), Shown(s, es, q)
  PROVE  /\ Suffix(Runtime!Put(q, e), Append(es, e))
         /\ Shown(s, Append(es, e), Runtime!Put(q, e))
<1> DEFINE p == Runtime!Put(q, e)
           fs == Append(es, e)
           n == Len(es)
           m == Len(q)
<1>0. n \in Nat /\ m \in Nat /\ m <= n /\ m <= StoreQueue /\ StoreQueue \in Nat \ {0} /\ e \in Items
  BY StoreBounds DEF Suffix, Items
<1>1. /\ fs \in Seq(Runtime!Events) /\ Len(fs) = n + 1 /\ fs[n + 1] = e
      /\ \A i \in 1..n : fs[i] = es[i]
  BY AppendProperties
<1>2. /\ Len(p) = IF m < StoreQueue THEN m + 1 ELSE m
      /\ p[Len(p)] = e
      /\ \A i \in 1..(Len(p) - 1) : p[i] = IF m < StoreQueue THEN q[i] ELSE q[i + 1]
  BY <1>0, Puts
<1>3. \A i \in 1..m : q[i] = es[n - m + i]
  BY DEF Suffix
<1> HIDE DEF p, fs, n, m
<1>4. Len(p) \in Nat /\ Len(p) <= n + 1 /\ Len(p) >= 1
  BY <1>0, <1>2
<1>5. ASSUME NEW i \in 1..Len(p) PROVE p[i] = fs[Len(fs) - Len(p) + i]
  <2>1. CASE i = Len(p)
    <3>1. Len(fs) - Len(p) + i = n + 1
      BY <1>1, <1>4, <1>0, <2>1
    <3> QED  BY <1>1, <1>2, <2>1, <3>1
  <2>2. CASE i # Len(p)
    <3>1. i \in 1..(Len(p) - 1) /\ i \in Nat /\ i >= 1
      BY <1>4, <2>2
    <3>2. CASE m < StoreQueue
      <4>1. Len(fs) - Len(p) + i = n - m + i /\ i \in 1..m /\ n - m + i \in 1..n
        BY <1>0, <1>1, <1>2, <3>1, <3>2
      <4>2. p[i] = q[i]
        BY <1>2, <3>1, <3>2
      <4>3. q[i] = es[n - m + i] /\ fs[n - m + i] = es[n - m + i]
        BY <1>1, <1>3, <4>1
      <4> QED  BY <4>1, <4>2, <4>3
    <3>3. CASE ~(m < StoreQueue)
      <4>0. Len(p) = m /\ i <= m - 1 /\ Len(fs) = n + 1
        BY <1>0, <1>1, <1>2, <3>1, <3>3
      <4>1. /\ Len(fs) - Len(p) + i = n - m + (i + 1) /\ i + 1 \in 1..m
            /\ n - m + (i + 1) \in 1..n
        BY <1>0, <3>1, <4>0
      <4>2. p[i] = q[i + 1]
        BY <1>2, <3>1, <3>3
      <4>3. q[i + 1] = es[n - m + (i + 1)] /\ fs[n - m + (i + 1)] = es[n - m + (i + 1)]
        BY <1>1, <1>3, <4>1
      <4> QED  BY <4>1, <4>2, <4>3
    <3> QED  BY <3>2, <3>3
  <2> QED  BY <2>1, <2>2
<1>6. Suffix(p, fs)
  BY <1>1, <1>4, <1>5 DEF Suffix
<1>7. Shown(s, fs, p)
  <2> SUFFICES ASSUME NEW i \in 1..(Len(fs) - Len(p)), NEW f \in Fields,
                      i > Len(fs) - StoreQueue, About(fs[i], f),
                      \A j \in (i + 1)..(Len(fs) - Len(p)) : ~About(fs[j], f)
               PROVE  s[f] = Runtime!Says(fs[i])
    BY DEF Shown
  <2>1. m < StoreQueue
    BY <1>0, <1>1, <1>2
  <2>2. Len(fs) - Len(p) = n - m /\ i \in 1..(n - m) /\ i > n - StoreQueue
    BY <1>0, <1>1, <1>2, <2>1
  <2>3. \A j \in 1..(n - m) : fs[j] = es[j]
    BY <1>0, <1>1
  <2>4. \A j \in (i + 1)..(n - m) : ~About(es[j], f)
    <3> SUFFICES ASSUME NEW j \in (i + 1)..(n - m) PROVE ~About(es[j], f)
      OBVIOUS
    <3>1. j \in 1..(n - m)
      BY <1>0, <2>2
    <3>2. ~About(fs[j], f)
      BY <2>2
    <3> QED  BY <2>3, <3>1, <3>2
  <2>5. s[f] = Runtime!Says(es[i])
    BY <2>2, <2>3, <2>4 DEF Shown, n, m
  <2> QED  BY <2>2, <2>3, <2>5
<1> QED  BY <1>6, <1>7 DEF p, fs

\* The updater takes all that waits.
LEMMA Catches ==
  ASSUME NEW q \in Seq(Items), Len(q) <= StoreQueue, NEW es \in Seq(Runtime!Events),
         NEW s \in Stores, Suffix(q, es), Shown(s, es, q)
  PROVE  Suffix(<<>>, es) /\ Shown(Runtime!Folded(s, q), es, <<>>)
<1> DEFINE n == Len(es)
           m == Len(q)
           t == Runtime!Folded(s, q)
<1>0. n \in Nat /\ m \in Nat /\ m <= n /\ Len(<<>>) = 0
  BY DEF Suffix
<1>1. \A i \in 1..m : q[i] = es[n - m + i]
  BY DEF Suffix
<1>2. /\ \A f \in Fields : (\A k \in 1..m : ~About(q[k], f)) => t[f] = s[f]
      /\ \A f \in Fields, k \in 1..m :
           About(q[k], f) /\ (\A j \in (k + 1)..m : ~About(q[j], f)) => t[f] = Runtime!Says(q[k])
  BY FoldSays
<1>3. \A i \in 1..(n - m), f \in Fields :
        (/\ i > n - StoreQueue /\ About(es[i], f)
         /\ \A j \in (i + 1)..(n - m) : ~About(es[j], f))
        => s[f] = Runtime!Says(es[i])
  BY DEF Shown
<1> HIDE DEF n, m, t
<1>4. ASSUME NEW i \in 1..n, NEW f \in Fields, i > n - StoreQueue, About(es[i], f),
             \A j \in (i + 1)..n : ~About(es[j], f)
      PROVE  t[f] = Runtime!Says(es[i])
  <2>1. CASE i <= n - m
    <3>1. i \in 1..(n - m) /\ \A j \in (i + 1)..(n - m) : j \in (i + 1)..n
      BY <1>0, <2>1
    <3>2. s[f] = Runtime!Says(es[i])
      BY <1>3, <1>4, <3>1
    <3>3. ASSUME NEW k \in 1..m PROVE ~About(q[k], f)
      <4>1. n - m + k \in (i + 1)..n
        BY <1>0, <2>1
      <4> QED  BY <1>1, <1>4, <4>1
    <3> QED  BY <1>2, <3>2, <3>3
  <2>2. CASE ~(i <= n - m)
    <3> DEFINE k == i - (n - m)
    <3>1. k \in 1..m /\ n - m + k = i
      BY <1>0, <2>2
    <3> HIDE DEF k
    <3>2. q[k] = es[i]
      BY <1>1, <3>1
    <3>3. ASSUME NEW j \in (k + 1)..m PROVE ~About(q[j], f)
      <4>1. j \in 1..m /\ n - m + j \in (i + 1)..n
        BY <1>0, <3>1
      <4> QED  BY <1>1, <1>4, <4>1
    <3> QED  BY <1>2, <1>4, <3>1, <3>2, <3>3
  <2> QED  BY <2>1, <2>2
<1>5. n - 0 = n
  BY <1>0
<1> QED  BY <1>0, <1>4, <1>5 DEF Suffix, Shown, n, t

-----------------------------------------------------------------------------
\* The updater's subscription is open.
Updating == storeConsumer["updater"] = "runs" /\ ~storeClosed

\* The inductive invariant.
StInv ==
  /\ Runtime!TypeOK
  /\ storeQueue \in [Runtime!Consumers -> Seq(Items)]
  /\ events \in Seq(Runtime!Events)
  /\ store \in Stores
  /\ stage # "idle" => started
  /\ stage \in {"closing", "cancelling"} => storeClosed /\ reloader = "none"
  /\ ~started =>
       /\ reloader = "none" /\ \A c \in Runtime!Consumers : storeConsumer[c] # "runs"
       /\ storeClosed \/ events = <<>>
  /\ (reloader # "none" /\ ~changed /\ ~missed /\ file # "broken") => current = file
  /\ Updating => /\ Suffix(storeQueue["updater"], events)
                 /\ Shown(store, events, storeQueue["updater"])

\* An event that is published, or that a closed bus drops.
LEMMA PublishKeeps ==
  ASSUME StInv, NEW e \in Runtime!Events, Runtime!PublishEvent(e),
         UNCHANGED <<started, storeClosed, storeConsumer, store>>
  PROVE  /\ storeQueue' \in [Runtime!Consumers -> Seq(Items)]
         /\ \A c \in Runtime!Consumers : Len(storeQueue'[c]) <= StoreQueue
         /\ events' \in Seq(Runtime!Events)
         /\ ~started => storeClosed \/ events' = <<>>
         /\ Updating => /\ Suffix(storeQueue'["updater"], events')
                        /\ Shown(store, events', storeQueue'["updater"])
<1>1. CASE storeClosed
  BY <1>1 DEF StInv, Runtime!TypeOK, Runtime!PublishEvent, Updating
<1>2. CASE ~storeClosed
  <2>1. /\ storeQueue' = [c \in Runtime!Consumers |-> IF storeConsumer[c] = "runs"
                            THEN Runtime!Put(storeQueue[c], e) ELSE storeQueue[c]]
        /\ events' = IF started THEN Append(events, e) ELSE events
    BY <1>2 DEF Runtime!PublishEvent
  <2>2. e \in Items
    BY DEF Items
  <2>3. \A c \in Runtime!Consumers :
          /\ storeQueue[c] \in Seq(Items) /\ Len(storeQueue[c]) <= StoreQueue
          /\ Runtime!Put(storeQueue[c], e) \in Seq(Items)
          /\ Len(Runtime!Put(storeQueue[c], e)) <= StoreQueue
    <3> SUFFICES ASSUME NEW c \in Runtime!Consumers
                 PROVE  /\ storeQueue[c] \in Seq(Items) /\ Len(storeQueue[c]) <= StoreQueue
                        /\ Runtime!Put(storeQueue[c], e) \in Seq(Items)
                        /\ Len(Runtime!Put(storeQueue[c], e)) <= StoreQueue
      OBVIOUS
    <3>1. storeQueue[c] \in Seq(Items) /\ Len(storeQueue[c]) <= StoreQueue /\ Len(storeQueue[c]) \in Nat
      BY DEF StInv, Runtime!TypeOK
    <3>2. /\ Runtime!Put(storeQueue[c], e) \in Seq(Items)
          /\ Len(Runtime!Put(storeQueue[c], e))
               = IF Len(storeQueue[c]) < StoreQueue THEN Len(storeQueue[c]) + 1 ELSE Len(storeQueue[c])
      BY <2>2, <3>1, Puts
    <3>3. StoreQueue \in Nat
      BY StoreBounds
    <3> QED  BY <3>1, <3>2, <3>3
  <2>4. storeQueue' \in [Runtime!Consumers -> Seq(Items)]
    BY <2>1, <2>3
  <2>5. \A c \in Runtime!Consumers : Len(storeQueue'[c]) <= StoreQueue
    BY <2>1, <2>3
  <2>6. events' \in Seq(Runtime!Events)
    BY <2>1 DEF StInv
  <2>7. ASSUME Updating
        PROVE  /\ Suffix(storeQueue'["updater"], events')
               /\ Shown(store, events', storeQueue'["updater"])
    <3>1. "updater" \in Runtime!Consumers
      BY DEF Runtime!Consumers
    <3>2. started /\ storeConsumer["updater"] = "runs"
      BY <2>7, <3>1 DEF Updating, StInv
    <3>3. storeQueue'["updater"] = Runtime!Put(storeQueue["updater"], e) /\ events' = Append(events, e)
      BY <2>1, <3>1, <3>2
    <3>4. /\ Suffix(storeQueue["updater"], events) /\ Shown(store, events, storeQueue["updater"])
          /\ store \in Stores /\ events \in Seq(Runtime!Events)
      BY <2>7 DEF StInv
    <3> QED  BY <2>3, <3>1, <3>3, <3>4, Offers
  <2>8. ~started => storeClosed \/ events' = <<>>
    BY <2>1 DEF StInv
  <2> QED  BY <2>4, <2>5, <2>6, <2>7, <2>8
<1> QED  BY <1>1, <1>2

\* The bus is closed: what was queued, and the end mark.
LEMMA CloseKeeps ==
  ASSUME StInv, Runtime!CloseBus
  PROVE  /\ storeQueue' \in [Runtime!Consumers -> Seq(Items)]
         /\ \A c \in Runtime!Consumers : Len(storeQueue'[c]) <= StoreQueue
         /\ storeClosed' /\ stage' \in {"closing", "cancelling"}
<1>1. \A c \in Runtime!Consumers :
        /\ storeQueue[c] \in Seq(Items) /\ Len(storeQueue[c]) <= StoreQueue
        /\ Runtime!Put(storeQueue[c], Runtime!End) \in Seq(Items)
        /\ Len(Runtime!Put(storeQueue[c], Runtime!End)) <= StoreQueue
  <2> SUFFICES ASSUME NEW c \in Runtime!Consumers
               PROVE  /\ storeQueue[c] \in Seq(Items) /\ Len(storeQueue[c]) <= StoreQueue
                      /\ Runtime!Put(storeQueue[c], Runtime!End) \in Seq(Items)
                      /\ Len(Runtime!Put(storeQueue[c], Runtime!End)) <= StoreQueue
    OBVIOUS
  <2>1. storeQueue[c] \in Seq(Items) /\ Len(storeQueue[c]) <= StoreQueue /\ Len(storeQueue[c]) \in Nat
    BY DEF StInv, Runtime!TypeOK
  <2>2. Runtime!End \in Items
    BY DEF Items
  <2>3. /\ Runtime!Put(storeQueue[c], Runtime!End) \in Seq(Items)
        /\ Len(Runtime!Put(storeQueue[c], Runtime!End))
             = IF Len(storeQueue[c]) < StoreQueue THEN Len(storeQueue[c]) + 1 ELSE Len(storeQueue[c])
    BY <2>1, <2>2, Puts
  <2>4. StoreQueue \in Nat
    BY StoreBounds
  <2> QED  BY <2>1, <2>3, <2>4
<1>2. storeQueue' = [c \in Runtime!Consumers |-> IF storeClosed \/ storeConsumer[c] # "runs"
                       THEN storeQueue[c] ELSE Runtime!Put(storeQueue[c], Runtime!End)]
  BY DEF Runtime!CloseBus
<1>3. storeQueue' \in [Runtime!Consumers -> Seq(Items)]
  BY <1>1, <1>2
<1>4. \A c \in Runtime!Consumers : Len(storeQueue'[c]) <= StoreQueue
  BY <1>1, <1>2
<1> QED  BY <1>3, <1>4 DEF Runtime!CloseBus

\* Every step of the runtime keeps the invariant.
LEMMA StoreStep ==
  ASSUME StInv, [Runtime!Next]_storeVars
  PROVE  StInv'
<1> USE DEF Items
<1>0. StoreQueue \in Nat \ {0} /\ StoreQueue >= 1 /\ "updater" \in Runtime!Consumers
  BY StoreBounds DEF Runtime!Consumers
<1>1. ASSUME NEW watch \in BOOLEAN, Runtime!Start(watch) PROVE StInv'
  <2>1. CASE started
    BY <1>1, <2>1 DEF Runtime!Start, StInv, Runtime!TypeOK, Updating, Suffix, Shown
  <2>2. CASE ~started
    <3>1. /\ started' /\ storeConsumer' = [c \in Runtime!Consumers |-> "runs"]
          /\ storeQueue' = [c \in Runtime!Consumers |-> IF storeClosed THEN <<Runtime!End>> ELSE <<>>]
          /\ reloader' = (IF watch THEN "new" ELSE "none")
          /\ ~changed' /\ current' = "off" /\ missed' = (file # "off")
          /\ UNCHANGED <<stopping, stage, storeClosed, store, file, events>>
      BY <1>1, <2>2 DEF Runtime!Start
    <3>2. /\ <<Runtime!End>> \in Seq(Items) /\ Len(<<Runtime!End>>) = 1
          /\ <<>> \in Seq(Items) /\ Len(<<>>) = 0
      OBVIOUS
    <3>3. storeQueue' \in [Runtime!Consumers -> Seq(Items)]
      BY <3>1, <3>2
    <3>4. \A c \in Runtime!Consumers : Len(storeQueue'[c]) <= StoreQueue
      BY <1>0, <3>1, <3>2
    <3>5. Updating' => Suffix(storeQueue["updater"], events)' /\ Shown(store, events, storeQueue["updater"])'
      <4> SUFFICES ASSUME ~storeClosed
                   PROVE  Suffix(storeQueue["updater"], events)' /\ Shown(store, events, storeQueue["updater"])'
        BY <3>1 DEF Updating
      <4>1. storeQueue'["updater"] = <<>> /\ events' = <<>>
        BY <1>0, <2>2, <3>1 DEF StInv
      <4> QED  BY <4>1, <3>2 DEF Suffix, Shown
    <3>6. stage = "idle"
      BY <2>2 DEF StInv, Runtime!TypeOK
    <3>8. /\ storeConsumer' \in [Runtime!Consumers -> {"none", "runs", "ended"}]
          /\ reloader' \in {"none", "new", "watches"} /\ missed' \in BOOLEAN
          /\ started' = TRUE /\ changed' = FALSE
      BY <1>1, <2>2, <3>1 DEF Runtime!Start
    <3>7. Runtime!TypeOK'
      BY <3>1, <3>3, <3>4, <3>8 DEF StInv, Runtime!TypeOK
    <3> QED  BY <3>1, <3>3, <3>5, <3>6, <3>7 DEF StInv
  <2> QED  BY <2>1, <2>2
<1>2. ASSUME NEW e \in Runtime!Events, Runtime!PublishEvent(e),
             UNCHANGED <<started, stopping, stage, storeClosed, storeConsumer, store, reloader, file>>,
             missed' \in BOOLEAN, changed' \in BOOLEAN, current' \in {"on", "off", "broken"},
             (reloader # "none" /\ ~changed' /\ ~missed' /\ file # "broken") => current' = file
      PROVE  StInv'
  <2>1. /\ storeQueue' \in [Runtime!Consumers -> Seq(Items)]
        /\ \A c \in Runtime!Consumers : Len(storeQueue'[c]) <= StoreQueue
        /\ events' \in Seq(Runtime!Events)
        /\ ~started => storeClosed \/ events' = <<>>
        /\ Updating => /\ Suffix(storeQueue'["updater"], events')
                       /\ Shown(store, events', storeQueue'["updater"])
    BY <1>2, PublishKeeps
  <2>2. Runtime!TypeOK'
    BY <1>2, <2>1 DEF StInv, Runtime!TypeOK
  <2>3. Updating' => Suffix(storeQueue["updater"], events)' /\ Shown(store, events, storeQueue["updater"])'
    BY <1>2, <2>1 DEF Updating, Suffix, Shown
  <2> QED  BY <1>2, <2>1, <2>2, <2>3 DEF StInv
<1>3. ASSUME NEW e \in Runtime!Texts \cup Runtime!Others, Runtime!Publish(e) PROVE StInv'
  <2>1. e \in Runtime!Events
    BY DEF Runtime!Events
  <2>2. /\ missed' \in BOOLEAN /\ changed' \in BOOLEAN /\ current' \in {"on", "off", "broken"}
        /\ (reloader # "none" /\ ~changed' /\ ~missed' /\ file # "broken") => current' = file
    BY <1>3 DEF Runtime!Publish, StInv, Runtime!TypeOK
  <2> QED  BY <1>2, <1>3, <2>1, <2>2 DEF Runtime!Publish
<1>4. ASSUME NEW c \in Runtime!Consumers, Runtime!Consume(c) PROVE StInv'
  <2>1. /\ storeQueue' = [storeQueue EXCEPT ![c] = <<>>]
        /\ storeConsumer[c] = "runs"
        /\ storeConsumer' = [storeConsumer EXCEPT ![c] =
              IF storeQueue[c][Len(storeQueue[c])] = Runtime!End THEN "ended" ELSE @]
        /\ store' = IF c = "updater" THEN Runtime!Folded(store, storeQueue[c]) ELSE store
        /\ UNCHANGED <<started, stopping, stage, storeClosed, reloader, file, current, changed, events,
                       missed, starts, edits>>
    BY <1>4 DEF Runtime!Consume
  <2>2. storeQueue[c] \in Seq(Items) /\ store \in Stores /\ <<>> \in Seq(Items) /\ Len(<<>>) = 0
    BY DEF StInv
  <2>3. store' \in Stores
    BY <2>1, <2>2, FoldSays
  <2>4. storeQueue' \in [Runtime!Consumers -> Seq(Items)]
    BY <2>1, <2>2 DEF StInv
  <2>5. \A d \in Runtime!Consumers : Len(storeQueue'[d]) <= StoreQueue
    BY <1>0, <2>1, <2>2 DEF StInv, Runtime!TypeOK
  <2>6. storeConsumer' \in [Runtime!Consumers -> {"none", "runs", "ended"}]
    BY <2>1 DEF StInv, Runtime!TypeOK
  <2>7. Runtime!TypeOK'
    BY <2>1, <2>4, <2>5, <2>6 DEF StInv, Runtime!TypeOK
  <2>8. \A d \in Runtime!Consumers : storeConsumer'[d] = "runs" => storeConsumer[d] = "runs"
    BY <2>1 DEF StInv, Runtime!TypeOK
  <2>9. ASSUME Updating'
        PROVE  Suffix(storeQueue["updater"], events)' /\ Shown(store, events, storeQueue["updater"])'
    <3>1. Updating
      BY <1>0, <2>1, <2>8, <2>9 DEF Updating
    <3>2. /\ Suffix(storeQueue["updater"], events) /\ Shown(store, events, storeQueue["updater"])
          /\ events \in Seq(Runtime!Events) /\ storeQueue["updater"] \in Seq(Items)
          /\ Len(storeQueue["updater"]) <= StoreQueue
      BY <1>0, <3>1 DEF StInv, Runtime!TypeOK
    <3>3. CASE c = "updater"
      <4>1. /\ Suffix(<<>>, events)
            /\ Shown(Runtime!Folded(store, storeQueue["updater"]), events, <<>>)
        BY <2>2, <3>2, Catches
      <4>2. storeQueue'["updater"] = <<>>
        BY <1>0, <2>1, <3>3 DEF StInv
      <4> QED  BY <2>1, <3>3, <4>1, <4>2 DEF Suffix, Shown
    <3>4. CASE c # "updater"
      <4>1. storeQueue'["updater"] = storeQueue["updater"] /\ store' = store /\ events' = events
        BY <1>0, <2>1, <3>4 DEF StInv
      <4>2. Suffix(storeQueue["updater"], events)'
        BY <3>2, <4>1 DEF Suffix
      <4>3. Shown(store, events, storeQueue["updater"])'
        BY <3>2, <4>1 DEF Shown
      <4> QED  BY <4>2, <4>3
    <3> QED  BY <3>3, <3>4
  <2>10. ~started => \A d \in Runtime!Consumers : storeConsumer'[d] # "runs"
    BY <2>8 DEF StInv
  <2> QED  BY <2>1, <2>3, <2>4, <2>7, <2>9, <2>10 DEF StInv
<1>5. ASSUME NEW v \in {"on", "off", "broken"}, Runtime!Edit(v) PROVE StInv'
  BY <1>5 DEF Runtime!Edit, StInv, Runtime!TypeOK, Updating, Suffix, Shown
<1>6. CASE Runtime!Watch
  BY <1>6 DEF Runtime!Watch, StInv, Runtime!TypeOK, Updating, Suffix, Shown
<1>7. CASE Runtime!Reload
  <2>1. CASE file \in {"broken", current}
    BY <1>7, <2>1 DEF Runtime!Reload, StInv, Runtime!TypeOK, Updating, Suffix, Shown
  <2>2. CASE file \notin {"broken", current}
    <3> DEFINE e == [kind |-> "config", wake |-> file]
    <3>1. e \in Runtime!Events
      BY <2>2 DEF Runtime!Events, Runtime!Configs, StInv, Runtime!TypeOK
    <3> HIDE DEF e
    <3>2. /\ Runtime!PublishEvent(e) /\ current' = file /\ ~changed' /\ ~missed'
          /\ UNCHANGED <<started, stopping, stage, storeClosed, storeConsumer, store, reloader, file>>
      BY <1>7, <2>2 DEF Runtime!Reload, e
    <3>3. missed' \in BOOLEAN /\ changed' \in BOOLEAN /\ current' \in {"on", "off", "broken"}
      BY <1>7, <3>2 DEF StInv, Runtime!TypeOK, Runtime!Reload
    <3> QED  BY <1>2, <3>1, <3>2, <3>3
  <2> QED  BY <2>1, <2>2
<1>8. ASSUME Runtime!CloseBus, started, reloader' = "none", changed' \in BOOLEAN, stopping' \in BOOLEAN,
             UNCHANGED <<started, storeConsumer, store, file, current, events, missed>>
      PROVE  StInv'
  <2>1. /\ storeQueue' \in [Runtime!Consumers -> Seq(Items)]
        /\ \A c \in Runtime!Consumers : Len(storeQueue'[c]) <= StoreQueue
        /\ storeClosed' /\ stage' \in {"closing", "cancelling"}
    BY <1>8, CloseKeeps
  <2>2. storeClosed' = TRUE
    BY <1>8 DEF Runtime!CloseBus
  <2>3. Runtime!TypeOK'
    BY <1>8, <2>1, <2>2 DEF StInv, Runtime!TypeOK
  <2> QED  BY <1>8, <2>1, <2>3 DEF StInv, Updating
<1>9. CASE Runtime!Stop
  <2>1. CASE reloader # "none"
    BY <1>9, <2>1 DEF Runtime!Stop, StInv, Runtime!TypeOK, Updating, Suffix, Shown
  <2>2. CASE reloader = "none"
    <3>1. /\ Runtime!CloseBus /\ started /\ reloader' = "none" /\ stopping' = TRUE
          /\ UNCHANGED <<started, storeConsumer, store, file, current, changed, events, missed>>
      BY <1>9, <2>2 DEF Runtime!Stop
    <3>2. changed' \in BOOLEAN
      BY <3>1 DEF StInv, Runtime!TypeOK
    <3> QED  BY <1>8, <3>1, <3>2
  <2> QED  BY <2>1, <2>2
<1>10. CASE Runtime!ReloaderStopped
  <2>1. /\ Runtime!CloseBus /\ reloader' = "none" /\ changed' = FALSE /\ stage = "reloader"
        /\ UNCHANGED <<started, stopping, storeConsumer, store, file, current, events, missed>>
    BY <1>10 DEF Runtime!ReloaderStopped
  <2>2. started /\ stopping' \in BOOLEAN
    BY <2>1 DEF StInv, Runtime!TypeOK
  <2> QED  BY <1>8, <2>1, <2>2
<1>11. CASE Runtime!Cancelled
  <2>1. /\ storeQueue' = [c \in Runtime!Consumers |-> <<>>]
        /\ storeConsumer' = [c \in Runtime!Consumers |-> "ended"]
        /\ started' = FALSE /\ stopping' = FALSE /\ stage' = "idle" /\ stage \in {"closing", "cancelling"}
        /\ UNCHANGED <<storeClosed, store, reloader, file, current, changed, events, missed>>
    BY <1>11 DEF Runtime!Cancelled
  <2>2. <<>> \in Seq(Items) /\ Len(<<>>) = 0 /\ storeClosed /\ reloader = "none"
    BY <2>1 DEF StInv
  <2>3. storeQueue' \in [Runtime!Consumers -> Seq(Items)]
    BY <2>1, <2>2
  <2>4. \A c \in Runtime!Consumers : Len(storeQueue'[c]) <= StoreQueue
    BY <1>0, <2>1, <2>2
  <2>5. Runtime!TypeOK'
    BY <2>1, <2>3, <2>4 DEF StInv, Runtime!TypeOK
  <2> QED  BY <2>1, <2>2, <2>3, <2>5 DEF StInv, Updating
<1>12. CASE Runtime!TimedOut
  BY <1>12 DEF Runtime!TimedOut, StInv, Runtime!TypeOK, Updating, Suffix, Shown
<1>13. CASE UNCHANGED storeVars
  BY <1>13 DEF storeVars, StInv, Runtime!TypeOK, Updating, Suffix, Shown
<1> QED  BY <1>1, <1>3, <1>4, <1>5, <1>6, <1>7, <1>9, <1>10, <1>11, <1>12, <1>13 DEF Runtime!Next

\* So does its start.
LEMMA StoreStarts == Runtime!Init => StInv
<1> SUFFICES ASSUME Runtime!Init PROVE StInv
  OBVIOUS
<1>1. /\ <<>> \in Seq(Items) /\ <<>> \in Seq(Runtime!Events) /\ Len(<<>>) = 0 /\ 0 <= StoreQueue
  BY StoreBounds
<1>2. storeQueue \in [Runtime!Consumers -> Seq(Items)]
  BY <1>1 DEF Runtime!Init
<1>3. \A c \in Runtime!Consumers : Len(storeQueue[c]) <= StoreQueue
  BY <1>1 DEF Runtime!Init
<1>4. store \in Stores
  BY DEF Runtime!Init, Runtime!Empty, Stores, Utterances
<1>5. Runtime!TypeOK
  BY <1>2, <1>3 DEF Runtime!Init, Runtime!TypeOK, Items
<1>6. "updater" \in Runtime!Consumers
  BY DEF Runtime!Consumers
<1> QED  BY <1>1, <1>2, <1>4, <1>5, <1>6 DEF Runtime!Init, StInv, Updating

\* The snapshot says of every field what the newest event about it says, whatever was dropped, unless
\* a queue of events came after that one; the reloader told the bus of the file as it is; and a
\* runtime that is not started has nothing running: whatever the bounds, the order of the steps and
\* the places where stop() is cut.
THEOREM SnapshotCurrent == BesideSpec => []SnapshotIsCurrent
<1>1. BesideInit => StInv
  BY StoreStarts DEF BesideInit
<1>2. StInv /\ [BesideNext]_besideVars => StInv'
  BY StoreStep DEF BesideNext, besideVars
<1>3. StInv => SnapshotIsCurrent
  <2> SUFFICES ASSUME StInv PROVE Runtime!TypeOK /\ Runtime!SnapshotIsCurrent
    BY DEF SnapshotIsCurrent
  <2>1. ASSUME storeConsumer["updater"] = "runs", storeQueue["updater"] = <<>>, ~storeClosed,
               NEW i \in DOMAIN events, Runtime!Field(events[i]) # "none", i > Len(events) - StoreQueue,
               \A j \in (i + 1)..Len(events) : Runtime!Field(events[j]) # Runtime!Field(events[i])
        PROVE  store[Runtime!Field(events[i])] = Runtime!Says(events[i])
    <3> DEFINE f == Runtime!Field(events[i])
    <3>1. /\ Shown(store, events, <<>>) /\ Len(events) - Len(<<>>) = Len(events)
          /\ events \in Seq(Runtime!Events) /\ i \in 1..Len(events) /\ Len(events) \in Nat
      BY <2>1 DEF StInv, Updating
    <3>2. f \in Fields
      BY <2>1, <3>1, Fielded
    <3>3. About(events[i], f)
      BY <3>1, Kinded DEF About
    <3>4. \A j \in (i + 1)..Len(events) : ~About(events[j], f)
      BY <2>1 DEF About
    <3> HIDE DEF f
    <3>5. store[f] = Runtime!Says(events[i])
      BY <2>1, <3>1, <3>2, <3>3, <3>4 DEF Shown
    <3> QED  BY <3>5 DEF f
  <2>2. /\ (reloader = "watches" /\ ~changed /\ ~missed /\ file # "broken") => current = file
        /\ ~started => reloader = "none" /\ \A c \in Runtime!Consumers : storeConsumer[c] # "runs"
    BY DEF StInv
  <2>3. Runtime!TypeOK
    BY DEF StInv
  <2> QED  BY <2>1, <2>2, <2>3 DEF Runtime!SnapshotIsCurrent
<1> QED  BY <1>1, <1>2, <1>3, PTL DEF BesideSpec

-----------------------------------------------------------------------------
(* The session of the camera *)

\* The frames in s, of r that were read: in order, and with all that were read after them.
Run(s, r) ==
  \A i \in 1..Len(s) : s[i] # 0 =>
    /\ s[i] <= r
    /\ \A j \in (i + 1)..Len(s) : s[j] # 0 => s[i] < s[j]
    /\ \A n \in (s[i] + 1)..r : \E j \in (i + 1)..Len(s) : s[j] = n

\* What is held of a capture follows from what the calls decided.
Held ==
  /\ \A c \in Vision!StartCalls : camera[c].event <=> camera[c].open
  /\ \A c \in Vision!StartCalls : camera[c].open => capture = c
  /\ \A s \in Vision!StartCalls : loops[s] \in {"new", "waits"} => task = s
  /\ running => ~visionClosed
  /\ ~running => task = 0 /\ (visionClosed \/ capture = 0)
  /\ (visionClosed /\ \A t \in Vision!StopCalls : visionStopping[t] # "waits") =>
       capture = 0 /\ detectors = "none"

\* What waits in the queue or is posted to it is a run of all that was read.
Kept(k) == Run(k.queue \o k.posted, k.reads)

\* The inductive invariant; what is held is right unless a start() came between another and its consent.
CInv ==
  /\ Vision!TypeOK
  /\ ~raced => Held
  /\ \A t \in Vision!StopCalls : visionStopping[t] # "idle" => visionClosed
  /\ \A c \in Vision!StartCalls : Kept(camera[c])

\* What is left of a run when its first items are taken, or end marks of it are lost.
LEMMA RunLeft ==
  ASSUME NEW s \in Seq(Nat), NEW t \in Seq(Nat), NEW r \in Nat, Run(s, r),
         NEW f \in [1..Len(t) -> 1..Len(s)],
         \A i \in 1..Len(t) : t[i] = s[f[i]],
         \A i, j \in 1..Len(t) : i < j => f[i] < f[j],
         \A i \in 1..Len(t) : \A k \in 1..Len(s) :
           k > f[i] /\ s[k] # 0 => \E j \in (i + 1)..Len(t) : f[j] = k
  PROVE  Run(t, r)
<1>0. Len(s) \in Nat /\ Len(t) \in Nat
  OBVIOUS
<1> SUFFICES ASSUME NEW i \in 1..Len(t), t[i] # 0
             PROVE  /\ t[i] <= r
                    /\ \A j \in (i + 1)..Len(t) : t[j] # 0 => t[i] < t[j]
                    /\ \A n \in (t[i] + 1)..r : \E j \in (i + 1)..Len(t) : t[j] = n
  BY DEF Run
<1>1. f[i] \in 1..Len(s) /\ t[i] = s[f[i]] /\ s[f[i]] # 0
  OBVIOUS
<1>2. /\ s[f[i]] <= r
      /\ \A j \in (f[i] + 1)..Len(s) : s[j] # 0 => s[f[i]] < s[j]
      /\ \A n \in (s[f[i]] + 1)..r : \E j \in (f[i] + 1)..Len(s) : s[j] = n
  BY <1>1 DEF Run
<1>3. ASSUME NEW j \in (i + 1)..Len(t), t[j] # 0 PROVE t[i] < t[j]
  <2>1. j \in 1..Len(t) /\ i < j
    BY <1>0
  <2>2. f[i] < f[j] /\ f[j] \in 1..Len(s) /\ t[j] = s[f[j]]
    BY <2>1
  <2>3. f[j] \in (f[i] + 1)..Len(s)
    BY <1>0, <1>1, <2>2
  <2> QED  BY <1>1, <1>2, <1>3, <2>2, <2>3
<1>4. ASSUME NEW n \in (t[i] + 1)..r PROVE \E j \in (i + 1)..Len(t) : t[j] = n
  <2>1. PICK k \in (f[i] + 1)..Len(s) : s[k] = n
    BY <1>1, <1>2
  <2>2. k \in 1..Len(s) /\ k > f[i] /\ s[k] # 0
    <3>0. t[i] \in Nat
      OBVIOUS
    <3>1. f[i] \in Nat
      BY <1>0, <1>1
    <3>2. n # 0
      BY <3>0
    <3>3. k \in Nat /\ f[i] + 1 <= k /\ k <= Len(s) /\ s[k] # 0
      BY <1>0, <2>1, <3>1, <3>2
    <3> QED  BY <1>0, <3>1, <3>3
  <2>3. PICK j \in (i + 1)..Len(t) : f[j] = k
    BY <2>2
  <2>4. j \in 1..Len(t)
    BY <1>0
  <2> QED  BY <2>1, <2>3, <2>4
<1> QED  BY <1>1, <1>2, <1>3, <1>4

\* A run grows by the next frame, or by an end mark.
LEMMA RunGrows ==
  ASSUME NEW s \in Seq(Nat), NEW t \in Seq(Nat), NEW r \in Nat, NEW q \in Nat, Run(s, r),
         Len(t) = Len(s) + 1, \A i \in 1..Len(s) : t[i] = s[i],
         \/ t[Len(s) + 1] = 0 /\ q = r
         \/ t[Len(s) + 1] = r + 1 /\ q = r + 1
  PROVE  Run(t, q)
<1>0. Len(s) \in Nat /\ Len(t) \in Nat
  OBVIOUS
<1> SUFFICES ASSUME NEW i \in 1..Len(t), t[i] # 0
             PROVE  /\ t[i] <= q
                    /\ \A j \in (i + 1)..Len(t) : t[j] # 0 => t[i] < t[j]
                    /\ \A n \in (t[i] + 1)..q : \E j \in (i + 1)..Len(t) : t[j] = n
  BY DEF Run
<1>1. CASE i = Len(s) + 1
  BY <1>0, <1>1
<1>2. CASE i # Len(s) + 1
  <2>1. i \in 1..Len(s) /\ t[i] = s[i] /\ s[i] # 0 /\ s[i] \in Nat
    BY <1>0, <1>2
  <2>2. /\ s[i] <= r
        /\ \A j \in (i + 1)..Len(s) : s[j] # 0 => s[i] < s[j]
        /\ \A n \in (s[i] + 1)..r : \E j \in (i + 1)..Len(s) : s[j] = n
    BY <2>1 DEF Run
  <2>3. ASSUME NEW j \in (i + 1)..Len(t), t[j] # 0 PROVE t[i] < t[j]
    <3>1. CASE j = Len(s) + 1
      BY <1>0, <2>1, <2>2, <2>3, <3>1
    <3>2. CASE j # Len(s) + 1
      <4>0. i \in Nat /\ j \in Nat /\ i + 1 <= j /\ j <= Len(s)
        <5>1. j \in Nat /\ i \in Nat /\ i + 1 <= j /\ j <= Len(s) + 1
          BY <1>0
        <5>2. \A a, b \in Nat : a <= b + 1 /\ a # b + 1 => a <= b
          OBVIOUS
        <5> QED  BY <1>0, <3>2, <5>1, <5>2
      <4>1. j \in (i + 1)..Len(s) /\ j \in 1..Len(s)
        BY <1>0, <4>0
      <4>2. t[j] = s[j] /\ s[j] # 0
        BY <2>3, <4>1
      <4>3. s[i] < s[j]
        BY <2>2, <4>1, <4>2
      <4> QED  BY <2>1, <4>2, <4>3
    <3> QED  BY <3>1, <3>2
  <2>4. ASSUME NEW n \in (t[i] + 1)..q PROVE \E j \in (i + 1)..Len(t) : t[j] = n
    <3>1. CASE n \in (s[i] + 1)..r
      <4>1. PICK j \in (i + 1)..Len(s) : s[j] = n
        BY <2>2, <3>1
      <4>2. j \in 1..Len(s) /\ j \in (i + 1)..Len(t)
        BY <1>0
      <4> QED  BY <4>1, <4>2
    <3>2. CASE n \notin (s[i] + 1)..r
      <4>1. n = r + 1 /\ t[Len(s) + 1] = n /\ Len(s) + 1 \in (i + 1)..Len(t)
        BY <1>0, <2>1, <3>2
      <4> QED  BY <4>1
    <3> QED  BY <3>1, <3>2
  <2>5. t[i] <= q
    <3>1. q = r \/ q = r + 1
      OBVIOUS
    <3>2. \A a \in Nat : a <= r => a <= r + 1
      OBVIOUS
    <3> QED  BY <2>1, <2>2, <3>1, <3>2
  <2> QED  BY <2>3, <2>4, <2>5
<1> QED  BY <1>1, <1>2

\* Two sequences one after the other.
LEMMA Joint ==
  ASSUME NEW q \in Seq(Nat), NEW p \in Seq(Nat)
  PROVE  /\ q \o p \in Seq(Nat) /\ Len(q) \in Nat /\ Len(p) \in Nat
         /\ Len(q \o p) = Len(q) + Len(p)
         /\ \A i \in 1..Len(q) : (q \o p)[i] = q[i]
         /\ \A i \in 1..Len(p) : (q \o p)[Len(q) + i] = p[i]
<1>1. /\ q \o p \in Seq(Nat) /\ Len(q \o p) = Len(q) + Len(p)
      /\ \A i \in 1..(Len(q) + Len(p)) : (q \o p)[i] = IF i <= Len(q) THEN q[i] ELSE p[i - Len(q)]
  BY ConcatProperties
<1>2. Len(q) \in Nat /\ Len(p) \in Nat
  OBVIOUS
<1>3. ASSUME NEW i \in 1..Len(p) PROVE (q \o p)[Len(q) + i] = p[i]
  <2>1. Len(q) + i \in 1..(Len(q) + Len(p)) /\ ~(Len(q) + i <= Len(q)) /\ (Len(q) + i) - Len(q) = i
    BY <1>2
  <2> QED  BY <1>1, <2>1
<1>4. ASSUME NEW i \in 1..Len(q) PROVE (q \o p)[i] = q[i]
  <2>1. i \in 1..(Len(q) + Len(p)) /\ i <= Len(q)
    BY <1>2
  <2> QED  BY <1>1, <2>1
<1> QED  BY <1>1, <1>2, <1>3, <1>4

\* The loop takes frames from the front of the queue.
LEMMA Drops ==
  ASSUME NEW q \in Seq(Nat), NEW p \in Seq(Nat), NEW n \in 0..Len(q), NEW r \in Nat, Run(q \o p, r)
  PROVE  /\ Run(SubSeq(q, n + 1, Len(q)) \o p, r)
         /\ SubSeq(q, n + 1, Len(q)) \in Seq(Nat) /\ Len(SubSeq(q, n + 1, Len(q))) = Len(q) - n
<1> DEFINE rest == SubSeq(q, n + 1, Len(q))
           f == [i \in 1..Len(rest \o p) |-> i + n]
<1>0. Len(q) \in Nat /\ n \in Nat /\ n <= Len(q)
  OBVIOUS
<1>1. /\ rest \in Seq(Nat) /\ Len(rest) = Len(q) - n
      /\ \A i \in 1..(Len(q) - n) : rest[i] = q[i + n]
  <2>1. \A i \in (n + 1)..Len(q) : q[i] \in Nat
    BY <1>0
  <2>2. /\ rest \in Seq(Nat)
        /\ Len(rest) = IF n + 1 <= Len(q) THEN Len(q) - (n + 1) + 1 ELSE 0
        /\ \A i \in 1..(Len(q) - (n + 1) + 1) : rest[i] = q[n + 1 + i - 1]
    <3> DEFINE m == n + 1
               l == Len(q)
    <3>1. m \in Int /\ l \in Int /\ \A i \in m..l : q[i] \in Nat
      BY <1>0, <2>1
    <3> HIDE DEF m, l
    <3>2. /\ SubSeq(q, m, l) \in Seq(Nat)
          /\ Len(SubSeq(q, m, l)) = IF m <= l THEN l - m + 1 ELSE 0
          /\ \A i \in 1..(l - m + 1) : SubSeq(q, m, l)[i] = q[m + i - 1]
      BY <3>1, SubSeqProperties
    <3> QED  BY <3>2 DEF m, l
  <2>3. Len(q) - (n + 1) + 1 = Len(q) - n /\ \A i \in Nat : n + 1 + i - 1 = i + n
    BY <1>0
  <2>4. Len(rest) = Len(q) - n
    BY <1>0, <2>2
  <2>5. ASSUME NEW i \in 1..(Len(q) - n) PROVE rest[i] = q[i + n]
    BY <2>2, <2>3
  <2> QED  BY <2>2, <2>4, <2>5
<1> HIDE DEF rest
<1>2. /\ rest \o p \in Seq(Nat) /\ Len(rest \o p) = Len(rest) + Len(p) /\ Len(p) \in Nat
      /\ \A i \in 1..Len(rest) : (rest \o p)[i] = rest[i]
      /\ \A i \in 1..Len(p) : (rest \o p)[Len(rest) + i] = p[i]
  BY <1>1, Joint
<1>3. /\ q \o p \in Seq(Nat) /\ Len(q \o p) = Len(q) + Len(p)
      /\ \A i \in 1..Len(q) : (q \o p)[i] = q[i]
      /\ \A i \in 1..Len(p) : (q \o p)[Len(q) + i] = p[i]
  BY Joint
<1>4. f \in [1..Len(rest \o p) -> 1..Len(q \o p)] /\ \A i \in 1..Len(rest \o p) : f[i] = i + n
  BY <1>0, <1>1, <1>2, <1>3
<1>5. ASSUME NEW i \in 1..Len(rest \o p) PROVE (rest \o p)[i] = (q \o p)[f[i]]
  <2>1. CASE i <= Len(q) - n
    <3>1. i \in 1..Len(rest) /\ i \in 1..(Len(q) - n) /\ f[i] = i + n /\ i + n \in 1..Len(q)
      BY <1>0, <1>1, <1>4, <2>1
    <3>2. (rest \o p)[i] = rest[i]
      BY <1>2, <3>1
    <3>3. rest[i] = q[i + n]
      BY <1>1, <3>1
    <3>4. (q \o p)[f[i]] = q[i + n]
      BY <1>3, <3>1
    <3> QED  BY <3>2, <3>3, <3>4
  <2>2. CASE ~(i <= Len(q) - n)
    <3> DEFINE k == i - (Len(q) - n)
    <3>0. /\ i \in Nat /\ i <= Len(rest) + Len(p) /\ Len(rest) = Len(q) - n /\ Len(p) \in Nat
          /\ f[i] = i + n
      BY <1>1, <1>2, <1>4
    <3>1. k \in 1..Len(p) /\ i = Len(rest) + k /\ f[i] = Len(q) + k
      BY <1>0, <2>2, <3>0
    <3>2. (rest \o p)[i] = p[k]
      BY <1>2, <3>1
    <3>3. (q \o p)[f[i]] = p[k]
      BY <1>3, <3>1
    <3> QED  BY <3>2, <3>3
  <2> QED  BY <2>1, <2>2
<1>6. \A i, j \in 1..Len(rest \o p) : i < j => f[i] < f[j]
  BY <1>0, <1>4
<1>7. ASSUME NEW i \in 1..Len(rest \o p), NEW k \in 1..Len(q \o p), k > f[i]
      PROVE  \E j \in (i + 1)..Len(rest \o p) : f[j] = k
  <2>1. f[i] = i + n
    BY <1>4
  <2>2. Len(rest \o p) = Len(q) + Len(p) - n /\ Len(q \o p) = Len(q) + Len(p) /\ Len(p) \in Nat
    BY <1>0, <1>1, <1>2, <1>3
  <2>3. i \in Nat \ {0} /\ k \in Nat /\ k > i + n /\ k <= Len(q) + Len(p)
    BY <1>0, <1>7, <2>1, <2>2
  <2>4. k - n \in (i + 1)..Len(rest \o p) /\ k - n \in 1..Len(rest \o p) /\ (k - n) + n = k
    BY <1>0, <2>2, <2>3
  <2> QED  BY <1>4, <2>4
<1> HIDE DEF f
<1>9. \A i \in 1..Len(rest \o p) : \A k \in 1..Len(q \o p) :
        k > f[i] /\ (q \o p)[k] # 0 => \E j \in (i + 1)..Len(rest \o p) : f[j] = k
  BY <1>7
<1>8. Run(rest \o p, r)
  <2> DEFINE s == q \o p
             t == rest \o p
  <2>1. /\ s \in Seq(Nat) /\ t \in Seq(Nat) /\ f \in [1..Len(t) -> 1..Len(s)] /\ Run(s, r)
        /\ \A i \in 1..Len(t) : t[i] = s[f[i]]
        /\ \A i, j \in 1..Len(t) : i < j => f[i] < f[j]
        /\ \A i \in 1..Len(t) : \A k \in 1..Len(s) :
              k > f[i] /\ s[k] # 0 => \E j \in (i + 1)..Len(t) : f[j] = k
    BY <1>2, <1>3, <1>4, <1>5, <1>6, <1>9
  <2> HIDE DEF s, t
  <2>2. Run(t, r)
    BY <2>1, RunLeft
  <2> QED  BY <2>2 DEF t
<1> QED  BY <1>1, <1>8 DEF rest

\* The event loop puts the oldest posted item into the queue.
LEMMA Slides ==
  ASSUME NEW q \in Seq(Nat), NEW p \in Seq(Nat), p # <<>>, NEW r \in Nat, Run(q \o p, r)
  PROVE  /\ Run(Append(q, Head(p)) \o Tail(p), r)
         /\ Head(p) = 0 => Run(q \o Tail(p), r)
<1> DEFINE x == Head(p)
           rest == Tail(p)
<1>1. /\ x \in Nat /\ rest \in Seq(Nat) /\ Len(rest) = Len(p) - 1 /\ x = p[1]
      /\ \A i \in 1..Len(rest) : rest[i] = p[i + 1]
  BY HeadTailProperties
<1> HIDE DEF x, rest
<1>2. /\ q \o p \in Seq(Nat) /\ Len(q) \in Nat /\ Len(p) \in Nat /\ Len(q \o p) = Len(q) + Len(p)
      /\ \A i \in 1..Len(q) : (q \o p)[i] = q[i]
      /\ \A i \in 1..Len(p) : (q \o p)[Len(q) + i] = p[i]
  BY Joint
<1>3. Run(Append(q, x) \o rest, r)
  <2> DEFINE t == Append(q, x) \o rest
             f == [i \in 1..Len(t) |-> i]
  <2>1. /\ Append(q, x) \in Seq(Nat) /\ Len(Append(q, x)) = Len(q) + 1
        /\ \A i \in 1..Len(q) : Append(q, x)[i] = q[i]
        /\ Append(q, x)[Len(q) + 1] = x
    BY <1>1, AppendProperties
  <2>2. /\ t \in Seq(Nat) /\ Len(t) = Len(Append(q, x)) + Len(rest)
        /\ \A i \in 1..Len(Append(q, x)) : t[i] = Append(q, x)[i]
        /\ \A i \in 1..Len(rest) : t[Len(Append(q, x)) + i] = rest[i]
    BY <1>1, <2>1, Joint
  <2>3. Len(t) = Len(q \o p) /\ Len(t) \in Nat
    BY <1>1, <1>2, <2>1, <2>2
  <2> HIDE DEF t
  <2>4. ASSUME NEW i \in 1..Len(t) PROVE t[i] = (q \o p)[i]
    <3>1. CASE i <= Len(q)
      <4>1. i \in 1..Len(q) /\ i \in 1..Len(Append(q, x))
        BY <1>2, <2>1, <3>1
      <4> QED  BY <1>2, <2>1, <2>2, <4>1
    <3>2. CASE i = Len(q) + 1
      <4>1. i \in 1..Len(Append(q, x)) /\ 1 \in 1..Len(p)
        BY <1>1, <1>2, <2>1, <2>2, <2>3, <3>2
      <4> QED  BY <1>1, <1>2, <2>1, <2>2, <3>2, <4>1
    <3>3. CASE i > Len(q) + 1
      <4> DEFINE k == i - (Len(q) + 1)
      <4>0. /\ i \in Nat /\ Len(rest) \in Nat /\ i <= Len(q) + 1 + Len(rest)
            /\ Len(p) = Len(rest) + 1 /\ Len(q) \in Nat
        <5>1. Len(t) = Len(q) + 1 + Len(rest)
          BY <2>1, <2>2
        <5> QED  BY <1>1, <1>2, <2>3, <5>1
      <4>1. k \in 1..Len(rest) /\ k + 1 \in 1..Len(p) /\ i = Len(q) + 1 + k /\ i = Len(q) + (k + 1)
        BY <3>3, <4>0
      <4> HIDE DEF k
      <4>2. t[i] = rest[k]
        BY <2>1, <2>2, <4>1
      <4>3. rest[k] = p[k + 1] /\ (q \o p)[i] = p[k + 1]
        BY <1>1, <1>2, <4>1
      <4> QED  BY <4>2, <4>3
    <3>4. i \in Nat
      BY <2>3
    <3>5. i <= Len(q) \/ i = Len(q) + 1 \/ i > Len(q) + 1
      BY <1>2, <3>4
    <3> QED  BY <3>1, <3>2, <3>3, <3>5
  <2>5. f \in [1..Len(t) -> 1..Len(q \o p)] /\ \A i \in 1..Len(t) : f[i] = i
    BY <2>3
  <2> HIDE DEF f
  <2>6. \A i \in 1..Len(t) : \A k \in 1..Len(q \o p) :
          k > f[i] /\ (q \o p)[k] # 0 => \E j \in (i + 1)..Len(t) : f[j] = k
    BY <2>3, <2>5
  <2>7. Run(t, r)
    <3> DEFINE s == q \o p
    <3>1. /\ s \in Seq(Nat) /\ t \in Seq(Nat) /\ f \in [1..Len(t) -> 1..Len(s)] /\ Run(s, r)
          /\ \A i \in 1..Len(t) : t[i] = s[f[i]]
          /\ \A i, j \in 1..Len(t) : i < j => f[i] < f[j]
          /\ \A i \in 1..Len(t) : \A k \in 1..Len(s) :
                k > f[i] /\ s[k] # 0 => \E j \in (i + 1)..Len(t) : f[j] = k
      BY <1>2, <2>2, <2>4, <2>5, <2>6
    <3> HIDE DEF s
    <3> QED  BY <3>1, RunLeft
  <2> QED  BY <2>7 DEF t
<1>4. ASSUME x = 0 PROVE Run(q \o rest, r)
  <2> DEFINE t == q \o rest
             f == [i \in 1..Len(t) |-> IF i <= Len(q) THEN i ELSE i + 1]
  <2>2. /\ t \in Seq(Nat) /\ Len(t) = Len(q) + Len(rest)
        /\ \A i \in 1..Len(q) : t[i] = q[i]
        /\ \A i \in 1..Len(rest) : t[Len(q) + i] = rest[i]
    BY <1>1, Joint
  <2>3. Len(q \o p) = Len(t) + 1 /\ Len(t) \in Nat /\ Len(q) <= Len(t)
    BY <1>1, <1>2, <2>2
  <2>4. f \in [1..Len(t) -> 1..Len(q \o p)]
        /\ \A i \in 1..Len(t) : f[i] = IF i <= Len(q) THEN i ELSE i + 1
    BY <1>2, <2>3
  <2> HIDE DEF t, f
  <2>5. ASSUME NEW i \in 1..Len(t) PROVE t[i] = (q \o p)[f[i]]
    <3>1. CASE i <= Len(q)
      <4>1. i \in 1..Len(q) /\ f[i] = i
        BY <1>2, <2>4, <3>1
      <4> QED  BY <1>2, <2>2, <4>1
    <3>2. CASE ~(i <= Len(q))
      <4> DEFINE k == i - Len(q)
      <4>0. /\ i \in Nat /\ f[i] = i + 1 /\ Len(rest) \in Nat /\ Len(q) \in Nat
            /\ Len(p) = Len(rest) + 1 /\ i <= Len(q) + Len(rest)
        BY <1>1, <1>2, <2>2, <2>3, <2>4, <3>2
      <4>1. k \in 1..Len(rest) /\ k + 1 \in 1..Len(p) /\ i = Len(q) + k /\ f[i] = Len(q) + (k + 1)
        BY <3>2, <4>0
      <4> HIDE DEF k
      <4>2. t[i] = rest[k] /\ rest[k] = p[k + 1] /\ (q \o p)[f[i]] = p[k + 1]
        BY <1>1, <1>2, <2>2, <4>1
      <4> QED  BY <4>2
    <3> QED  BY <3>1, <3>2
  <2>6. \A i, j \in 1..Len(t) : i < j => f[i] < f[j]
    BY <1>2, <2>4
  <2>7. ASSUME NEW i \in 1..Len(t), NEW k \in 1..Len(q \o p), k > f[i], (q \o p)[k] # 0
        PROVE  \E j \in (i + 1)..Len(t) : f[j] = k
    <3>1. k # Len(q) + 1
      <4>1. 1 \in 1..Len(p)
        BY <1>1, <1>2
      <4>2. (q \o p)[Len(q) + 1] = 0
        BY <1>1, <1>2, <1>4, <4>1
      <4> QED  BY <2>7, <4>2
    <3>0. /\ k \in Nat /\ k <= Len(t) + 1 /\ i \in Nat /\ i <= Len(t)
          /\ f[i] = IF i <= Len(q) THEN i ELSE i + 1
      BY <2>3, <2>4
    <3>2. f[i] >= i /\ f[i] \in Nat
      BY <1>2, <3>0
    <3>3. CASE k <= Len(q)
      <4>1. k > i
        BY <2>7, <3>0, <3>2
      <4>2. k \in (i + 1)..Len(t) /\ k \in 1..Len(t)
        BY <1>2, <2>3, <3>0, <3>3, <4>1
      <4> QED  BY <2>4, <3>3, <4>2
    <3>4. CASE k > Len(q) + 1
      <4>1. i < k - 1
        BY <1>2, <2>3, <2>7, <3>0, <3>2, <3>4
      <4>2. k - 1 \in (i + 1)..Len(t) /\ k - 1 \in 1..Len(t) /\ ~(k - 1 <= Len(q)) /\ (k - 1) + 1 = k
        BY <1>2, <2>3, <3>0, <3>2, <3>4, <4>1
      <4> QED  BY <2>4, <4>2
    <3> QED  BY <1>2, <3>1, <3>3, <3>4
  <2>8. Run(t, r)
    <3> DEFINE s == q \o p
    <3>1. /\ s \in Seq(Nat) /\ t \in Seq(Nat) /\ f \in [1..Len(t) -> 1..Len(s)] /\ Run(s, r)
          /\ \A i \in 1..Len(t) : t[i] = s[f[i]]
          /\ \A i, j \in 1..Len(t) : i < j => f[i] < f[j]
          /\ \A i \in 1..Len(t) : \A k \in 1..Len(s) :
                k > f[i] /\ s[k] # 0 => \E j \in (i + 1)..Len(t) : f[j] = k
      BY <1>2, <2>2, <2>4, <2>5, <2>6, <2>7
    <3> HIDE DEF s
    <3> QED  BY <3>1, RunLeft
  <2> QED  BY <2>8 DEF t
<1> QED  BY <1>3, <1>4 DEF x, rest

\* The thread posts the next frame; stop() posts an end mark.
LEMMA Grows ==
  ASSUME NEW q \in Seq(Nat), NEW p \in Seq(Nat), NEW r \in Nat, Run(q \o p, r)
  PROVE  Run(q \o Append(p, 0), r) /\ Run(q \o Append(p, r + 1), r + 1)
<1>1. ASSUME NEW x \in Nat
      PROVE  /\ q \o Append(p, x) \in Seq(Nat) /\ q \o p \in Seq(Nat)
             /\ Len(q \o Append(p, x)) = Len(q \o p) + 1
             /\ \A i \in 1..Len(q \o p) : (q \o Append(p, x))[i] = (q \o p)[i]
             /\ (q \o Append(p, x))[Len(q \o p) + 1] = x
  <2>1. /\ Append(p, x) \in Seq(Nat) /\ Len(Append(p, x)) = Len(p) + 1
        /\ \A i \in 1..Len(p) : Append(p, x)[i] = p[i]
        /\ Append(p, x)[Len(p) + 1] = x
    BY AppendProperties
  <2>2. /\ q \o p \in Seq(Nat) /\ Len(q) \in Nat /\ Len(p) \in Nat /\ Len(q \o p) = Len(q) + Len(p)
        /\ \A i \in 1..Len(q) : (q \o p)[i] = q[i]
        /\ \A i \in 1..Len(p) : (q \o p)[Len(q) + i] = p[i]
    BY Joint
  <2> DEFINE a == Append(p, x)
  <2> HIDE DEF a
  <2>3. /\ q \o a \in Seq(Nat) /\ Len(q \o a) = Len(q) + Len(a)
        /\ \A i \in 1..Len(q) : (q \o a)[i] = q[i]
        /\ \A i \in 1..Len(a) : (q \o a)[Len(q) + i] = a[i]
    BY <2>1, Joint DEF a
  <2>4. Len(a) = Len(p) + 1 /\ (\A i \in 1..Len(p) : a[i] = p[i]) /\ a[Len(p) + 1] = x
    BY <2>1 DEF a
  <2>5. ASSUME NEW i \in 1..Len(q \o p) PROVE (q \o a)[i] = (q \o p)[i]
    <3>1. CASE i <= Len(q)
      <4>1. i \in 1..Len(q)
        BY <2>2, <3>1
      <4> QED  BY <2>2, <2>3, <4>1
    <3>2. CASE ~(i <= Len(q))
      <4> DEFINE k == i - Len(q)
      <4>1. k \in 1..Len(p) /\ k \in 1..Len(a) /\ i = Len(q) + k
        BY <2>2, <2>4, <3>2
      <4> QED  BY <2>2, <2>3, <2>4, <4>1
    <3> QED  BY <3>1, <3>2
  <2>6. (q \o a)[Len(q \o p) + 1] = x
    <3>1. Len(p) + 1 \in 1..Len(a) /\ Len(q \o p) + 1 = Len(q) + (Len(p) + 1)
      BY <2>2, <2>4
    <3> QED  BY <2>3, <2>4, <3>1
  <2>7. Len(q \o a) = Len(q \o p) + 1
    BY <2>2, <2>3, <2>4
  <2>8. q \o a \in Seq(Nat) /\ q \o p \in Seq(Nat)
    BY <2>2, <2>3
  <2>9. \A i \in 1..Len(q \o p) : (q \o a)[i] = (q \o p)[i]
    BY <2>5
  <2>10. /\ q \o a \in Seq(Nat) /\ q \o p \in Seq(Nat)
         /\ Len(q \o a) = Len(q \o p) + 1
         /\ \A i \in 1..Len(q \o p) : (q \o a)[i] = (q \o p)[i]
         /\ (q \o a)[Len(q \o p) + 1] = x
    BY <2>6, <2>7, <2>8, <2>9
  <2> QED  BY <2>10, Zenon DEF a
<1>2. Run(q \o Append(p, 0), r)
  <2>1. 0 \in Nat /\ r \in Nat
    OBVIOUS
  <2> DEFINE t == q \o Append(p, 0)
             v == q \o p
  <2>2. /\ t \in Seq(Nat) /\ v \in Seq(Nat) /\ Len(t) = Len(v) + 1
        /\ \A i \in 1..Len(v) : t[i] = v[i]
        /\ t[Len(v) + 1] = 0 /\ Run(v, r)
    BY <1>1, <2>1
  <2> HIDE DEF t, v
  <2>3. Run(t, r)
    BY <2>1, <2>2, RunGrows
  <2> QED  BY <2>3 DEF t
<1>3. r + 1 \in Nat
  OBVIOUS
<1>4. Run(q \o Append(p, r + 1), r + 1)
  BY <1>1, <1>3, RunGrows
<1> QED  BY <1>2, <1>4

\* A capture as it may be.
Sane(k) == k \in Vision!Cameras /\ Len(k.queue) <= FrameQueue /\ Kept(k)

\* What is assumed of the bounds, and that no call of start() has the number of none.
LEMMA VisionBounds ==
  /\ FrameQueue \in Nat \ {0} /\ CameraStarts \in Nat /\ CameraStops \in Nat
  /\ 0 \notin Vision!StartCalls
BY BesideAssumption DEF Vision!SessionBounds, Vision!StartCalls

\* A capture is the record of its fields.
LEMMA Spelled ==
  ASSUME NEW k \in Vision!Cameras
  PROVE  /\ k = [event |-> k.event, open |-> k.open, threads |-> k.threads, reads |-> k.reads,
                 posted |-> k.posted, queue |-> k.queue]
         /\ k.event \in BOOLEAN /\ k.open \in BOOLEAN /\ k.threads \in Nat /\ k.reads \in Nat
         /\ k.posted \in Seq(Nat) /\ k.queue \in Seq(Nat)
BY DEF Vision!Cameras

\* What is done to a capture keeps it sane.
LEMMA SaneOpened ==
  ASSUME NEW k, Sane(k)
  PROVE  Sane(Vision!Opened(k)) /\ (~k.event => Vision!Opened(k).event /\ Vision!Opened(k).open)
<1>1. CASE k.event
  BY <1>1 DEF Vision!Opened
<1>2. CASE ~k.event
  <2> DEFINE j == [event |-> TRUE, open |-> TRUE, threads |-> k.threads + 1, reads |-> k.reads,
                   posted |-> k.posted, queue |-> k.queue]
  <2>0. /\ k = [event |-> k.event, open |-> k.open, threads |-> k.threads, reads |-> k.reads,
                posted |-> k.posted, queue |-> k.queue]
        /\ k.threads + 1 \in Nat /\ k.reads \in Nat /\ k.posted \in Seq(Nat) /\ k.queue \in Seq(Nat)
    BY Spelled DEF Sane
  <2>1. Vision!Opened(k) = j /\ j \in Vision!Cameras
    <3>1. j \in Vision!Cameras
      BY <2>0 DEF Vision!Cameras
    <3>2. Vision!Opened(k) = [k EXCEPT !.event = TRUE, !.open = TRUE, !.threads = @ + 1]
      BY <1>2 DEF Vision!Opened
    <3>3. ASSUME NEW i, i = [k EXCEPT !.event = TRUE, !.open = TRUE, !.threads = @ + 1]
          PROVE  i = j
      BY <3>3 DEF Sane, Vision!Cameras
    <3> QED  BY <3>1, <3>2, <3>3
  <2> QED  BY <1>2, <2>1 DEF Sane, Kept
<1> QED  BY <1>1, <1>2

\* The thread reads the next frame and posts it.
LEMMA SaneRead ==
  ASSUME NEW k, Sane(k), NEW n \in Nat
  PROVE  Sane([k EXCEPT !.reads = @ + 1, !.posted = Append(@, k.reads + 1), !.threads = n])
<1> DEFINE j == [k EXCEPT !.reads = @ + 1, !.posted = Append(@, k.reads + 1), !.threads = n]
<1>1. k.queue \in Seq(Nat) /\ k.posted \in Seq(Nat) /\ k.reads \in Nat /\ Run(k.queue \o k.posted, k.reads)
  BY DEF Sane, Kept, Vision!Cameras
<1>2. /\ j.queue = k.queue /\ j.posted = Append(k.posted, k.reads + 1) /\ j.reads = k.reads + 1
      /\ j \in Vision!Cameras
  <2>1. j = [event |-> k.event, open |-> k.open, threads |-> n, reads |-> k.reads + 1,
             posted |-> Append(k.posted, k.reads + 1), queue |-> k.queue]
    <3> DEFINE a == Append(k.posted, k.reads + 1)
               r == k.reads + 1
    <3> HIDE DEF a, r
    <3>1. ASSUME NEW i, i = [k EXCEPT !.reads = r, !.posted = a, !.threads = n]
          PROVE  i = [event |-> k.event, open |-> k.open, threads |-> n, reads |-> r,
                      posted |-> a, queue |-> k.queue]
      BY <3>1 DEF Sane, Vision!Cameras
    <3> QED  BY <3>1 DEF a, r
  <2>2. Append(k.posted, k.reads + 1) \in Seq(Nat) /\ k.reads + 1 \in Nat
    BY <1>1
  <2> HIDE DEF j
  <2> QED  BY <2>1, <2>2 DEF Sane, Vision!Cameras
<1>3. Run(j.queue \o j.posted, j.reads)
  BY <1>1, <1>2, Grows
<1> HIDE DEF j
<1>4. Sane(j)
  BY <1>2, <1>3 DEF Sane, Kept
<1> QED  BY <1>4 DEF j

\* The event loop puts what was posted first into the queue, or passes over it.
LEMMA SanePosted ==
  ASSUME NEW k, Sane(k), k.posted # <<>>
  PROVE  Sane([k EXCEPT !.posted = Tail(@),
                        !.queue = IF Head(k.posted) = 0 THEN Vision!Ended(@)
                                  ELSE Vision!Offered(@, Head(k.posted))])
<1> DEFINE x == Head(k.posted)
           j == [k EXCEPT !.posted = Tail(@),
                          !.queue = IF x = 0 THEN Vision!Ended(@) ELSE Vision!Offered(@, x)]
<1>1. /\ k.queue \in Seq(Nat) /\ k.posted \in Seq(Nat) /\ k.reads \in Nat
      /\ Run(k.queue \o k.posted, k.reads) /\ Len(k.queue) <= FrameQueue /\ Len(k.queue) \in Nat
  BY DEF Sane, Kept, Vision!Cameras
<1>2. x \in Nat /\ Tail(k.posted) \in Seq(Nat)
  BY <1>1, HeadTailProperties
<1> DEFINE q == IF x = 0 THEN Vision!Ended(k.queue) ELSE Vision!Offered(k.queue, x)
<1>3. q \in Seq(Nat) /\ Len(q) <= FrameQueue /\ Run(q \o Tail(k.posted), k.reads)
  <2>1. CASE Len(k.queue) < FrameQueue
    <3>1. q = Append(k.queue, x)
      BY <1>1, <2>1, VisionBounds DEF Vision!Ended, Vision!Offered, Vision!End
    <3>2. Append(k.queue, x) \in Seq(Nat) /\ Len(Append(k.queue, x)) = Len(k.queue) + 1
      BY <1>1, <1>2, AppendProperties
    <3>3. Run(Append(k.queue, x) \o Tail(k.posted), k.reads)
      BY <1>1, Slides
    <3>4. Len(k.queue) + 1 <= FrameQueue
      BY <1>1, <2>1, VisionBounds
    <3> HIDE DEF q, x
    <3> QED  BY <3>1, <3>2, <3>3, <3>4
  <2>2. CASE Len(k.queue) >= FrameQueue /\ x = 0
    <3>1. q = k.queue
      BY <2>2 DEF Vision!Ended
    <3>2. Run(k.queue \o Tail(k.posted), k.reads)
      BY <1>1, <2>2, Slides
    <3> HIDE DEF q, x
    <3> QED  BY <1>1, <3>1, <3>2
  <2>3. CASE Len(k.queue) >= FrameQueue /\ x # 0
    <3> DEFINE h == Tail(k.queue)
    <3>1. q = Append(h, x)
      BY <2>3 DEF Vision!Offered
    <3>2. h \in Seq(Nat) /\ Len(h) = Len(k.queue) - 1
      BY <1>1, <2>3, VisionBounds, HeadTailProperties
    <3>3. h = SubSeq(k.queue, 2, Len(k.queue))
      BY <1>1, <2>3, VisionBounds, TailIsSubSeq
    <3>4. Run(h \o k.posted, k.reads)
      <4>1. 1 \in 0..Len(k.queue) /\ 1 + 1 = 2
        BY <1>1, <2>3, VisionBounds
      <4>2. Run(SubSeq(k.queue, 1 + 1, Len(k.queue)) \o k.posted, k.reads)
        BY <1>1, <4>1, Drops
      <4> QED  BY <3>3, <4>1, <4>2
    <3> HIDE DEF h
    <3>5. Run(Append(h, x) \o Tail(k.posted), k.reads)
      BY <1>1, <3>2, <3>4, Slides
    <3>6. Append(h, x) \in Seq(Nat) /\ Len(Append(h, x)) = Len(h) + 1
      BY <1>2, <3>2, AppendProperties
    <3> HIDE DEF q, x
    <3> QED  BY <1>1, <3>1, <3>2, <3>5, <3>6
  <2> QED  BY <1>1, <2>1, <2>2, <2>3, VisionBounds
<1> HIDE DEF q, x
<1>4. /\ j = [k EXCEPT !.posted = Tail(@), !.queue = q]
      /\ j.queue = q /\ j.posted = Tail(k.posted) /\ j.reads = k.reads /\ j \in Vision!Cameras
  BY <1>1, <1>2, <1>3 DEF Sane, Vision!Cameras, q
<1> HIDE DEF j
<1>5. Sane(j)
  BY <1>3, <1>4 DEF Sane, Kept
<1> QED  BY <1>5 DEF j, x

\* The loop takes the oldest items of the queue.
LEMMA SaneTaken ==
  ASSUME NEW k, Sane(k), NEW n \in 0..Len(k.queue)
  PROVE  Sane([k EXCEPT !.queue = SubSeq(k.queue, n + 1, Len(k.queue))])
<1> DEFINE q == SubSeq(k.queue, n + 1, Len(k.queue))
           j == [k EXCEPT !.queue = q]
<1>1. /\ k.queue \in Seq(Nat) /\ k.posted \in Seq(Nat) /\ k.reads \in Nat
      /\ Run(k.queue \o k.posted, k.reads) /\ Len(k.queue) <= FrameQueue /\ Len(k.queue) \in Nat
  BY DEF Sane, Kept, Vision!Cameras
<1>2. Run(q \o k.posted, k.reads) /\ q \in Seq(Nat) /\ Len(q) = Len(k.queue) - n
  BY <1>1, Drops
<1> HIDE DEF q
<1>3. Len(q) <= FrameQueue
  BY <1>1, <1>2, VisionBounds
<1>4. j.queue = q /\ j.posted = k.posted /\ j.reads = k.reads /\ j \in Vision!Cameras
  BY <1>1, <1>2 DEF Sane, Vision!Cameras
<1> HIDE DEF j
<1>5. Sane(j)
  BY <1>2, <1>3, <1>4 DEF Sane, Kept
<1> QED  BY <1>5 DEF j, q

\* stop() clears the event and closes the device, whether the thread ends, reads on or stays.
LEMMA SaneStopped ==
  ASSUME NEW k, Sane(k), NEW j \in Vision!Stopped(k)
  PROVE  Sane(j) /\ ~j.open /\ ~j.event
<1>1. PICK i : /\ \/ i = [k EXCEPT !.event = FALSE, !.open = FALSE]
                  \/ /\ k.threads > 0
                     /\ i = [[k EXCEPT !.event = FALSE, !.open = FALSE] EXCEPT !.threads = @ - 1]
                  \/ /\ k.threads > 0
                     /\ i = [[[k EXCEPT !.event = FALSE, !.open = FALSE] EXCEPT !.threads = @ - 1]
                              EXCEPT !.reads = @ + 1, !.posted = Append(@, k.reads + 1)]
               /\ j = [i EXCEPT !.posted = Append(@, 0)]
  BY DEF Vision!Stopped, Vision!End
<1>2. /\ k.queue \in Seq(Nat) /\ k.posted \in Seq(Nat) /\ k.reads \in Nat
      /\ Run(k.queue \o k.posted, k.reads) /\ k.threads \in Nat
  BY DEF Sane, Kept, Vision!Cameras
<1>3. /\ i \in Vision!Cameras /\ i.queue = k.queue /\ ~i.open /\ ~i.event
      /\ \/ i.posted = k.posted /\ i.reads = k.reads
         \/ i.posted = Append(k.posted, k.reads + 1) /\ i.reads = k.reads + 1
  <2>1. k.posted \in Seq(Nat) /\ Append(k.posted, k.reads + 1) \in Seq(Nat) /\ k.reads + 1 \in Nat
        /\ (k.threads > 0 => k.threads - 1 \in Nat)
    BY <1>2
  <2>2. \E n \in Nat :
          \/ i = [event |-> FALSE, open |-> FALSE, threads |-> n, reads |-> k.reads,
                  posted |-> k.posted, queue |-> k.queue]
          \/ i = [event |-> FALSE, open |-> FALSE, threads |-> n, reads |-> k.reads + 1,
                  posted |-> Append(k.posted, k.reads + 1), queue |-> k.queue]
    BY <1>1, <1>2, <2>1 DEF Sane, Vision!Cameras
  <2>3. ASSUME NEW n \in Nat, NEW p \in Seq(Nat), NEW r \in Nat
        PROVE  [event |-> FALSE, open |-> FALSE, threads |-> n, reads |-> r,
                posted |-> p, queue |-> k.queue] \in Vision!Cameras
    BY <1>2 DEF Vision!Cameras
  <2>4. PICK n \in Nat :
          \/ i = [event |-> FALSE, open |-> FALSE, threads |-> n, reads |-> k.reads,
                  posted |-> k.posted, queue |-> k.queue]
          \/ i = [event |-> FALSE, open |-> FALSE, threads |-> n, reads |-> k.reads + 1,
                  posted |-> Append(k.posted, k.reads + 1), queue |-> k.queue]
    BY <2>2
  <2>5. i \in Vision!Cameras
    BY <1>2, <2>1, <2>3, <2>4
  <2> QED  BY <2>4, <2>5
<1>4. i.queue \in Seq(Nat) /\ i.posted \in Seq(Nat) /\ i.reads \in Nat
  BY <1>3 DEF Vision!Cameras
<1>5. Run(i.queue \o i.posted, i.reads)
  BY <1>2, <1>3, Grows
<1>6. Run(i.queue \o Append(i.posted, 0), i.reads)
  BY <1>4, <1>5, Grows
<1>7. /\ j.queue = i.queue /\ j.posted = Append(i.posted, 0) /\ j.reads = i.reads /\ j \in Vision!Cameras
      /\ ~j.open /\ ~j.event
  <2>1. j = [event |-> i.event, open |-> i.open, threads |-> i.threads, reads |-> i.reads,
             posted |-> Append(i.posted, 0), queue |-> i.queue]
    BY <1>1, <1>3 DEF Vision!Cameras
  <2>2. Append(i.posted, 0) \in Seq(Nat)
    BY <1>4
  <2> QED  BY <1>3, <2>1, <2>2 DEF Vision!Cameras
<1> QED  BY <1>3, <1>6, <1>7 DEF Sane, Kept

\* Every capture is sane.
Sanity == camera \in [Vision!StartCalls -> Vision!Cameras] /\ \A c \in Vision!StartCalls : Sane(camera[c])

\* Whether a capture is open, and its event set, is as before.
Same(c) == camera'[c].open = camera[c].open /\ camera'[c].event = camera[c].event

\* stop() closed the capture and cleared its event.
Off(c) == ~camera'[c].open /\ ~camera'[c].event

\* Sanity of the captures after a step, capture by capture.
LEMMA SaneNext ==
  ASSUME camera' \in [Vision!StartCalls -> Vision!Cameras], \A d \in Vision!StartCalls : Sane(camera'[d])
  PROVE  Sanity'
<1>1. \A d \in Vision!StartCalls : Sane(camera'[d]) <=> Sane(camera[d])'
  BY DEF Sane, Kept, Run
<1> QED  BY <1>1 DEF Sanity

\* A step on one capture leaves the others alone.
LEMMA OneCapture ==
  ASSUME Sanity, NEW c \in Vision!StartCalls, NEW k, Sane(k), camera' = [camera EXCEPT ![c] = k]
  PROVE  /\ Sanity' /\ camera'[c] = k
         /\ \A d \in Vision!StartCalls \ {c} : Same(d)
<1>1. /\ camera'[c] = k /\ \A d \in Vision!StartCalls \ {c} : camera'[d] = camera[d]
      /\ camera' \in [Vision!StartCalls -> Vision!Cameras]
  BY DEF Sanity, Sane
<1>2. \A d \in Vision!StartCalls : Sane(camera'[d])
  BY <1>1 DEF Sanity
<1> QED  BY <1>1, <1>2, SaneNext DEF Same

\* The thread of a capture decides neither whether it is open nor its event.
LEMMA Reads ==
  ASSUME Sanity, NEW c \in Vision!StartCalls, Vision!ThreadReads(c)
  PROVE  Sanity' /\ \A d \in Vision!StartCalls : Same(d)
<1> DEFINE k == camera[c]
<1>1. Sane(k) /\ k \in Vision!Cameras /\ k.threads \in Nat \ {0}
  BY DEF Sanity, Sane, Vision!ThreadReads, Vision!Cameras
<1>2. PICK n \in Nat :
        \/ camera' = [camera EXCEPT ![c] = [k EXCEPT !.reads = @ + 1, !.posted = Append(@, k.reads + 1),
                                                     !.threads = n]]
        \/ camera' = [camera EXCEPT ![c] = [k EXCEPT !.threads = n]]
  <2>1. k.threads \in Nat /\ k.threads - 1 \in Nat /\ camera \in [Vision!StartCalls -> Vision!Cameras]
    BY <1>1 DEF Sanity
  <2>2. CASE camera' = [camera EXCEPT ![c].reads = @ + 1, ![c].posted = Append(@, camera[c].reads + 1),
                                      ![c].threads = IF camera[c].event THEN @ ELSE @ - 1]
    <3> DEFINE n == IF k.event THEN k.threads ELSE k.threads - 1
    <3>1. camera' = [camera EXCEPT ![c] = [k EXCEPT !.reads = @ + 1, !.posted = Append(@, k.reads + 1),
                                                    !.threads = n]]
      BY <2>1, <2>2 DEF Vision!Cameras
    <3> QED  BY <2>1, <3>1
  <2>3. CASE camera' = [camera EXCEPT ![c].threads = @ - 1]
    BY <2>1, <2>3
  <2> QED  BY <2>2, <2>3 DEF Vision!ThreadReads
<1> DEFINE a == [k EXCEPT !.reads = @ + 1, !.posted = Append(@, k.reads + 1), !.threads = n]
           b == [k EXCEPT !.threads = n]
<1>3. Sane(a) /\ a.open = k.open /\ a.event = k.event
  BY <1>1, SaneRead DEF Vision!Cameras
<1>4. Sane(b) /\ b.open = k.open /\ b.event = k.event
  BY <1>1 DEF Sane, Kept, Vision!Cameras
<1>5. camera' = [camera EXCEPT ![c] = a] \/ camera' = [camera EXCEPT ![c] = b]
  BY <1>2
<1> HIDE DEF a, b
<1>6. Sanity' /\ (camera'[c] = a \/ camera'[c] = b) /\ \A d \in Vision!StartCalls \ {c} : Same(d)
  BY <1>3, <1>4, <1>5, OneCapture
<1>7. Same(c)
  BY <1>3, <1>4, <1>6 DEF Same
<1> QED  BY <1>6, <1>7

\* Nor does the event loop when it delivers what the thread posted.
LEMMA Posts ==
  ASSUME Sanity, NEW c \in Vision!StartCalls, Vision!Posted(c)
  PROVE  Sanity' /\ \A d \in Vision!StartCalls : Same(d)
<1> DEFINE k == camera[c]
           a == [k EXCEPT !.posted = Tail(@),
                          !.queue = IF Head(k.posted) = 0 THEN Vision!Ended(@)
                                    ELSE Vision!Offered(@, Head(k.posted))]
<1>1. Sane(k) /\ k \in Vision!Cameras /\ k.posted # <<>> /\ camera \in [Vision!StartCalls -> Vision!Cameras]
  BY DEF Sanity, Sane, Vision!Posted
<1>2. camera' = [camera EXCEPT ![c] = a]
  BY <1>1 DEF Vision!Posted, Vision!End, Vision!Cameras
<1>3. Sane(a)
  BY <1>1, SanePosted
<1>4. a.open = k.open /\ a.event = k.event
  BY <1>1 DEF Vision!Cameras
<1> HIDE DEF a
<1>5. Sanity' /\ camera'[c] = a /\ \A d \in Vision!StartCalls \ {c} : Same(d)
  BY <1>2, <1>3, OneCapture
<1>6. Same(c)
  BY <1>4, <1>5 DEF Same
<1> QED  BY <1>5, <1>6

\* stop() takes the adapter's capture, if there is one.
LEMMA Stops ==
  ASSUME Sanity, capture \in Vision!StartCalls \cup {0}, Vision!ShutDown
  PROVE  /\ Sanity' /\ \A d \in Vision!StartCalls : d # capture => Same(d)
         /\ \A d \in Vision!StartCalls : d = capture => Off(d)
<1>1. CASE capture = 0
  <2>1. camera' = camera
    BY <1>1 DEF Vision!ShutDown, Vision!NoCall
  <2>2. Sanity'
    BY <2>1, SaneNext DEF Sanity
  <2> QED  BY <1>1, <2>1, <2>2, VisionBounds DEF Same
<1>2. CASE capture # 0
  <2>1. capture \in Vision!StartCalls
    BY <1>2
  <2>2. PICK k \in Vision!Stopped(camera[capture]) : camera' = [camera EXCEPT ![capture] = k]
    BY <1>2 DEF Vision!ShutDown, Vision!NoCall
  <2>3. Sane(camera[capture])
    BY <2>1 DEF Sanity
  <2>4. Sane(k) /\ ~k.open /\ ~k.event
    BY <2>2, <2>3, SaneStopped
  <2> QED  BY <2>1, <2>2, <2>4, OneCapture DEF Off
<1> QED  BY <1>1, <1>2

\* start() opens one capture, its own or the one that is there, and keeps it as the adapter's.
LEMMA Opens ==
  ASSUME Sanity, NEW s \in Vision!StartCalls, Vision!Granted(s)
  PROVE  \E c \in Vision!StartCalls :
           /\ capture' = c
           /\ Sanity' /\ \A d \in Vision!StartCalls \ {c} : Same(d)
           /\ Same(c) \/ (camera'[c].open /\ camera'[c].event)
<1> DEFINE c == Vision!CaptureOf(s)
<1>1. c \in Vision!StartCalls
  BY DEF Vision!CaptureOf
<1>2. capture' = c /\ camera' = [camera EXCEPT ![c] = Vision!Opened(camera[c])]
  BY DEF Vision!Granted, Sanity
<1> HIDE DEF c
<1>3. Sane(camera[c]) /\ camera[c] \in Vision!Cameras
  BY <1>1 DEF Sanity
<1>4. /\ Sane(Vision!Opened(camera[c]))
      /\ (~camera[c].event => Vision!Opened(camera[c]).event /\ Vision!Opened(camera[c]).open)
      /\ (camera[c].event => Vision!Opened(camera[c]) = camera[c])
  BY <1>3, SaneOpened DEF Vision!Opened
<1>5. /\ Sanity' /\ camera'[c] = Vision!Opened(camera[c])
      /\ \A d \in Vision!StartCalls \ {c} : Same(d)
  BY <1>1, <1>2, <1>4, OneCapture
<1>6. Same(c) \/ (camera'[c].open /\ camera'[c].event)
  BY <1>4, <1>5 DEF Same
<1> QED  BY <1>1, <1>2, <1>5, <1>6

\* The loop takes as many items as it may: at least one, and none but the last an end mark.
LEMMA TakenInRange ==
  ASSUME NEW q \in Seq(Nat), q # <<>>
  PROVE  Vision!Taken(q) \in 1..Len(q)
<1>1. Len(q) \in Nat /\ Len(q) >= 1 /\ DOMAIN q = 1..Len(q)
  OBVIOUS
<1>2. CASE running /\ \E i \in DOMAIN q : q[i] = 0
  <2> DEFINE ends0 == {i \in DOMAIN q : q[i] = 0}
  <2>1. ends0 \in SUBSET Nat /\ ends0 # {}
    BY <1>1, <1>2
  <2>2. PICK i \in ends0 : \A j \in ends0 : i <= j
    BY <2>1, Least
  <2>3. i \in DOMAIN q /\ q[i] = 0 /\ \A j \in 1..(i - 1) : q[j] # 0
    BY <1>1, <2>2
  <2>4. Vision!Taken(q) = CHOOSE k \in DOMAIN q : q[k] = 0 /\ \A j \in 1..(k - 1) : q[j] # 0
    BY <1>2 DEF Vision!Taken, Vision!End
  <2> QED  BY <1>1, <2>3, <2>4
<1>3. CASE ~(running /\ \E i \in DOMAIN q : q[i] = 0)
  BY <1>1, <1>3 DEF Vision!Taken, Vision!End
<1> QED  BY <1>2, <1>3

\* The loop takes from one queue and publishes what it took.
LEMMA Loops ==
  ASSUME Sanity, Vision!TypeOK, NEW s \in Vision!StartCalls, Vision!RunLoop(s)
  PROVE  /\ Sanity' /\ \A d \in Vision!StartCalls : Same(d)
         /\ streams' \in [Vision!Streams -> Seq({1, 0})]
         /\ source' \in [Vision!StartCalls -> Vision!StartCalls \cup {0}]
<1> DEFINE c == IF loops[s] = "new" THEN capture ELSE source[s]
           q == IF c = 0 THEN <<>> ELSE camera[c].queue
           n == Vision!Taken(q)
           got == IF q[n] = 0 THEN n - 1 ELSE n
           items0(k) == [i \in 1..k |-> 1]
<1>0. /\ c \in Vision!StartCalls \cup {0} /\ streams \in [Vision!Streams -> Seq({1, 0})]
      /\ source \in [Vision!StartCalls -> Vision!StartCalls \cup {0}]
  BY DEF Vision!TypeOK, Vision!NoCall, Vision!Item, Vision!End
<1>1. /\ source' = [source EXCEPT ![s] = c]
      /\ \/ UNCHANGED <<camera, streams>>
         \/ /\ q # <<>>
            /\ \E frames \in 0..got : \E hits \in 0..frames :
                 streams' = [streams EXCEPT !["frames"] = @ \o items0(frames),
                                            !["detections"] = @ \o items0(hits)]
            /\ camera' = [camera EXCEPT ![c].queue = SubSeq(q, n + 1, Len(q))]
  BY DEF Vision!RunLoop, Vision!NoCall, Vision!End, Vision!Item
<1>2. source' \in [Vision!StartCalls -> Vision!StartCalls \cup {0}]
  BY <1>0, <1>1
<1>3. CASE UNCHANGED <<camera, streams>>
  <2>1. Sanity'
    BY <1>3, SaneNext DEF Sanity
  <2> QED  BY <1>0, <1>2, <1>3, <2>1 DEF Same
<1>4. CASE /\ q # <<>>
           /\ \E frames \in 0..got : \E hits \in 0..frames :
                streams' = [streams EXCEPT !["frames"] = @ \o items0(frames),
                                           !["detections"] = @ \o items0(hits)]
           /\ camera' = [camera EXCEPT ![c].queue = SubSeq(q, n + 1, Len(q))]
  <2>1. c \in Vision!StartCalls /\ q = camera[c].queue
    BY <1>0, <1>4
  <2>2. Sane(camera[c]) /\ camera[c] \in Vision!Cameras /\ q \in Seq(Nat) /\ Len(q) \in Nat
    BY <2>1 DEF Sanity, Vision!Cameras
  <2>3. n \in 1..Len(q) /\ n \in 0..Len(q)
    BY <1>4, <2>2, TakenInRange
  <2>4. streams' \in [Vision!Streams -> Seq({1, 0})]
    <3>1. got \in Nat
      BY <2>2, <2>3
    <3>2. PICK frames \in 0..got, hits \in 0..got :
            streams' = [streams EXCEPT !["frames"] = @ \o items0(frames),
                                       !["detections"] = @ \o items0(hits)]
      <4>1. PICK frames \in 0..got : \E hits \in 0..frames :
              streams' = [streams EXCEPT !["frames"] = @ \o items0(frames),
                                         !["detections"] = @ \o items0(hits)]
        BY <1>4
      <4>2. PICK hits \in 0..frames :
              streams' = [streams EXCEPT !["frames"] = @ \o items0(frames),
                                         !["detections"] = @ \o items0(hits)]
        BY <4>1
      <4>3. hits \in 0..got
        BY <3>1
      <4> QED  BY <4>2, <4>3
    <3>3. \A k \in Nat : items0(k) \in Seq({1, 0})
      OBVIOUS
    <3>4. items0(frames) \in Seq({1, 0}) /\ items0(hits) \in Seq({1, 0})
      BY <3>1, <3>3
    <3> HIDE DEF items0
    <3>5. \A t \in Vision!Streams : streams[t] \in Seq({1, 0})
      BY <1>0
    <3>6. /\ streams["frames"] \o items0(frames) \in Seq({1, 0})
          /\ streams["detections"] \o items0(hits) \in Seq({1, 0})
      BY <3>4, <3>5 DEF Vision!Streams
    <3> QED  BY <1>0, <3>2, <3>6
  <2> DEFINE a == [camera[c] EXCEPT !.queue = SubSeq(q, n + 1, Len(q))]
  <2> HIDE DEF n, q, c
  <2>5. Sane(a)
    BY <2>1, <2>2, <2>3, SaneTaken
  <2>6. a.open = camera[c].open /\ a.event = camera[c].event
    BY <2>2 DEF Vision!Cameras
  <2>7. camera' = [camera EXCEPT ![c] = a]
    BY <1>4, <2>1 DEF Sanity
  <2> HIDE DEF a
  <2>8. Sanity' /\ camera'[c] = a /\ \A d \in Vision!StartCalls \ {c} : Same(d)
    BY <2>1, <2>5, <2>7, OneCapture
  <2>9. Same(c)
    BY <2>6, <2>8 DEF Same
  <2> QED  BY <1>2, <2>4, <2>8, <2>9
<1> QED  BY <1>1, <1>3, <1>4

\* What no step on a capture touches.
LEMMA CaptureTypes ==
  ASSUME Vision!TypeOK, Sanity', UNCHANGED <<injected, running, visionClosed, capture, task, detectors,
           starting, visionStopping, loops, source, streams, consumer, raced>>
  PROVE  Vision!TypeOK'
<1>1. \A c \in Vision!StartCalls : Len(camera'[c].queue) <= FrameQueue
  BY DEF Sanity, Sane
<1> QED  BY <1>1 DEF Vision!TypeOK, Sanity

\* A step that changes neither who holds the camera nor a capture keeps what is held.
LEMMA HeldStill ==
  ASSUME Held, \A c \in Vision!StartCalls : Same(c),
         capture' = capture, task' = task, running' = running, visionClosed' = visionClosed,
         \A s \in Vision!StartCalls : loops'[s] \in {"new", "waits"} => loops[s] \in {"new", "waits"},
         detectors' = detectors \/ task # 0 \/ ~visionClosed, visionStopping' = visionStopping
  PROVE  Held'
BY DEF Held, Same

\* Every step of the session keeps the invariant.
LEMMA VisionStep ==
  ASSUME CInv, [Vision!Next]_visionVars
  PROVE  CInv'
<1>1. Sanity /\ Vision!TypeOK
  BY DEF CInv, Sanity, Sane, Vision!TypeOK
<1>2. Sanity' => \A c \in Vision!StartCalls : Kept(camera[c])'
  BY DEF Sanity, Sane
<1>w. \A t \in Vision!StopCalls : visionStopping'[t] # "idle" => visionClosed'
  <2>1. ASSUME UNCHANGED <<visionStopping, visionClosed>>
        PROVE  \A t \in Vision!StopCalls : visionStopping'[t] # "idle" => visionClosed'
    BY <2>1 DEF CInv
  <2>2. ASSUME NEW t \in Vision!StopCalls, Vision!Stop(t) PROVE visionClosed'
    BY <2>2 DEF Vision!Stop
  <2>3. ASSUME NEW t \in Vision!StopCalls, Vision!StopEnds(t) PROVE visionClosed'
    BY <2>3 DEF Vision!StopEnds, CInv
  <2>4. ASSUME NEW s \in Vision!StartCalls,
               \/ Vision!Start(s) \/ Vision!Refused(s) \/ Vision!StartFails(s) \/ Vision!Granted(s)
               \/ Vision!RunLoop(s) \/ Vision!ThreadReads(s) \/ Vision!Posted(s)
        PROVE  UNCHANGED <<visionStopping, visionClosed>>
    BY <2>4 DEF Vision!Start, Vision!Refused, Vision!StartFails, Vision!Granted, Vision!RunLoop,
                Vision!ThreadReads, Vision!Posted
  <2>5. ASSUME NEW s \in Vision!Streams, Vision!Consume(s)
        PROVE  UNCHANGED <<visionStopping, visionClosed>>
    BY <2>5 DEF Vision!Consume
  <2>6. UNCHANGED visionVars => UNCHANGED <<visionStopping, visionClosed>>
    BY DEF visionVars
  <2> QED  BY <2>1, <2>2, <2>3, <2>4, <2>5, <2>6 DEF Vision!Next
<1>a. Sanity' /\ Vision!TypeOK' /\ (~raced' => Held') => CInv'
  BY <1>2, <1>w DEF CInv
<1>b. UNCHANGED camera => Sanity' /\ \A c \in Vision!StartCalls : Same(c)
  BY <1>1, SaneNext DEF Sanity, Same
<1>c. ~raced' => ~raced
  BY DEF visionVars, Vision!Next, Vision!Start, Vision!Refused, Vision!StartFails, Vision!Granted,
         Vision!RunLoop, Vision!ThreadReads, Vision!Posted, Vision!Stop, Vision!StopEnds, Vision!Consume
<1>d. ~raced => Held
  BY DEF CInv
<1>3. ASSUME NEW s \in Vision!StartCalls, Vision!Start(s) \/ Vision!Refused(s) \/ Vision!StartFails(s)
      PROVE  CInv'
  <2>1. Vision!TypeOK'
    BY <1>1, <1>3 DEF Vision!TypeOK, Vision!Start, Vision!Refused, Vision!StartFails
  <2>2. UNCHANGED <<camera, capture, task, running, visionClosed, loops, visionStopping>>
        /\ (~raced' => detectors' = detectors \/ ~visionClosed)
    BY <1>3 DEF Vision!Start, Vision!Refused, Vision!StartFails
  <2>3. ~raced' => Held'
    BY <1>b, <1>c, <1>d, <2>2, HeldStill
  <2> QED  BY <1>a, <1>b, <2>1, <2>2, <2>3
<1>4. ASSUME NEW s \in Vision!StartCalls, Vision!Granted(s) PROVE CInv'
  <2>1. PICK c \in Vision!StartCalls :
           /\ capture' = c
           /\ Sanity' /\ \A d \in Vision!StartCalls \ {c} : Same(d)
           /\ Same(c) \/ (camera'[c].open /\ camera'[c].event)
    BY <1>1, <1>4, Opens
  <2>2. /\ running' = TRUE /\ task' = s /\ detectors' = "cold" /\ loops' = [loops EXCEPT ![s] = "new"]
        /\ raced' = (raced \/ running \/ visionClosed)
        /\ UNCHANGED <<injected, visionClosed, visionStopping, source, streams, consumer>>
        /\ starting' = [starting EXCEPT ![s] = "done"]
    BY <1>4 DEF Vision!Granted
  <2>3. Vision!TypeOK'
    <3>1. \A d \in Vision!StartCalls : Len(camera'[d].queue) <= FrameQueue
      BY <2>1 DEF Sanity, Sane
    <3>2. raced' \in BOOLEAN
      BY <1>1, <2>2 DEF Vision!TypeOK
    <3> QED  BY <1>1, <2>1, <2>2, <3>1, <3>2 DEF Vision!TypeOK, Sanity
  <2>4. ASSUME ~raced' PROVE Held'
    <3>1. ~running /\ ~visionClosed /\ Held /\ task = 0 /\ capture = 0
      BY <1>c, <1>d, <2>2, <2>4 DEF Held
    <3>2. \A d \in Vision!StartCalls : ~camera[d].open /\ ~camera[d].event
      BY <3>1, VisionBounds DEF Held
    <3>3. \A d \in Vision!StartCalls \ {c} : ~camera'[d].open /\ ~camera'[d].event
      BY <2>1, <3>2 DEF Same
    <3>4. camera'[c].open <=> camera'[c].event
      BY <2>1, <3>2 DEF Same
    <3>5. \A d \in Vision!StartCalls : loops[d] \notin {"new", "waits"}
      BY <3>1, VisionBounds DEF Held
    <3>6. \A d \in Vision!StartCalls : loops'[d] \in {"new", "waits"} => d = s
      BY <1>1, <2>2, <3>5 DEF Vision!TypeOK
    <3> QED  BY <2>1, <2>2, <3>1, <3>3, <3>4, <3>6 DEF Held
  <2> QED  BY <1>a, <2>1, <2>3, <2>4
<1>5. ASSUME NEW s \in Vision!StartCalls, Vision!RunLoop(s) PROVE CInv'
  <2>1. /\ Sanity' /\ \A d \in Vision!StartCalls : Same(d)
        /\ streams' \in [Vision!Streams -> Seq({1, 0})]
        /\ source' \in [Vision!StartCalls -> Vision!StartCalls \cup {0}]
    BY <1>1, <1>5, Loops
  <2>2. /\ loops[s] \in {"new", "waits"}
        /\ \/ loops' = [loops EXCEPT ![s] = "waits"] \/ loops' = [loops EXCEPT ![s] = "ended"]
        /\ detectors' \in {detectors, "warm"}
        /\ UNCHANGED <<injected, running, visionClosed, capture, task, starting, visionStopping, consumer,
                       raced>>
    BY <1>5 DEF Vision!RunLoop
  <2>3. Vision!TypeOK'
    <3>1. \A d \in Vision!StartCalls : Len(camera'[d].queue) <= FrameQueue
      BY <2>1 DEF Sanity, Sane
    <3> QED  BY <1>1, <2>1, <2>2, <3>1 DEF Vision!TypeOK, Sanity, Vision!NoCall, Vision!Item, Vision!End
  <2>4. ASSUME ~raced' PROVE Held'
    <3>1. Held /\ task = s /\ task # 0
      BY <1>d, <2>2, <2>4, VisionBounds DEF Held
    <3>2. \A d \in Vision!StartCalls : loops'[d] \in {"new", "waits"} => loops[d] \in {"new", "waits"}
      BY <1>1, <2>2 DEF Vision!TypeOK
    <3> QED  BY <2>1, <2>2, <3>1, <3>2, HeldStill
  <2> QED  BY <1>a, <2>1, <2>3, <2>4
<1>6. ASSUME NEW c \in Vision!StartCalls, Vision!ThreadReads(c) \/ Vision!Posted(c) PROVE CInv'
  <2>1. Sanity' /\ \A d \in Vision!StartCalls : Same(d)
    BY <1>1, <1>6, Reads, Posts
  <2>2. UNCHANGED <<injected, running, visionClosed, capture, task, detectors,
           starting, visionStopping, loops, source, streams, consumer, raced>>
    BY <1>6 DEF Vision!ThreadReads, Vision!Posted
  <2>3. Vision!TypeOK'
    BY <1>1, <2>1, <2>2, CaptureTypes
  <2>4. ~raced' => Held'
    BY <1>d, <2>1, <2>2, HeldStill
  <2> QED  BY <1>a, <2>1, <2>3, <2>4
<1>7. ASSUME Vision!ShutDown, NEW t \in Vision!StopCalls,
             visionStopping' = [visionStopping EXCEPT ![t] = "done"],
             running' \in BOOLEAN, visionClosed' = TRUE, task' \in {task, 0},
             ~raced => running' = FALSE /\ task' = 0 /\ (task = 0 \/ loops[task] = "ended"),
             UNCHANGED loops,
             UNCHANGED <<injected, starting, source, consumer, raced>>
      PROVE  CInv'
  <2>1. /\ Sanity' /\ \A d \in Vision!StartCalls : d # capture => Same(d)
        /\ \A d \in Vision!StartCalls : d = capture => Off(d)
    BY <1>1, <1>7, Stops DEF Vision!TypeOK, Vision!NoCall
  <2>2. /\ capture' = 0 /\ detectors' = "none"
        /\ streams' = [s \in Vision!Streams |-> Append(streams[s], 0)]
    BY <1>7 DEF Vision!ShutDown, Vision!NoCall, Vision!End
  <2>3. streams' \in [Vision!Streams -> Seq({1, 0})]
    BY <1>1, <2>2 DEF Vision!TypeOK, Vision!Item, Vision!End
  <2>4. Vision!TypeOK'
    <3>1. \A d \in Vision!StartCalls : Len(camera'[d].queue) <= FrameQueue
      BY <2>1 DEF Sanity, Sane
    <3>2. visionStopping' \in [Vision!StopCalls -> {"idle", "waits", "done"}]
      BY <1>1, <1>7 DEF Vision!TypeOK
    <3> QED  BY <1>1, <1>7, <2>1, <2>2, <2>3, <3>1, <3>2
             DEF Vision!TypeOK, Sanity, Vision!NoCall, Vision!Item, Vision!End
  <2>5. ASSUME ~raced' PROVE Held'
    <3>1. Held
      BY <1>d, <1>7, <2>5
    <3>2. \A d \in Vision!StartCalls : ~camera'[d].open /\ ~camera'[d].event
      BY <2>1, <3>1 DEF Held, Same, Off
    <3>3. \A d \in Vision!StartCalls : loops[d] \notin {"new", "waits"}
      BY <1>7, <2>5, <3>1, VisionBounds DEF Held
    <3> QED  BY <1>7, <2>2, <2>5, <3>2, <3>3 DEF Held
  <2> QED  BY <1>a, <2>1, <2>4, <2>5
<1>8. ASSUME NEW t \in Vision!StopCalls, Vision!StopEnds(t) PROVE CInv'
  <2>1. visionStopping[t] = "waits" /\ visionClosed = TRUE /\ running \in BOOLEAN
    BY <1>8 DEF Vision!StopEnds, CInv, Vision!TypeOK
  <2>2. ~raced => running = FALSE /\ task = 0
    BY <1>1, <1>d, <2>1 DEF Held, Vision!TypeOK
  <2> QED  BY <1>7, <1>8, <2>1, <2>2 DEF Vision!StopEnds
<1>9. ASSUME NEW t \in Vision!StopCalls, Vision!Stop(t) PROVE CInv'
  <2>1. /\ running' = FALSE /\ visionClosed' = TRUE /\ task' = 0
        /\ UNCHANGED <<injected, starting, source, consumer, raced>>
    BY <1>9 DEF Vision!Stop, Vision!NoCall
  <2>2. CASE task # 0 /\ loops[task] # "ended"
    <3>1. /\ loops' = [loops EXCEPT ![task] = "ended"]
          /\ visionStopping' = [visionStopping EXCEPT ![t] = "waits"]
          /\ UNCHANGED <<camera, capture, detectors, streams>>
      BY <1>9, <2>2 DEF Vision!Stop, Vision!NoCall
    <3>2. Vision!TypeOK'
      BY <1>1, <2>1, <3>1 DEF Vision!TypeOK, Vision!NoCall
    <3>3. ASSUME ~raced' PROVE Held'
      <4>1. Held /\ task \in Vision!StartCalls
        BY <1>1, <1>d, <2>1, <2>2, <3>3 DEF Vision!TypeOK, Vision!NoCall
      <4>2. \A s \in Vision!StartCalls : loops'[s] \notin {"new", "waits"}
        BY <1>1, <3>1, <4>1 DEF Held, Vision!TypeOK
      <4>3. visionStopping'[t] = "waits"
        BY <1>1, <3>1 DEF Vision!TypeOK
      <4> QED  BY <2>1, <3>1, <4>1, <4>2, <4>3 DEF Held
    <3> QED  BY <1>a, <1>b, <3>1, <3>2, <3>3
  <2>3. CASE ~(task # 0 /\ loops[task] # "ended")
    <3>1. /\ visionStopping' = [visionStopping EXCEPT ![t] = "done"]
          /\ Vision!ShutDown /\ UNCHANGED loops
      BY <1>9, <2>3 DEF Vision!Stop, Vision!NoCall
    <3> QED  BY <1>7, <2>1, <2>3, <3>1
  <2> QED  BY <2>2, <2>3
<1>10. ASSUME NEW s \in Vision!Streams, Vision!Consume(s) PROVE CInv'
  <2>1. /\ streams[s] # <<>> /\ streams' = [streams EXCEPT ![s] = Tail(@)]
        /\ consumer' \in {[consumer EXCEPT ![s] = "ended"], [consumer EXCEPT ![s] = "reads"]}
        /\ UNCHANGED <<injected, running, visionClosed, capture, task, detectors, starting,
                       visionStopping, loops, source, camera, raced>>
    BY <1>10 DEF Vision!Consume
  <2>2. Tail(streams[s]) \in Seq({1, 0})
    BY <1>1, <2>1, HeadTailProperties DEF Vision!TypeOK, Vision!Item, Vision!End
  <2>3. Vision!TypeOK'
    BY <1>1, <2>1, <2>2 DEF Vision!TypeOK, Vision!Item, Vision!End
  <2>4. ~raced' => Held'
    BY <1>b, <1>d, <2>1, HeldStill
  <2> QED  BY <1>a, <1>b, <2>1, <2>3, <2>4
<1>11. CASE UNCHANGED visionVars
  <2>1. UNCHANGED <<injected, running, visionClosed, capture, task, detectors,
           starting, visionStopping, loops, source, camera, streams, consumer, raced>>
    BY <1>11 DEF visionVars
  <2>2. Vision!TypeOK'
    BY <1>1, <1>b, <2>1, CaptureTypes
  <2>3. ~raced' => Held'
    BY <1>b, <1>d, <2>1, HeldStill
  <2> QED  BY <1>a, <1>b, <2>1, <2>2, <2>3
<1> QED  BY <1>3, <1>4, <1>5, <1>6, <1>8, <1>9, <1>10, <1>11 DEF Vision!Next

\* So does its start.
LEMMA VisionStarts == Vision!Init => CInv
<1> SUFFICES ASSUME Vision!Init PROVE CInv
  OBVIOUS
<1>1. /\ camera = [c \in Vision!StartCalls |-> Vision!Closed] /\ capture = 0 /\ task = 0 /\ ~raced
      /\ ~visionClosed /\ ~running /\ \A t \in Vision!StopCalls : visionStopping[t] = "idle"
      /\ \A s \in Vision!StartCalls : loops[s] = "none"
  BY DEF Vision!Init, Vision!NoCall
<1>2. <<>> \in Seq(Nat) /\ <<>> \in Seq({1, 0}) /\ Len(<<>>) = 0
  OBVIOUS
<1>3. Vision!Closed \in Vision!Cameras /\ Vision!Closed.queue = <<>> /\ Vision!Closed.posted = <<>>
      /\ ~Vision!Closed.open /\ ~Vision!Closed.event
  BY <1>2 DEF Vision!Closed, Vision!Cameras
<1>4. Vision!TypeOK
  <2>1. /\ camera \in [Vision!StartCalls -> Vision!Cameras]
        /\ \A c \in Vision!StartCalls : Len(camera[c].queue) <= FrameQueue
    BY <1>1, <1>2, <1>3, VisionBounds
  <2>2. streams \in [Vision!Streams -> Seq({1, 0})]
    BY <1>2 DEF Vision!Init
  <2> QED  BY <2>1, <2>2 DEF Vision!Init, Vision!TypeOK, Vision!NoCall, Vision!Item, Vision!End
<1>5. Held
  BY <1>1, <1>3 DEF Held
<1>6. \A c \in Vision!StartCalls : Kept(camera[c])
  <2>1. <<>> \o <<>> = <<>>
    OBVIOUS
  <2>2. \A r : Run(<<>>, r)
    BY <1>2 DEF Run
  <2>3. Kept(Vision!Closed)
    BY <1>3, <2>1, <2>2 DEF Kept
  <2> QED  BY <1>1, <2>3
<1> QED  BY <1>1, <1>4, <1>5, <1>6 DEF CInv

\* stop() reaches the camera and the loop that are there, and the newest frames are the ones that
\* wait: whatever calls overlap, unless one start() came between another and its consent.
THEOREM CameraReached == BesideSpec => []CameraIsHeld
<1>1. BesideInit => CInv
  BY VisionStarts DEF BesideInit
<1>2. CInv /\ [BesideNext]_besideVars => CInv'
  BY VisionStep DEF BesideNext, besideVars
<1>3. CInv => CameraIsHeld
  <2> SUFFICES ASSUME CInv PROVE Vision!CameraIsHeld /\ Vision!NewestIsKept
    BY DEF CameraIsHeld, CInv
  <2>1. Vision!CameraIsHeld
    BY VisionBounds DEF CInv, Held, Vision!CameraIsHeld
  <2>2. ASSUME NEW c \in Vision!StartCalls, NEW i \in DOMAIN (camera[c].queue \o camera[c].posted),
               (camera[c].queue \o camera[c].posted)[i] # 0,
               NEW n \in 1..camera[c].reads
        PROVE  LET frames0 == camera[c].queue \o camera[c].posted IN
               n > frames0[i] <=> \E j \in (i + 1)..Len(frames0) : frames0[j] = n
    <3> DEFINE s == camera[c].queue \o camera[c].posted
               r == camera[c].reads
    <3>1. s \in Seq(Nat) /\ Run(s, r) /\ r \in Nat
      BY Joint DEF CInv, Kept, Vision!TypeOK, Vision!Cameras
    <3>2. i \in 1..Len(s) /\ s[i] # 0 /\ n \in 1..r
      <4>1. DOMAIN s = 1..Len(s)
        BY <3>1
      <4> QED  BY <2>2, <4>1
    <3> HIDE DEF s, r
    <3>3. /\ s[i] \in Nat /\ \A j \in (i + 1)..Len(s) : s[j] # 0 => s[i] < s[j]
          /\ \A m \in (s[i] + 1)..r : \E j \in (i + 1)..Len(s) : s[j] = m
      BY <3>1, <3>2 DEF Run
    <3>4. n > s[i] <=> \E j \in (i + 1)..Len(s) : s[j] = n
      <4>1. ASSUME n > s[i] PROVE \E j \in (i + 1)..Len(s) : s[j] = n
        <5>1. n \in (s[i] + 1)..r
          BY <3>1, <3>2, <3>3, <4>1
        <5> QED  BY <3>3, <5>1
      <4>2. ASSUME NEW j \in (i + 1)..Len(s), s[j] = n PROVE n > s[i]
        <5>1. n # 0 /\ n \in Nat
          BY <3>2
        <5> QED  BY <3>3, <4>2, <5>1
      <4> QED  BY <4>1, <4>2
    <3> QED  BY <3>4 DEF s
  <2>3. Vision!NewestIsKept
    BY <2>2 DEF Vision!NewestIsKept, Vision!End
  <2> QED  BY <2>1, <2>3
<1> QED  BY <1>1, <1>2, <1>3, PTL DEF BesideSpec

-----------------------------------------------------------------------------
(* The recogniser in the backend's process *)

\* What was heard.
Heard == [final : BOOLEAN, n : 1..MaxItems]

\* What the queue of the consumer holds.
Entries == [final : BOOLEAN, n : 0..MaxItems]

\* Finals, and one other item behind them at most.
Shaped(q) == \A i \in 1..(Len(q) - 1) : q[i].final

\* The loop over a queue is a function that satisfies its equations.
LEMMA Loop ==
  ASSUME NEW q \in Seq(Entries)
  PROVE  \E g : /\ g = [i \in 0..Len(q) |-> IF i = 0 THEN <<>>
                          ELSE IF q[i].final THEN Append(g[i - 1], q[i]) ELSE g[i - 1]]
                /\ Recogniser!Finals(q) = g[Len(q)]
<1> DEFINE Is(g, l) == g = [i \in 0..l |-> IF i = 0 THEN <<>>
                              ELSE IF q[i].final THEN Append(g[i - 1], q[i]) ELSE g[i - 1]]
           T == {l \in 0..Len(q) : ~ \E g : Is(g, l)}
<1>0. Len(q) \in Nat
  OBVIOUS
<1>1. ASSUME T # {} PROVE FALSE
  <2>1. T \in SUBSET Nat
    BY <1>0
  <2>2. PICK l \in T : \A m \in T : l <= m
    BY <1>1, <2>1, Least
  <2>3. l # 0
    <3> DEFINE g == [i \in 0..0 |-> <<>>]
    <3>1. Is(g, 0)
      OBVIOUS
    <3> QED  BY <3>1, <2>2
  <2>4. l - 1 \in 0..Len(q) /\ l \in Nat /\ ~(l <= l - 1)
    BY <1>0, <2>2, <2>3
  <2>5. PICK g : Is(g, l - 1)
    BY <2>2, <2>4
  <2> DEFINE h == [i \in 0..l |-> IF i = l THEN IF q[l].final THEN Append(g[l - 1], q[l]) ELSE g[l - 1]
                                  ELSE g[i]]
  <2>6. \A i \in 0..l : h[i] = IF i = 0 THEN <<>>
              ELSE IF q[i].final THEN Append(h[i - 1], q[i]) ELSE h[i - 1]
    <3> SUFFICES ASSUME NEW i \in 0..l
                 PROVE  h[i] = IF i = 0 THEN <<>>
                    ELSE IF q[i].final THEN Append(h[i - 1], q[i]) ELSE h[i - 1]
      OBVIOUS
    <3>1. CASE i = l
      <4>1. h[i] = IF q[l].final THEN Append(g[l - 1], q[l]) ELSE g[l - 1]
        BY <2>4, <3>1
      <4>2. i # 0 /\ h[i - 1] = g[l - 1]
        BY <2>3, <2>4, <3>1
      <4> QED  BY <3>1, <4>1, <4>2
    <3>2. CASE i # l /\ i # 0
      <4>1. i \in 0..(l - 1) /\ i - 1 \in 0..(l - 1) /\ i - 1 \in 0..l /\ i - 1 # l
        BY <2>4, <3>2
      <4>2. h[i] = g[i] /\ h[i - 1] = g[i - 1]
        BY <3>2, <4>1
      <4>3. g[i] = IF q[i].final THEN Append(g[i - 1], q[i]) ELSE g[i - 1]
        BY <2>5, <3>2, <4>1
      <4> QED  BY <3>2, <4>2, <4>3
    <3>3. CASE i # l /\ i = 0
      <4>1. 0 \in 0..(l - 1)
        BY <2>3, <2>4
      <4>2. g[0] = <<>>
        BY <2>5, <4>1
      <4> QED  BY <3>3, <4>2
    <3> QED  BY <3>1, <3>2, <3>3
  <2>7. h = [i \in 0..l |-> h[i]]
    OBVIOUS
  <2> HIDE DEF h
  <2>8. Is(h, l)
    BY <2>6, <2>7
  <2> QED  BY <2>2, <2>8
<1>2. \E g : Is(g, Len(q))
  <2>1. Len(q) \in 0..Len(q)
    BY <1>0
  <2> QED  BY <1>1, <2>1
<1> DEFINE finals == CHOOSE g : Is(g, Len(q))
<1>3. Is(finals, Len(q))
  BY <1>2, Zenon
<1>4. Recogniser!Finals(q) = finals[Len(q)]
  BY Zenon DEF Recogniser!Finals
<1> QED  BY <1>3, <1>4, Zenon

\* What the loop takes out of a queue of that shape: all of it but the last item, where that is no final.
LEMMA FinalsFirst ==
  ASSUME NEW q \in Seq(Entries), Shaped(q)
  PROVE  /\ q = <<>> => Recogniser!Finals(q) = <<>>
         /\ q # <<>> => \E p \in Seq(Entries) :
              /\ q = Append(p, q[Len(q)]) /\ \A i \in 1..Len(p) : p[i].final
              /\ Recogniser!Finals(q) = IF q[Len(q)].final THEN q ELSE p
<1>1. PICK g : /\ g = [i \in 0..Len(q) |-> IF i = 0 THEN <<>>
                         ELSE IF q[i].final THEN Append(g[i - 1], q[i]) ELSE g[i - 1]]
               /\ Recogniser!Finals(q) = g[Len(q)]
  BY Loop
<1> DEFINE R(l) == g[l] \in Seq(Entries) /\ Len(g[l]) = l /\ \A i \in 1..l : g[l][i] = q[i]
           T == {l \in 0..(Len(q) - 1) : ~R(l)}
<1>0. Len(q) \in Nat
  OBVIOUS
<1>2. g[0] = <<>> /\ \A l \in 1..Len(q) : g[l] = IF q[l].final THEN Append(g[l - 1], q[l]) ELSE g[l - 1]
  <2>1. 0 \in 0..Len(q) /\ \A l \in 1..Len(q) : l \in 0..Len(q) /\ l # 0
    BY <1>0
  <2>2. \A l \in 0..Len(q) : g[l] = IF l = 0 THEN <<>>
                                 ELSE IF q[l].final THEN Append(g[l - 1], q[l]) ELSE g[l - 1]
    BY <1>1, Zenon
  <2> QED  BY <2>1, <2>2
<1>3. R(0)
  BY <1>2
<1>4. ASSUME NEW l \in 1..Len(q), R(l - 1), q[l].final PROVE R(l)
  <2>1. l \in Nat /\ l # 0 /\ q[l] \in Entries /\ l - 1 \in Nat /\ \A i \in 1..l : i = l \/ i \in 1..(l - 1)
    BY <1>0
  <2>2. g[l] = Append(g[l - 1], q[l]) /\ g[l - 1] \in Seq(Entries) /\ Len(g[l - 1]) = l - 1
    BY <1>2, <1>4
  <2>3. /\ g[l] \in Seq(Entries) /\ Len(g[l]) = l /\ g[l][l] = q[l]
        /\ \A i \in 1..(l - 1) : g[l][i] = g[l - 1][i]
    BY <2>1, <2>2, AppendProperties
  <2>4. \A i \in 1..(l - 1) : g[l - 1][i] = q[i]
    BY <1>4
  <2> QED  BY <2>1, <2>3, <2>4
<1>5. ASSUME T # {} PROVE FALSE
  <2>1. T \in SUBSET Nat
    BY <1>0
  <2> HIDE DEF R
  <2>2. PICK l \in T : \A m \in T : l <= m
    BY <1>5, <2>1, Least
  <2>3. l \in 0..(Len(q) - 1) /\ ~R(l)
    BY <2>2
  <2>4. l # 0
    BY <1>3, <2>3
  <2>5. l \in 1..Len(q) /\ l \in 1..(Len(q) - 1) /\ l - 1 \in 0..(Len(q) - 1) /\ ~(l <= l - 1)
    BY <1>0, <2>3, <2>4
  <2>6. R(l - 1) /\ q[l].final
    BY <2>2, <2>5 DEF Shaped
  <2> QED  BY <1>4, <2>3, <2>5, <2>6
<1>6. CASE q = <<>>
  BY <1>1, <1>2, <1>6
<1>7. CASE q # <<>>
  <2> DEFINE n == Len(q)
             p == g[n - 1]
  <2>1. n \in 1..n /\ n - 1 \in 0..(n - 1) /\ n \in Nat /\ n - 1 \in Nat
    BY <1>0, <1>7
  <2>2. R(n - 1)
    <3> HIDE DEF R
    <3> QED  BY <1>5, <2>1
  <2>3. p \in Seq(Entries) /\ Len(p) = n - 1 /\ \A i \in 1..(n - 1) : p[i] = q[i]
    BY <2>2
  <2>4. Recogniser!Finals(q) = IF q[n].final THEN Append(p, q[n]) ELSE p
    BY <1>1, <1>2, <2>1
  <2> HIDE DEF p, R
  <2>5. q = Append(p, q[n])
    <3>1. /\ Append(p, q[n]) \in Seq(Entries) /\ Len(Append(p, q[n])) = n
          /\ Append(p, q[n])[n] = q[n]
          /\ \A i \in 1..(n - 1) : Append(p, q[n])[i] = q[i]
      <4>1. q[n] \in Entries
        BY <2>1
      <4> QED  BY <2>1, <2>3, <4>1, AppendProperties
    <3>2. \A i \in 1..n : Append(p, q[n])[i] = q[i]
      BY <2>1, <3>1
    <3> QED  BY <3>1, <3>2, SeqEqual
  <2>6. \A i \in 1..Len(p) : p[i].final
    BY <2>3 DEF Shaped
  <2> QED  BY <1>7, <2>3, <2>4, <2>5, <2>6
<1> QED  BY <1>6, <1>7

\* The queue in a session: the finals that are due, and a preview behind them at most.
Session(q, d) ==
  /\ \A i \in 1..Len(d) : d[i].final
  /\ q = d \/ \E p \in Heard : ~p.final /\ q = Append(d, p)

\* What is assumed of the bounds.
LEMMA MicBounds == MaxCalls \in Nat /\ MaxEnds \in Nat /\ MaxItems \in Nat /\ 0 \notin Recogniser!Calls
BY BesideAssumption DEF Recogniser!RecorderBounds, Recogniser!Calls

\* What was heard can be queued, and is no end.
LEMMA Sorts == Heard \subseteq Entries /\ Recogniser!End \in Entries /\ Recogniser!End \notin Heard /\ ~Recogniser!End.final
<1>1. 0 \in 0..MaxItems /\ 0 \notin 1..MaxItems /\ 1..MaxItems \subseteq 0..MaxItems
  BY MicBounds
<1>2. Heard \subseteq Entries
  BY <1>1 DEF Heard, Entries
<1>3. Recogniser!End \in Entries /\ ~Recogniser!End.final
  BY <1>1 DEF Entries, Recogniser!End
<1>4. Recogniser!End \notin Heard
  BY <1>1 DEF Heard, Recogniser!End
<1> QED  BY <1>2, <1>3, <1>4

\* What a queue in a session is.
LEMMA InSession ==
  ASSUME NEW q, NEW d \in Seq(Heard), Session(q, d)
  PROVE  /\ q \in Seq(Heard) /\ q \in Seq(Entries) /\ d \in Seq(Entries) /\ Shaped(q)
         /\ \A i \in 1..Len(q) : q[i] # Recogniser!End
         /\ Recogniser!Finals(q) = d
         /\ Len(q) <= Len(d) + 1
<1>1. d \in Seq(Entries) /\ Len(d) \in Nat /\ \A i \in 1..Len(d) : d[i].final
  BY Sorts DEF Session
<1>2. CASE q = d
  <2>1. q \in Seq(Heard) /\ q \in Seq(Entries) /\ Shaped(q) /\ Len(q) <= Len(d) + 1
    BY <1>1, <1>2 DEF Shaped
  <2>2. Recogniser!Finals(q) = d
    <3>1. CASE q = <<>>
      BY <1>2, <2>1, <3>1, FinalsFirst
    <3>2. CASE q # <<>>
      <4>1. q[Len(q)].final
        BY <1>1, <1>2, <3>2
      <4> QED  BY <1>2, <2>1, <3>2, <4>1, FinalsFirst
    <3> QED  BY <3>1, <3>2
  <2>3. \A i \in 1..Len(q) : q[i] # Recogniser!End
    BY <1>2, Sorts
  <2> QED  BY <1>1, <2>1, <2>2, <2>3
<1>3. ASSUME NEW p \in Heard, ~p.final, q = Append(d, p)
      PROVE  /\ q \in Seq(Heard) /\ q \in Seq(Entries) /\ Shaped(q) /\ Len(q) <= Len(d) + 1
             /\ \A i \in 1..Len(q) : q[i] # Recogniser!End
             /\ Recogniser!Finals(q) = d
  <2>1. /\ q \in Seq(Heard) /\ Len(q) = Len(d) + 1 /\ q[Len(d) + 1] = p
        /\ \A i \in 1..Len(d) : q[i] = d[i]
    BY <1>3, AppendProperties
  <2>2. q \in Seq(Entries)
    BY <2>1, Sorts
  <2>3. Len(q) - 1 = Len(d) /\ q # <<>> /\ q[Len(q)] = p /\ Len(q) <= Len(d) + 1
    BY <1>1, <2>1
  <2>4. Shaped(q)
    BY <1>1, <2>1, <2>3 DEF Shaped
  <2>5. \A i \in 1..Len(q) : q[i] # Recogniser!End
    BY <2>1, Sorts
  <2>6. PICK o \in Seq(Entries) : q = Append(o, q[Len(q)]) /\ Recogniser!Finals(q) = o
    BY <1>3, <2>2, <2>3, <2>4, FinalsFirst
  <2>7. o = d
    <3>1. p \in Entries
      BY Sorts
    <3>2. /\ Len(q) = Len(o) + 1 /\ \A i \in 1..Len(o) : q[i] = o[i]
      BY <2>3, <2>6, <3>1, AppendProperties
    <3>3. Len(o) = Len(d) /\ Len(o) \in Nat
      BY <1>1, <2>1, <3>2
    <3>4. \A i \in 1..Len(o) : o[i] = d[i]
      BY <2>1, <3>2, <3>3
    <3> QED  BY <1>1, <3>3, <3>4, SeqEqual
  <2> QED  BY <2>1, <2>2, <2>3, <2>4, <2>5, <2>6, <2>7
<1> QED  BY <1>1, <1>2, <1>3 DEF Session

\* _enqueue_item keeps the shape of the queue, and the session.
LEMMA Enqueues ==
  ASSUME NEW q \in Seq(Entries), Shaped(q), NEW x \in Entries
  PROVE  /\ Recogniser!Enqueued(q, x) \in Seq(Entries)
         /\ Shaped(Recogniser!Enqueued(q, x))
<1>0. Recogniser!End \in Entries /\ Len(q) \in Nat
  BY Sorts
<1>1. CASE x = Recogniser!End
  <2>1. Recogniser!Enqueued(q, x) = <<Recogniser!End>>
    BY <1>1 DEF Recogniser!Enqueued
  <2>2. <<Recogniser!End>> \in Seq(Entries) /\ Len(<<Recogniser!End>>) = 1
    BY <1>0
  <2>3. Shaped(<<Recogniser!End>>)
    BY <2>2 DEF Shaped
  <2> QED  BY <2>1, <2>2, <2>3
<1>2. CASE x # Recogniser!End
  <2>1. PICK y \in Entries : Recogniser!Enqueued(q, x) = Append(Recogniser!Finals(q), y)
    BY <1>0, <1>2 DEF Recogniser!Enqueued
  <2>2. Recogniser!Finals(q) \in Seq(Entries) /\ \A i \in 1..Len(Recogniser!Finals(q)) : Recogniser!Finals(q)[i].final
    <3>1. CASE q = <<>>
      <4>1. Recogniser!Finals(q) = <<>>
        BY <3>1, FinalsFirst
      <4> QED  BY <4>1
    <3>2. CASE q # <<>>
      <4>1. PICK p \in Seq(Entries) :
              /\ \A i \in 1..Len(p) : p[i].final
              /\ Recogniser!Finals(q) = IF q[Len(q)].final THEN q ELSE p
        BY <3>2, FinalsFirst
      <4>2. CASE q[Len(q)].final
        <5>1. \A i \in 1..Len(q) : i = Len(q) \/ i \in 1..(Len(q) - 1)
          BY <1>0
        <5> QED  BY <4>1, <4>2, <5>1 DEF Shaped
      <4>3. CASE ~q[Len(q)].final
        BY <4>1, <4>3
      <4> QED  BY <4>2, <4>3
    <3> QED  BY <3>1, <3>2
  <2> DEFINE f == Recogniser!Finals(q)
  <2> HIDE DEF f
  <2>3. f \in Seq(Entries) /\ \A i \in 1..Len(f) : f[i].final
    BY <2>2 DEF f
  <2>4. /\ Append(f, y) \in Seq(Entries) /\ Len(Append(f, y)) - 1 = Len(f)
        /\ \A i \in 1..Len(f) : Append(f, y)[i] = f[i]
    <3>1. /\ Append(f, y) \in Seq(Entries) /\ Len(Append(f, y)) = Len(f) + 1
          /\ \A i \in 1..Len(f) : Append(f, y)[i] = f[i]
      BY <2>3, AppendProperties
    <3>2. Len(f) \in Nat
      BY <2>3
    <3> QED  BY <3>1, <3>2
  <2>5. Shaped(Append(f, y))
    BY <2>3, <2>4 DEF Shaped
  <2> QED  BY <2>1, <2>4, <2>5 DEF f
<1> QED  BY <1>1, <1>2

\* What is delivered in a session keeps it.
LEMMA SessionGoesOn ==
  ASSUME NEW q, NEW d \in Seq(Heard), Session(q, d), NEW x \in Heard
  PROVE  Session(Recogniser!Enqueued(q, x), IF x.final THEN Append(d, x) ELSE d)
<1>1. /\ \A i \in 1..Len(q) : q[i] # Recogniser!End /\ Recogniser!Finals(q) = d
      /\ q \in Seq(Heard) /\ x # Recogniser!End
  BY InSession, Sorts
<1>2. DOMAIN q = 1..Len(q)
  BY <1>1
<1>3. Recogniser!Enqueued(q, x) = Append(d, x)
  BY <1>1, <1>2, InSession DEF Recogniser!Enqueued
<1>4. CASE x.final
  <2>1. /\ Len(Append(d, x)) = Len(d) + 1 /\ Append(d, x)[Len(d) + 1] = x /\ Len(d) \in Nat
        /\ \A i \in 1..Len(d) : Append(d, x)[i] = d[i]
    BY AppendProperties
  <2>2. \A i \in 1..Len(Append(d, x)) : i = Len(d) + 1 \/ i \in 1..Len(d)
    BY <2>1
  <2>3. \A i \in 1..Len(Append(d, x)) : Append(d, x)[i].final
    BY <1>4, <2>1, <2>2 DEF Session
  <2> QED  BY <1>3, <1>4, <2>3 DEF Session
<1>5. CASE ~x.final
  BY <1>3, <1>5 DEF Session
<1> QED  BY <1>4, <1>5

\* The consumer takes the oldest item.
LEMMA SessionTakes ==
  ASSUME NEW q, NEW d \in Seq(Heard), Session(q, d), q # <<>>
  PROVE  Session(Tail(q), IF d # <<>> /\ Head(q) = Head(d) THEN Tail(d) ELSE d)
<1>1. CASE d = <<>>
  <2>1. PICK p \in Heard : ~p.final /\ q = Append(d, p)
    BY <1>1 DEF Session
  <2>2. Tail(q) = <<>>
    BY <1>1, <2>1
  <2> QED  BY <1>1, <2>2 DEF Session
<1>2. CASE d # <<>>
  <2>1. /\ Tail(d) \in Seq(Heard) /\ Len(Tail(d)) = Len(d) - 1 /\ Len(d) \in Nat /\ Len(d) >= 1
        /\ \A i \in 1..Len(Tail(d)) : Tail(d)[i] = d[i + 1]
    BY <1>2, HeadTailProperties
  <2>2. \A i \in 1..Len(Tail(d)) : Tail(d)[i].final
    <3>1. \A i \in 1..Len(Tail(d)) : i + 1 \in 1..Len(d)
      BY <2>1
    <3> QED  BY <2>1, <3>1 DEF Session
  <2>3. CASE q = d
    BY <1>2, <2>2, <2>3 DEF Session
  <2>4. ASSUME NEW p \in Heard, ~p.final, q = Append(d, p)
        PROVE  Session(Tail(q), Tail(d)) /\ Head(q) = Head(d)
    <3>1. Head(q) = Head(d)
      BY <1>2, <2>1, <2>4
    <3>2. Tail(q) = Append(Tail(d), p)
      BY <1>2, <2>1, <2>4
    <3> QED  BY <2>2, <2>4, <3>1, <3>2 DEF Session
  <2> QED  BY <1>2, <2>3, <2>4 DEF Session
<1> QED  BY <1>1, <1>2

-----------------------------------------------------------------------------
\* How far a call has come.
Stages == {"idle", "waits", "retires", "joins", "builds", "resumes", "done", "refused"}

\* What is known of a call.
CallOf == [kind : {"none", "start", "prepare"}, wants : Signatures \cup {"none"}, stage : Stages]

\* What is known of a recorder.
RecorderOf == [live : BOOLEAN, microphone : BOOLEAN, heard : BOOLEAN,
               pump : {"none", "waits", "reads", "ended"}]

\* The types of it all.
MicTyped ==
  /\ {listens, micClosed, shutdown, session, listening, overlapped, outlived, failed} \subseteq BOOLEAN
  /\ recorder \in Recogniser!Calls \cup {0} /\ lock \in Recogniser!Calls \cup {0}
  /\ signature \in Signatures \cup {"none"}
  /\ call \in [Recogniser!Calls -> CallOf]
  /\ built \in [Recogniser!Recorders -> RecorderOf]
  /\ posted \in Seq(Heard) /\ transcripts \in Seq(Entries) /\ due \in Seq(Heard)
  /\ items \in 0..MaxItems

\* The call that holds the lock replaces the recorder.
Locked ==
  \A c \in Recogniser!Calls :
    call[c].stage \in {"retires", "joins", "builds", "resumes"} <=> lock = c

\* There is a recorder between its construction and its end, and it is the adapter's.
MicHeld ==
  /\ \A r \in Recogniser!Recorders :
       /\ built[r].live => recorder = r
       /\ built[r].microphone => built[r].live /\ listens
  /\ \A c \in Recogniser!Calls : call[c].stage \in {"joins", "builds"} =>
       \A r \in Recogniser!Recorders : ~built[r].live
  /\ \A c \in Recogniser!Calls : call[c].stage = "builds" => ~shutdown
  /\ (/\ recorder # 0 /\ ~failed
      /\ \A c \in Recogniser!Calls : call[c].stage \notin {"joins", "builds"}) =>
       ~shutdown /\ built[recorder].live /\ Recogniser!Alive(recorder)

\* A pump is begun when there is none.
OnePump ==
  /\ \A r, s \in Recogniser!Recorders : Recogniser!Alive(r) /\ Recogniser!Alive(s) => r = s
  /\ \A c \in Recogniser!Calls : call[c].stage = "builds" =>
       \A r \in Recogniser!Recorders : ~Recogniser!Alive(r)

\* The inductive invariant.
MInv ==
  /\ MicTyped
  /\ Shaped(transcripts)
  /\ listens => Session(transcripts, due)
  /\ Locked
  /\ ~overlapped => MicHeld
  /\ ~outlived => OnePump

\* A recorder's pump is as before.
SamePump(r) == built'[r].pump = built[r].pump

\* So is its life.
SameLife(r) == built'[r].live = built[r].live

\* The rest of start() and prepare().
LEMMA Readies ==
  ASSUME MicTyped, NEW c \in Recogniser!Calls, NEW k \in CallOf, Recogniser!Ready(c, k)
  PROVE  /\ call' \in [Recogniser!Calls -> CallOf]
         /\ call'[c].stage \in {"done", "refused"}
         /\ \A d \in Recogniser!Calls \ {c} : call'[d] = call[d]
         /\ built' \in [Recogniser!Recorders -> RecorderOf]
         /\ \A r \in Recogniser!Recorders :
              /\ SamePump(r) /\ SameLife(r)
              /\ built'[r].microphone => built[r].microphone \/ built[r].live
         /\ \/ UNCHANGED <<listens, micClosed, session, built>>
            \/ listens' = TRUE /\ micClosed' = FALSE /\ session' = TRUE
         /\ \/ transcripts' = <<>> /\ due' = <<>>
            \/ UNCHANGED <<listens, transcripts, due>>
<1> DEFINE refused == k.kind = "start" /\ recorder = 0
           x == IF refused THEN "refused" ELSE "done"
<1>1. /\ call' = [call EXCEPT ![c] = [k EXCEPT !.stage = x]]
      /\ [k EXCEPT !.stage = x] \in CallOf /\ x \in {"done", "refused"}
  BY DEF Recogniser!Ready, Recogniser!None, CallOf, Stages
<1> HIDE DEF x
<1>2. /\ call' \in [Recogniser!Calls -> CallOf]
      /\ call'[c].stage \in {"done", "refused"}
      /\ \A d \in Recogniser!Calls \ {c} : call'[d] = call[d]
  <2>1. call' \in [Recogniser!Calls -> CallOf] /\ \A d \in Recogniser!Calls \ {c} : call'[d] = call[d]
    BY <1>1 DEF MicTyped
  <2>2. call'[c] = [k EXCEPT !.stage = x]
    BY <1>1 DEF MicTyped
  <2> QED  BY <1>1, <2>1, <2>2 DEF CallOf
<1>3. CASE k.kind # "start" \/ refused
  <2>1. UNCHANGED <<listens, micClosed, session, built>>
    BY <1>3 DEF Recogniser!Ready, Recogniser!None
  <2>2. \/ transcripts' = <<>> /\ due' = <<>>
        \/ UNCHANGED <<listens, transcripts, due>>
    BY <2>1 DEF Recogniser!Ready
  <2> QED  BY <1>2, <2>1, <2>2 DEF SamePump, SameLife, MicTyped
<1>4. CASE ~(k.kind # "start" \/ refused)
  <2>1. /\ listens' = TRUE /\ micClosed' = FALSE /\ session' = TRUE
        /\ transcripts' = <<>> /\ due' = <<>>
        /\ built' = [built EXCEPT ![recorder].microphone = built[recorder].live,
                                  ![recorder].heard = built[recorder].live]
    BY <1>4 DEF Recogniser!Ready, Recogniser!None
  <2>2. recorder \in Recogniser!Recorders
    BY <1>4 DEF MicTyped, Recogniser!Recorders, Recogniser!Calls
  <2>3. /\ built[recorder] \in RecorderOf /\ built \in [Recogniser!Recorders -> RecorderOf]
        /\ built[recorder].live \in BOOLEAN
    BY <2>2 DEF MicTyped, RecorderOf
  <2> DEFINE b == built[recorder]
             t == [b EXCEPT !.microphone = b.live, !.heard = b.live]
  <2>4. t \in RecorderOf /\ t.pump = b.pump /\ t.live = b.live /\ t.microphone = b.live
    BY <2>3 DEF RecorderOf
  <2>5. built' = [built EXCEPT ![recorder] = t]
    BY <2>1, <2>2, <2>3
  <2> HIDE DEF t
  <2>6. /\ built' \in [Recogniser!Recorders -> RecorderOf]
        /\ built'[recorder] = t /\ \A r \in Recogniser!Recorders \ {recorder} : built'[r] = built[r]
    BY <2>2, <2>3, <2>4, <2>5
  <2>7. \A r \in Recogniser!Recorders :
          /\ SamePump(r) /\ SameLife(r)
          /\ built'[r].microphone => built[r].microphone \/ built[r].live
    BY <2>4, <2>6 DEF SamePump, SameLife
  <2> QED  BY <1>2, <2>1, <2>6, <2>7
<1> QED  BY <1>3, <1>4

LEMMA ReadyKeeps ==
  ASSUME MInv, NEW c \in Recogniser!Calls, NEW k \in CallOf, Recogniser!Ready(c, k),
         call[c].stage \notin {"joins", "builds"},
         \/ lock = c /\ lock' = 0
         \/ lock # c /\ lock' = lock,
         UNCHANGED <<recorder, signature, shutdown, posted, listening, items, outlived, failed>>,
         overlapped' \in BOOLEAN, ~overlapped' => ~overlapped
  PROVE  MInv'
<1>1. MicTyped
  BY DEF MInv
<1>2. /\ call' \in [Recogniser!Calls -> CallOf]
      /\ call'[c].stage \in {"done", "refused"}
      /\ \A d \in Recogniser!Calls \ {c} : call'[d] = call[d]
      /\ built' \in [Recogniser!Recorders -> RecorderOf]
      /\ \A r \in Recogniser!Recorders :
           /\ SamePump(r) /\ SameLife(r)
           /\ built'[r].microphone => built[r].microphone \/ built[r].live
      /\ \/ UNCHANGED <<listens, micClosed, session, built>>
         \/ listens' = TRUE /\ micClosed' = FALSE /\ session' = TRUE
      /\ \/ transcripts' = <<>> /\ due' = <<>>
         \/ UNCHANGED <<listens, transcripts, due>>
  BY <1>1, Readies
<1>3. MicTyped'
  <2>1. <<>> \in Seq(Entries) /\ <<>> \in Seq(Heard)
    OBVIOUS
  <2>2. /\ {listens, micClosed, session}' \subseteq BOOLEAN
        /\ transcripts' \in Seq(Entries) /\ due' \in Seq(Heard) /\ lock' \in Recogniser!Calls \cup {0}
    BY <1>1, <1>2, <2>1 DEF MicTyped
  <2> QED  BY <1>1, <1>2, <2>2 DEF MicTyped
<1>4. Shaped(transcripts)' /\ (listens' => Session(transcripts, due)')
  <2>1. CASE UNCHANGED <<listens, transcripts, due>>
    BY <2>1 DEF MInv, Shaped, Session
  <2>2. CASE transcripts' = <<>> /\ due' = <<>>
    <3>1. Len(<<>>) = 0
      OBVIOUS
    <3> QED  BY <2>2, <3>1 DEF Shaped, Session
  <2> QED  BY <1>2, <2>1, <2>2
<1>5. Locked'
  <2>1. Locked /\ 0 \notin Recogniser!Calls
    BY MicBounds DEF MInv
  <2>2. call'[c].stage \notin {"retires", "joins", "builds", "resumes"} /\ lock' # c
    BY <1>2, <2>1
  <2>3. ASSUME NEW d \in Recogniser!Calls \ {c}
        PROVE  call'[d].stage \in {"retires", "joins", "builds", "resumes"} <=> lock' = d
    BY <1>2, <2>1 DEF Locked
  <2> QED  BY <2>2, <2>3 DEF Locked
<1>6. \A d \in Recogniser!Calls : call'[d].stage \in {"joins", "builds"} => call'[d] = call[d]
  BY <1>2
<1>7. \A r \in Recogniser!Recorders : Recogniser!Alive(r)' <=> Recogniser!Alive(r)
  BY <1>2 DEF SamePump, Recogniser!Alive
<1>8. \A d \in Recogniser!Calls :
        (call'[d].stage \in {"joins", "builds"} <=> call[d].stage \in {"joins", "builds"})
  BY <1>2
<1>9. ~overlapped' => MicHeld'
  <2> SUFFICES ASSUME ~overlapped' PROVE MicHeld'
    OBVIOUS
  <2>1. MicHeld /\ recorder' = recorder /\ shutdown' = shutdown /\ failed' = failed
    BY DEF MInv
  <2>2. ASSUME NEW r \in Recogniser!Recorders
        PROVE  /\ built'[r].live => recorder' = r
               /\ built'[r].microphone => built'[r].live /\ listens'
    BY <1>2, <2>1 DEF MicHeld, SameLife
  <2>3. \A d \in Recogniser!Calls : call'[d].stage \in {"joins", "builds"} =>
          \A r \in Recogniser!Recorders : ~built'[r].live
    BY <1>2, <1>6, <2>1 DEF MicHeld, SameLife
  <2>4. \A d \in Recogniser!Calls : call'[d].stage = "builds" => ~shutdown'
    BY <1>6, <2>1 DEF MicHeld
  <2>5. (/\ recorder' # 0 /\ ~failed'
         /\ \A d \in Recogniser!Calls : call'[d].stage \notin {"joins", "builds"}) =>
           ~shutdown' /\ built'[recorder'].live /\ Recogniser!Alive(recorder)'
    <3> SUFFICES ASSUME recorder # 0, ~failed, \A d \in Recogniser!Calls : call'[d].stage \notin {"joins", "builds"}
                 PROVE  ~shutdown' /\ built'[recorder'].live /\ Recogniser!Alive(recorder)'
      BY <2>1
    <3>1. recorder \in Recogniser!Recorders
      BY <1>1 DEF MicTyped, Recogniser!Recorders, Recogniser!Calls
    <3>2. ~shutdown /\ built[recorder].live /\ Recogniser!Alive(recorder)
      BY <1>8, <2>1 DEF MicHeld
    <3>3. built'[recorder].live = built[recorder].live /\ built'[recorder].pump = built[recorder].pump
      BY <1>2, <3>1 DEF SameLife, SamePump
    <3> QED  BY <2>1, <3>2, <3>3 DEF Recogniser!Alive
  <2> QED  BY <2>2, <2>3, <2>4, <2>5 DEF MicHeld
<1>10. ~outlived' => OnePump'
  <2> SUFFICES ASSUME ~outlived PROVE OnePump'
    OBVIOUS
  <2>1. OnePump
    BY DEF MInv
  <2> QED  BY <1>6, <1>7, <2>1 DEF OnePump
<1> QED  BY <1>3, <1>4, <1>5, <1>9, <1>10 DEF MInv

\* A call that only comes to another stage, or leaves.
LEMMA StageKeeps ==
  ASSUME MInv, NEW c \in Recogniser!Calls, NEW k \in CallOf, call' = [call EXCEPT ![c] = k],
         call[c].stage \in {"idle", "waits"},
         \/ k.stage \in {"waits", "done"} /\ lock' = lock
         \/ k.stage = "retires" /\ lock = 0 /\ lock' = c,
         UNCHANGED <<listens, micClosed, session, built, transcripts, due,
                     recorder, signature, shutdown, posted, listening, items, outlived, failed>>,
         overlapped' \in BOOLEAN, ~overlapped' => ~overlapped
  PROVE  MInv'
<1>1. MicTyped /\ Locked
  BY DEF MInv
<1>2. /\ call' \in [Recogniser!Calls -> CallOf] /\ call'[c] = k
      /\ \A d \in Recogniser!Calls \ {c} : call'[d] = call[d]
  BY <1>1 DEF MicTyped
<1>3. MicTyped'
  BY <1>1, <1>2 DEF MicTyped
<1>4. Locked'
  BY <1>1, <1>2, MicBounds DEF Locked
<1>5. \A d \in Recogniser!Calls :
        (call'[d].stage \in {"joins", "builds"} <=> call[d].stage \in {"joins", "builds"})
        /\ (call'[d].stage = "builds" <=> call[d].stage = "builds")
  BY <1>2
<1>6. ~overlapped' => MicHeld'
  BY <1>5 DEF MInv, MicHeld, Recogniser!Alive
<1>7. ~outlived' => OnePump'
  BY <1>5 DEF MInv, OnePump, Recogniser!Alive
<1> QED  BY <1>3, <1>4, <1>6, <1>7 DEF MInv, Shaped, Session

\* The lock's holder goes on to the next stage of a replacement, or gives up.
LEMMA Advances ==
  ASSUME MInv, NEW c \in Recogniser!Calls, NEW new \in {"joins", "builds", "resumes", "done"},
         call[c].stage \in {"retires", "joins", "builds", "resumes"},
         call' = [call EXCEPT ![c].stage = new],
         lock' = IF new = "done" THEN 0 ELSE lock
  PROVE  /\ lock = c /\ lock' \in Recogniser!Calls \cup {0}
         /\ call' \in [Recogniser!Calls -> CallOf] /\ Locked'
         /\ call'[c].stage = new
         /\ \A d \in Recogniser!Calls \ {c} :
              call'[d] = call[d] /\ call[d].stage \notin {"retires", "joins", "builds", "resumes"}
<1>1. call \in [Recogniser!Calls -> CallOf] /\ Locked /\ 0 \notin Recogniser!Calls /\ lock \in Recogniser!Calls \cup {0}
  BY MicBounds DEF MInv, MicTyped
<1>2. /\ lock = c
      /\ \A d \in Recogniser!Calls \ {c} : call[d].stage \notin {"retires", "joins", "builds", "resumes"}
  BY <1>1 DEF Locked
<1>3. [call[c] EXCEPT !.stage = new] \in CallOf /\ [call[c] EXCEPT !.stage = new].stage = new
  BY <1>1 DEF CallOf, Stages
<1>4. call' = [call EXCEPT ![c] = [call[c] EXCEPT !.stage = new]]
  BY <1>1
<1>5. /\ call' \in [Recogniser!Calls -> CallOf] /\ call'[c].stage = new
      /\ \A d \in Recogniser!Calls \ {c} : call'[d] = call[d]
  BY <1>1, <1>3, <1>4
<1>6. Locked'
  <2>1. call'[c].stage \in {"retires", "joins", "builds", "resumes"} <=> lock' = c
    BY <1>1, <1>2, <1>5
  <2>2. ASSUME NEW d \in Recogniser!Calls \ {c}
        PROVE  call'[d].stage \in {"retires", "joins", "builds", "resumes"} <=> lock' = d
    BY <1>1, <1>2, <1>5
  <2> QED  BY <2>1, <2>2 DEF Locked
<1> QED  BY <1>1, <1>2, <1>5, <1>6

\* stop() or shutdown() of one recorder.
LEMMA Shuts ==
  ASSUME MicTyped, NEW r \in Recogniser!Recorders, built' = Recogniser!Shut(r)
  PROVE  /\ built' \in [Recogniser!Recorders -> RecorderOf]
         /\ ~built'[r].live /\ ~built'[r].microphone
         /\ \A s \in Recogniser!Recorders : SamePump(s)
         /\ \A s \in Recogniser!Recorders \ {r} : built'[s] = built[s]
<1> DEFINE t == [built[r] EXCEPT !.live = FALSE, !.microphone = FALSE]
<1>1. built \in [Recogniser!Recorders -> RecorderOf] /\ built[r] \in RecorderOf
  BY DEF MicTyped
<1>2. t \in RecorderOf /\ t.pump = built[r].pump /\ ~t.live /\ ~t.microphone
  BY <1>1 DEF RecorderOf
<1>3. built' = [built EXCEPT ![r] = t]
  BY <1>1 DEF Recogniser!Shut
<1> HIDE DEF t
<1>4. /\ built' \in [Recogniser!Recorders -> RecorderOf] /\ built'[r] = t
      /\ \A s \in Recogniser!Recorders \ {r} : built'[s] = built[s]
  BY <1>1, <1>2, <1>3
<1> QED  BY <1>2, <1>4 DEF SamePump

\* The old recorder is stopped.
LEMMA RetireKeeps == ASSUME MInv, NEW c \in Recogniser!Calls, Recogniser!Retire(c) PROVE MInv'
<1>1. /\ lock = c /\ lock' \in Recogniser!Calls \cup {0}
      /\ call' \in [Recogniser!Calls -> CallOf] /\ Locked' /\ call'[c].stage = "joins"
      /\ \A d \in Recogniser!Calls \ {c} :
           call'[d] = call[d] /\ call[d].stage \notin {"retires", "joins", "builds", "resumes"}
  BY Advances DEF Recogniser!Retire
<1>2. MicTyped /\ UNCHANGED <<listens, micClosed, recorder, signature, lock, posted, transcripts, listening, due,
                   items, overlapped, outlived, failed>>
  BY DEF Recogniser!Retire, MInv
<1>3. /\ built' \in [Recogniser!Recorders -> RecorderOf] /\ \A r \in Recogniser!Recorders : SamePump(r)
      /\ \A r \in Recogniser!Recorders \ {recorder} : built'[r] = built[r]
      /\ \A r \in Recogniser!Recorders : r = recorder => ~built'[r].live /\ ~built'[r].microphone
      /\ {shutdown, session}' \subseteq BOOLEAN
  <2>1. CASE recorder = 0
    <3>1. 0 \notin Recogniser!Recorders
      BY MicBounds DEF Recogniser!Recorders, Recogniser!Calls
    <3> QED  BY <1>2, <2>1, <3>1 DEF Recogniser!Retire, Recogniser!None, MicTyped, SamePump
  <2>2. CASE recorder # 0
    <3>1. /\ recorder \in Recogniser!Recorders /\ built' = Recogniser!Shut(recorder)
          /\ shutdown' = TRUE /\ session' = TRUE
      BY <1>2, <2>2 DEF Recogniser!Retire, Recogniser!None, MicTyped, Recogniser!Recorders, Recogniser!Calls
    <3> QED  BY <1>2, <3>1, Shuts
  <2> QED  BY <2>1, <2>2
<1>4. MicTyped'
  BY <1>1, <1>2, <1>3 DEF MicTyped
<1>5. ~overlapped' => MicHeld'
  <2> SUFFICES ASSUME ~overlapped PROVE MicHeld'
    BY <1>2
  <2>1. MicHeld
    BY DEF MInv
  <2>2. \A r \in Recogniser!Recorders : ~built'[r].live /\ ~built'[r].microphone
    BY <1>3, <2>1 DEF MicHeld
  <2> QED  BY <1>1, <2>2 DEF MicHeld
<1>6. ~outlived' => OnePump'
  BY <1>1, <1>2, <1>3 DEF MInv, OnePump, Recogniser!Alive, SamePump
<1> QED  BY <1>1, <1>2, <1>4, <1>5, <1>6 DEF MInv, Shaped, Session

\* Its pump was waited for.
LEMMA JoinedKeeps == ASSUME MInv, NEW c \in Recogniser!Calls, Recogniser!Joined(c) PROVE MInv'
<1>1. /\ lock = c /\ lock' \in Recogniser!Calls \cup {0}
      /\ call' \in [Recogniser!Calls -> CallOf] /\ Locked' /\ call'[c].stage = "builds"
      /\ \A d \in Recogniser!Calls \ {c} :
           call'[d] = call[d] /\ call[d].stage \notin {"retires", "joins", "builds", "resumes"}
  BY Advances DEF Recogniser!Joined
<1>2. /\ MicTyped
      /\ UNCHANGED <<listens, micClosed, recorder, signature, lock, built, posted, transcripts, listening, due,
                   items, overlapped, failed>>
      /\ shutdown' = FALSE /\ session' = FALSE /\ call[c].stage = "joins"
      /\ outlived' = (outlived \/ \E r \in Recogniser!Recorders : Recogniser!Alive(r))
  BY DEF Recogniser!Joined, MInv
<1>3. outlived' \in BOOLEAN
  BY <1>2 DEF MicTyped
<1>4. MicTyped'
  BY <1>1, <1>2, <1>3 DEF MicTyped
<1>5. ~overlapped' => MicHeld'
  <2> SUFFICES ASSUME ~overlapped PROVE MicHeld'
    BY <1>2
  <2>1. MicHeld
    BY DEF MInv
  <2>2. \A r \in Recogniser!Recorders : ~built[r].live /\ ~built[r].microphone
    BY <1>2, <2>1 DEF MicHeld
  <2> QED  BY <1>1, <1>2, <2>2 DEF MicHeld
<1>6. ~outlived' => OnePump'
  BY <1>1, <1>2 DEF MInv, OnePump, Recogniser!Alive
<1> QED  BY <1>1, <1>2, <1>4, <1>5, <1>6 DEF MInv, Shaped, Session

\* The new one is there.
LEMMA BuiltKeeps == ASSUME MInv, NEW c \in Recogniser!Calls, Recogniser!Built(c) PROVE MInv'
<1>1. /\ lock = c /\ lock' \in Recogniser!Calls \cup {0}
      /\ call' \in [Recogniser!Calls -> CallOf] /\ Locked' /\ call'[c].stage = "resumes"
      /\ \A d \in Recogniser!Calls \ {c} :
           call'[d] = call[d] /\ call[d].stage \notin {"retires", "joins", "builds", "resumes"}
  BY Advances DEF Recogniser!Built
<1> DEFINE t == [live |-> TRUE, microphone |-> FALSE, heard |-> FALSE, pump |-> "waits"]
<1>2. /\ MicTyped
      /\ UNCHANGED <<listens, micClosed, shutdown, session, lock, posted, transcripts, listening, due,
                   items, overlapped, outlived, failed>>
      /\ recorder' = c /\ signature' = call[c].wants /\ call[c].stage = "builds"
      /\ built' = [built EXCEPT ![c] = t]
  BY DEF Recogniser!Built, MInv
<1>3. t \in RecorderOf /\ c \in Recogniser!Recorders /\ t.live /\ ~t.microphone /\ t.pump = "waits"
  BY DEF RecorderOf, Recogniser!Recorders, Recogniser!Calls
<1> HIDE DEF t
<1>4. /\ built' \in [Recogniser!Recorders -> RecorderOf] /\ built'[c] = t
      /\ \A r \in Recogniser!Recorders \ {c} : built'[r] = built[r]
  BY <1>2, <1>3 DEF MicTyped
<1>5. signature' \in Signatures \cup {"none"}
  BY <1>2 DEF MicTyped, CallOf
<1>6. MicTyped'
  BY <1>1, <1>2, <1>4, <1>5 DEF MicTyped
<1>7. ~overlapped' => MicHeld'
  <2> SUFFICES ASSUME ~overlapped PROVE MicHeld'
    BY <1>2
  <2>1. MicHeld
    BY DEF MInv
  <2>2. ~shutdown /\ \A r \in Recogniser!Recorders : ~built[r].live /\ ~built[r].microphone
    BY <1>2, <2>1 DEF MicHeld
  <2>3. Recogniser!Alive(recorder)'
    BY <1>2, <1>3, <1>4 DEF Recogniser!Alive
  <2> QED  BY <1>1, <1>2, <1>3, <1>4, <2>2, <2>3 DEF MicHeld
<1>8. ~outlived' => OnePump'
  <2> SUFFICES ASSUME ~outlived PROVE OnePump'
    BY <1>2
  <2>1. \A r \in Recogniser!Recorders : ~Recogniser!Alive(r)
    BY <1>2 DEF MInv, OnePump
  <2>2. \A r \in Recogniser!Recorders \ {c} : ~Recogniser!Alive(r)'
    BY <1>4, <2>1 DEF Recogniser!Alive
  <2> QED  BY <1>1, <2>2 DEF OnePump
<1> QED  BY <1>1, <1>2, <1>6, <1>7, <1>8 DEF MInv, Shaped, Session

\* It could not be built.
LEMMA FailureKeeps == ASSUME MInv, NEW c \in Recogniser!Calls, Recogniser!BuildFails(c) PROVE MInv'
<1>1. /\ lock = c /\ lock' \in Recogniser!Calls \cup {0}
      /\ call' \in [Recogniser!Calls -> CallOf] /\ Locked' /\ call'[c].stage = "done"
      /\ \A d \in Recogniser!Calls \ {c} :
           call'[d] = call[d] /\ call[d].stage \notin {"retires", "joins", "builds", "resumes"}
  BY Advances DEF Recogniser!BuildFails, Recogniser!None
<1>2. /\ MicTyped
      /\ UNCHANGED <<listens, micClosed, recorder, signature, shutdown, session, built, posted, transcripts,
                   listening, due, items, overlapped, outlived>>
      /\ failed' = TRUE /\ call[c].stage = "builds"
  BY DEF Recogniser!BuildFails, MInv
<1>3. MicTyped'
  BY <1>1, <1>2 DEF MicTyped
<1>4. ~overlapped' => MicHeld'
  BY <1>1, <1>2 DEF MInv, MicHeld
<1>5. ~outlived' => OnePump'
  BY <1>1, <1>2 DEF MInv, OnePump, Recogniser!Alive
<1> QED  BY <1>1, <1>2, <1>3, <1>4, <1>5 DEF MInv, Shaped, Session

\* A pump ends only when it is told to, and none begins.
LEMMA PumpKeeps ==
  ASSUME MInv, NEW r \in Recogniser!Recorders, NEW t \in RecorderOf, built' = [built EXCEPT ![r] = t],
         t.live = built[r].live, t.microphone = built[r].microphone,
         Recogniser!Alive(r), t.pump \in {"waits", "reads"} \/ shutdown,
         UNCHANGED <<listens, micClosed, recorder, signature, shutdown, session, call, lock, transcripts,
                     listening, due, overlapped, outlived, failed>>,
         posted' \in Seq(Heard), items' \in 0..MaxItems
  PROVE  MInv'
<1>1. /\ built' \in [Recogniser!Recorders -> RecorderOf] /\ built'[r] = t
      /\ \A s \in Recogniser!Recorders \ {r} : built'[s] = built[s]
  BY DEF MInv, MicTyped
<1>2. MicTyped'
  BY <1>1 DEF MInv, MicTyped
<1>3. \A s \in Recogniser!Recorders :
        /\ SameLife(s) /\ built'[s].microphone = built[s].microphone
        /\ Recogniser!Alive(s)' => Recogniser!Alive(s)
        /\ ~shutdown => (Recogniser!Alive(s) => Recogniser!Alive(s)')
  <2>1. SameLife(r) /\ built'[r].microphone = built[r].microphone /\ (~shutdown => Recogniser!Alive(r)')
    BY <1>1 DEF SameLife, Recogniser!Alive
  <2>2. ASSUME NEW s \in Recogniser!Recorders \ {r}
        PROVE  /\ SameLife(s) /\ built'[s].microphone = built[s].microphone
               /\ Recogniser!Alive(s)' <=> Recogniser!Alive(s)
    BY <1>1 DEF SameLife, Recogniser!Alive
  <2> QED  BY <2>1, <2>2
<1>4. ~overlapped' => MicHeld'
  <2> SUFFICES ASSUME ~overlapped PROVE MicHeld'
    OBVIOUS
  <2>1. MicHeld
    BY DEF MInv
  <2>2. recorder # 0 => recorder \in Recogniser!Recorders
    BY DEF MInv, MicTyped, Recogniser!Recorders, Recogniser!Calls
  <2>3. (/\ recorder # 0 /\ ~failed
         /\ \A c \in Recogniser!Calls : call[c].stage \notin {"joins", "builds"}) =>
           ~shutdown /\ built'[recorder].live /\ Recogniser!Alive(recorder)'
    <3> SUFFICES ASSUME recorder # 0, ~failed,
                        \A c \in Recogniser!Calls : call[c].stage \notin {"joins", "builds"}
                 PROVE  ~shutdown /\ built'[recorder].live /\ Recogniser!Alive(recorder)'
      OBVIOUS
    <3>1. ~shutdown /\ built[recorder].live /\ Recogniser!Alive(recorder)
      BY <2>1 DEF MicHeld
    <3>2. built'[recorder].live
      BY <1>3, <2>2, <3>1 DEF SameLife
    <3>3. built'[recorder].pump \in {"waits", "reads"}
      BY <1>1, <2>2, <3>1 DEF Recogniser!Alive
    <3>4. Recogniser!Alive(recorder)'
      BY <3>3 DEF Recogniser!Alive
    <3> QED  BY <3>1, <3>2, <3>4
  <2> QED  BY <1>3, <2>1, <2>3 DEF MicHeld, SameLife
<1>5. ~outlived' => OnePump'
  BY <1>3 DEF MInv, OnePump
<1>6. Locked'
  BY DEF MInv, Locked
<1> QED  BY <1>2, <1>4, <1>5, <1>6 DEF MInv, Shaped, Session

\* A turn of a pump.
LEMMA PumpsKeep ==
  ASSUME MInv, NEW r \in Recogniser!Recorders, Recogniser!PumpTurns(r) \/ Recogniser!PumpReturns(r)
  PROVE  MInv'
<1>1. /\ built \in [Recogniser!Recorders -> RecorderOf] /\ built[r] \in RecorderOf
      /\ posted \in Seq(Heard) /\ items \in 0..MaxItems
  BY DEF MInv, MicTyped
<1>2. CASE Recogniser!PumpTurns(r)
  <2> DEFINE t == [built[r] EXCEPT !.pump = IF shutdown THEN "ended" ELSE "reads"]
  <2>1. /\ t \in RecorderOf /\ t.live = built[r].live /\ t.microphone = built[r].microphone
        /\ t.pump \in {"waits", "reads"} \/ shutdown
    BY <1>1 DEF RecorderOf
  <2>2. built' = [built EXCEPT ![r] = t]
    BY <1>1, <1>2 DEF Recogniser!PumpTurns
  <2>3. /\ posted' \in Seq(Heard) /\ items' \in 0..MaxItems /\ Recogniser!Alive(r)
        /\ UNCHANGED <<listens, micClosed, recorder, signature, shutdown, session, call, lock, transcripts,
                     listening, due, overlapped, outlived, failed>>
    BY <1>1, <1>2 DEF Recogniser!PumpTurns, Recogniser!Alive
  <2> HIDE DEF t
  <2> QED  BY <2>1, <2>2, <2>3, PumpKeeps
<1>3. CASE Recogniser!PumpReturns(r)
  <2>1. PICK t \in RecorderOf :
          /\ built' = [built EXCEPT ![r] = t]
          /\ t.live = built[r].live /\ t.microphone = built[r].microphone
          /\ t.pump \in {"waits", "reads"} \/ shutdown
    <3>1. CASE built' = [built EXCEPT ![r].pump = "waits", ![r].heard = built[r].microphone]
      <4> DEFINE t == [built[r] EXCEPT !.pump = "waits", !.heard = built[r].microphone]
      <4>1. /\ t \in RecorderOf /\ t.live = built[r].live /\ t.microphone = built[r].microphone
            /\ t.pump = "waits"
        BY <1>1 DEF RecorderOf
      <4>2. built' = [built EXCEPT ![r] = t]
        BY <1>1, <3>1
      <4> QED  BY <4>1, <4>2
    <3>2. CASE built' = [built EXCEPT ![r].pump = IF shutdown THEN "ended" ELSE "waits"]
      <4> DEFINE t == [built[r] EXCEPT !.pump = IF shutdown THEN "ended" ELSE "waits"]
      <4>1. /\ t \in RecorderOf /\ t.live = built[r].live /\ t.microphone = built[r].microphone
            /\ t.pump \in {"waits", "reads"} \/ shutdown
        BY <1>1 DEF RecorderOf
      <4>2. built' = [built EXCEPT ![r] = t]
        BY <1>1, <3>2
      <4> QED  BY <4>1, <4>2
    <3> QED  BY <1>3, <3>1, <3>2 DEF Recogniser!PumpReturns
  <2>2. posted' \in Seq(Heard) /\ items' \in 0..MaxItems
    <3>1. CASE UNCHANGED <<posted, items>>
      BY <1>1, <3>1
    <3>2. CASE posted' = Append(posted, Recogniser!Transcript(TRUE)) /\ items' = items + 1 /\ items < MaxItems
      <4>1. items + 1 \in 1..MaxItems /\ items + 1 \in 0..MaxItems
        BY <1>1, <3>2, MicBounds
      <4>2. Recogniser!Transcript(TRUE) \in Heard
        BY <4>1 DEF Heard, Recogniser!Transcript
      <4>3. posted' \in Seq(Heard)
        BY <1>1, <3>2, <4>2, AppendProperties
      <4> QED  BY <3>2, <4>1, <4>3
    <3> QED  BY <1>3, <3>1, <3>2 DEF Recogniser!PumpReturns
  <2>3. /\ Recogniser!Alive(r)
        /\ UNCHANGED <<listens, micClosed, recorder, signature, shutdown, session, call, lock, transcripts,
                     listening, due, overlapped, outlived, failed>>
    BY <1>3 DEF Recogniser!PumpReturns, Recogniser!Alive
  <2> QED  BY <2>1, <2>2, <2>3, PumpKeeps
<1> QED  BY <1>2, <1>3

\* What is heard, delivered and taken, and who listens, concerns the queue alone.
LEMMA QueueKeeps ==
  ASSUME MInv, posted' \in Seq(Heard), items' \in 0..MaxItems, listening' \in BOOLEAN,
         transcripts' \in Seq(Entries), due' \in Seq(Heard), Shaped(transcripts'),
         listens => Session(transcripts', due'),
         UNCHANGED <<listens, micClosed, recorder, signature, shutdown, session, call, lock, built,
                     overlapped, outlived, failed>>
  PROVE  MInv'
<1>1. MicTyped'
  BY DEF MInv, MicTyped
<1>2. Locked' /\ (~overlapped' => MicHeld') /\ (~outlived' => OnePump')
  BY DEF MInv, Locked, MicHeld, OnePump, Recogniser!Alive
<1>3. Shaped(transcripts)' /\ (listens' => Session(transcripts, due)')
  BY DEF Shaped, Session
<1> QED  BY <1>1, <1>2, <1>3 DEF MInv

\* What is heard, delivered and taken.
LEMMA TranscriptsKeep ==
  ASSUME MInv,
         \/ \E r \in Recogniser!Recorders : Recogniser!Partial(r)
         \/ Recogniser!Deliver \/ Recogniser!Listen \/ Recogniser!Consume
  PROVE  MInv'
<1>1. /\ posted \in Seq(Heard) /\ items \in 0..MaxItems /\ listening \in BOOLEAN
      /\ transcripts \in Seq(Entries) /\ due \in Seq(Heard) /\ Shaped(transcripts)
      /\ listens => Session(transcripts, due)
  BY DEF MInv, MicTyped
<1>2. ASSUME NEW r \in Recogniser!Recorders, Recogniser!Partial(r) PROVE MInv'
  <2>1. /\ posted' = Append(posted, Recogniser!Transcript(FALSE)) /\ items' = items + 1 /\ items < MaxItems
        /\ UNCHANGED <<listens, micClosed, recorder, signature, shutdown, session, call, lock, built, transcripts,
                      listening, due, overlapped, outlived, failed>>
    BY <1>2 DEF Recogniser!Partial
  <2>2. items + 1 \in 1..MaxItems /\ items + 1 \in 0..MaxItems
    BY <1>1, <2>1, MicBounds
  <2>3. Recogniser!Transcript(FALSE) \in Heard
    BY <2>2 DEF Heard, Recogniser!Transcript
  <2>4. posted' \in Seq(Heard)
    BY <1>1, <2>1, <2>3, AppendProperties
  <2>5. items' \in 0..MaxItems
    BY <2>1, <2>2
  <2> QED  BY <1>1, <2>1, <2>4, <2>5, QueueKeeps
<1>3. CASE Recogniser!Deliver
  <2> DEFINE x == Head(posted)
  <2>1. /\ posted # <<>> /\ posted' = Tail(posted) /\ transcripts' = Recogniser!Enqueued(transcripts, x)
        /\ due' = IF listens /\ x.final THEN Append(due, x) ELSE due
        /\ UNCHANGED <<listens, micClosed, recorder, signature, shutdown, session, call, lock, built,
                      listening, items, overlapped, outlived, failed>>
    BY <1>3 DEF Recogniser!Deliver
  <2>2. x \in Heard /\ posted' \in Seq(Heard)
    BY <1>1, <2>1
  <2> HIDE DEF x
  <2>3. transcripts' \in Seq(Entries) /\ Shaped(transcripts') /\ due' \in Seq(Heard)
    BY <1>1, <2>1, <2>2, Enqueues, Sorts
  <2>4. listens => Session(transcripts', due')
    BY <1>1, <2>1, <2>2, SessionGoesOn
  <2> QED  BY <1>1, <2>1, <2>2, <2>3, <2>4, QueueKeeps
<1>4. CASE Recogniser!Listen
  <2>1. /\ listening' = TRUE
        /\ UNCHANGED <<listens, micClosed, recorder, signature, shutdown, session, call, lock, built, posted,
                      transcripts, due, items, overlapped, outlived, failed>>
    BY <1>4 DEF Recogniser!Listen
  <2> QED  BY <1>1, <2>1, QueueKeeps
<1>5. CASE Recogniser!Consume
  <2>1. /\ transcripts # <<>> /\ transcripts' = Tail(transcripts)
        /\ listening' \in BOOLEAN
        /\ due' = IF due # <<>> /\ Head(transcripts) = Head(due) THEN Tail(due) ELSE due
        /\ UNCHANGED <<listens, micClosed, recorder, signature, shutdown, session, call, lock, built, posted,
                      items, overlapped, outlived, failed>>
    BY <1>5 DEF Recogniser!Consume
  <2>2. /\ transcripts' \in Seq(Entries) /\ Len(transcripts') = Len(transcripts) - 1 /\ Len(transcripts) \in Nat
        /\ \A i \in 1..Len(transcripts') : transcripts'[i] = transcripts[i + 1]
    BY <1>1, <2>1, HeadTailProperties
  <2>3. Shaped(transcripts')
    <3>1. \A i \in 1..(Len(transcripts') - 1) : i + 1 \in 1..(Len(transcripts) - 1) /\ i \in 1..Len(transcripts')
      BY <2>2
    <3> QED  BY <1>1, <2>2, <3>1 DEF Shaped
  <2>4. due' \in Seq(Heard)
    BY <1>1, <2>1
  <2>5. listens => Session(transcripts', due')
    BY <1>1, <2>1, SessionTakes
  <2> QED  BY <1>1, <2>1, <2>2, <2>3, <2>4, <2>5, QueueKeeps
<1> QED  BY <1>2, <1>3, <1>4, <1>5

\* The marks of an end.
LEMMA EndsKeep == ASSUME MInv, Recogniser!Stop \/ Recogniser!Close PROVE MInv'
<1>1. /\ MicTyped /\ Shaped(transcripts) /\ Locked /\ listens' = FALSE
      /\ transcripts' = Recogniser!Enqueued(transcripts, Recogniser!End) /\ due' = <<>>
      /\ overlapped' = (overlapped \/ lock # 0)
      /\ UNCHANGED <<signature, call, lock, posted, listening, items, outlived, failed>>
  BY DEF Recogniser!Stop, Recogniser!Close, Recogniser!Replacing, Recogniser!None, MInv
<1>2. transcripts' \in Seq(Entries) /\ Shaped(transcripts') /\ due' \in Seq(Heard)
  <2>1. transcripts \in Seq(Entries) /\ Recogniser!End \in Entries /\ <<>> \in Seq(Heard)
    BY <1>1, Sorts DEF MicTyped
  <2> QED  BY <1>1, <2>1, Enqueues
<1>3. /\ built' \in [Recogniser!Recorders -> RecorderOf] /\ \A r \in Recogniser!Recorders : SamePump(r)
      /\ \A r \in Recogniser!Recorders \ {recorder} : built'[r] = built[r]
      /\ \A r \in Recogniser!Recorders : r = recorder => ~built'[r].microphone
      /\ {shutdown, session, micClosed}' \subseteq BOOLEAN /\ recorder' \in Recogniser!Calls \cup {0}
      /\ \/ /\ recorder' = 0 /\ \A r \in Recogniser!Recorders : r = recorder => ~built'[r].live
         \/ recorder' = recorder /\ shutdown' = shutdown /\ \A r \in Recogniser!Recorders : SameLife(r)
  <2>1. CASE Recogniser!Stop
    <3>1. CASE recorder = 0
      <4>1. 0 \notin Recogniser!Recorders
        BY MicBounds DEF Recogniser!Recorders, Recogniser!Calls
      <4> QED  BY <1>1, <2>1, <3>1, <4>1 DEF Recogniser!Stop, Recogniser!None, MicTyped, SamePump, SameLife
    <3>2. CASE recorder # 0
      <4> DEFINE t == [built[recorder] EXCEPT !.microphone = FALSE, !.heard = FALSE]
      <4>1. recorder \in Recogniser!Recorders /\ built[recorder] \in RecorderOf
        BY <1>1, <3>2 DEF MicTyped, Recogniser!Recorders, Recogniser!Calls
      <4>2. /\ t \in RecorderOf /\ t.pump = built[recorder].pump /\ t.live = built[recorder].live
            /\ ~t.microphone
        BY <4>1 DEF RecorderOf
      <4>3. built' = [built EXCEPT ![recorder] = t]
        BY <1>1, <2>1, <3>2, <4>1 DEF Recogniser!Stop, Recogniser!None, MicTyped
      <4> HIDE DEF t
      <4>4. /\ built' \in [Recogniser!Recorders -> RecorderOf] /\ built'[recorder] = t
            /\ \A r \in Recogniser!Recorders \ {recorder} : built'[r] = built[r]
        BY <1>1, <4>1, <4>2, <4>3 DEF MicTyped
      <4>5. \A r \in Recogniser!Recorders : SamePump(r) /\ SameLife(r)
        BY <4>2, <4>4 DEF SamePump, SameLife
      <4>6. /\ UNCHANGED <<recorder, shutdown, micClosed>> /\ session' = FALSE
        BY <2>1 DEF Recogniser!Stop
      <4> QED  BY <1>1, <4>2, <4>4, <4>5, <4>6 DEF MicTyped
    <3> QED  BY <3>1, <3>2
  <2>2. CASE Recogniser!Close
    <3>0. recorder' = 0 /\ micClosed' = TRUE /\ shutdown' = TRUE /\ session' = TRUE
      BY <2>2 DEF Recogniser!Close, Recogniser!None
    <3>1. CASE recorder = 0
      <4>1. 0 \notin Recogniser!Recorders
        BY MicBounds DEF Recogniser!Recorders, Recogniser!Calls
      <4>2. built' = built
        BY <2>2, <3>1 DEF Recogniser!Close, Recogniser!None
      <4> QED  BY <1>1, <3>0, <3>1, <4>1, <4>2 DEF MicTyped, SamePump
    <3>2. CASE recorder # 0
      <4>1. recorder \in Recogniser!Recorders /\ built' = Recogniser!Shut(recorder)
        BY <1>1, <2>2, <3>2 DEF MicTyped, Recogniser!Recorders, Recogniser!Calls, Recogniser!Close, Recogniser!None
      <4> QED  BY <1>1, <3>0, <4>1, Shuts
    <3> QED  BY <3>1, <3>2
  <2> QED  BY <2>1, <2>2
<1>4. MicTyped'
  <2>1. overlapped' \in BOOLEAN /\ listens' \in BOOLEAN
    BY <1>1 DEF MicTyped
  <2> QED  BY <1>1, <1>2, <1>3, <2>1 DEF MicTyped
<1>5. Locked'
  BY <1>1 DEF Locked
<1>6. ~overlapped' => MicHeld'
  <2> SUFFICES ASSUME ~overlapped, lock = 0 PROVE MicHeld'
    BY <1>1
  <2>1. MicHeld
    BY DEF MInv
  <2>2. \A c \in Recogniser!Calls : call[c].stage \notin {"joins", "builds"}
    BY <1>1, MicBounds DEF Locked
  <2>3. \A r \in Recogniser!Recorders : ~built'[r].microphone /\ (built'[r].live => recorder' = r)
    BY <1>3, <2>1 DEF MicHeld, SameLife
  <2>4. (recorder' # 0 /\ ~failed) => ~shutdown' /\ built'[recorder'].live /\ Recogniser!Alive(recorder)'
    <3> SUFFICES ASSUME recorder' # 0, ~failed
                 PROVE  ~shutdown' /\ built'[recorder'].live /\ Recogniser!Alive(recorder)'
      OBVIOUS
    <3>1. recorder' = recorder /\ shutdown' = shutdown /\ \A r \in Recogniser!Recorders : SameLife(r)
      BY <1>3
    <3>2. recorder \in Recogniser!Recorders
      BY <1>1, <3>1 DEF MicTyped, Recogniser!Recorders, Recogniser!Calls
    <3>3. ~shutdown /\ built[recorder].live /\ Recogniser!Alive(recorder)
      BY <2>1, <2>2, <3>1 DEF MicHeld
    <3>4. built'[recorder].live = built[recorder].live /\ built'[recorder].pump = built[recorder].pump
      BY <1>3, <3>1, <3>2 DEF SameLife, SamePump
    <3> QED  BY <3>1, <3>3, <3>4 DEF Recogniser!Alive
  <2> QED  BY <1>1, <2>2, <2>3, <2>4 DEF MicHeld
<1>7. ~outlived' => OnePump'
  BY <1>1, <1>3 DEF MInv, OnePump, Recogniser!Alive, SamePump
<1> QED  BY <1>1, <1>2, <1>4, <1>5, <1>6, <1>7 DEF MInv, Shaped

\* A call up to its first wait.
LEMMA BeginKeeps ==
  ASSUME MInv, NEW c \in Recogniser!Calls, NEW kind \in {"start", "prepare"}, NEW wants \in Signatures,
         Recogniser!Begin(c, kind, wants)
  PROVE  MInv'
<1> DEFINE k == [kind |-> kind, wants |-> wants, stage |-> "idle"]
           pauses(to) == /\ call' = [call EXCEPT ![c] = [k EXCEPT !.stage = to]]
                         /\ UNCHANGED <<listens, micClosed, session, built, transcripts, due>>
<1>1. MicTyped /\ Locked /\ overlapped \in BOOLEAN
  BY DEF MInv, MicTyped
<1>2. /\ call[c].stage = "idle"
      /\ overlapped' = (overlapped \/ (Recogniser!Replacing /\ kind = "start"))
      /\ UNCHANGED <<recorder, signature, shutdown, posted, listening, items, outlived, failed>>
  BY DEF Recogniser!Begin
<1>3. \/ pauses("done") /\ lock' = lock
      \/ Recogniser!Ready(c, k) /\ lock' = lock
      \/ pauses("waits") /\ lock' = lock
      \/ pauses("retires") /\ lock = 0 /\ lock' = c
  BY DEF Recogniser!Begin, Recogniser!Replacing, Recogniser!None
<1>4. overlapped' \in BOOLEAN /\ (~overlapped' => ~overlapped)
  BY <1>1, <1>2
<1>5. k \in CallOf /\ \A x \in Stages : [k EXCEPT !.stage = x] \in CallOf /\ [k EXCEPT !.stage = x].stage = x
  BY DEF CallOf, Stages
<1> HIDE DEF k
<1>6. lock # c
  BY <1>1, <1>2 DEF Locked
<1>7. CASE Recogniser!Ready(c, k) /\ lock' = lock
  BY <1>2, <1>4, <1>5, <1>6, <1>7, ReadyKeeps
<1>8. ASSUME NEW x \in {"done", "waits"}, pauses(x), lock' = lock PROVE MInv'
  <2>1. [k EXCEPT !.stage = x] \in CallOf /\ [k EXCEPT !.stage = x].stage \in {"done", "waits"}
    BY <1>5 DEF Stages
  <2> QED  BY <1>2, <1>4, <1>8, <2>1, StageKeeps
<1>9. CASE pauses("retires") /\ lock = 0 /\ lock' = c
  <2>1. [k EXCEPT !.stage = "retires"] \in CallOf /\ [k EXCEPT !.stage = "retires"].stage = "retires"
    BY <1>5 DEF Stages
  <2> QED  BY <1>2, <1>4, <1>9, <2>1, StageKeeps
<1> QED  BY <1>3, <1>7, <1>8, <1>9

\* A call that has waited for the lock.
LEMMA AcquireKeeps == ASSUME MInv, NEW c \in Recogniser!Calls, Recogniser!Acquire(c) PROVE MInv'
<1>1. MicTyped /\ Locked /\ overlapped \in BOOLEAN /\ call[c] \in CallOf /\ 0 \notin Recogniser!Calls
  BY MicBounds DEF MInv, MicTyped
<1>2. /\ call[c].stage = "waits" /\ lock = 0
      /\ UNCHANGED <<recorder, signature, shutdown, posted, listening, items, overlapped, outlived, failed>>
  BY DEF Recogniser!Acquire, Recogniser!Replacing, Recogniser!None
<1>3. CASE Recogniser!Fits(call[c].wants)
  <2>1. Recogniser!Ready(c, call[c]) /\ lock' = lock
    BY <1>3 DEF Recogniser!Acquire
  <2> QED  BY <1>1, <1>2, <2>1, ReadyKeeps
<1>4. CASE ~Recogniser!Fits(call[c].wants)
  <2> DEFINE k == [call[c] EXCEPT !.stage = "retires"]
  <2>1. k \in CallOf /\ k.stage = "retires"
    BY <1>1 DEF CallOf, Stages
  <2>2. call' = [call EXCEPT ![c] = k] /\ lock' = c /\ UNCHANGED <<listens, micClosed, session, built, transcripts, due>>
    BY <1>4 DEF Recogniser!Acquire
  <2> HIDE DEF k
  <2> QED  BY <1>1, <1>2, <2>1, <2>2, StageKeeps
<1> QED  BY <1>3, <1>4

\* A call comes back from the thread.
LEMMA ResumeKeeps == ASSUME MInv, NEW c \in Recogniser!Calls, Recogniser!Resume(c) PROVE MInv'
<1>1. MicTyped /\ Locked /\ overlapped \in BOOLEAN /\ call[c] \in CallOf
  BY DEF MInv, MicTyped
<1>2. /\ call[c].stage = "resumes" /\ lock' = 0 /\ Recogniser!Ready(c, call[c])
      /\ UNCHANGED <<recorder, signature, shutdown, posted, listening, items, overlapped, outlived, failed>>
  BY DEF Recogniser!Resume, Recogniser!None
<1>3. lock = c
  BY <1>1, <1>2 DEF Locked
<1> QED  BY <1>1, <1>2, <1>3, ReadyKeeps

\* Every step keeps the invariant.
LEMMA MicStep == ASSUME MInv, [Recogniser!Next]_micVars PROVE MInv'
<1>1. ASSUME NEW c \in Recogniser!Calls,
             \/ \E kind \in {"start", "prepare"}, wants \in Signatures : Recogniser!Begin(c, kind, wants)
             \/ Recogniser!Acquire(c) \/ Recogniser!Retire(c) \/ Recogniser!Joined(c)
             \/ Recogniser!Built(c) \/ Recogniser!BuildFails(c) \/ Recogniser!Resume(c)
      PROVE  MInv'
  BY <1>1, BeginKeeps, AcquireKeeps, RetireKeeps, JoinedKeeps, BuiltKeeps, FailureKeeps, ResumeKeeps
<1>2. ASSUME NEW r \in Recogniser!Recorders,
             Recogniser!PumpTurns(r) \/ Recogniser!PumpReturns(r) \/ Recogniser!Partial(r)
      PROVE  MInv'
  BY <1>2, PumpsKeep, TranscriptsKeep
<1>3. CASE Recogniser!Deliver \/ Recogniser!Listen \/ Recogniser!Consume
  BY <1>3, TranscriptsKeep
<1>4. CASE Recogniser!Stop \/ Recogniser!Close
  BY <1>4, EndsKeep
<1>5. CASE UNCHANGED micVars
  <2>1. MicTyped'
    BY <1>5 DEF MInv, MicTyped, micVars
  <2>2. Locked' /\ (~overlapped' => MicHeld') /\ (~outlived' => OnePump')
    BY <1>5 DEF MInv, Locked, MicHeld, OnePump, Recogniser!Alive, micVars
  <2>3. Shaped(transcripts)' /\ (listens' => Session(transcripts, due)')
    BY <1>5 DEF MInv, Shaped, Session, micVars
  <2> QED  BY <2>1, <2>2, <2>3 DEF MInv
<1> QED  BY <1>1, <1>2, <1>3, <1>4, <1>5 DEF Recogniser!Next

\* It holds at the start.
LEMMA MicStarts == ASSUME Recogniser!Init PROVE MInv
<1>1. /\ ~listens /\ ~micClosed /\ recorder = 0 /\ signature = "none" /\ ~shutdown /\ ~session /\ lock = 0
      /\ call = [c \in Recogniser!Calls |-> [kind |-> "none", wants |-> "none", stage |-> "idle"]]
      /\ built = [r \in Recogniser!Recorders |->
                    [live |-> FALSE, microphone |-> FALSE, heard |-> FALSE, pump |-> "none"]]
      /\ posted = <<>> /\ transcripts = <<>> /\ ~listening /\ due = <<>>
      /\ items = 0 /\ ~overlapped /\ ~outlived /\ ~failed
      /\ {listens, micClosed, shutdown, session, listening, overlapped, outlived, failed} \subseteq BOOLEAN
  BY DEF Recogniser!Init, Recogniser!None, Recogniser!Unbuilt
<1>2. call \in [Recogniser!Calls -> CallOf] /\ \A c \in Recogniser!Calls : call[c].stage = "idle"
  BY <1>1 DEF CallOf, Stages
<1>3. /\ built \in [Recogniser!Recorders -> RecorderOf]
      /\ \A r \in Recogniser!Recorders : ~built[r].live /\ ~built[r].microphone /\ built[r].pump = "none"
  BY <1>1 DEF RecorderOf
<1>4. items \in 0..MaxItems
  BY <1>1, MicBounds
<1>5. MicTyped
  BY <1>1, <1>2, <1>3, <1>4 DEF MicTyped
<1>6. Shaped(transcripts)
  <2>1. Len(transcripts) = 0
    BY <1>1
  <2> QED  BY <2>1 DEF Shaped
<1>7. Locked
  BY <1>1, <1>2, MicBounds DEF Locked
<1>8. MicHeld /\ OnePump
  BY <1>1, <1>2, <1>3 DEF MicHeld, OnePump, Recogniser!Alive
<1> QED  BY <1>1, <1>5, <1>6, <1>7, <1>8 DEF MInv

\* And it says what it should.
LEMMA MicIsRight ==
  ASSUME MInv
  PROVE  Recogniser!TypeOK /\ Recogniser!RecorderIsRight /\ Recogniser!SessionIsHeard
<1>1. MicTyped /\ Locked /\ 0 \notin Recogniser!Calls
  BY MicBounds DEF MInv
<1>2. Recogniser!TypeOK
  <2>1. \A i \in DOMAIN transcripts : transcripts[i].n \in 0..MaxItems
    <3>1. transcripts \in Seq(Entries) /\ DOMAIN transcripts = 1..Len(transcripts)
      BY <1>1 DEF MicTyped
    <3>2. \A i \in DOMAIN transcripts : transcripts[i] \in Entries
      BY <3>1
    <3> QED  BY <3>2 DEF Entries
  <2>2. \A c \in Recogniser!Calls : call[c].stage \in Stages
    BY <1>1 DEF MicTyped, CallOf
  <2>3. \A r \in Recogniser!Recorders : built[r].pump \in {"none", "waits", "reads", "ended"}
    BY <1>1 DEF MicTyped, RecorderOf
  <2>4. {recorder, lock} \subseteq Recogniser!Calls \cup {0}
    BY <1>1 DEF MicTyped
  <2> QED  BY <1>1, <2>1, <2>2, <2>3, <2>4 DEF Recogniser!TypeOK, Recogniser!None, MicTyped, Stages
<1>3. ~overlapped =>
        \A r \in Recogniser!Recorders :
          /\ built[r].live => recorder = r
          /\ built[r].microphone => listens
          /\ (listens /\ recorder = r /\ lock = 0 /\ ~failed) => built[r].live /\ Recogniser!Alive(r)
  <2> SUFFICES ASSUME ~overlapped, NEW r \in Recogniser!Recorders
               PROVE  /\ built[r].live => recorder = r
                      /\ built[r].microphone => listens
                      /\ (listens /\ recorder = r /\ lock = 0 /\ ~failed) => built[r].live /\ Recogniser!Alive(r)
    OBVIOUS
  <2>1. MicHeld
    BY DEF MInv
  <2>2. lock = 0 => \A c \in Recogniser!Calls : call[c].stage \notin {"joins", "builds"}
    BY <1>1 DEF Locked
  <2>3. r # 0
    BY <1>1 DEF Recogniser!Recorders, Recogniser!Calls
  <2> QED  BY <2>1, <2>2, <2>3 DEF MicHeld
<1>4. Recogniser!RecorderIsRight
  BY <1>3 DEF MInv, OnePump, Recogniser!RecorderIsRight, Recogniser!Replacing, Recogniser!None
<1>5. Recogniser!SessionIsHeard
  <2> SUFFICES ASSUME listens
               PROVE  /\ \A i \in DOMAIN transcripts : transcripts[i] # Recogniser!End
                      /\ Recogniser!Finals(transcripts) = due
                      /\ Len(transcripts) <= Len(due) + 1
    BY DEF Recogniser!SessionIsHeard
  <2>1. due \in Seq(Heard) /\ Session(transcripts, due)
    BY <1>1 DEF MInv, MicTyped
  <2>2. /\ transcripts \in Seq(Heard) /\ Recogniser!Finals(transcripts) = due
        /\ \A i \in 1..Len(transcripts) : transcripts[i] # Recogniser!End
        /\ Len(transcripts) <= Len(due) + 1
    BY <2>1, InSession
  <2>3. DOMAIN transcripts = 1..Len(transcripts)
    BY <2>2
  <2> QED  BY <2>2, <2>3
<1> QED  BY <1>2, <1>4, <1>5

\* There is one recorder and one pump, whatever the calls and the threads do, and a session hears
\* its finals in order (realtimestt_adapter.py:92-360).
THEOREM RecorderRight == BesideSpec => []RecorderIsRight
<1> DEFINE I == part = "microphone" => MInv
<1>1. BesideInit => I
  BY MicStarts DEF BesideInit
<1>2. I /\ [BesideNext]_besideVars => I'
  <2> SUFFICES ASSUME I, [BesideNext]_besideVars, part' = "microphone" PROVE MInv'
    OBVIOUS
  <2>1. part = "microphone" /\ [Recogniser!Next]_micVars
    BY DEF BesideNext, besideVars
  <2> QED  BY <2>1, MicStep
<1>3. I => RecorderIsRight
  BY MicIsRight DEF RecorderIsRight
<1> QED  BY <1>1, <1>2, <1>3, PTL DEF BesideSpec
=============================================================================
