----------------------- MODULE SpeechControllerProofs -----------------------
(***************************************************************************)
(* The speech controller keeps one speech in reach and its events in       *)
(* order, for any number of users and of utterances, whatever the          *)
(* circumstances; and in orderly ones it keeps one alive at most, with one *)
(* terminal event.                                                         *)
(*                                                                         *)
(* The handles of the controller are those of the one utterance nobody     *)
(* cancelled (Handles), because they are cleared before the turn queues    *)
(* the next (Scripted); how far an utterance was told of follows from      *)
(* where its task stands (Told).  In orderly circumstances calls do not    *)
(* overlap, and whoever cancels an utterance waits until it is over        *)
(* (Orderly), so that the turn queues when nothing is alive.               *)
(*                                                                         *)
(* The microphone is closed, opened and restored by users, by the turn and *)
(* by the tasks of utterances.  In orderly circumstances whoever is at it  *)
(* is there alone and remembers the mode that was asked for (Held), as     *)
(* does an utterance that paused the listening until its task restores it  *)
(* (Paused); with nobody at it, it is as reported (Idle).                  *)
(***************************************************************************)
EXTENDS SpeechController, SequenceTheorems, TLAPS

Reachable == Playing \cup {"created", "unready", "recovering"}

\* What the handles refer to.
Handles ==
  /\ current # 0 => speech[current] \in Reachable /\ ~cancelled[current]
  /\ SpeechReachable
  /\ \A u \in Utterances : cancelled[u] => speech[u] \in Alive \ {"restoring"}

\* What was published of an utterance whose task stands here.
Told ==
  \A u \in Utterances :
    /\ speech[u] = "none" => told[u] = "none"
    /\ speech[u] \in {"created", "readying", "unready", "mute", "dropped"} => told[u] = "queued"
    /\ speech[u] = "playing" => told[u] = "started"
    /\ speech[u] \in {"recovering", "stopping"} => told[u] \in {"queued", "started"}
    /\ speech[u] \in {"restoring", "done"} => told[u] \in Terminal
    /\ speech[u] = "stopping" => cancelled[u]

\* The blocks of the turn: while it is about to queue an utterance, none is current.
Queueing == {<<"queue">>, <<"close", "queue">>}

Scripted ==
  /\ todo[Turn] \in {<<>>, <<"end">>, <<"say">>} \cup Queueing
  /\ todo[Turn] \in {<<"say">>} \cup Queueing => current = 0

\* Calls that do not overlap, with an adapter that stops in time.
Busy(c) == todo[c] # <<>>

Orderly ==
  setup.orderly =>
    /\ \A c, d \in Callers : Busy(c) /\ Busy(d) => c = d
    /\ \A u \in Utterances : cancelled[u] => \E c \in Callers : Busy(c) /\ waits[c] = u
    /\ (\E c \in Callers : Busy(c)) => \A u \in Utterances : speech[u] # "created"
    /\ todo[Turn] = <<"say">> => \A u \in Utterances : speech[u] \in Alive => waits[Turn] = u
    /\ todo[Turn] \in Queueing => \A u \in Utterances : speech[u] \notin Alive
    /\ \A u \in Utterances : speech[u] # "dropped"

IInv == TypeOK /\ Handles /\ Told /\ Scripted /\ Orderly /\ OneAlive

-----------------------------------------------------------------------------
(* Constants and scripts *)

\* The actors are all different.
LEMMA ActorFacts ==
  /\ Turn \in Callers /\ Barge \in Callers /\ Lifespan \in Callers /\ Users \subseteq Callers
  /\ Turn # Barge /\ Turn # Lifespan /\ Barge # Lifespan
  /\ Turn \notin Users /\ Barge \notin Users /\ Lifespan \notin Users
  /\ \A u \in Utterances : u \notin Callers
  /\ Callers \subseteq Actors /\ Utterances \subseteq Actors
BY ActorsAssumption DEF Callers, Actors

\* The circumstances are what they are assumed to be.
LEMMA SetupFacts ==
  ASSUME TypeOK
  PROVE  setup.switches \subseteq Modes \ {"off"} /\ setup.orderly \in BOOLEAN
BY SetupsAssumption DEF TypeOK, Modes

\* The blocks that actions leave to their actor are blocks.
LEMMA BlockFacts ==
  /\ <<>> \in Seq(Blocks)
  /\ \A b \in Blocks : /\ <<b>> \in Seq(Blocks) /\ <<b>> # <<>> /\ Head(<<b>>) = b /\ Tail(<<b>>) = <<>>
                       /\ <<"close">> \o <<b>> = <<"close", b>>
                       /\ <<"close", b>> \in Seq(Blocks) /\ Head(<<"close", b>>) = "close"
                       /\ Tail(<<"close", b>>) = <<b>> /\ <<"close", b>> # <<>>
  /\ <<"close">> \o <<>> = <<"close">>
<1>1. <<>> \in Seq(Blocks) /\ <<"close">> \o <<>> = <<"close">>
  OBVIOUS
<1>2. ASSUME NEW b \in Blocks
      PROVE  /\ <<b>> \in Seq(Blocks) /\ <<b>> # <<>> /\ Head(<<b>>) = b /\ Tail(<<b>>) = <<>>
             /\ <<"close">> \o <<b>> = <<"close", b>>
             /\ <<"close", b>> \in Seq(Blocks) /\ Head(<<"close", b>>) = "close"
             /\ Tail(<<"close", b>>) = <<b>> /\ <<"close", b>> # <<>>
  <2>1. "close" \in Blocks
    BY DEF Blocks
  <2>2. <<b>> \in Seq(Blocks) /\ <<"close", b>> \in Seq(Blocks)
    BY <2>1
  <2>3. <<b>> # <<>> /\ Head(<<b>>) = b /\ <<"close", b>> # <<>> /\ Head(<<"close", b>>) = "close"
    OBVIOUS
  <2>4. Tail(<<b>>) = <<>> /\ Tail(<<"close", b>>) = <<b>>
    OBVIOUS
  <2>5. <<"close">> \o <<b>> = <<"close", b>>
    <3>1. <<"close">> \in Seq(Blocks) /\ Len(<<"close">>) = 1 /\ Len(<<b>>) = 1 /\ Len(<<"close", b>>) = 2
      BY <2>1
    <3>2. Len(<<"close">> \o <<b>>) = Len(<<"close", b>>) /\ <<"close">> \o <<b>> \in Seq(Blocks)
      BY <2>2, <3>1, ConcatProperties
    <3>3. \A i \in 1..2 : (<<"close">> \o <<b>>)[i] = <<"close", b>>[i]
      <4>1. \A i \in 1..2 :
              (<<"close">> \o <<b>>)[i] = IF i <= 1 THEN <<"close">>[i] ELSE <<b>>[i - 1]
        BY <2>2, <3>1, ConcatProperties
      <4>2. \A i \in 1..2 : (i <= 1 => i = 1) /\ (~(i <= 1) => i = 2 /\ i - 1 = 1)
        OBVIOUS
      <4> QED  BY <4>1, <4>2
    <3> QED  BY <2>2, <3>1, <3>2, <3>3, SeqEqual
  <2> QED  BY <2>2, <2>3, <2>4, <2>5
<1> QED  BY <1>1, <1>2

\* An actor with a block at its head is busy, and what it has left are blocks.
LEMMA AtFacts ==
  ASSUME TypeOK, NEW a \in Actors, NEW b, At(a, b)
  PROVE  /\ todo[a] # <<>> /\ Head(todo[a]) = b /\ Free(a)
         /\ Later(a) \in Seq(Blocks) /\ mode[a] \in Modes
BY HeadTailProperties DEF TypeOK, At, Later

\* The turn's script, by the block at its head.
LEMMA TurnFacts ==
  ASSUME Scripted
  PROVE  /\ todo[Turn] # <<>> => Head(todo[Turn]) \in {"end", "say", "queue", "close"}
         /\ todo[Turn] # <<>> /\ Head(todo[Turn]) = "say" => todo[Turn] = <<"say">>
         /\ todo[Turn] # <<>> /\ Head(todo[Turn]) = "queue" => todo[Turn] = <<"queue">>
         /\ todo[Turn] # <<>> /\ Head(todo[Turn]) = "end" => todo[Turn] = <<"end">>
         /\ todo[Turn] # <<>> /\ Head(todo[Turn]) = "close"
              => todo[Turn] = <<"close", "queue">> /\ Tail(todo[Turn]) = <<"queue">>
<1>1. "say" \in Blocks /\ "queue" \in Blocks /\ "end" \in Blocks
  BY DEF Blocks
<1>2. /\ Head(<<"say">>) = "say" /\ Head(<<"queue">>) = "queue" /\ Head(<<"end">>) = "end"
      /\ Head(<<"close", "queue">>) = "close" /\ Tail(<<"close", "queue">>) = <<"queue">>
  BY <1>1, BlockFacts
<1>3. todo[Turn] \in {<<>>, <<"end">>, <<"say">>, <<"queue">>, <<"close", "queue">>}
  BY DEF Scripted, Queueing
<1> QED  BY <1>2, <1>3, Zenon

\* Different scripts are different.
LEMMA ScriptFacts ==
  /\ <<>> \notin Queueing /\ <<"end">> \notin Queueing /\ <<"say">> \notin Queueing
  /\ <<"end">> # <<"say">> /\ <<"say">> # <<>> /\ <<"end">> # <<>>
BY DEF Queueing

-----------------------------------------------------------------------------
(* The parts of the invariant that are about the speech *)

Speech == Handles /\ Told /\ Scripted /\ Orderly /\ OneAlive

\* An actor that takes its next block or a new call, and leaves the speech alone.
May(a) == IF todo[a] = <<>> THEN MayCall(a) ELSE Free(a)

TurnGoesOn ==
  \/ todo'[Turn] = <<>> \/ todo'[Turn] = <<"end">>
  \/ todo[Turn] = <<"say">> /\ todo'[Turn] = <<"close", "queue">>
  \/ todo[Turn] = <<"close", "queue">> /\ todo'[Turn] = <<"queue">>

\* In orderly circumstances an actor that goes on has cancelled nothing that is not over.
LEMMA FreeFacts ==
  ASSUME IInv, NEW a \in Callers, May(a), setup.orderly
  PROVE  /\ \A c \in Callers \ {a} : todo[c] = <<>>
         /\ \A u \in Utterances : ~cancelled[u] /\ speech[u] # "created"
         /\ todo[a] = <<>> => \A u \in Utterances : speech[u] # "restoring"
         /\ todo[a] # <<>> => \A u \in Utterances : speech[u] \in Alive => waits[a] # u
<1>1. CASE todo[a] = <<>>
  <2>1. /\ \A c \in Callers : todo[c] = <<>>
        /\ \A u \in Utterances : speech[u] \notin {"created", "restoring"}
    BY <1>1 DEF May, MayCall
  <2> QED  BY <1>1, <2>1 DEF IInv, Orderly, Busy
<1>2. CASE todo[a] # <<>>
  <2>1. waits[a] # 0 => speech[waits[a]] \in Over
    BY <1>2 DEF May, Free
  <2>2. \A u \in Utterances : waits[a] = u => speech[u] \in Over
    BY <2>1 DEF Utterances
  <2>3. \A u \in Utterances : speech[u] \in Alive => speech[u] \notin Over
    BY DEF Alive, Over, Playing
  <2>4. \A u \in Utterances : cancelled[u] => waits[a] = u /\ speech[u] \in Alive
    BY <1>2 DEF IInv, Orderly, Busy, Handles
  <2> QED  BY <1>2, <2>2, <2>3, <2>4 DEF IInv, Orderly, Busy
<1> QED  BY <1>1, <1>2

LEMMA CallerMoves ==
  ASSUME IInv, NEW a \in Callers, May(a), UNCHANGED <<setup, output>>,
         \A c \in Callers \ {a} : todo'[c] = todo[c] /\ waits'[c] = waits[c],
         a = Turn => TurnGoesOn
  PROVE  Speech'
<1>0. UNCHANGED <<setup, current, speech, cancelled, told>>
  BY DEF output
<1>1. Handles' /\ Told'
  BY <1>0 DEF IInv, Handles, SpeechReachable, Told
<1>2. /\ todo'[Turn] \in {<<>>, <<"end">>, <<"say">>} \cup Queueing
      /\ todo'[Turn] \in {<<"say">>} \cup Queueing => current = 0
  <2>1. CASE a = Turn
    <3>1. /\ <<"end">> \notin {<<"say">>, <<"queue">>, <<"close", "queue">>}
          /\ <<>> \notin {<<"say">>, <<"queue">>, <<"close", "queue">>}
      OBVIOUS
    <3> QED  BY <2>1, <3>1 DEF TurnGoesOn, IInv, Scripted, Queueing
  <2>2. CASE a # Turn
    BY <2>2, ActorFacts DEF IInv, Scripted
  <2> QED  BY <2>1, <2>2
<1>3. Scripted'
  BY <1>0, <1>2 DEF Scripted
<1>4. Orderly'
  <2> SUFFICES ASSUME setup.orderly PROVE Orderly'
    BY <1>0 DEF Orderly
  <2>0. \A u \in Utterances : speech'[u] # "dropped"
    BY <1>0 DEF IInv, Orderly
  <2>1. \A c \in Callers \ {a} : todo'[c] = <<>>
    BY FreeFacts
  <2>2. \A u \in Utterances : ~cancelled'[u] /\ speech'[u] # "created"
    BY <1>0, FreeFacts
  <2>3. CASE a # Turn
    <3>1. todo'[Turn] = <<>>
      BY <2>1, <2>3, ActorFacts
    <3>2. todo'[Turn] # <<"say">> /\ todo'[Turn] \notin Queueing
      BY <3>1 DEF Queueing
    <3> QED  BY <2>0, <2>1, <2>2, <3>2 DEF Orderly, Busy
  <2>4. CASE a = Turn
    <3>1. todo'[Turn] # <<"say">>
      BY <2>4 DEF TurnGoesOn
    <3>2. todo'[Turn] \in Queueing => \A u \in Utterances : speech'[u] \notin Alive
      <4>1. CASE todo[Turn] = <<"say">>
        <5>1. todo[Turn] # <<>>
          BY <4>1
        <5> QED  BY <1>0, <2>4, <4>1, <5>1, FreeFacts DEF IInv, Orderly
      <4>2. CASE todo[Turn] = <<"close", "queue">>
        BY <1>0, <4>2 DEF IInv, Orderly, Queueing
      <4>3. CASE todo'[Turn] = <<>> \/ todo'[Turn] = <<"end">>
        BY <4>3, ScriptFacts
      <4> QED  BY <2>4, <4>1, <4>2, <4>3 DEF TurnGoesOn
    <3> QED  BY <2>0, <2>1, <2>2, <2>4, <3>1, <3>2 DEF Orderly, Busy
  <2> QED  BY <2>3, <2>4
<1>5. OneAlive'
  BY <1>0 DEF IInv, OneAlive
<1> QED  BY <1>1, <1>3, <1>4, <1>5 DEF Speech

\* The callers are left alone, and so is the speech.
LEMMA Apart ==
  ASSUME IInv, UNCHANGED <<setup, output>>,
         \A c \in Callers : todo'[c] = todo[c] /\ waits'[c] = waits[c]
  PROVE  Speech'
<1>0. UNCHANGED <<setup, current, speech, cancelled, told>>
  BY DEF output
<1>1. Handles' /\ Told' /\ OneAlive'
  BY <1>0 DEF IInv, Handles, SpeechReachable, Told, OneAlive
<1>2. Scripted'
  BY <1>0, ActorFacts DEF IInv, Scripted
<1>3. Orderly'
  BY <1>0, ActorFacts DEF IInv, Orderly, Busy
<1> QED  BY <1>1, <1>2, <1>3 DEF Speech

\* interrupt(), by an actor that has blocks left and waits.
LEMMA Interrupts ==
  ASSUME IInv, NEW a \in Callers, NEW blocks, May(a), Interrupt(a, blocks), UNCHANGED setup,
         blocks # <<>>,
         a = Turn => todo[a] = <<>> /\ blocks \in {<<"say">>, <<"end">>}
  PROVE  Speech'
<1>0. /\ todo' = [todo EXCEPT ![a] = blocks] /\ current' = 0
      /\ UNCHANGED <<setup, speech, told>>
      /\ a \in Actors /\ todo'[a] = blocks
      /\ \A c \in Actors \ {a} : todo'[c] = todo[c]
  BY ActorFacts DEF Interrupt, Then, IInv, TypeOK
<1>1. /\ current = 0 => UNCHANGED <<waits, cancelled>>
      /\ current # 0 => /\ waits' = [waits EXCEPT ![a] = current]
                        /\ cancelled' = [cancelled EXCEPT ![current] = TRUE]
  BY DEF Interrupt
<1>2. current # 0 => current \in Utterances
  BY DEF IInv, TypeOK, Utterances
<1>3. /\ \A u \in Utterances : cancelled'[u] <=> cancelled[u] \/ (u = current)
      /\ \A c \in Callers \ {a} : waits'[c] = waits[c]
      /\ current # 0 => waits'[a] = current
  <2>1. CASE current = 0
    BY <1>1, <2>1 DEF Utterances
  <2>2. CASE current # 0
    BY <1>0, <1>1, <1>2, <2>2, ActorFacts DEF IInv, TypeOK
  <2> QED  BY <2>1, <2>2
<1>4. Handles'
  <2>1. \A u \in Utterances : speech[u] \in Reachable => cancelled'[u]
    BY <1>3 DEF IInv, Handles, SpeechReachable, Reachable
  <2>2. \A u \in Utterances : cancelled'[u] => speech[u] \in Alive \ {"restoring"}
    <3>1. Reachable \subseteq Alive \ {"restoring"}
      BY DEF Reachable, Alive, Playing
    <3> QED  BY <1>3, <3>1 DEF IInv, Handles, Utterances
  <2> QED  BY <1>0, <2>1, <2>2 DEF Handles, SpeechReachable, Reachable
<1>5. Told'
  BY <1>0, <1>3 DEF IInv, Told
<1>6. Scripted'
  <2>1. todo'[Turn] \in {<<>>, <<"end">>, <<"say">>} \cup Queueing
    BY <1>0, ActorFacts DEF IInv, Scripted
  <2> QED  BY <1>0, <2>1 DEF Scripted
<1>7. Orderly'
  <2> SUFFICES ASSUME setup.orderly PROVE Orderly'
    BY <1>0 DEF Orderly
  <2>0. \A u \in Utterances : speech'[u] # "dropped"
    BY <1>0 DEF IInv, Orderly
  <2>1. \A c \in Callers \ {a} : todo'[c] = <<>>
    BY <1>0, ActorFacts, FreeFacts
  <2>2. \A u \in Utterances : cancelled'[u] => waits'[a] = u /\ Busy(a)'
    BY <1>0, <1>2, <1>3, FreeFacts DEF Busy, Utterances
  <2>3. \A u \in Utterances : speech'[u] # "created"
    BY <1>0, FreeFacts
  <2>4. todo'[Turn] = <<"say">> => \A u \in Utterances : speech'[u] \in Alive => waits'[Turn] = u
    <3>1. SUFFICES ASSUME todo'[Turn] = <<"say">>, NEW u \in Utterances, speech[u] \in Alive
                   PROVE  waits'[Turn] = u
      BY <1>0
    <3>2. a = Turn /\ todo[a] = <<>>
      BY <2>1, <3>1, ScriptFacts, ActorFacts
    <3>3. speech[u] \notin {"restoring", "stopping"} /\ ~cancelled[u]
      BY <3>2, FreeFacts DEF IInv, Told
    <3>4. speech[u] \in Reachable
      BY <3>1, <3>3 DEF Alive, Reachable
    <3>5. current = u
      BY <3>3, <3>4 DEF IInv, Handles, SpeechReachable, Reachable
    <3> QED  BY <1>3, <3>2, <3>5 DEF Utterances
  <2>5. todo'[Turn] \notin Queueing
    <3>1. CASE a = Turn
      BY <1>0, <3>1, ScriptFacts
    <3>2. CASE a # Turn
      BY <2>1, <3>2, ScriptFacts, ActorFacts
    <3> QED  BY <3>1, <3>2
  <2> QED  BY <2>0, <2>1, <2>2, <2>3, <2>4, <2>5 DEF Orderly, Busy
<1>8. OneAlive'
  BY <1>0 DEF IInv, OneAlive
<1> QED  BY <1>4, <1>5, <1>6, <1>7, <1>8 DEF Speech

\* The turn queues the next utterance, with none current.
LEMMA Queues ==
  ASSUME IInv, NEW m, Queue(m), May(Turn), todo[Turn] \in {<<"say">>, <<"queue">>},
         UNCHANGED setup, \A c \in Callers \ {Turn} : waits'[c] = waits[c]
  PROVE  Speech'
<1>0. current = 0 /\ todo[Turn] # <<>>
  BY ScriptFacts DEF IInv, Scripted, Queueing
<1>1. PICK v \in Utterances :
        /\ speech[v] = "none"
        /\ current' = v
        /\ speech' = [speech EXCEPT ![v] = "created"]
        /\ told' = [told EXCEPT ![v] = "queued"]
        /\ todo' = [todo EXCEPT ![Turn] = <<>>]
        /\ UNCHANGED cancelled
  BY DEF Queue
<1>2. /\ speech'[v] = "created" /\ \A u \in Utterances \ {v} : speech'[u] = speech[u]
      /\ told'[v] = "queued" /\ \A u \in Utterances \ {v} : told'[u] = told[u]
      /\ todo'[Turn] = <<>> /\ \A c \in Callers \ {Turn} : todo'[c] = todo[c]
      /\ UNCHANGED <<cancelled, setup>> /\ v # 0
  BY <1>1, ActorFacts DEF IInv, TypeOK, Utterances
<1>3. ~cancelled[v] /\ "none" \notin Alive
  BY <1>1 DEF IInv, Handles, Alive, Playing
<1>4. Handles'
  <2>1. \A u \in Utterances : speech[u] \in Reachable => cancelled[u]
    BY <1>0 DEF IInv, Handles, SpeechReachable, Reachable, Utterances
  <2>2. speech'[current'] \in Reachable /\ ~cancelled'[current']
    BY <1>1, <1>2, <1>3 DEF Reachable
  <2>3. \A u \in Utterances : speech'[u] \in Reachable /\ ~cancelled'[u] => current' = u
    BY <1>1, <1>2, <2>1
  <2>4. \A u \in Utterances : cancelled'[u] => speech'[u] \in Alive \ {"restoring"}
    BY <1>2, <1>3 DEF IInv, Handles
  <2> QED  BY <2>2, <2>3, <2>4 DEF Handles, SpeechReachable, Reachable
<1>5. Told'
  BY <1>2 DEF IInv, Told
<1>6. Scripted'
  BY <1>2, ScriptFacts DEF Scripted
<1>7. setup.orderly => /\ \A u \in Utterances : ~cancelled[u]
                       /\ \A u \in Utterances : speech[u] \notin Alive
                       /\ \A c \in Callers : todo'[c] = <<>>
  <2> SUFFICES ASSUME setup.orderly
               PROVE  /\ \A u \in Utterances : ~cancelled[u]
                      /\ \A u \in Utterances : speech[u] \notin Alive
                      /\ \A c \in Callers : todo'[c] = <<>>
    OBVIOUS
  <2>1. \A u \in Utterances : ~cancelled[u]
    BY FreeFacts, ActorFacts
  <2>2. \A u \in Utterances : speech[u] \notin Alive
    BY <1>0, FreeFacts, ActorFacts DEF IInv, Orderly, Queueing
  <2>3. \A c \in Callers : todo'[c] = <<>>
    BY <1>2, FreeFacts, ActorFacts
  <2> QED  BY <2>1, <2>2, <2>3
<1>8. Orderly'
  <2>1. <<>> # <<"say">> /\ <<>> \notin Queueing
    BY ScriptFacts
  <2>2. setup.orderly => \A u \in Utterances : speech'[u] # "dropped"
    BY <1>2 DEF IInv, Orderly
  <2> QED  BY <1>2, <2>2, <1>7, <2>1, ActorFacts DEF Orderly, Busy
<1>9. OneAlive'
  BY <1>2, <1>7 DEF OneAlive
<1> QED  BY <1>4, <1>5, <1>6, <1>8, <1>9 DEF Speech

\* The task of an utterance goes on: alive, it stays so or ends, and cancels nothing.
LEMMA Scheduled ==
  ASSUME IInv, NEW u \in Utterances, UNCHANGED <<setup, waits>>,
         \A c \in Callers : todo'[c] = todo[c],
         current' \in {0, current},
         \A v \in Utterances : cancelled'[v] => cancelled[v],
         \A v \in Utterances : \/ speech'[v] = speech[v]
                               \/ v = u /\ speech[v] \in Alive /\ speech'[v] # "created",
         speech'[u] = "dropped" => speech[u] \in {"dropped", "created"} /\ (speech[u] = "created" => cancelled[u])
  PROVE  Scripted' /\ Orderly' /\ OneAlive'
<1>0. todo'[Turn] = todo[Turn] /\ setup' = setup /\ \A c \in Callers : Busy(c)' <=> Busy(c)
  BY ActorFacts DEF Busy
<1>1. \A v \in Utterances : /\ speech'[v] \in Alive => speech[v] \in Alive
                            /\ speech'[v] = "created" => speech[v] = "created"
  OBVIOUS
<1>2. Scripted'
  BY <1>0 DEF IInv, Scripted
<1>3. Orderly'
  <2> SUFFICES ASSUME setup.orderly PROVE Orderly'
    BY <1>0 DEF Orderly
  <2>1. \A v \in Utterances : cancelled'[v] => \E c \in Callers : Busy(c)' /\ waits'[c] = v
    BY <1>0 DEF IInv, Orderly
  <2>2. \A c, d \in Callers : Busy(c)' /\ Busy(d)' => c = d
    BY <1>0 DEF IInv, Orderly
  <2>3. (\E c \in Callers : Busy(c)') => \A v \in Utterances : speech'[v] # "created"
    BY <1>0, <1>1 DEF IInv, Orderly
  <2>4. /\ todo'[Turn] = <<"say">> => \A v \in Utterances : speech'[v] \in Alive => waits'[Turn] = v
        /\ todo'[Turn] \in Queueing => \A v \in Utterances : speech'[v] \notin Alive
    BY <1>0, <1>1 DEF IInv, Orderly
  <2>5. \A v \in Utterances : speech'[v] # "dropped"
    <3>1. ~(speech[u] = "created" /\ cancelled[u])
      BY DEF IInv, Orderly
    <3> QED  BY <3>1 DEF IInv, Orderly
  <2> QED  BY <2>1, <2>2, <2>3, <2>4, <2>5 DEF Orderly
<1>4. OneAlive'
  BY <1>0, <1>1 DEF IInv, OneAlive
<1> QED  BY <1>2, <1>3, <1>4

-----------------------------------------------------------------------------
(* What the pieces of blocks do to the variables of the actors and of the input *)

Own(a) ==
  /\ todo' \in [Actors -> Seq(Blocks)] /\ mode' \in [Actors -> Modes]
  /\ \A b \in Actors \ {a} : todo'[b] = todo[b]

Sensed == listening' \in Modes /\ resume' \in Modes /\ stray' \in BOOLEAN

LEMMA ThenFacts ==
  ASSUME TypeOK, NEW a \in Actors, NEW m \in Modes, NEW blocks \in Seq(Blocks), Then(a, m, blocks)
  PROVE  Own(a) /\ todo'[a] = blocks
BY DEF TypeOK, Then, Own

LEMMA ReturnFacts ==
  ASSUME TypeOK, NEW a \in Actors, Return(a)
  PROVE  Own(a) /\ todo'[a] = <<>>
<1>1. "off" \in Modes /\ <<>> \in Seq(Blocks)
  BY DEF Modes
<1> QED  BY <1>1, ThenFacts DEF Return

\* A listener is stopped, with one block to follow or none.
LEMMA HushFacts ==
  ASSUME TypeOK, NEW a \in Actors, NEW m \in Modes, NEW blocks, Hush(a, m, blocks),
         blocks = <<>> \/ \E b \in Blocks : blocks = <<b>>
  PROVE  /\ Own(a) /\ listening' \in Modes
         /\ todo'[a] = <<"close">> \o blocks /\ todo'[a] # <<>>
<1>1. <<"close">> \o blocks \in Seq(Blocks) /\ <<"close">> \o blocks # <<>>
  <2>1. CASE blocks = <<>>
    <3>1. "close" \in Blocks
      BY DEF Blocks
    <3> QED  BY <2>1, <3>1, BlockFacts
  <2>2. CASE \E b \in Blocks : blocks = <<b>>
    BY <2>2, BlockFacts
  <2> QED  BY <2>1, <2>2
<1>2. listening' \in Modes /\ Then(a, m, <<"close">> \o blocks)
  BY DEF Hush, Modes
<1> QED  BY <1>1, <1>2, ThenFacts

LEMMA ListenFacts ==
  ASSUME TypeOK, NEW a \in Actors, NEW m \in Modes, Listen(a, m), resume' = resume
  PROVE  Own(a) /\ Sensed
<1>1. Own(a)
  BY ReturnFacts DEF Listen
<1>2. Sensed
  BY DEF Listen, Sensed, TypeOK
<1> QED  BY <1>1, <1>2

LEMMA OpenMicFacts ==
  ASSUME TypeOK, NEW a \in Actors, NEW m \in Modes, OpenMic(a, m), resume' = resume
  PROVE  Own(a) /\ Sensed
<1>1. CASE stt = "off"
  <2>1. "opened" \in Blocks
    BY DEF Blocks
  <2>2. Own(a)
    BY <1>1, <2>1, BlockFacts, ThenFacts DEF OpenMic
  <2> QED  BY <1>1, <2>2 DEF OpenMic, Sensed, TypeOK
<1>2. CASE stt # "off"
  BY <1>2, ListenFacts DEF OpenMic
<1> QED  BY <1>1, <1>2

LEMMA EnableFacts ==
  ASSUME TypeOK, NEW a \in Actors, NEW m \in Modes \ {"off"}, NEW pressed, Enable(a, m, pressed)
  PROVE  Own(a) /\ Sensed
<1>1. CASE pressed /\ ~(m = "wake" /\ listening = "wake")
  <2>1. resume' = m /\ Return(a) /\ UNCHANGED <<listening, stray>>
    BY <1>1 DEF Enable
  <2> QED  BY <2>1, ReturnFacts DEF Sensed, TypeOK
<1>2. CASE ~(pressed /\ ~(m = "wake" /\ listening = "wake"))
  <2>0. resume' = resume
    BY <1>2 DEF Enable
  <2>1. CASE listening = m
    <3>1. Return(a) /\ UNCHANGED <<listening, stray>>
      BY <1>2, <2>1 DEF Enable
    <3> QED  BY <2>0, <3>1, ReturnFacts DEF Sensed, TypeOK
  <2>2. CASE listening # m /\ listening = "off"
    BY <1>2, <2>0, <2>2, OpenMicFacts DEF Enable
  <2>3. CASE listening # m /\ listening # "off"
    <3>1. Hush(a, m, <<"open">>) /\ UNCHANGED stray
      BY <1>2, <2>3 DEF Enable
    <3>2. "open" \in Blocks
      BY DEF Blocks
    <3>3. Own(a) /\ listening' \in Modes
      BY <3>1, <3>2, HushFacts
    <3> QED  BY <2>0, <3>1, <3>3 DEF Sensed, TypeOK
  <2> QED  BY <2>1, <2>2, <2>3
<1> QED  BY <1>1, <1>2

LEMMA RestoreFacts ==
  ASSUME TypeOK, NEW a \in Actors, NEW pressed, Restore(a, pressed)
  PROVE  Own(a) /\ Sensed
<1>1. CASE mode[a] = "off"
  <2>1. Return(a) /\ UNCHANGED <<listening, stray, resume>>
    BY <1>1 DEF Restore
  <2> QED  BY <2>1, ReturnFacts DEF Sensed, TypeOK
<1>2. CASE mode[a] # "off"
  <2>1. mode[a] \in Modes \ {"off"}
    BY <1>2 DEF TypeOK
  <2> QED  BY <1>2, <2>1, EnableFacts DEF Restore
<1> QED  BY <1>1, <1>2

\* Whoever goes on with a block or a call of its own, and leaves the speech alone.
LEMMA GoesOn ==
  ASSUME IInv, NEW a \in Actors, a \in Callers => May(a), UNCHANGED <<setup, output>>,
         Own(a), \A b \in Actors \ {a} : waits'[b] = waits[b],
         a = Turn => TurnGoesOn
  PROVE  Speech'
<1>1. CASE a \in Callers
  BY <1>1, ActorFacts, CallerMoves DEF Own
<1>2. CASE a \notin Callers
  BY <1>2, ActorFacts, Apart DEF Own
<1> QED  BY <1>1, <1>2

-----------------------------------------------------------------------------
(* The steps *)

\* What is typed of the state after a step that leaves the speech alone.
LEMMA TypesKept ==
  ASSUME TypeOK, UNCHANGED <<setup, output>>, NEW a \in Actors, Own(a), Sensed,
         started' \in {"on", "stopping", "off"}, ptt' \in BOOLEAN, stt' \in Modes \cup {"ptt"},
         chosen' \in Modes, waits' \in [Actors -> 0..MaxUtterances]
  PROVE  TypeOK'
BY DEF TypeOK, Own, Sensed, output

\* An actor that is there with a block may take it.
LEMMA AtMay ==
  ASSUME TypeOK, NEW a \in Actors, NEW b, At(a, b)
  PROVE  May(a)
BY DEF At, May

LEMMA WaitedFacts ==
  ASSUME TypeOK, NEW a \in Actors, Waited(a) \/ UNCHANGED waits
  PROVE  /\ waits' \in [Actors -> 0..MaxUtterances]
         /\ \A b \in Actors \ {a} : waits'[b] = waits[b]
<1>1. 0 \in 0..MaxUtterances
  BY MaxUtterancesAssumption
<1> QED  BY <1>1 DEF TypeOK, Waited

\* Listeners that are opened and closed.
LEMMA MicSteps ==
  ASSUME IInv, UNCHANGED setup, NEW a \in Actors,
         Close(a) \/ Opened(a) \/ Reopen(a) \/ OpenFails(a) \/ Ended(a)
  PROVE  TypeOK' /\ Speech'
<1>0. TypeOK /\ Scripted /\ "off" \in Modes /\ "off" \in Modes \cup {"ptt"}
  BY DEF IInv, Modes
<1>1. CASE Close(a)
  <2>1. At(a, "close") /\ Then(a, mode[a], Later(a)) /\ CloseMic
        /\ UNCHANGED <<started, output, listening, ptt, resume, waits, chosen>>
    BY <1>1 DEF Close
  <2>2. Own(a) /\ todo'[a] = Later(a) /\ May(a) /\ todo[a] # <<>> /\ Head(todo[a]) = "close"
    BY <1>0, <2>1, AtFacts, AtMay, ThenFacts
  <2>3. stt' \in Modes \cup {"ptt"} /\ stray' \in BOOLEAN
    BY <1>0, <2>1 DEF CloseMic, TypeOK
  <2>4. Sensed
    BY <1>0, <2>1, <2>3 DEF Sensed, TypeOK
  <2>5. a = Turn => TurnGoesOn
    BY <1>0, <2>2, TurnFacts DEF TurnGoesOn, Later
  <2>6. \A b \in Actors \ {a} : waits'[b] = waits[b]
    BY <2>1
  <2>7. TypeOK'
    BY <1>0, <2>1, <2>2, <2>3, <2>4, TypesKept DEF TypeOK
  <2> QED  BY <2>1, <2>2, <2>5, <2>6, <2>7, GoesOn
<1>2. CASE Opened(a)
  <2>1. At(a, "opened") /\ stt' = mode[a] /\ Listen(a, mode[a])
        /\ UNCHANGED <<started, output, ptt, resume, waits, chosen>>
    BY <1>2 DEF Opened
  <2>2. May(a) /\ todo[a] # <<>> /\ Head(todo[a]) = "opened" /\ mode[a] \in Modes
    BY <1>0, <2>1, AtFacts, AtMay
  <2>3. Own(a) /\ Sensed
    BY <1>0, <2>1, <2>2, ListenFacts
  <2>4. a # Turn
    BY <1>0, <2>2, TurnFacts
  <2>5. TypeOK'
    BY <1>0, <2>1, <2>2, <2>3, TypesKept DEF TypeOK
  <2> QED  BY <2>1, <2>2, <2>3, <2>4, <2>5, GoesOn
<1>3. CASE Reopen(a)
  <2>1. At(a, "open") /\ OpenMic(a, mode[a])
        /\ UNCHANGED <<started, output, ptt, resume, stt, waits, chosen>>
    BY <1>3 DEF Reopen
  <2>2. May(a) /\ todo[a] # <<>> /\ Head(todo[a]) = "open" /\ mode[a] \in Modes
    BY <1>0, <2>1, AtFacts, AtMay
  <2>3. Own(a) /\ Sensed
    BY <1>0, <2>1, <2>2, OpenMicFacts
  <2>4. a # Turn
    BY <1>0, <2>2, TurnFacts
  <2>5. TypeOK'
    BY <1>0, <2>1, <2>2, <2>3, TypesKept DEF TypeOK
  <2> QED  BY <2>1, <2>2, <2>3, <2>4, <2>5, GoesOn
<1>4. CASE OpenFails(a)
  <2>1. At(a, "opened") /\ Return(a) /\ UNCHANGED <<started, output, input, waits, chosen>>
    BY <1>4 DEF OpenFails
  <2>2. May(a) /\ todo[a] # <<>> /\ Head(todo[a]) = "opened"
    BY <1>0, <2>1, AtFacts, AtMay
  <2>3. Own(a)
    BY <1>0, <2>1, ReturnFacts
  <2>4. a # Turn
    BY <1>0, <2>2, TurnFacts
  <2>5. Sensed /\ TypeOK'
    BY <1>0, <2>1, <2>3, TypesKept DEF TypeOK, Sensed, input
  <2> QED  BY <2>1, <2>2, <2>3, <2>4, <2>5, GoesOn
<1>5. CASE Ended(a)
  <2>1. At(a, "end") /\ Return(a) /\ Waited(a) /\ UNCHANGED <<started, output, input, chosen>>
    BY <1>5 DEF Ended
  <2>2. May(a) /\ Own(a) /\ todo'[a] = <<>>
    BY <1>0, <2>1, AtFacts, AtMay, ReturnFacts
  <2>3. waits' \in [Actors -> 0..MaxUtterances] /\ \A b \in Actors \ {a} : waits'[b] = waits[b]
    BY <1>0, <2>1, WaitedFacts
  <2>4. a = Turn => TurnGoesOn
    BY <2>2 DEF TurnGoesOn
  <2>5. Sensed /\ TypeOK'
    BY <1>0, <2>1, <2>2, <2>3, TypesKept DEF TypeOK, Sensed, input
  <2> QED  BY <2>1, <2>2, <2>3, <2>4, <2>5, GoesOn
<1> QED  BY <1>1, <1>2, <1>3, <1>4, <1>5

\* Push-to-talk behind its first await, and a reconfiguration.
LEMMA PttSteps ==
  ASSUME IInv, UNCHANGED setup, NEW a \in Users, Ptt(a) \/ Reconfigured(a)
  PROVE  TypeOK' /\ Speech'
<1>0. /\ TypeOK /\ Scripted /\ "off" \in Modes /\ a \in Actors /\ a \in Callers /\ a # Turn
      /\ "pttOpened" \in Blocks /\ "pttOpen" \in Blocks /\ "released" \in Blocks
  BY ActorFacts DEF IInv, Modes, Blocks
<1>1. CASE PttPause(a)
  <2>1. At(a, "ptt") /\ Waited(a) /\ UNCHANGED <<started, output, stt, stray, chosen>>
    BY <1>1 DEF PttPause
  <2>2. waits' \in [Actors -> 0..MaxUtterances] /\ \A b \in Actors \ {a} : waits'[b] = waits[b]
    BY <1>0, <2>1, WaitedFacts
  <2>3. Own(a) /\ Sensed /\ ptt' \in BOOLEAN
    <3>1. CASE listening # "off"
      <4>1. Hush(a, listening, <<"pttOpen">>) /\ UNCHANGED <<ptt, resume>>
        BY <1>1, <3>1 DEF PttPause
      <4>2. Own(a) /\ listening' \in Modes
        BY <1>0, <4>1, HushFacts DEF TypeOK
      <4> QED  BY <1>0, <2>1, <4>1, <4>2 DEF Sensed, TypeOK
    <3>2. CASE listening = "off" /\ stt = "off"
      <4>1. Then(a, "off", <<"pttOpened">>) /\ UNCHANGED <<ptt, resume, listening>>
        BY <1>1, <3>2 DEF PttPause, OpenPtt
      <4>2. Own(a)
        BY <1>0, <4>1, BlockFacts, ThenFacts
      <4> QED  BY <1>0, <2>1, <4>1, <4>2 DEF Sensed, TypeOK
    <3>3. CASE listening = "off" /\ stt # "off"
      <4>1. ptt' = TRUE /\ resume' = "off" /\ Return(a) /\ UNCHANGED listening
        BY <1>1, <3>3 DEF PttPause, OpenPtt, Pressed
      <4>2. Own(a)
        BY <1>0, <4>1, ReturnFacts
      <4> QED  BY <1>0, <2>1, <4>1, <4>2 DEF Sensed, TypeOK
    <3> QED  BY <3>1, <3>2, <3>3
  <2>4. TypeOK'
    BY <1>0, <2>1, <2>2, <2>3, TypesKept DEF TypeOK
  <2> QED  BY <1>0, <2>1, <2>2, <2>3, <2>4, AtMay, GoesOn
<1>2. CASE PttOpen(a)
  <2>1. At(a, "pttOpen") /\ OpenPtt(a, mode[a])
        /\ UNCHANGED <<started, output, listening, stt, stray, waits, chosen>>
    BY <1>2 DEF PttOpen
  <2>2. May(a) /\ mode[a] \in Modes
    BY <1>0, <2>1, AtFacts, AtMay
  <2>3. Own(a) /\ Sensed /\ ptt' \in BOOLEAN
    <3>1. CASE stt = "off"
      <4>1. Then(a, mode[a], <<"pttOpened">>) /\ UNCHANGED <<ptt, resume>>
        BY <2>1, <3>1 DEF OpenPtt
      <4>2. Own(a)
        BY <1>0, <2>2, <4>1, BlockFacts, ThenFacts
      <4> QED  BY <1>0, <2>1, <4>1, <4>2 DEF Sensed, TypeOK
    <3>2. CASE stt # "off"
      <4>1. ptt' = TRUE /\ resume' = mode[a] /\ Return(a)
        BY <2>1, <3>2 DEF OpenPtt, Pressed
      <4>2. Own(a)
        BY <1>0, <4>1, ReturnFacts
      <4> QED  BY <1>0, <2>1, <2>2, <4>1, <4>2 DEF Sensed, TypeOK
    <3> QED  BY <3>1, <3>2
  <2>4. TypeOK'
    BY <1>0, <2>1, <2>3, TypesKept DEF TypeOK
  <2> QED  BY <1>0, <2>1, <2>2, <2>3, <2>4, GoesOn
<1>3. CASE PttOpened(a)
  <2>1. At(a, "pttOpened") /\ stt' = "ptt" /\ ptt' = TRUE /\ resume' = mode[a] /\ Return(a)
        /\ UNCHANGED <<started, output, listening, stray, waits, chosen>>
    BY <1>3 DEF PttOpened, Pressed
  <2>2. May(a) /\ Own(a) /\ mode[a] \in Modes
    BY <1>0, <2>1, AtFacts, AtMay, ReturnFacts
  <2>3. Sensed
    BY <1>0, <2>1, <2>2 DEF Sensed, TypeOK
  <2>4. TypeOK'
    BY <1>0, <2>1, <2>2, <2>3, TypesKept DEF TypeOK
  <2> QED  BY <1>0, <2>1, <2>2, <2>4, GoesOn
<1>4. CASE PttFails(a) \/ Reconfigured(a)
  <2>1. (At(a, "pttOpened") \/ At(a, "prepared")) /\ UNCHANGED <<started, output, ptt, stt, waits, chosen>>
    BY <1>4 DEF PttFails, Reconfigured
  <2>2. Own(a) /\ Sensed
    <3>1. CASE Restore(a, ptt)
      BY <1>0, <3>1, RestoreFacts
    <3>2. CASE Return(a) /\ UNCHANGED <<listening, stray, resume>>
      BY <1>0, <3>2, ReturnFacts DEF Sensed, TypeOK
    <3> QED  BY <1>4, <3>1, <3>2 DEF PttFails, Reconfigured
  <2>3. TypeOK'
    BY <1>0, <2>1, <2>2, TypesKept DEF TypeOK
  <2> QED  BY <1>0, <2>1, <2>2, <2>3, AtMay, GoesOn
<1>5. CASE Heard(a)
  <2>1. At(a, "heard") /\ CloseMic /\ Then(a, mode[a], <<"released">>)
        /\ UNCHANGED <<started, output, listening, ptt, resume, waits, chosen>>
    BY <1>5 DEF Heard
  <2>2. May(a) /\ mode[a] \in Modes
    BY <1>0, <2>1, AtFacts, AtMay
  <2>3. Own(a)
    BY <1>0, <2>1, <2>2, BlockFacts, ThenFacts
  <2>4. stt' \in Modes \cup {"ptt"} /\ Sensed
    BY <1>0, <2>1 DEF CloseMic, TypeOK, Sensed
  <2>5. TypeOK'
    BY <1>0, <2>1, <2>3, <2>4, TypesKept DEF TypeOK
  <2> QED  BY <1>0, <2>1, <2>2, <2>3, <2>5, GoesOn
<1>6. CASE Released(a)
  <2>1. At(a, "released") /\ ptt' = FALSE /\ Restore(a, FALSE)
        /\ UNCHANGED <<started, output, stt, waits, chosen>>
    BY <1>6 DEF Released
  <2>2. Own(a) /\ Sensed /\ May(a)
    BY <1>0, <2>1, AtMay, RestoreFacts
  <2>3. TypeOK'
    BY <1>0, <2>1, <2>2, TypesKept DEF TypeOK
  <2> QED  BY <1>0, <2>1, <2>2, <2>3, GoesOn
<1> QED  BY <1>1, <1>2, <1>3, <1>4, <1>5, <1>6 DEF Ptt

\* A user releases push-to-talk, switches a mode, or reconfigures.
LEMMA PressSteps ==
  ASSUME IInv, UNCHANGED setup, NEW a \in Users,
         \/ PttUp(a) \/ SwitchOff(a) \/ Reconfigure(a)
         \/ \E m \in setup.switches : SwitchOn(a, m)
  PROVE  TypeOK' /\ Speech'
<1>0. /\ TypeOK /\ Scripted /\ "off" \in Modes /\ a \in Actors /\ a \in Callers /\ a # Turn
      /\ "heard" \in Blocks /\ "prepared" \in Blocks
  BY ActorFacts DEF IInv, Modes, Blocks
<1>1. MayCall(a) => May(a)
  BY DEF MayCall, May
<1>2. CASE PttUp(a)
  <2>1. MayCall(a) /\ resume' = "off" /\ Then(a, resume, <<"heard">>)
        /\ UNCHANGED <<started, output, listening, ptt, stt, stray, waits, chosen>>
    BY <1>2 DEF PttUp
  <2>2. Own(a)
    BY <1>0, <2>1, BlockFacts, ThenFacts DEF TypeOK
  <2>3. Sensed
    BY <1>0, <2>1 DEF Sensed, TypeOK
  <2>4. TypeOK'
    BY <1>0, <2>1, <2>2, <2>3, TypesKept DEF TypeOK
  <2> QED  BY <1>0, <1>1, <2>1, <2>2, <2>4, GoesOn
<1>3. CASE SwitchOff(a)
  <2>1. MayCall(a) /\ resume' = "off" /\ chosen' = "off"
        /\ UNCHANGED <<started, output, ptt, stt, stray, waits>>
    BY <1>3 DEF SwitchOff
  <2>2. Own(a) /\ listening' \in Modes
    <3>1. CASE listening = "off"
      BY <1>0, <1>3, <3>1, ReturnFacts DEF SwitchOff
    <3>2. CASE listening # "off"
      <4>1. Hush(a, "off", <<>>)
        BY <1>3, <3>2 DEF SwitchOff
      <4> QED  BY <1>0, <4>1, HushFacts
    <3> QED  BY <3>1, <3>2
  <2>3. Sensed
    BY <1>0, <2>1, <2>2 DEF Sensed, TypeOK
  <2>4. TypeOK'
    BY <1>0, <2>1, <2>2, <2>3, TypesKept DEF TypeOK
  <2> QED  BY <1>0, <1>1, <2>1, <2>2, <2>4, GoesOn
<1>4. CASE Reconfigure(a)
  <2>1. MayCall(a) /\ Hush(a, listening, <<"prepared">>)
        /\ UNCHANGED <<started, output, ptt, resume, stt, stray, waits, chosen>>
    BY <1>4 DEF Reconfigure
  <2>2. Own(a) /\ listening' \in Modes
    BY <1>0, <2>1, HushFacts DEF TypeOK
  <2>3. Sensed
    BY <1>0, <2>1, <2>2 DEF Sensed, TypeOK
  <2>4. TypeOK'
    BY <1>0, <2>1, <2>2, <2>3, TypesKept DEF TypeOK
  <2> QED  BY <1>0, <1>1, <2>1, <2>2, <2>4, GoesOn
<1>5. ASSUME NEW m \in setup.switches, SwitchOn(a, m) PROVE TypeOK' /\ Speech'
  <2>1. MayCall(a) /\ chosen' = m /\ Enable(a, m, ptt) /\ UNCHANGED <<started, output, ptt, stt, waits>>
    BY <1>5 DEF SwitchOn
  <2>2. m \in Modes \ {"off"}
    BY <1>0, <1>5, SetupFacts
  <2>3. Own(a) /\ Sensed
    BY <1>0, <2>1, <2>2, EnableFacts
  <2>4. TypeOK'
    BY <1>0, <2>1, <2>2, <2>3, TypesKept DEF TypeOK
  <2> QED  BY <1>0, <1>1, <2>1, <2>3, <2>4, GoesOn
<1> QED  BY <1>2, <1>3, <1>4, <1>5

\* What is typed after interrupt() was entered.
LEMMA InterruptTypes ==
  ASSUME TypeOK, NEW a \in Actors, NEW blocks \in Seq(Blocks), Interrupt(a, blocks),
         UNCHANGED <<setup, input, chosen>>, started' \in {"on", "stopping", "off"}
  PROVE  TypeOK'
<1>1. Then(a, "off", blocks) /\ UNCHANGED <<speech, told>> /\ current' = 0
  BY DEF Interrupt
<1>2. Own(a)
  BY <1>1, ThenFacts DEF Modes
<1>3. 0 \in 0..MaxUtterances
  BY MaxUtterancesAssumption
<1>4. waits' \in [Actors -> 0..MaxUtterances] /\ cancelled' \in [Utterances -> BOOLEAN]
  BY DEF Interrupt, TypeOK
<1> QED  BY <1>1, <1>2, <1>3, <1>4 DEF TypeOK, input, Own

\* The calls that interrupt what is said.
LEMMA InterruptSteps ==
  ASSUME IInv, UNCHANGED setup,
         \/ Say \/ BargeAct \/ BargeSense \/ StopSpeech
         \/ \E c \in Users \cup {Turn} : Silence(c)
         \/ \E c \in Users : PttDown(c)
  PROVE  TypeOK' /\ Speech'
<1>0. /\ TypeOK /\ "off" \in Modes /\ Callers \subseteq Actors
      /\ {"say", "end", "shut", "ptt", "barge"} \subseteq Blocks
      /\ \A b \in Blocks : <<b>> # <<>> /\ <<b>> \in Seq(Blocks)
      /\ started \in {"on", "stopping", "off"}
  BY ActorFacts, BlockFacts DEF IInv, Modes, Blocks, TypeOK
<1>1. ASSUME NEW a \in Callers, NEW b \in Blocks, Interrupt(a, <<b>>), May(a),
             UNCHANGED <<started, input, chosen>>,
             a = Turn => todo[a] = <<>> /\ b \in {"say", "end"}
      PROVE  TypeOK' /\ Speech'
  <2>1. TypeOK'
    BY <1>0, <1>1, InterruptTypes
  <2>2. a = Turn => todo[a] = <<>> /\ <<b>> \in {<<"say">>, <<"end">>}
    BY <1>1
  <2> QED  BY <1>0, <1>1, <2>1, <2>2, Interrupts
<1>2. \A c \in Callers : MayCall(c) => May(c) /\ todo[c] = <<>>
  BY DEF MayCall, May
<1>3. CASE Say
  BY <1>0, <1>1, <1>2, <1>3, ActorFacts DEF Say
<1>4. CASE \E c \in Users \cup {Turn} : Silence(c)
  BY <1>0, <1>1, <1>2, <1>4, ActorFacts DEF Silence
<1>5. CASE \E c \in Users : PttDown(c)
  BY <1>0, <1>1, <1>2, <1>5, ActorFacts DEF PttDown
<1>6. CASE StopSpeech
  <2>1. May(Lifespan)
    BY <1>0, <1>6, AtMay, ActorFacts DEF StopSpeech
  <2> QED  BY <1>0, <1>1, <1>6, <2>1, ActorFacts DEF StopSpeech
<1>7. CASE BargeAct
  <2>1. At(Barge, "barge") /\ UNCHANGED <<started, input, chosen>> /\ May(Barge)
    BY <1>0, <1>7, AtMay, ActorFacts DEF BargeAct
  <2>2. CASE Interrupt(Barge, <<"end">>)
    BY <1>0, <1>1, <2>1, <2>2, ActorFacts
  <2>3. CASE Return(Barge) /\ UNCHANGED <<output, waits>>
    <3>1. Own(Barge) /\ Sensed
      BY <1>0, <2>1, <2>3, ReturnFacts, ActorFacts DEF Sensed, TypeOK, input
    <3>2. TypeOK'
      BY <1>0, <2>1, <2>3, <3>1, TypesKept, ActorFacts DEF TypeOK, input
    <3> QED  BY <2>1, <2>3, <3>1, <3>2, GoesOn, ActorFacts
  <2> QED  BY <1>7, <2>2, <2>3 DEF BargeAct
<1>8. CASE BargeSense
  <2>1. MayCall(Barge) /\ Then(Barge, "off", <<"barge">>) /\ UNCHANGED <<started, output, input, waits, chosen>>
    BY <1>8 DEF BargeSense
  <2>2. Own(Barge)
    BY <1>0, <2>1, ThenFacts, ActorFacts
  <2>3. Sensed /\ TypeOK'
    BY <1>0, <2>1, <2>2, TypesKept, ActorFacts DEF TypeOK, Sensed, input
  <2> QED  BY <1>2, <2>1, <2>2, <2>3, GoesOn, ActorFacts
<1> QED  BY <1>3, <1>4, <1>5, <1>6, <1>7, <1>8

\* say() behind its interruption.
LEMMA SaySteps ==
  ASSUME IInv, UNCHANGED setup, SayPause \/ SayQueue
  PROVE  TypeOK' /\ Speech'
<1>0. TypeOK /\ Scripted /\ Turn \in Actors /\ "queue" \in Blocks /\ "off" \in Modes
      /\ mode[Turn] \in Modes
  BY ActorFacts DEF IInv, Modes, Blocks, TypeOK
<1>1. ASSUME NEW m \in Modes, Queue(m), waits' \in [Actors -> 0..MaxUtterances],
             UNCHANGED <<started, input, chosen>>
      PROVE  TypeOK'
  <2>1. PICK u \in Utterances :
          /\ current' = u
          /\ speech' = [speech EXCEPT ![u] = "created"]
          /\ told' = [told EXCEPT ![u] = "queued"]
          /\ mode' = [mode EXCEPT ![Turn] = "off", ![u] = m]
          /\ todo' = [todo EXCEPT ![Turn] = <<>>]
          /\ UNCHANGED cancelled
    BY <1>1 DEF Queue
  <2>2. /\ speech' \in [Utterances -> Alive \cup Over \cup {"none"}]
        /\ told' \in [Utterances -> Terminal \cup {"none", "queued", "started"}]
    BY <1>0, <2>1 DEF TypeOK, Alive
  <2>3. mode' \in [Actors -> Modes] /\ todo' \in [Actors -> Seq(Blocks)]
    BY <1>0, <1>1, <2>1, BlockFacts DEF TypeOK
  <2>4. current' \in 0..MaxUtterances
    BY <2>1, MaxUtterancesAssumption DEF Utterances
  <2> QED  BY <1>0, <1>1, <2>1, <2>2, <2>3, <2>4 DEF TypeOK, input
<1>2. CASE SayQueue
  <2>1. At(Turn, "queue") /\ Queue(mode[Turn]) /\ UNCHANGED <<started, input, waits, chosen>>
    BY <1>2 DEF SayQueue
  <2>2. May(Turn) /\ todo[Turn] = <<"queue">>
    BY <1>0, <2>1, AtMay, AtFacts, TurnFacts
  <2>3. TypeOK'
    BY <1>0, <1>1, <2>1 DEF TypeOK
  <2> QED  BY <2>1, <2>2, <2>3, Queues
<1>3. CASE SayPause
  <2>1. At(Turn, "say") /\ Waited(Turn) /\ UNCHANGED <<started, ptt, resume, stt, stray, chosen>>
    BY <1>3 DEF SayPause
  <2>2. /\ May(Turn) /\ todo[Turn] = <<"say">> /\ waits' \in [Actors -> 0..MaxUtterances]
        /\ \A b \in Actors \ {Turn} : waits'[b] = waits[b]
    BY <1>0, <2>1, AtMay, AtFacts, TurnFacts, WaitedFacts
  <2>3. CASE Hush(Turn, listening, <<"queue">>) /\ UNCHANGED output
    <3>1. Own(Turn) /\ listening' \in Modes /\ todo'[Turn] = <<"close">> \o <<"queue">>
      BY <1>0, <2>3, HushFacts DEF TypeOK
    <3>2. TurnGoesOn
      BY <1>0, <2>2, <3>1, BlockFacts DEF TurnGoesOn
    <3>3. Sensed
      BY <1>0, <2>1, <3>1 DEF Sensed, TypeOK
    <3>4. TypeOK'
      BY <1>0, <2>1, <2>2, <2>3, <3>1, <3>3, TypesKept DEF TypeOK
    <3> QED  BY <1>0, <2>2, <2>3, <3>1, <3>2, <3>4, GoesOn
  <2>4. CASE Queue("off") /\ UNCHANGED listening
    <3>1. TypeOK'
      BY <1>0, <1>1, <2>1, <2>2, <2>4 DEF input
    <3> QED  BY <2>2, <2>4, <3>1, Queues, ActorFacts
  <2> QED  BY <1>3, <2>3, <2>4 DEF SayPause
<1> QED  BY <1>2, <1>3

\* The end of the lifespan.
LEMMA StopSteps ==
  ASSUME IInv, UNCHANGED setup, Stop \/ Shut
  PROVE  TypeOK' /\ Speech'
<1>0. /\ TypeOK /\ "off" \in Modes /\ {"shut", "shutSpeech"} \subseteq Blocks /\ Lifespan \in Actors
      /\ Lifespan \in Callers /\ Lifespan # Turn
  BY ActorFacts DEF IInv, Modes, Blocks
<1>1. CASE Stop /\ listening = "off"
  <2>1. /\ MayCall(Lifespan) /\ started' = "stopping" /\ resume' = "off"
        /\ Interrupt(Lifespan, <<"shut">>) /\ UNCHANGED <<listening, ptt, stt, stray, chosen>>
    BY <1>1 DEF Stop
  <2>2. May(Lifespan) /\ <<"shut">> # <<>> /\ <<"shut">> \in Seq(Blocks)
    BY <1>0, <2>1, BlockFacts DEF MayCall, May
  <2>3. TypeOK'
    <3>1. Then(Lifespan, "off", <<"shut">>) /\ UNCHANGED <<speech, told>> /\ current' = 0
      BY <2>1 DEF Interrupt
    <3>2. Own(Lifespan)
      BY <1>0, <2>2, <3>1, ThenFacts
    <3>3. 0 \in 0..MaxUtterances
      BY MaxUtterancesAssumption
    <3>4. waits' \in [Actors -> 0..MaxUtterances] /\ cancelled' \in [Utterances -> BOOLEAN]
      BY <1>0, <2>1 DEF Interrupt, TypeOK
    <3> QED  BY <1>0, <2>1, <3>1, <3>2, <3>3, <3>4 DEF TypeOK, Own
  <2> QED  BY <1>0, <2>1, <2>2, <2>3, Interrupts
<1>2. CASE Stop /\ listening # "off"
  <2>1. /\ MayCall(Lifespan) /\ started' = "stopping" /\ resume' = "off"
        /\ Hush(Lifespan, "off", <<"shutSpeech">>)
        /\ UNCHANGED <<output, waits, ptt, stt, stray, chosen>>
    BY <1>2 DEF Stop
  <2>2. May(Lifespan) /\ Own(Lifespan) /\ listening' \in Modes
    BY <1>0, <2>1, HushFacts DEF MayCall, May
  <2>3. Sensed
    BY <1>0, <2>1, <2>2 DEF Sensed, TypeOK
  <2>4. TypeOK'
    BY <1>0, <2>1, <2>2, <2>3, TypesKept DEF TypeOK
  <2> QED  BY <1>0, <2>1, <2>2, <2>4, GoesOn
<1>3. CASE Shut
  <2>1. /\ At(Lifespan, "shut") /\ started' = "off" /\ stt' = "off"
        /\ todo' = [todo EXCEPT ![Lifespan] = <<>>, ![Barge] = <<>>]
        /\ waits' = [waits EXCEPT ![Lifespan] = 0, ![Barge] = 0]
        /\ UNCHANGED <<output, listening, ptt, resume, stray, mode, chosen>>
    BY <1>3 DEF Shut
  <2>2. UNCHANGED <<current, speech, cancelled, told>>
    BY <2>1 DEF output
  <2>3. TypeOK'
    <3>1. 0 \in 0..MaxUtterances /\ <<>> \in Seq(Blocks)
      BY MaxUtterancesAssumption, BlockFacts
    <3> QED  BY <1>0, <2>1, <2>2, <3>1 DEF TypeOK
  <2>4. /\ todo'[Turn] = todo[Turn] /\ todo'[Lifespan] = <<>> /\ todo'[Barge] = <<>>
        /\ \A c \in Callers : todo'[c] = <<>> \/ todo'[c] = todo[c]
    BY <1>0, <2>1, ActorFacts DEF TypeOK
  <2>5. May(Lifespan) /\ todo[Lifespan] # <<>>
    BY <1>0, <2>1, AtMay, AtFacts
  <2>6. Handles' /\ Told' /\ OneAlive'
    BY <2>2 DEF IInv, Handles, SpeechReachable, Told, OneAlive
  <2>7. Scripted'
    BY <2>2, <2>4 DEF IInv, Scripted
  <2>8. Orderly'
    <3> SUFFICES ASSUME setup.orderly PROVE Orderly'
      BY DEF Orderly
    <3>1. \A c \in Callers : todo'[c] = <<>>
      BY <2>4, <2>5, FreeFacts, ActorFacts
    <3>2. \A u \in Utterances : ~cancelled'[u]
      BY <2>2, <2>5, FreeFacts, ActorFacts
    <3>3. \A u \in Utterances : speech'[u] # "dropped"
      BY <2>2 DEF IInv, Orderly
    <3> QED  BY <3>1, <3>3, <3>2, ScriptFacts, ActorFacts DEF Orderly, Busy
  <2> QED  BY <2>3, <2>6, <2>7, <2>8 DEF Speech
<1> QED  BY <1>1, <1>2, <1>3

\* A task moves on, or was dropped; its handles stay what they are.
LEMMA MoveSteps ==
  ASSUME IInv, UNCHANGED setup, NEW u \in Utterances,
         \/ Drop(u) \/ Begin(u) \/ Unready(u) \/ Break(u) \/ Unwind(u) \/ Restored(u)
         \/ \E yes \in BOOLEAN : Ready(u, yes)
  PROVE  TypeOK' /\ Speech'
<1>0. TypeOK /\ Handles /\ Told
  BY DEF IInv
<1>1. PICK from \in Alive, to \in Alive \cup Over :
        /\ speech[u] = from /\ speech' = [speech EXCEPT ![u] = to]
        /\ \/ from = "created" /\ to = "dropped" /\ cancelled[u]
           \/ from = "created" /\ to = "readying" /\ ~cancelled[u]
           \/ from = "readying" /\ to \in {"playing", "mute", "unready"} /\ ~cancelled[u]
           \/ from \in {"playing", "mute"} /\ to = "recovering" /\ ~cancelled[u]
           \/ from \in Playing \cup {"recovering"} /\ to = "stopping" /\ cancelled[u]
           \/ from = "restoring" /\ to = "done"
  BY DEF Drop, Begin, Unready, Break, Unwind, Restored, Ready, Moves, Alive, Over, Playing
<1>2. /\ UNCHANGED <<started, current, input, actors, chosen>>
      /\ cancelled' = IF to = "dropped" THEN [cancelled EXCEPT ![u] = FALSE] ELSE cancelled
      /\ told' = IF to = "playing" /\ current = u THEN [told EXCEPT ![u] = "started"] ELSE told
  <2>1. CASE Drop(u)
    <3>1. to = "dropped"
      BY <1>0, <1>1, <2>1 DEF Drop, Moves, TypeOK
    <3> QED  BY <2>1, <3>1 DEF Drop
  <2>2. CASE \E yes \in BOOLEAN : Ready(u, yes)
    <3>1. PICK yes \in BOOLEAN : Ready(u, yes)
      BY <2>2
    <3>2. to = IF yes THEN "playing" ELSE "mute"
      BY <1>0, <1>1, <3>1 DEF Ready, Moves, TypeOK
    <3> QED  BY <3>1, <3>2 DEF Ready
  <2>3. CASE Begin(u) \/ Unready(u) \/ Break(u) \/ Unwind(u) \/ Restored(u)
    <3>1. to \notin {"dropped", "playing"}
      BY <1>0, <1>1, <2>3 DEF Begin, Unready, Break, Unwind, Restored, Moves, TypeOK
    <3> QED  BY <2>3, <3>1 DEF Begin, Unready, Break, Unwind, Restored
  <2> QED  BY <2>1, <2>2, <2>3
<1>3. /\ speech'[u] = to /\ \A v \in Utterances \ {u} : speech'[v] = speech[v]
      /\ \A v \in Utterances \ {u} : cancelled'[v] = cancelled[v] /\ told'[v] = told[v]
      /\ cancelled'[u] = (to # "dropped" /\ cancelled[u])
      /\ told'[u] = IF to = "playing" /\ current = u THEN "started" ELSE told[u]
      /\ current' = current
  BY <1>0, <1>1, <1>2 DEF TypeOK
<1>4. TypeOK'
  <2>1. speech' \in [Utterances -> Alive \cup Over \cup {"none"}]
    BY <1>0, <1>1 DEF TypeOK
  <2>2. cancelled' \in [Utterances -> BOOLEAN]
    BY <1>0, <1>2 DEF TypeOK
  <2>3. told' \in [Utterances -> Terminal \cup {"none", "queued", "started"}]
    BY <1>0, <1>2 DEF TypeOK
  <2> QED  BY <1>0, <1>2, <2>1, <2>2, <2>3 DEF TypeOK, input, actors
<1>5. current = u => to \in Reachable /\ ~cancelled[u]
  <2>1. current = u => speech[u] \in Reachable /\ ~cancelled[u]
    BY <1>0 DEF Handles, Utterances
  <2>2. "restoring" \notin Reachable
    BY DEF Reachable, Playing
  <2> QED  BY <1>1, <2>1, <2>2 DEF Reachable, Playing
<1>6. Handles'
  <2>1. current' # 0 => speech'[current'] \in Reachable /\ ~cancelled'[current']
    <3>1. current # 0 => current \in Utterances
      BY <1>0 DEF TypeOK, Utterances
    <3> QED  BY <1>0, <1>3, <1>5, <3>1 DEF Handles
  <2>2. ASSUME NEW v \in Utterances, speech'[v] \in Reachable, ~cancelled'[v] PROVE current' = v
    <3>1. CASE v = u
      <4>1. to \in Reachable /\ ~cancelled[u] /\ speech[u] \in Reachable
        BY <1>1, <1>3, <2>2, <3>1 DEF Reachable, Playing, Over
      <4> QED  BY <1>0, <1>3, <3>1, <4>1 DEF Handles, SpeechReachable, Reachable
    <3>2. CASE v # u
      BY <1>0, <1>3, <2>2, <3>2 DEF Handles, SpeechReachable, Reachable
    <3> QED  BY <3>1, <3>2
  <2>3. ASSUME NEW v \in Utterances, cancelled'[v] PROVE speech'[v] \in Alive \ {"restoring"}
    <3>1. CASE v = u
      <4>1. to # "dropped" /\ cancelled[u] /\ speech[u] # "restoring"
        BY <1>0, <1>3, <2>3, <3>1 DEF Handles
      <4>2. to = "stopping"
        BY <1>1, <4>1
      <4> QED  BY <1>3, <3>1, <4>2 DEF Alive
    <3>2. CASE v # u
      BY <1>0, <1>3, <2>3, <3>2 DEF Handles
    <3> QED  BY <3>1, <3>2
  <2> QED  BY <2>1, <2>2, <2>3 DEF Handles, SpeechReachable, Reachable
<1>7. Told'
  <2> SUFFICES ASSUME NEW v \in Utterances
               PROVE  /\ speech'[v] = "none" => told'[v] = "none"
                      /\ speech'[v] \in {"created", "readying", "unready", "mute", "dropped"}
                           => told'[v] = "queued"
                      /\ speech'[v] = "playing" => told'[v] = "started"
                      /\ speech'[v] \in {"recovering", "stopping"} => told'[v] \in {"queued", "started"}
                      /\ speech'[v] \in {"restoring", "done"} => told'[v] \in Terminal
                      /\ speech'[v] = "stopping" => cancelled'[v]
    BY DEF Told
  <2>1. CASE v # u
    BY <1>0, <1>3, <2>1 DEF Told
  <2>2. CASE v = u
    <3>1. to = "playing" => current = u
      BY <1>0, <1>1 DEF Handles, SpeechReachable, Playing
    <3> QED  BY <1>0, <1>1, <1>3, <2>2, <3>1 DEF Told, Playing
  <2> QED  BY <2>1, <2>2
<1>8. Scripted' /\ Orderly' /\ OneAlive'
  <2>1. \A v \in Utterances : cancelled'[v] => cancelled[v]
    BY <1>3
  <2>2. to # "created"
    BY <1>1
  <2>3. \A v \in Utterances : \/ speech'[v] = speech[v]
                              \/ v = u /\ speech[v] \in Alive /\ speech'[v] # "created"
    BY <1>1, <1>3, <2>2
  <2>4. speech'[u] = "dropped" => speech[u] = "created" /\ cancelled[u]
    BY <1>1, <1>3 DEF Over
  <2> QED  BY <1>2, <1>3, <2>1, <2>3, <2>4, Scheduled DEF actors
<1> QED  BY <1>4, <1>6, <1>7, <1>8 DEF Speech

\* What an utterance ends with, and what was said of it before.
LEMMA EndingFacts ==
  ASSUME IInv, NEW u \in Utterances, NEW how \in Endings(u)
  PROVE  /\ how \in Terminal /\ speech[u] \in Alive
         /\ <<told[u], how>> \in Order
         /\ ~cancelled[u] => how # "interrupted"
<1>1. \/ speech[u] = "playing" /\ how = "finished"
      \/ speech[u] \in {"mute", "unready", "recovering"} /\ how = "failed"
      \/ speech[u] = "stopping" /\ how = "interrupted"
  BY DEF Endings
<1>2. how \in Terminal /\ speech[u] \in Alive
  BY <1>1 DEF Terminal, Alive, Playing
<1>3. <<told[u], how>> \in Order
  BY <1>1 DEF IInv, Told, Order
<1>4. ~cancelled[u] => how # "interrupted"
  BY <1>1 DEF IInv, Told
<1> QED  BY <1>2, <1>3, <1>4

\* The finally clause of an utterance's task.
LEMMA FinallyStep ==
  ASSUME IInv, UNCHANGED setup, NEW u \in Utterances, Finally(u)
  PROVE  TypeOK' /\ Speech'
<1>0. TypeOK /\ Handles /\ Told /\ u \in Actors /\ u # 0
  BY ActorFacts DEF IInv, Utterances
<1>1. PICK how \in Endings(u) : told' = [told EXCEPT ![u] = how]
  BY DEF Finally
<1>2. how \in Terminal /\ speech[u] \in Alive
  BY <1>1, EndingFacts
<1>3. Own(u) /\ Sensed
  <2>1. CASE Restore(u, ptt)
    BY <1>0, <2>1, RestoreFacts
  <2>2. CASE Return(u) /\ UNCHANGED <<listening, stray, resume>>
    BY <1>0, <2>2, ReturnFacts DEF Sensed, TypeOK
  <2> QED  BY <2>1, <2>2 DEF Finally
<1>4. PICK to \in {"done", "restoring"} : speech' = [speech EXCEPT ![u] = to]
  BY DEF Finally
<1>5. /\ speech'[u] = to /\ \A v \in Utterances \ {u} : speech'[v] = speech[v]
      /\ told'[u] = how /\ \A v \in Utterances \ {u} : told'[v] = told[v]
      /\ cancelled' = [cancelled EXCEPT ![u] = FALSE]
      /\ ~cancelled'[u] /\ \A v \in Utterances \ {u} : cancelled'[v] = cancelled[v]
      /\ current' = IF current = u THEN 0 ELSE current
      /\ UNCHANGED <<started, ptt, stt, waits, chosen>>
  BY <1>0, <1>1, <1>4 DEF TypeOK, Finally, Release
<1>6. TypeOK'
  <2>1. speech' \in [Utterances -> Alive \cup Over \cup {"none"}]
    BY <1>0, <1>4 DEF TypeOK, Alive, Over
  <2>2. told' \in [Utterances -> Terminal \cup {"none", "queued", "started"}]
    BY <1>0, <1>1, <1>2 DEF TypeOK
  <2>3. cancelled' \in [Utterances -> BOOLEAN] /\ current' \in 0..MaxUtterances
    BY <1>0, <1>5, MaxUtterancesAssumption DEF TypeOK
  <2> QED  BY <1>0, <1>3, <1>5, <2>1, <2>2, <2>3 DEF TypeOK, Own, Sensed
<1>7. Handles'
  <2>1. to \notin Reachable
    BY DEF Reachable, Playing
  <2>2. current' # 0 => speech'[current'] \in Reachable /\ ~cancelled'[current']
    <3>1. current # 0 => current \in Utterances
      BY <1>0 DEF TypeOK, Utterances
    <3> QED  BY <1>0, <1>5, <3>1 DEF Handles
  <2>3. \A v \in Utterances : speech'[v] \in Reachable /\ ~cancelled'[v] => current' = v
    BY <1>0, <1>5, <2>1 DEF Handles, SpeechReachable, Reachable
  <2>4. \A v \in Utterances : cancelled'[v] => speech'[v] \in Alive \ {"restoring"}
    BY <1>0, <1>5 DEF Handles
  <2> QED  BY <2>2, <2>3, <2>4 DEF Handles, SpeechReachable, Reachable
<1>8. Told'
  <2>1. to \in {"done", "restoring"}
    OBVIOUS
  <2> QED  BY <1>0, <1>2, <1>5, <2>1 DEF Told
<1>9. Scripted' /\ Orderly' /\ OneAlive'
  <2>1. \A c \in Callers : todo'[c] = todo[c]
    BY <1>3, ActorFacts DEF Own
  <2>2. \A v \in Utterances : \/ speech'[v] = speech[v]
                              \/ v = u /\ speech[v] \in Alive /\ speech'[v] # "created"
    BY <1>2, <1>5
  <2>3. \A v \in Utterances : cancelled'[v] => cancelled[v]
    BY <1>5
  <2> QED  BY <1>5, <2>1, <2>2, <2>3, Scheduled
<1> QED  BY <1>6, <1>7, <1>8, <1>9 DEF Speech

-----------------------------------------------------------------------------
(* The theorems *)

LEMMA Initially == Init => IInv
<1> SUFFICES ASSUME Init PROVE IInv
  OBVIOUS
<1>1. TypeOK
  <2>1. 0 \in 0..MaxUtterances /\ "off" \in Modes
    BY MaxUtterancesAssumption DEF Modes
  <2> QED  BY <2>1, BlockFacts DEF Init, TypeOK
<1>2. \A u \in Utterances : speech[u] = "none" /\ told[u] = "none" /\ ~cancelled[u]
  BY DEF Init
<1>3. "none" \notin Alive \cup Reachable
  BY DEF Alive, Reachable, Playing
<1>4. Handles /\ Told /\ OneAlive
  BY <1>2, <1>3 DEF Init, Handles, SpeechReachable, Reachable, Told, OneAlive
<1>5. \A c \in Callers : todo[c] = <<>>
  BY ActorFacts DEF Init
<1>6. Scripted /\ Orderly
  BY <1>2, <1>3, <1>5, ScriptFacts, ActorFacts DEF Init, Scripted, Orderly, Busy
<1> QED  BY <1>1, <1>4, <1>6 DEF IInv

\* Every step keeps the invariant.
LEMMA Stepwise == IInv /\ [Next]_vars => IInv'
<1> SUFFICES ASSUME IInv, [Next]_vars PROVE TypeOK' /\ Speech'
  BY DEF IInv, Speech
<1>1. CASE UNCHANGED vars
  <2>1. TypeOK'
    BY <1>1 DEF vars, controller, output, input, actors, IInv, TypeOK
  <2>2. Speech'
    BY <1>1, Apart DEF vars, controller, output, actors
  <2> QED  BY <2>1, <2>2
<1> SUFFICES ASSUME Step, UNCHANGED setup PROVE TypeOK' /\ Speech'
  BY <1>1 DEF Next
<1>2. CASE Say \/ BargeSense \/ Stop \/ \E c \in Users \cup {Turn} : Silence(c)
  BY <1>2, InterruptSteps, StopSteps
<1>3. CASE \E c \in Users : Press(c)
  BY <1>3, PressSteps, InterruptSteps DEF Press
<1>4. CASE \E u \in Utterances : Speak(u)
  BY <1>4, MoveSteps, FinallyStep DEF Speak
<1>5. CASE \E a \in Actors : Proceed(a)
  <2>1. PICK a \in Actors : Proceed(a)
    BY <1>5
  <2>2. CASE Close(a) \/ Opened(a) \/ Reopen(a) \/ OpenFails(a) \/ Ended(a)
    BY <2>2, MicSteps
  <2>3. CASE a \in Users /\ (Ptt(a) \/ Reconfigured(a))
    BY <2>3, PttSteps
  <2>4. CASE SayPause \/ SayQueue
    BY <2>4, SaySteps
  <2>5. CASE BargeAct \/ StopSpeech \/ Shut
    BY <2>5, InterruptSteps, StopSteps
  <2> QED  BY <2>1, <2>2, <2>3, <2>4, <2>5 DEF Proceed
<1> QED  BY <1>2, <1>3, <1>4, <1>5 DEF Step

\* The variables of the controller, of its callers and of its tasks keep their types.
THEOREM SpeechTyped == Spec => []TypeOK
<1>1. IInv => TypeOK
  BY DEF IInv
<1> QED  BY <1>1, Initially, Stepwise, PTL DEF Spec

\* Speech that nobody cancelled can be reached, however the calls interleave; and with calls
\* that wait for one another there is one task at most, which ends with one terminal event.
THEOREM SpeechIsOne == Spec => []OneSpeech
<1>1. IInv => OneSpeech
  <2> SUFFICES ASSUME IInv PROVE OneSpeech
    OBVIOUS
  <2>1. SpeechReachable /\ OneAlive
    BY DEF IInv, Handles
  <2>2. ExactlyOneTerminal
    <3> SUFFICES ASSUME setup.orderly, NEW u \in Utterances, speech[u] \in Over
                 PROVE  told[u] \in Terminal
      BY DEF ExactlyOneTerminal
    <3>1. speech[u] # "dropped"
      BY DEF IInv, Orderly
    <3> QED  BY <3>1 DEF IInv, Told, Over
  <2> QED  BY <2>1, <2>2 DEF OneSpeech
<1> QED  BY <1>1, Initially, Stepwise, PTL DEF Spec

\* What a step publishes of an utterance.
LEMMA Events ==
  ASSUME IInv, Next, NEW u \in Utterances, told'[u] # told[u]
  PROVE  /\ <<told[u], told'[u]>> \in Order
         /\ cancelled[u] => told'[u] # "started"
         /\ ~cancelled[u] => told'[u] # "interrupted"
<1>1. Step /\ told' # told
  BY DEF Next
<1>2. ASSUME NEW m, Queue(m)
      PROVE  <<told[u], told'[u]>> \in Order /\ told'[u] = "queued"
  <2>1. told[u] = "none" /\ told'[u] = "queued"
    BY <1>2 DEF IInv, TypeOK, Told, Queue
  <2> QED  BY <2>1 DEF Order
<1>3. ASSUME NEW yes \in BOOLEAN, NEW v \in Utterances, Ready(v, yes)
      PROVE  <<told[u], told'[u]>> \in Order /\ told'[u] = "started" /\ ~cancelled[u]
  <2>1. v = u /\ told'[u] = "started" /\ told[u] = "queued" /\ ~cancelled[u]
    BY <1>3 DEF IInv, TypeOK, Told, Ready, Moves
  <2> QED  BY <2>1 DEF Order
<1>4. ASSUME NEW v \in Utterances, Finally(v)
      PROVE  /\ <<told[u], told'[u]>> \in Order /\ told'[u] # "started"
             /\ ~cancelled[u] => told'[u] # "interrupted"
  <2>1. PICK how \in Endings(v) : told' = [told EXCEPT ![v] = how]
    BY <1>4 DEF Finally
  <2>2. v = u /\ told'[u] = how
    BY <2>1 DEF IInv, TypeOK
  <2>3. how # "started"
    BY <2>1, EndingFacts DEF Terminal
  <2> QED  BY <2>1, <2>2, <2>3, EndingFacts
<1>5. CASE Say \/ BargeSense \/ Stop \/ \E c \in Users \cup {Turn} : Silence(c)
  BY <1>1, <1>5 DEF Say, BargeSense, Stop, Silence, Interrupt, output
<1>6. CASE \E c \in Users : Press(c)
  BY <1>1, <1>6 DEF Press, PttDown, PttUp, SwitchOff, Reconfigure, SwitchOn, Interrupt, output
<1>7. CASE \E v \in Utterances : Speak(v)
  <2>1. PICK v \in Utterances : Speak(v)
    BY <1>7
  <2>2. CASE Drop(v) \/ Begin(v) \/ Unready(v) \/ Break(v) \/ Unwind(v) \/ Restored(v)
    BY <1>1, <2>2 DEF Drop, Begin, Unready, Break, Unwind, Restored
  <2> QED  BY <1>3, <1>4, <2>1, <2>2 DEF Speak
<1>8. CASE \E a \in Actors : Proceed(a)
  <2>1. PICK a \in Actors : Proceed(a)
    BY <1>8
  <2>2. CASE Close(a) \/ Opened(a) \/ Reopen(a) \/ OpenFails(a) \/ Ended(a)
    BY <1>1, <2>2 DEF Close, Opened, Reopen, OpenFails, Ended, output
  <2>3. CASE Ptt(a) \/ Reconfigured(a)
    BY <1>1, <2>3 DEF Ptt, PttPause, PttOpen, PttOpened, PttFails, Heard, Released, Reconfigured, output
  <2>4. CASE SayPause \/ SayQueue
    BY <1>1, <1>2, <2>4 DEF SayPause, SayQueue, output
  <2>5. CASE BargeAct \/ StopSpeech \/ Shut
    BY <1>1, <2>5 DEF BargeAct, StopSpeech, Shut, Interrupt, output
  <2> QED  BY <2>1, <2>2, <2>3, <2>4, <2>5 DEF Proceed
<1> QED  BY <1>1, <1>2, <1>3, <1>4, <1>5, <1>6, <1>7, <1>8 DEF Step

\* The events of an utterance come in their order, and one that was interrupted does not
\* start any more.
THEOREM EventsInOrder == Spec => EventOrder
<1> DEFINE A == \A u \in Utterances : told'[u] # told[u] =>
                  /\ <<told[u], told'[u]>> \in Order
                  /\ cancelled[u] => told'[u] # "started"
                  /\ ~cancelled[u] => told'[u] # "interrupted"
<1>1. IInv /\ [Next]_vars => [A]_vars
  BY Events
<1>2. Spec => [][A]_vars
  BY <1>1, Initially, Stepwise, PTL DEF Spec
<1> QED  BY <1>2 DEF EventOrder

-----------------------------------------------------------------------------
(* The microphone in orderly circumstances                                 *)


\* What the callers and the tasks have left to do, and what of it is at the microphone: whoever
\* has such a script has closed it, or is about to.
UserScripts ==
  {<<"close">>, <<"open">>, <<"opened">>, <<"prepared">>, <<"pttOpen">>, <<"pttOpened">>,
   <<"heard">>, <<"released">>, <<"close", "open">>, <<"close", "prepared">>, <<"close", "pttOpen">>}
MicScripts == UserScripts \cup {<<"queue">>, <<"close", "queue">>, <<"close", "shutSpeech">>}

ScriptsOf(a) ==
  {<<>>} \cup
  CASE a \in Users    -> UserScripts \cup {<<"end">>, <<"ptt">>}
    [] a = Turn       -> {<<"end">>, <<"say">>, <<"close", "queue">>, <<"queue">>}
    [] a = Barge      -> {<<"end">>, <<"barge">>}
    [] a = Lifespan   -> {<<"close", "shutSpeech">>, <<"shutSpeech">>, <<"shut">>}
    [] OTHER          -> {<<"opened">>}

\* The mode that was asked for is to be on.
\* (A microphone that does not open leaves the mode off.)
Intended == started = "on" /\ ~setup.micFails

AtMic(a) == todo[a] \in MicScripts

\* Each actor has a script of its kind, and push-to-talk begins when nothing is alive.
Calls ==
  /\ \A a \in Actors : /\ todo[a] \in ScriptsOf(a)
                       /\ todo[a] # <<>> => (started = "on" <=> a # Lifespan)
  /\ \A u \in Utterances : todo[u] # <<>> <=> speech[u] = "restoring" /\ mode[u] # "off"
  /\ \A c \in Users : todo[c] = <<"ptt">> =>
       ~ptt /\ \A u \in Utterances : speech[u] \in Alive => waits[c] = u

\* Whoever is at the microphone has it, and remembers what was asked for.
HeldBy(a) ==
  /\ listening = "off"
  /\ ptt <=> todo[a] \in {<<"heard">>, <<"released">>}
  /\ todo[a] \in MicScripts \ {<<"close">>, <<"close", "open">>, <<"close", "prepared">>,
                               <<"close", "pttOpen">>, <<"close", "queue">>,
                               <<"close", "shutSpeech">>, <<"heard">>} => stt = "off"
  /\ Intended => mode[a] = chosen
  /\ todo[a] = <<"close">> => mode[a] = "off"

Held == \A a \in Actors : AtMic(a) => HeldBy(a)

\* An utterance that paused the listening remembers what was asked for, and its task alone restores it.
Paused ==
  \A u \in Utterances : mode[u] # "off" =>
    /\ speech[u] \in Alive /\ listening = "off" /\ ~ptt
    /\ Intended => mode[u] = chosen
    /\ \A a \in Actors : AtMic(a) => a = u

\* The microphone is open for what is reported.
AsReported ==
  started = "on" =>
    /\ stt = IF ptt THEN "ptt" ELSE listening
    /\ Intended => IF ptt THEN resume = chosen ELSE listening = chosen

\* With nobody at the microphone it is open for what is reported, which is what was asked for
\* unless an utterance is to restore it.
Idle ==
  (\A a \in Actors : ~AtMic(a)) /\ started = "on" =>
    /\ stt = IF ptt THEN "ptt" ELSE listening
    /\ Intended => IF ptt THEN resume = chosen
                   ELSE (\A u \in Utterances : mode[u] = "off") => listening = chosen

\* One reader at a time.
Apiece == ~stray /\ (ptt => listening = "off")

Mic == setup.orderly => Apiece /\ Calls /\ Held /\ Paused /\ Idle

\* Sequences of one element and of two.
LEMMA Tuples ==
  /\ \A x, y : <<x>> = <<y>> => x = y
  /\ \A x, y, z : <<x, y>> # <<z>>
  /\ \A x, y, z, w : <<x, y>> = <<z, w>> => x = z /\ y = w
  /\ \A x, y : <<x, y>> # <<>> /\ <<x>> # <<>>
  /\ \A x, y : Head(<<x>>) = x /\ Head(<<x, y>>) = x
  /\ \A x, y : Tail(<<x>>) = <<>> /\ Tail(<<x, y>>) = <<y>>
OBVIOUS

\* The scripts and what is at their heads.
LEMMA Heads ==
  /\ \A b : Head(<<b>>) = b /\ Tail(<<b>>) = <<>>
  /\ Head(<<"close", "open">>) = "close" /\ Tail(<<"close", "open">>) = <<"open">>
  /\ Head(<<"close", "prepared">>) = "close" /\ Tail(<<"close", "prepared">>) = <<"prepared">>
  /\ Head(<<"close", "pttOpen">>) = "close" /\ Tail(<<"close", "pttOpen">>) = <<"pttOpen">>
  /\ Head(<<"close", "queue">>) = "close" /\ Tail(<<"close", "queue">>) = <<"queue">>
  /\ Head(<<"close", "shutSpeech">>) = "close"
  /\ Tail(<<"close", "shutSpeech">>) = <<"shutSpeech">>
BY Tuples

LEMMA Scripts ==
  ASSUME NEW a \in Actors
  PROVE  /\ a \in Users => ScriptsOf(a) = {<<>>, <<"end">>, <<"ptt">>} \cup UserScripts
         /\ ScriptsOf(Turn) = {<<>>, <<"end">>, <<"say">>, <<"close", "queue">>, <<"queue">>}
         /\ ScriptsOf(Barge) = {<<>>, <<"end">>, <<"barge">>}
         /\ ScriptsOf(Lifespan) = {<<>>, <<"close", "shutSpeech">>, <<"shutSpeech">>, <<"shut">>}
         /\ a \in Utterances => ScriptsOf(a) = {<<>>, <<"opened">>}
<1>1. a \in Users => a \notin {Turn, Barge, Lifespan}
  BY ActorFacts
<1>2. a \in Utterances => a \notin Users \cup {Turn, Barge, Lifespan}
  BY ActorFacts
<1> QED  BY <1>1, <1>2, ActorFacts DEF ScriptsOf

\* What an actor at a block has left.
LEMMA Left ==
  ASSUME Calls, NEW a \in Actors, NEW b, At(a, b)
  PROVE  /\ b # "close" => todo[a] = <<b>>
         /\ b = "close" => \/ todo[a] = <<"close">> /\ Later(a) = <<>> /\ a \in Users
                           \/ /\ todo[a] \in {<<"close", "open">>, <<"close", "prepared">>, <<"close", "pttOpen">>}
                              /\ Later(a) \in {<<"open">>, <<"prepared">>, <<"pttOpen">>} /\ a \in Users
                           \/ a = Turn /\ todo[a] = <<"close", "queue">> /\ Later(a) = <<"queue">>
                           \/ a = Lifespan /\ todo[a] = <<"close", "shutSpeech">> /\ Later(a) = <<"shutSpeech">>
         /\ started = "on" <=> a # Lifespan
<1>1. todo[a] # <<>> /\ Head(todo[a]) = b /\ todo[a] \in ScriptsOf(a) /\ (started = "on" <=> a # Lifespan)
  BY DEF At, Calls
<1>2. CASE a \in Users
  <2>1. \/ todo[a] \in {<<"end">>, <<"ptt">>, <<"close">>, <<"open">>, <<"opened">>, <<"prepared">>,
                       <<"pttOpen">>, <<"pttOpened">>, <<"heard">>, <<"released">>}
        \/ todo[a] \in {<<"close", "open">>, <<"close", "prepared">>, <<"close", "pttOpen">>}
    BY <1>1, <1>2, Scripts DEF UserScripts
  <2>2. CASE todo[a] \in {<<"end">>, <<"ptt">>, <<"open">>, <<"opened">>, <<"prepared">>,
                         <<"pttOpen">>, <<"pttOpened">>, <<"heard">>, <<"released">>}
    <3>1. PICK x \in Blocks \ {"close"} : todo[a] = <<x>>
      BY <2>2 DEF Blocks
    <3>2. b = x
      BY <1>1, <3>1, Heads, Zenon
    <3> QED  BY <1>1, <3>1, <3>2
  <2>3. CASE todo[a] = <<"close">>
    BY <1>1, <1>2, <2>3, Heads, Zenon DEF Later
  <2>4. CASE todo[a] \in {<<"close", "open">>, <<"close", "prepared">>, <<"close", "pttOpen">>}
    <3>1. b = "close" /\ Later(a) \in {<<"open">>, <<"prepared">>, <<"pttOpen">>}
      BY <1>1, <2>4, Heads, Zenon DEF Later
    <3> QED  BY <1>1, <1>2, <2>4, <3>1, Zenon
  <2> QED  BY <2>1, <2>2, <2>3, <2>4
<1>3. CASE a = Turn
  <2>1. todo[a] \in {<<"end">>, <<"say">>, <<"close", "queue">>, <<"queue">>}
    BY <1>1, <1>3, Scripts
  <2>2. CASE todo[a] \in {<<"end">>, <<"say">>, <<"queue">>}
    <3>1. PICK x \in Blocks \ {"close"} : todo[a] = <<x>>
      BY <2>2 DEF Blocks
    <3>2. b = x
      BY <1>1, <3>1, Heads, Zenon
    <3> QED  BY <1>1, <3>1, <3>2
  <2>3. CASE todo[a] = <<"close", "queue">>
    BY <1>1, <1>3, <2>3, Heads, Zenon DEF Later
  <2> QED  BY <2>1, <2>2, <2>3
<1>4. CASE a = Barge
  <2>1. todo[a] \in {<<"end">>, <<"barge">>}
    BY <1>1, <1>4, Scripts
  <2> QED  BY <1>1, <1>4, <2>1, Tuples DEF Later
<1>5. CASE a = Lifespan
  <2>1. todo[a] \in {<<"close", "shutSpeech">>, <<"shutSpeech">>, <<"shut">>}
    BY <1>1, <1>5, Scripts
  <2>2. CASE todo[a] \in {<<"shutSpeech">>, <<"shut">>}
    <3>1. PICK x \in Blocks \ {"close"} : todo[a] = <<x>>
      BY <2>2 DEF Blocks
    <3>2. b = x
      BY <1>1, <3>1, Heads, Zenon
    <3> QED  BY <1>1, <3>1, <3>2
  <2>3. CASE todo[a] = <<"close", "shutSpeech">>
    BY <1>1, <1>5, <2>3, Heads, Zenon DEF Later
  <2> QED  BY <2>1, <2>2, <2>3
<1>6. CASE a \in Utterances
  <2>1. todo[a] = <<"opened">>
    BY <1>1, <1>6, Scripts
  <2> QED  BY <1>1, <1>6, <2>1, Tuples DEF Later
<1> QED  BY <1>2, <1>3, <1>4, <1>5, <1>6 DEF Actors, Callers

Then3(a, m, blocks) ==
  /\ todo'[a] = blocks /\ mode'[a] = m
  /\ \A b \in Actors \ {a} : todo'[b] = todo[b] /\ mode'[b] = mode[b]

LEMMA ThenOnly ==
  ASSUME TypeOK, NEW a \in Actors, NEW m, NEW blocks, Then(a, m, blocks)
  PROVE  Then3(a, m, blocks)
BY DEF TypeOK, Then, Then3

-----------------------------------------------------------------------------
(* The parts of the invariant, after a step of one actor *)

\* A call goes on, the others being idle.
LEMMA CallsOn ==
  ASSUME Calls, NEW a \in Callers, \A c \in Callers \ {a} : todo[c] = <<>>,
         \A b \in Actors \ {a} : todo'[b] = todo[b] /\ mode'[b] = mode[b],
         \A u \in Utterances : speech'[u] = "restoring" <=> speech[u] = "restoring",
         todo'[a] \in ScriptsOf(a), todo'[a] # <<>> => (started' = "on" <=> a # Lifespan),
         started' = started \/ \A b \in Actors \ {a} : todo[b] = <<>>,
         todo'[a] = <<"ptt">> =>
           ~ptt' /\ \A u \in Utterances : speech'[u] \in Alive => waits'[a] = u
  PROVE  Calls'
<1>1. \A u \in Utterances : u \in Actors \ {a}
  BY ActorFacts
<1>2. ASSUME NEW b \in Actors
      PROVE  todo'[b] \in ScriptsOf(b) /\ (todo'[b] # <<>> => (started' = "on" <=> b # Lifespan))
  BY DEF Calls
<1>3. \A u \in Utterances : todo'[u] # <<>> <=> speech'[u] = "restoring" /\ mode'[u] # "off"
  BY <1>1 DEF Calls
<1>4. ASSUME NEW c \in Users, todo'[c] = <<"ptt">>
      PROVE  ~ptt' /\ \A u \in Utterances : speech'[u] \in Alive => waits'[c] = u
  <2>1. c \in Callers /\ c \in Actors /\ <<"ptt">> # <<>>
    BY ActorFacts
  <2>2. c = a
    BY <1>4, <2>1
  <2> QED  BY <1>4, <2>2
<1> QED  BY <1>2, <1>3, <1>4 DEF Calls, ScriptsOf

\* The task of an utterance goes on.
LEMMA TaskOn ==
  ASSUME Calls, NEW u \in Utterances, UNCHANGED <<started, waits, ptt>>,
         \A b \in Actors \ {u} : todo'[b] = todo[b] /\ mode'[b] = mode[b],
         todo'[u] \in {<<>>, <<"opened">>}, todo'[u] # <<>> => started = "on",
         todo'[u] # <<>> <=> speech'[u] = "restoring" /\ mode'[u] # "off",
         \A v \in Utterances \ {u} : speech'[v] = speech[v],
         speech'[u] \in Alive => speech[u] \in Alive
  PROVE  Calls'
<1>1. u \in Actors /\ u \notin Callers /\ \A v \in Utterances : v \in Actors
  BY ActorFacts
<1>2. ASSUME NEW b \in Actors
      PROVE  todo'[b] \in ScriptsOf(b) /\ (todo'[b] # <<>> => (started' = "on" <=> b # Lifespan))
  <2>1. CASE b = u
    <3>1. ScriptsOf(u) = {<<>>, <<"opened">>}
      BY <1>1, Scripts
    <3> QED  BY <1>1, <2>1, <3>1, ActorFacts
  <2>2. CASE b # u
    BY <2>2 DEF Calls
  <2> QED  BY <2>1, <2>2
<1>3. \A v \in Utterances : todo'[v] # <<>> <=> speech'[v] = "restoring" /\ mode'[v] # "off"
  BY <1>1 DEF Calls
<1>4. ASSUME NEW c \in Users, todo'[c] = <<"ptt">>
      PROVE  ~ptt' /\ \A v \in Utterances : speech'[v] \in Alive => waits'[c] = v
  <2>1. c \in Actors \ {u}
    BY <1>1, ActorFacts
  <2>2. ~ptt /\ \A v \in Utterances : speech[v] \in Alive => waits[c] = v
    BY <1>4, <2>1 DEF Calls
  <2> QED  BY <2>2
<1> QED  BY <1>2, <1>3, <1>4 DEF Calls, ScriptsOf

\* Nobody but this actor is at the microphone, or will restore it.
Alone(a) ==
  /\ \A b \in Actors \ {a} : ~AtMic(b)
  /\ \A u \in Utterances \ {a} : mode[u] = "off"

\* The actor leaves the microphone to itself.
LEMMA Aside ==
  ASSUME Apiece, Held, Paused, Idle, NEW a \in Actors, UNCHANGED <<setup, input, chosen>>,
         started' = started \/ started' # "on",
         \A b \in Actors \ {a} : todo'[b] = todo[b] /\ mode'[b] = mode[b],
         ~AtMic(a), ~AtMic(a)',
         a \in Utterances => mode'[a] = mode[a] \/ (mode'[a] = "off" /\ started' # "on"),
         \A u \in Utterances : mode'[u] # "off" /\ speech[u] \in Alive => speech'[u] \in Alive
  PROVE  Apiece' /\ Held' /\ Paused' /\ Idle'
<1>0. UNCHANGED <<listening, ptt, resume, stt, stray, chosen, setup>>
  BY DEF input
<1>1. Intended' => Intended
  BY <1>0 DEF Intended
<1>2. \A b \in Actors : (AtMic(b)' <=> AtMic(b)) /\ (AtMic(b) => b # a)
  BY DEF AtMic
<1>3. Apiece'
  BY <1>0 DEF Apiece
<1>4. Held'
  BY <1>0, <1>1, <1>2 DEF Held, HeldBy
<1>5. \A u \in Utterances : u \in Actors /\ (mode'[u] # "off" => mode'[u] = mode[u])
  BY ActorFacts
<1>6. Paused'
  BY <1>0, <1>1, <1>2, <1>5 DEF Paused
<1>7. Idle'
  <2>1. SUFFICES ASSUME \A b \in Actors : ~AtMic(b)', started' = "on" PROVE Idle'
    BY DEF Idle
  <2>2. started = "on" /\ \A b \in Actors : ~AtMic(b)
    BY <1>2, <2>1
  <2>3. \A u \in Utterances : mode'[u] = mode[u]
    BY <2>1, ActorFacts
  <2> QED  BY <1>0, <1>1, <2>2, <2>3 DEF Idle
<1> QED  BY <1>3, <1>4, <1>6, <1>7

\* The actor is at the microphone after the step.
LEMMA Grips ==
  ASSUME NEW a \in Actors, Alone(a), \A b \in Actors \ {a} : todo'[b] = todo[b] /\ mode'[b] = mode[b],
         AtMic(a)', HeldBy(a)', a \in Utterances => speech'[a] \in Alive /\ ~ptt'
  PROVE  Held' /\ Paused' /\ Idle'
<1>1. \A b \in Actors : AtMic(b)' => b = a
  BY DEF Alone, AtMic
<1>2. Held' /\ Idle'
  BY <1>1 DEF Held, Idle
<1>3. \A u \in Utterances : u \in Actors /\ (mode'[u] # "off" => u = a)
  BY ActorFacts DEF Alone
<1>4. Paused'
  BY <1>1, <1>3 DEF Paused, HeldBy
<1> QED  BY <1>2, <1>4

\* The actor leaves it as it is to be.
LEMMA LetsGo ==
  ASSUME NEW a \in Actors, Alone(a), \A b \in Actors \ {a} : todo'[b] = todo[b] /\ mode'[b] = mode[b],
         ~AtMic(a)', AsReported', a \in Utterances => mode'[a] = "off"
  PROVE  Held' /\ Paused' /\ Idle'
<1>1. \A b \in Actors : ~AtMic(b)'
  BY DEF Alone, AtMic
<1>2. \A u \in Utterances : mode'[u] = "off"
  BY ActorFacts DEF Alone
<1> QED  BY <1>1, <1>2 DEF Held, Paused, Idle, AsReported

LEMMA AloneAt ==
  ASSUME IInv, setup.orderly, Calls, Paused, NEW a \in Actors, AtMic(a)
  PROVE  Alone(a)
<1>0. <<>> \notin MicScripts
  BY Tuples DEF MicScripts, UserScripts
<1>1. \A u \in Utterances : AtMic(u) => mode[u] # "off"
  BY <1>0 DEF AtMic, Calls
<1>2. \A u \in Utterances \ {a} : mode[u] = "off"
  BY DEF Paused
<1>3. ASSUME NEW b \in Actors \ {a}, AtMic(b) PROVE FALSE
  <2>1. CASE a \in Utterances
    BY <1>1, <1>3, <2>1 DEF Paused
  <2>2. CASE b \in Utterances
    BY <1>1, <1>3, <2>2 DEF Paused
  <2>3. CASE a \in Callers /\ b \in Callers
    BY <1>0, <1>3, <2>3 DEF IInv, Orderly, Busy, AtMic
  <2> QED  BY <2>1, <2>2, <2>3 DEF Actors
<1> QED  BY <1>2, <1>3 DEF Alone

LEMMA AloneFree ==
  ASSUME IInv, setup.orderly, Calls, Idle, NEW a \in Callers, May(a), ~AtMic(a),
         \A u \in Utterances : mode[u] = "off"
  PROVE  Alone(a) /\ AsReported
<1>0. <<>> \notin MicScripts
  BY Tuples DEF MicScripts, UserScripts
<1>1. \A c \in Callers \ {a} : todo[c] = <<>>
  BY FreeFacts
<1>2. \A u \in Utterances : todo[u] = <<>>
  BY DEF Calls
<1>3. \A b \in Actors : ~AtMic(b)
  BY <1>0, <1>1, <1>2 DEF AtMic, Actors
<1> QED  BY <1>3 DEF Alone, Idle, AsReported

\* The scripts at which the session is closed, and those that begin by closing it.
Opening == {<<"open">>, <<"opened">>, <<"prepared">>, <<"pttOpen">>, <<"pttOpened">>, <<"queue">>}

Closing == {<<"close", "open">>, <<"close", "prepared">>, <<"close", "pttOpen">>,
            <<"close", "queue">>, <<"close", "shutSpeech">>}

LEMMA Grasp ==
  /\ MicScripts = Opening \cup Closing \cup {<<"close">>, <<"heard">>, <<"released">>}
  /\ MicScripts \ {<<"close">>, <<"close", "open">>, <<"close", "prepared">>, <<"close", "pttOpen">>,
                    <<"close", "queue">>, <<"close", "shutSpeech">>, <<"heard">>}
       = Opening \cup {<<"released">>}
  /\ <<"close">> \notin Opening \cup Closing \cup {<<"heard">>, <<"released">>}
  /\ <<"heard">> \notin Opening \cup Closing \cup {<<"released">>}
  /\ <<"released">> \notin Opening \cup Closing
  /\ Opening \cap Closing = {}
  /\ {<<>>, <<"end">>, <<"say">>, <<"ptt">>, <<"barge">>, <<"shutSpeech">>, <<"shut">>}
       \cap MicScripts = {}
<1>1. MicScripts = Opening \cup Closing \cup {<<"close">>, <<"heard">>, <<"released">>}
  BY DEF MicScripts, UserScripts, Opening, Closing
<1>2. /\ <<"close">> \notin Opening \cup {<<"heard">>, <<"released">>}
      /\ <<"heard">> \notin Opening \cup {<<"released">>}
      /\ <<"released">> \notin Opening
  BY Tuples DEF Opening
<1>3. \A x : <<x>> \notin Closing
  BY Tuples DEF Closing
<1>4. Opening \cap Closing = {}
  BY <1>3 DEF Opening
<1>5. MicScripts \ {<<"close">>, <<"close", "open">>, <<"close", "prepared">>, <<"close", "pttOpen">>,
                    <<"close", "queue">>, <<"close", "shutSpeech">>, <<"heard">>}
       = Opening \cup {<<"released">>}
  <2>1. {<<"close">>, <<"close", "open">>, <<"close", "prepared">>, <<"close", "pttOpen">>,
                    <<"close", "queue">>, <<"close", "shutSpeech">>, <<"heard">>}
          = Closing \cup {<<"close">>, <<"heard">>}
    BY DEF Closing
  <2> QED  BY <1>1, <1>2, <1>3, <1>4, <2>1
<1>6. \A s \in {<<>>, <<"end">>, <<"say">>, <<"ptt">>, <<"barge">>, <<"shutSpeech">>, <<"shut">>} :
         s \notin Opening \cup Closing \cup {<<"close">>, <<"heard">>, <<"released">>}
  BY Tuples DEF Opening, Closing
<1> QED  BY <1>1, <1>2, <1>3, <1>4, <1>5, <1>6

\* What holds for an actor at the microphone, by its script.
LEMMA HeldFacts ==
  ASSUME Held, NEW a \in Actors, AtMic(a)
  PROVE  /\ listening = "off" /\ (Intended => mode[a] = chosen)
         /\ todo[a] \notin {<<"heard">>, <<"released">>} => ~ptt
         /\ todo[a] \in {<<"heard">>, <<"released">>} => ptt
         /\ todo[a] \in Opening \cup {<<"released">>} => stt = "off"
         /\ todo[a] = <<"close">> => mode[a] = "off"
<1>1. HeldBy(a)
  BY DEF Held
<1> QED  BY <1>1, Grasp DEF HeldBy

LEMMA HoldsNow ==
  ASSUME NEW a \in Actors, listening' = "off", Intended' => mode'[a] = chosen',
         \/ todo'[a] \in Opening /\ ~ptt' /\ stt' = "off"
         \/ todo'[a] \in Closing /\ ~ptt'
         \/ todo'[a] = <<"close">> /\ ~ptt' /\ mode'[a] = "off"
         \/ todo'[a] = <<"heard">> /\ ptt'
         \/ todo'[a] = <<"released">> /\ ptt' /\ stt' = "off"
  PROVE  HeldBy(a)' /\ AtMic(a)'
<1>1. AtMic(a)'
  BY Grasp DEF AtMic
<1>2. ptt' <=> todo'[a] \in {<<"heard">>, <<"released">>}
  BY Grasp
<1>3. todo'[a] \in Opening \cup {<<"released">>} => stt' = "off"
  BY Grasp
<1>4. todo'[a] = <<"close">> => mode'[a] = "off"
  BY Grasp
<1> QED  BY <1>1, <1>2, <1>3, <1>4, Grasp DEF HeldBy

-----------------------------------------------------------------------------
(* The steps at the microphone *)

LEMMA CloseStep ==
  ASSUME IInv, Apiece, Calls, Held, Paused, Idle, setup.orderly, UNCHANGED setup,
         NEW a \in Actors, Close(a)
  PROVE  Apiece' /\ Calls' /\ Held' /\ Paused' /\ Idle'
<1>1. /\ At(a, "close") /\ CloseMic /\ Then(a, mode[a], Later(a))
      /\ UNCHANGED <<started, output, listening, ptt, resume, waits, chosen>>
  BY DEF Close
<1>2. Then3(a, mode[a], Later(a)) /\ TypeOK
  BY <1>1, ThenOnly DEF IInv
<1>3. stt' = "off" /\ ~stray' /\ UNCHANGED <<speech, setup>>
  BY <1>1 DEF CloseMic, Apiece, output
<1>4. \/ todo[a] = <<"close">> /\ Later(a) = <<>> /\ a \in Users
      \/ todo[a] \in Closing /\ Later(a) \in {<<"open">>, <<"prepared">>, <<"pttOpen">>} /\ a \in Users
      \/ a = Turn /\ todo[a] \in Closing /\ Later(a) = <<"queue">>
      \/ a = Lifespan /\ todo[a] \in Closing /\ Later(a) = <<"shutSpeech">>
  BY <1>1, Left DEF Closing
<1>5. AtMic(a) /\ (started = "on" <=> a # Lifespan)
  BY <1>1, <1>4, Grasp, Left DEF AtMic
<1>6. Alone(a)
  BY <1>5, AloneAt
<1>7. a \in Callers /\ \A c \in Callers \ {a} : todo[c] = <<>>
  BY <1>1, <1>2, <1>4, ActorFacts, AtMay, FreeFacts
<1>8. /\ todo'[a] = Later(a) /\ mode'[a] = mode[a]
      /\ \A b \in Actors \ {a} : todo'[b] = todo[b] /\ mode'[b] = mode[b]
  BY <1>2 DEF Then3
<1>9. ~ptt /\ listening = "off" /\ (Intended => mode[a] = chosen)
  BY <1>4, <1>5, HeldFacts, Grasp
<1>10. Apiece'
  BY <1>1, <1>3, <1>9 DEF Apiece
<1>11. Calls'
  <2>1. Later(a) \in ScriptsOf(a) /\ Later(a) # <<"ptt">>
    <3>1. a \in Users => ScriptsOf(a) = {<<>>, <<"end">>, <<"ptt">>} \cup UserScripts
      BY Scripts
    <3>2. /\ <<"queue">> \in ScriptsOf(Turn) /\ <<"shutSpeech">> \in ScriptsOf(Lifespan)
          /\ {<<"open">>, <<"prepared">>, <<"pttOpen">>} \subseteq UserScripts
      BY Scripts DEF UserScripts
    <3>3. <<"ptt">> \notin {<<>>, <<"open">>, <<"prepared">>, <<"pttOpen">>, <<"queue">>, <<"shutSpeech">>}
      BY Tuples
    <3> QED  BY <1>4, <3>1, <3>2, <3>3
  <2> QED  BY <1>1, <1>3, <1>5, <1>7, <1>8, <2>1, CallsOn
<1>12. CASE Later(a) \in {<<"open">>, <<"prepared">>, <<"pttOpen">>, <<"queue">>}
  <2>1. todo'[a] \in Opening
    BY <1>8, <1>12 DEF Opening
  <2>2. HeldBy(a)' /\ AtMic(a)'
    BY <1>1, <1>3, <1>8, <1>9, <2>1, HoldsNow DEF Intended
  <2> QED  BY <1>6, <1>7, <1>8, <1>10, <1>11, <2>2, Grips, ActorFacts
<1>13. CASE Later(a) \in {<<>>, <<"shutSpeech">>}
  <2>1. ~AtMic(a)'
    BY <1>8, <1>13, Grasp DEF AtMic
  <2>2. AsReported'
    <3>1. CASE a = Lifespan
      BY <1>1, <1>5, <3>1 DEF AsReported
    <3>2. CASE a # Lifespan
      <4>1. todo[a] = <<"close">>
        BY <1>4, <1>13, <3>2, Tuples
      <4>2. mode[a] = "off"
        BY <1>5, <4>1, HeldFacts
      <4> QED  BY <1>1, <1>3, <1>9, <4>2 DEF AsReported, Intended
    <3> QED  BY <3>1, <3>2
  <2> QED  BY <1>6, <1>7, <1>8, <1>10, <1>11, <2>1, <2>2, LetsGo, ActorFacts
<1> QED  BY <1>4, <1>10, <1>11, <1>12, <1>13

\* A microphone that is not open is opened for what is to be restored.
LEMMA RestoreOpens ==
  ASSUME NEW a \in Actors, listening = "off", stt = "off", Restore(a, FALSE)
  PROVE  /\ UNCHANGED <<listening, stray, resume>>
         /\ mode[a] = "off" => Return(a)
         /\ mode[a] # "off" => Then(a, mode[a], <<"opened">>)
BY DEF Restore, Enable, OpenMic

LEMMA OpenSteps ==
  ASSUME IInv, Apiece, Calls, Held, Paused, Idle, setup.orderly, UNCHANGED setup,
         NEW a \in Actors, Opened(a) \/ Reopen(a) \/ OpenFails(a)
  PROVE  Apiece' /\ Calls' /\ Held' /\ Paused' /\ Idle'
<1>0. TypeOK
  BY DEF IInv
<1>1. At(a, "opened") \/ At(a, "open")
  BY DEF Opened, Reopen, OpenFails
<1>2. todo[a] \in {<<"open">>, <<"opened">>} /\ started = "on"
  <2>1. todo[a] \in {<<"open">>, <<"opened">>} /\ (started = "on" <=> a # Lifespan)
    BY <1>1, Left
  <2>2. todo[Lifespan] \in {<<>>, <<"close", "shutSpeech">>, <<"shutSpeech">>, <<"shut">>}
    BY Scripts, ActorFacts DEF Calls
  <2>3. a # Lifespan
    BY <2>1, <2>2, Tuples
  <2> QED  BY <2>1, <2>3
<1>3. todo[a] \in Opening /\ AtMic(a)
  BY <1>2, Grasp DEF Opening, AtMic
<1>4. Alone(a)
  BY <1>3, AloneAt
<1>5. listening = "off" /\ ~ptt /\ stt = "off" /\ (Intended => mode[a] = chosen)
  BY <1>3, HeldFacts, Grasp
<1>6. UNCHANGED <<started, output, ptt, waits, chosen, setup, resume, speech>>
  BY DEF Opened, Reopen, OpenFails, Listen, OpenMic, output, input
<1>7. \/ Then3(a, "off", <<>>)
      \/ a \in Users /\ Then3(a, mode[a], <<"opened">>)
  <2>1. CASE Opened(a) \/ OpenFails(a)
    <3>1. Then(a, "off", <<>>)
      BY <2>1 DEF Opened, OpenFails, Listen, Return
    <3>2. Then3(a, "off", <<>>)
      BY <1>0, <3>1, ThenOnly
    <3> QED  BY <3>2
  <2>2. CASE Reopen(a)
    <3>1. Then3(a, mode[a], <<"opened">>) /\ At(a, "open")
      BY <1>0, <1>5, <2>2, ThenOnly DEF Reopen, OpenMic
    <3>2. todo[a] = <<"open">> /\ todo[a] \in ScriptsOf(a)
      BY <3>1, Left DEF Calls
    <3>3. a \in Users
      <4>1. /\ <<"open">> \notin ScriptsOf(Turn) /\ <<"open">> \notin ScriptsOf(Barge)
            /\ <<"open">> \notin ScriptsOf(Lifespan) /\ (a \in Utterances => <<"open">> \notin ScriptsOf(a))
        BY Scripts, Tuples
      <4> QED  BY <3>2, <4>1 DEF Actors, Callers
    <3> QED  BY <3>1, <3>3
  <2> QED  BY <2>1, <2>2
<1>8. \A b \in Actors \ {a} : todo'[b] = todo[b] /\ mode'[b] = mode[b]
  BY <1>7 DEF Then3
<1>9. ~stray' /\ Apiece'
  <2>1. CASE Opened(a)
    <3>1. stray' = (stray \/ listening # "off") /\ ~stray
      BY <2>1 DEF Opened, Listen, Apiece
    <3>2. ~stray'
      BY <1>5, <3>1, Zenon
    <3> QED  BY <1>5, <1>6, <3>2 DEF Apiece
  <2>2. CASE Reopen(a)
    BY <1>5, <1>6, <2>2 DEF Apiece, Reopen, OpenMic
  <2>3. CASE OpenFails(a)
    BY <1>5, <1>6, <2>3 DEF Apiece, OpenFails, input
  <2> QED  BY <2>1, <2>2, <2>3
<1>10. Calls'
  <2>0. <<>> # <<"opened">> /\ <<"opened">> # <<"ptt">> /\ <<>> # <<"ptt">>
    BY Tuples
  <2>1. CASE a \in Callers
    <3>1. \A c \in Callers \ {a} : todo[c] = <<>>
      BY <1>0, <1>1, <2>1, AtMay, FreeFacts
    <3>2. todo'[a] \in {<<>>, <<"opened">>} /\ (todo'[a] # <<>> => a \in Users)
      BY <1>7 DEF Then3
    <3>3. todo'[a] \in ScriptsOf(a)
      BY <3>2, Scripts DEF UserScripts, ScriptsOf
    <3>4. a # Lifespan
      BY <1>1, <1>2, Left
    <3> QED  BY <1>2, <1>6, <1>8, <2>0, <2>1, <3>1, <3>2, <3>3, <3>4, CallsOn
  <2>2. CASE a \in Utterances
    <3>1. todo'[a] = <<>> /\ mode'[a] = "off"
      BY <1>7, <2>2, ActorFacts DEF Then3
    <3> QED  BY <1>6, <1>8, <2>2, <3>1, TaskOn
  <2> QED  BY <2>1, <2>2 DEF Actors
<1>11. CASE Then3(a, "off", <<>>)
  <2>1. ~AtMic(a)' /\ mode'[a] = "off"
    BY <1>11, Grasp DEF Then3, AtMic
  <2>2. AsReported'
    <3>1. CASE Opened(a)
      <4>1. stt' = mode[a] /\ listening' = mode[a]
        BY <3>1 DEF Opened, Listen
      <4> QED  BY <1>5, <1>6, <4>1 DEF AsReported, Intended
    <3>2. CASE OpenFails(a)
      <4>1. stt' = stt /\ listening' = listening /\ setup.micFails
        BY <1>2, <3>2 DEF OpenFails, input
      <4> QED  BY <1>5, <1>6, <4>1 DEF AsReported, Intended
    <3>3. CASE Reopen(a)
      <4>1. todo'[a] = <<"opened">>
        BY <1>0, <1>5, <3>3, ThenOnly DEF Reopen, OpenMic, Then3
      <4> QED  BY <1>11, <4>1, Tuples DEF Then3
    <3> QED  BY <3>1, <3>2, <3>3
  <2> QED  BY <1>4, <1>8, <1>9, <1>10, <2>1, <2>2, LetsGo
<1>12. CASE a \in Users /\ Then3(a, mode[a], <<"opened">>)
  <2>1. todo'[a] \in Opening /\ mode'[a] = mode[a] /\ todo'[a] # <<>>
    BY <1>12, Tuples DEF Then3, Opening
  <2>2. Reopen(a)
    BY <1>0, <2>1, ThenOnly DEF Opened, OpenFails, Listen, Return, Then3
  <2>3. stt' = "off" /\ listening' = "off"
    BY <1>5, <2>2 DEF Reopen, OpenMic
  <2>4. HeldBy(a)' /\ AtMic(a)'
    BY <1>5, <1>6, <2>1, <2>3, HoldsNow DEF Intended
  <2> QED  BY <1>4, <1>8, <1>9, <1>10, <1>12, <2>4, Grips, ActorFacts
<1> QED  BY <1>7, <1>11, <1>12

-----------------------------------------------------------------------------
(* The steps that leave the microphone alone *)

LEMMA CallerAside ==
  ASSUME IInv, Apiece, Calls, Held, Paused, Idle, setup.orderly,
         UNCHANGED <<setup, started, speech, input, chosen>>,
         NEW a \in Callers, May(a), NEW m, NEW blocks, Then(a, m, blocks),
         ~AtMic(a), blocks \in ScriptsOf(a), blocks \notin MicScripts,
         blocks # <<>> => (started = "on" <=> a # Lifespan),
         blocks = <<"ptt">> => ~ptt /\ \A u \in Utterances : speech[u] \in Alive => waits'[a] = u
  PROVE  Apiece' /\ Calls' /\ Held' /\ Paused' /\ Idle'
<1>1. Then3(a, m, blocks) /\ a \in Actors /\ a \notin Utterances
  BY ThenOnly, ActorFacts DEF IInv
<1>2. /\ todo'[a] = blocks /\ ~AtMic(a)'
      /\ \A b \in Actors \ {a} : todo'[b] = todo[b] /\ mode'[b] = mode[b]
  BY <1>1 DEF Then3, AtMic
<1>3. Apiece' /\ Held' /\ Paused' /\ Idle'
  BY <1>1, <1>2, Aside
<1>4. \A c \in Callers \ {a} : todo[c] = <<>>
  BY FreeFacts
<1>5. ptt' = ptt
  BY DEF input
<1>6. Calls'
  BY <1>2, <1>4, <1>5, CallsOn
<1> QED  BY <1>3, <1>6

\* In orderly circumstances, what is alive when a call is made is the current utterance.
LEMMA AliveIsCurrent ==
  ASSUME IInv, setup.orderly, NEW a \in Callers, MayCall(a), NEW u \in Utterances, speech[u] \in Alive
  PROVE  current = u
<1>1. May(a) /\ todo[a] = <<>>
  BY DEF May, MayCall
<1>2. speech[u] \notin {"restoring", "stopping"} /\ ~cancelled[u]
  BY <1>1, FreeFacts DEF IInv, Told
<1>3. speech[u] \in Reachable
  BY <1>2 DEF Alive, Reachable
<1> QED  BY <1>2, <1>3 DEF IInv, Handles, SpeechReachable, Reachable

\* Calls whose script names no microphone.
LEMMA AsideSteps ==
  ASSUME IInv, Apiece, Calls, Held, Paused, Idle, setup.orderly, UNCHANGED setup,
         \/ Say \/ BargeSense \/ BargeAct \/ StopSpeech
         \/ \E c \in Users \cup {Turn} : Silence(c)
         \/ \E c \in Users : PttDown(c)
         \/ \E a \in Actors : Ended(a)
  PROVE  Apiece' /\ Calls' /\ Held' /\ Paused' /\ Idle'
<1>0. TypeOK /\ {Turn, Barge, Lifespan} \cup Users \subseteq Callers /\ Callers \subseteq Actors
  BY ActorFacts DEF IInv
<1>1. ASSUME NEW a \in Callers, MayCall(a)
      PROVE  May(a) /\ ~AtMic(a) /\ started = "on"
  BY <1>1, Grasp DEF May, MayCall, AtMic
<1>2. /\ \A c \in Users \cup {Turn, Barge} : <<"end">> \in ScriptsOf(c)
      /\ <<"say">> \in ScriptsOf(Turn) /\ <<"barge">> \in ScriptsOf(Barge)
      /\ \A c \in Users : <<"ptt">> \in ScriptsOf(c)
      /\ <<"shut">> \in ScriptsOf(Lifespan) /\ \A c : <<>> \in ScriptsOf(c)
  <2>1. \A c \in Users : {<<"end">>, <<"ptt">>} \subseteq ScriptsOf(c)
    BY Scripts, ActorFacts
  <2>2. \A c : <<>> \in ScriptsOf(c)
    BY DEF ScriptsOf
  <2> QED  BY <2>1, <2>2, Scripts, ActorFacts
<1>3. /\ {<<>>, <<"end">>, <<"say">>, <<"ptt">>, <<"barge">>, <<"shutSpeech">>, <<"shut">>} \cap MicScripts = {}
      /\ <<"ptt">> \notin {<<"end">>, <<"say">>, <<"barge">>, <<"shut">>, <<>>}
  BY Grasp, Tuples
<1>4. Turn # Lifespan /\ Barge # Lifespan /\ Lifespan \notin Users
  BY ActorFacts
<1>5. ASSUME NEW a \in Callers, NEW b \in {"end", "barge", "shutSpeech"}, At(a, b)
      PROVE  May(a) /\ ~AtMic(a) /\ (started = "on" <=> a # Lifespan)
  <2>1. todo[a] = <<b>> /\ May(a) /\ (started = "on" <=> a # Lifespan)
    BY <1>0, <1>5, AtMay, Left
  <2> QED  BY <1>3, <2>1 DEF AtMic
<1>6. CASE Say
  <2>1. /\ MayCall(Turn) /\ Then(Turn, "off", <<"say">>)
        /\ UNCHANGED <<setup, started, speech, input, chosen>>
    BY <1>6 DEF Say, Interrupt
  <2> QED  BY <1>0, <1>1, <1>2, <1>3, <1>4, <2>1, CallerAside
<1>7. CASE BargeSense
  <2>1. /\ MayCall(Barge) /\ Then(Barge, "off", <<"barge">>)
        /\ UNCHANGED <<setup, started, speech, input, chosen>>
    BY <1>7 DEF BargeSense, output
  <2> QED  BY <1>0, <1>1, <1>2, <1>3, <1>4, <2>1, CallerAside
<1>8. CASE BargeAct
  <2>1. PICK blocks \in {<<>>, <<"end">>} : Then(Barge, "off", blocks)
    BY <1>8 DEF BargeAct, Interrupt, Return
  <2>2. At(Barge, "barge") /\ UNCHANGED <<setup, started, speech, input, chosen>>
    BY <1>8 DEF BargeAct, Interrupt, output
  <2>3. blocks \in ScriptsOf(Barge) /\ blocks \notin MicScripts /\ blocks # <<"ptt">>
    BY <1>2, <1>3
  <2> QED  BY <1>0, <1>4, <1>5, <2>1, <2>2, <2>3, CallerAside
<1>9. CASE StopSpeech
  <2>1. /\ At(Lifespan, "shutSpeech") /\ Then(Lifespan, "off", <<"shut">>)
        /\ UNCHANGED <<setup, started, speech, input, chosen>>
    BY <1>9 DEF StopSpeech, Interrupt
  <2> QED  BY <1>0, <1>2, <1>3, <1>5, <2>1, CallerAside
<1>10. ASSUME NEW c \in Users \cup {Turn}, Silence(c)
       PROVE  Apiece' /\ Calls' /\ Held' /\ Paused' /\ Idle'
  <2>1. /\ MayCall(c) /\ Then(c, "off", <<"end">>)
        /\ UNCHANGED <<setup, started, speech, input, chosen>>
    BY <1>10 DEF Silence, Interrupt
  <2>2. c \in Callers /\ c # Lifespan
    BY <1>0, <1>4
  <2> QED  BY <1>1, <1>2, <1>3, <2>1, <2>2, CallerAside
<1>11. ASSUME NEW c \in Users, PttDown(c)
       PROVE  Apiece' /\ Calls' /\ Held' /\ Paused' /\ Idle'
  <2>1. /\ MayCall(c) /\ ~ptt /\ Then(c, "off", <<"ptt">>)
        /\ UNCHANGED <<setup, started, speech, input, chosen>>
        /\ current # 0 => waits' = [waits EXCEPT ![c] = current]
    BY <1>11 DEF PttDown, Interrupt
  <2>2. c \in Callers /\ c # Lifespan /\ c \in Actors
    BY <1>0, <1>4
  <2>3. \A u \in Utterances : speech[u] \in Alive => waits'[c] = u
    <3>1. \A u \in Utterances : speech[u] \in Alive => current = u /\ u # 0
      BY <2>1, <2>2, AliveIsCurrent DEF Utterances
    <3> QED  BY <1>0, <2>1, <2>2, <3>1 DEF TypeOK
  <2> QED  BY <1>1, <1>2, <1>3, <2>1, <2>2, <2>3, CallerAside
<1>12. ASSUME NEW a \in Actors, Ended(a)
       PROVE  Apiece' /\ Calls' /\ Held' /\ Paused' /\ Idle'
  <2>1. /\ At(a, "end") /\ Then(a, "off", <<>>)
        /\ UNCHANGED <<setup, started, speech, input, chosen>>
    BY <1>12 DEF Ended, Return, output
  <2>2. a \in Callers
    <3>1. todo[a] = <<"end">> /\ todo[a] \in ScriptsOf(a)
      BY <2>1, Left DEF Calls
    <3>2. a \in Utterances => <<"end">> \notin ScriptsOf(a)
      BY Scripts, Tuples
    <3> QED  BY <3>1, <3>2 DEF Actors
  <2> QED  BY <1>2, <1>3, <1>5, <2>1, <2>2, CallerAside
<1> QED  BY <1>6, <1>7, <1>8, <1>9, <1>10, <1>11, <1>12

-----------------------------------------------------------------------------
(* Push-to-talk and the switches *)

\* A user's call at the microphone: it holds it, or leaves it as it is to be.
LEMMA UserMic ==
  ASSUME IInv, Apiece, Calls, Held, Paused, Idle, setup.orderly,
         UNCHANGED <<setup, started, speech, stray>>, started = "on",
         NEW a \in Users, May(a), Alone(a), NEW m, NEW blocks, Then(a, m, blocks),
         ptt' => listening' = "off",
         \/ /\ blocks \in UserScripts /\ listening' = "off" /\ (Intended => m = chosen')
            /\ \/ blocks \in Opening /\ ~ptt' /\ stt' = "off"
               \/ blocks \in Closing /\ ~ptt'
               \/ blocks = <<"close">> /\ ~ptt' /\ m = "off"
               \/ blocks = <<"heard">> /\ ptt'
               \/ blocks = <<"released">> /\ ptt' /\ stt' = "off"
         \/ blocks = <<>> /\ AsReported'
  PROVE  Apiece' /\ Calls' /\ Held' /\ Paused' /\ Idle'
<1>1. Then3(a, m, blocks) /\ a \in Actors /\ a \in Callers /\ a \notin Utterances /\ a # Lifespan
  BY ThenOnly, ActorFacts DEF IInv
<1>2. /\ todo'[a] = blocks /\ mode'[a] = m
      /\ \A b \in Actors \ {a} : todo'[b] = todo[b] /\ mode'[b] = mode[b]
  BY <1>1 DEF Then3
<1>3. Apiece'
  BY DEF Apiece
<1>4. Calls'
  <2>1. blocks \in ScriptsOf(a) /\ blocks # <<"ptt">>
    <3>1. ScriptsOf(a) = {<<>>, <<"end">>, <<"ptt">>} \cup UserScripts
      BY <1>1, Scripts
    <3>2. <<"ptt">> \notin UserScripts /\ <<"ptt">> # <<>>
      BY Tuples, Grasp DEF MicScripts
    <3> QED  BY <3>1, <3>2
  <2>2. \A c \in Callers \ {a} : todo[c] = <<>>
    BY <1>1, FreeFacts
  <2> QED  BY <1>1, <1>2, <2>1, <2>2, CallsOn
<1>5. CASE blocks = <<>> /\ AsReported'
  <2>1. ~AtMic(a)'
    BY <1>2, <1>5, Grasp DEF AtMic
  <2> QED  BY <1>1, <1>2, <1>3, <1>4, <1>5, <2>1, LetsGo
<1>6. CASE /\ blocks \in UserScripts /\ listening' = "off" /\ (Intended => m = chosen')
            /\ \/ blocks \in Opening /\ ~ptt' /\ stt' = "off"
               \/ blocks \in Closing /\ ~ptt'
               \/ blocks = <<"close">> /\ ~ptt' /\ m = "off"
               \/ blocks = <<"heard">> /\ ptt'
               \/ blocks = <<"released">> /\ ptt' /\ stt' = "off"
  <2>1. Intended' => mode'[a] = chosen'
    BY <1>2, <1>6 DEF Intended
  <2>2. HeldBy(a)' /\ AtMic(a)'
    BY <1>1, <1>2, <1>6, <2>1, HoldsNow
  <2> QED  BY <1>1, <1>2, <1>3, <1>4, <2>2, Grips
<1> QED  BY <1>5, <1>6

\* The scripts of the users.
LEMMA UserScriptFacts ==
  /\ {<<"close">>, <<"heard">>, <<"released">>, <<"opened">>, <<"pttOpened">>,
      <<"close", "open">>, <<"close", "prepared">>, <<"close", "pttOpen">>} \subseteq UserScripts
  /\ <<"opened">> \in Opening /\ <<"pttOpened">> \in Opening /\ <<"pttOpen">> \in Opening
  /\ <<"prepared">> \in Opening
  /\ <<"close", "open">> \in Closing /\ <<"close", "prepared">> \in Closing
  /\ <<"close", "pttOpen">> \in Closing
BY DEF UserScripts, Opening, Closing

\* A user's call that is at the microphone.
LEMMA UserAt ==
  ASSUME IInv, Apiece, Calls, Held, Paused, setup.orderly, NEW a \in Users,
         NEW b \in {"pttOpen", "pttOpened", "prepared", "heard", "released"}, At(a, b)
  PROVE  /\ started = "on" /\ May(a) /\ Alone(a) /\ listening = "off"
         /\ Intended => mode[a] = chosen
         /\ b \in {"heard", "released"} <=> ptt
         /\ b # "heard" => stt = "off"
<1>1. a \in Actors /\ a # Lifespan /\ TypeOK
  BY ActorFacts DEF IInv
<1>2. todo[a] = <<b>> /\ started = "on" /\ May(a)
  BY <1>1, AtMay, Left
<1>3. AtMic(a)
  BY <1>2 DEF AtMic, MicScripts, UserScripts
<1>4. Alone(a)
  BY <1>1, <1>3, AloneAt
<1>5. b \notin {"heard", "released"} => todo[a] \in Opening /\ todo[a] \notin {<<"heard">>, <<"released">>}
  BY <1>2, Grasp DEF Opening
<1>6. listening = "off" /\ (Intended => mode[a] = chosen) /\ (b # "heard" => stt = "off")
  BY <1>1, <1>2, <1>3, <1>5, HeldFacts
<1>7. b \in {"heard", "released"} <=> ptt
  BY <1>1, <1>2, <1>3, <1>5, HeldFacts
<1> QED  BY <1>2, <1>4, <1>6, <1>7

LEMMA RestoreMic ==
  ASSUME IInv, Apiece, Calls, Held, Paused, Idle, setup.orderly,
         UNCHANGED <<setup, started, speech, stt, chosen>>, started = "on",
         NEW a \in Users, May(a), Alone(a), listening = "off", stt = "off",
         Intended => mode[a] = chosen, Restore(a, FALSE), ptt' = FALSE
  PROVE  Apiece' /\ Calls' /\ Held' /\ Paused' /\ Idle'
<1>1. /\ UNCHANGED <<listening, stray, resume>> /\ a \in Actors
      /\ mode[a] = "off" => Then(a, "off", <<>>)
      /\ mode[a] # "off" => Then(a, mode[a], <<"opened">>)
  BY RestoreOpens, ActorFacts DEF Return
<1>2. CASE mode[a] = "off"
  <2>1. AsReported'
    BY <1>1, <1>2 DEF AsReported, Intended
  <2> QED  BY <1>1, <1>2, <2>1, UserMic
<1>3. CASE mode[a] # "off"
  BY <1>1, <1>3, UserScriptFacts, UserMic
<1> QED  BY <1>2, <1>3

\* A user's call that begins, or comes back from interrupt(), when nothing is to be restored.
LEMMA UserFree ==
  ASSUME IInv, Apiece, Calls, Held, Paused, Idle, setup.orderly, NEW a \in Users,
         May(a), ~AtMic(a), todo[a] = <<>> => started = "on",
         \A u \in Utterances : mode[u] = "off"
  PROVE  /\ started = "on" /\ Alone(a) /\ ~stray
         /\ stt = IF ptt THEN "ptt" ELSE listening
         /\ Intended => IF ptt THEN resume = chosen ELSE listening = chosen
<1>1. a \in Callers /\ a \in Actors /\ a # Lifespan
  BY ActorFacts
<1>2. Alone(a) /\ AsReported
  BY <1>1, AloneFree
<1>3. started = "on"
  BY <1>1 DEF Calls
<1> QED  BY <1>2, <1>3 DEF AsReported, Apiece

LEMMA PttPauseMic ==
  ASSUME IInv, Apiece, Calls, Held, Paused, Idle, setup.orderly, UNCHANGED setup,
         NEW a \in Users, PttPause(a)
  PROVE  Apiece' /\ Calls' /\ Held' /\ Paused' /\ Idle'
<1>1. At(a, "ptt") /\ UNCHANGED <<started, speech, stt, stray, chosen>>
  BY DEF PttPause, output
<1>2. todo[a] = <<"ptt">> /\ May(a) /\ a \in Actors /\ a \in Callers /\ todo[a] # <<>>
  <2>1. TypeOK /\ a \in Actors /\ a \in Callers
    BY ActorFacts DEF IInv
  <2> QED  BY <1>1, <2>1, Left, AtMay, Tuples
<1>3. ~ptt /\ \A u \in Utterances : speech[u] \notin Alive
  BY <1>2, FreeFacts DEF Calls
<1>4. \A u \in Utterances : mode[u] = "off"
  BY <1>3 DEF Paused
<1>5. ~AtMic(a)
  BY <1>2, Grasp DEF AtMic
<1>6. started = "on" /\ Alone(a) /\ stt = listening /\ (Intended => listening = chosen)
  BY <1>2, <1>3, <1>4, <1>5, UserFree
<1>7. CASE listening # "off"
  <2>1. /\ listening' = "off" /\ Then(a, listening, <<"close">> \o <<"pttOpen">>)
        /\ ptt' = ptt
    BY <1>7 DEF PttPause, Hush
  <2>2. <<"close">> \o <<"pttOpen">> = <<"close", "pttOpen">>
    BY BlockFacts DEF Blocks
  <2>3. Then(a, listening, <<"close", "pttOpen">>)
    BY <2>1, <2>2
  <2> QED  BY <1>1, <1>2, <1>3, <1>6, <2>1, <2>3, UserScriptFacts, UserMic
<1>8. CASE listening = "off"
  <2>1. listening' = "off" /\ Then(a, "off", <<"pttOpened">>) /\ ptt' = ptt
    BY <1>6, <1>8 DEF PttPause, OpenPtt
  <2> QED  BY <1>1, <1>2, <1>3, <1>6, <1>8, <2>1, UserScriptFacts, UserMic
<1> QED  BY <1>7, <1>8

LEMMA PttMicSteps ==
  ASSUME IInv, Apiece, Calls, Held, Paused, Idle, setup.orderly, UNCHANGED setup,
         NEW a \in Users, Ptt(a) \/ Reconfigured(a)
  PROVE  Apiece' /\ Calls' /\ Held' /\ Paused' /\ Idle'
<1>0. TypeOK /\ "off" # "ptt"
  BY DEF IInv
<1>1. CASE PttPause(a)
  BY <1>1, PttPauseMic
<1>2. CASE PttOpen(a)
  <2>1. At(a, "pttOpen") /\ UNCHANGED <<started, speech, listening, stt, stray, chosen>>
    BY <1>2 DEF PttOpen, output
  <2>2. /\ started = "on" /\ May(a) /\ Alone(a) /\ listening = "off" /\ stt = "off"
        /\ (Intended => mode[a] = chosen) /\ ~ptt
    BY <2>1, UserAt
  <2>3. Then(a, mode[a], <<"pttOpened">>) /\ ptt' = ptt
    BY <1>2, <2>2 DEF PttOpen, OpenPtt
  <2> QED  BY <2>1, <2>2, <2>3, UserScriptFacts, UserMic
<1>3. CASE PttOpened(a)
  <2>1. /\ At(a, "pttOpened") /\ UNCHANGED <<started, speech, listening, stray, chosen>>
        /\ stt' = "ptt" /\ ptt' = TRUE /\ resume' = mode[a] /\ Then(a, "off", <<>>)
    BY <1>3 DEF PttOpened, Pressed, Return, output
  <2>2. /\ started = "on" /\ May(a) /\ Alone(a) /\ listening = "off"
        /\ (Intended => mode[a] = chosen)
    BY <2>1, UserAt
  <2>3. AsReported'
    BY <2>1, <2>2 DEF AsReported, Intended
  <2> QED  BY <2>1, <2>2, <2>3, UserMic
<1>4. CASE PttFails(a)
  <2>1. /\ At(a, "pttOpened") /\ UNCHANGED <<started, speech, ptt, stt, chosen>> /\ Restore(a, ptt)
    BY <1>4 DEF PttFails, output
  <2>2. /\ started = "on" /\ May(a) /\ Alone(a) /\ listening = "off" /\ stt = "off"
        /\ (Intended => mode[a] = chosen) /\ ~ptt
    BY <2>1, UserAt
  <2>3. ptt = FALSE
    BY <1>0, <2>2 DEF TypeOK
  <2> QED  BY <2>1, <2>2, <2>3, RestoreMic
<1>5. CASE Heard(a)
  <2>1. /\ At(a, "heard") /\ UNCHANGED <<started, speech, listening, ptt, chosen>>
        /\ CloseMic /\ Then(a, mode[a], <<"released">>)
    BY <1>5 DEF Heard, output
  <2>2. /\ started = "on" /\ May(a) /\ Alone(a) /\ listening = "off"
        /\ (Intended => mode[a] = chosen) /\ ptt
    BY <2>1, UserAt
  <2>3. stt' = "off" /\ stray' = stray
    <3>1. stray = FALSE
      BY <1>0 DEF Apiece, TypeOK
    <3> QED  BY <2>1, <3>1 DEF CloseMic
  <2> QED  BY <2>1, <2>2, <2>3, UserScriptFacts, UserMic
<1>6. CASE Released(a)
  <2>1. /\ At(a, "released") /\ UNCHANGED <<started, speech, stt, chosen>>
        /\ ptt' = FALSE /\ Restore(a, FALSE)
    BY <1>6 DEF Released, output
  <2>2. /\ started = "on" /\ May(a) /\ Alone(a) /\ listening = "off" /\ stt = "off"
        /\ (Intended => mode[a] = chosen)
    BY <2>1, UserAt
  <2> QED  BY <2>1, <2>2, RestoreMic
<1>7. CASE Reconfigured(a)
  <2>1. At(a, "prepared") /\ UNCHANGED <<started, speech, ptt, stt, chosen>>
    BY <1>7 DEF Reconfigured, output
  <2>2. /\ started = "on" /\ May(a) /\ Alone(a) /\ listening = "off" /\ stt = "off"
        /\ (Intended => mode[a] = chosen) /\ ~ptt
    BY <2>1, UserAt
  <2>3. ptt = FALSE
    BY <1>0, <2>2 DEF TypeOK
  <2>4. CASE Restore(a, ptt)
    BY <2>1, <2>2, <2>3, <2>4, RestoreMic
  <2>5. CASE setup.micFails /\ Return(a) /\ UNCHANGED <<listening, stray, resume>>
    <3>1. Then(a, "off", <<>>) /\ UNCHANGED stray
      BY <2>5 DEF Return
    <3>2. AsReported'
      BY <2>1, <2>2, <2>5 DEF AsReported, Intended
    <3> QED  BY <2>1, <2>2, <3>1, <3>2, UserMic
  <2> QED  BY <1>7, <2>4, <2>5 DEF Reconfigured
<1> QED  BY <1>1, <1>2, <1>3, <1>4, <1>5, <1>6, <1>7 DEF Ptt

LEMMA SwitchMicSteps ==
  ASSUME IInv, Apiece, Calls, Held, Paused, Idle, setup.orderly, UNCHANGED setup, NEW a \in Users,
         \/ PttUp(a) \/ SwitchOff(a) \/ Reconfigure(a)
         \/ \E m \in setup.switches : SwitchOn(a, m)
  PROVE  Apiece' /\ Calls' /\ Held' /\ Paused' /\ Idle'
<1>0. TypeOK /\ setup.switches \subseteq Modes \ {"off"}
  BY SetupFacts DEF IInv
<1>1. MayCall(a) /\ May(a) /\ todo[a] = <<>> /\ started = "on" /\ ~AtMic(a)
  <2>1. MayCall(a)
    BY DEF PttUp, SwitchOff, Reconfigure, SwitchOn
  <2> QED  BY <2>1, Grasp DEF May, MayCall, AtMic
<1>2. \A u \in Utterances : mode[u] = "off"
  <2>1. CASE PttUp(a)
    BY <2>1 DEF PttUp, Paused
  <2>2. CASE ~PttUp(a)
    <3>1. MaySwitch
      BY <2>2 DEF SwitchOff, Reconfigure, SwitchOn
    <3> QED  BY <3>1 DEF MaySwitch, Paused
  <2> QED  BY <2>1, <2>2
<1>3. /\ Alone(a) /\ stt = (IF ptt THEN "ptt" ELSE listening)
      /\ Intended => IF ptt THEN resume = chosen ELSE listening = chosen
      /\ ptt => listening = "off"
  BY <1>1, <1>2, UserFree DEF Apiece
<1>4. UNCHANGED <<started, speech, ptt, stt>>
  BY DEF PttUp, SwitchOff, Reconfigure, SwitchOn, output
<1>5. CASE PttUp(a)
  <2>1. /\ ptt /\ Then(a, resume, <<"heard">>)
        /\ UNCHANGED <<listening, stray, chosen>>
    BY <1>5 DEF PttUp
  <2> QED  BY <1>1, <1>3, <1>4, <2>1, UserScriptFacts, UserMic
<1>6. CASE SwitchOff(a)
  <2>1. chosen' = "off" /\ resume' = "off" /\ UNCHANGED <<stray, ptt>>
    BY <1>6 DEF SwitchOff
  <2>2. CASE listening = "off"
    <3>1. Then(a, "off", <<>>) /\ listening' = "off"
      BY <1>6, <2>2 DEF SwitchOff, Return
    <3>2. AsReported'
      BY <1>3, <1>4, <2>1, <2>2, <3>1 DEF AsReported
    <3> QED  BY <1>1, <1>3, <1>4, <2>1, <3>1, <3>2, UserMic
  <2>3. CASE listening # "off"
    <3>1. Then(a, "off", <<"close">> \o <<>>) /\ listening' = "off"
      BY <1>6, <2>3 DEF SwitchOff, Hush
    <3>2. Then(a, "off", <<"close">>)
      BY <3>1, BlockFacts
    <3> QED  BY <1>1, <1>3, <1>4, <2>1, <2>3, <3>1, <3>2, UserScriptFacts, UserMic
  <2> QED  BY <2>2, <2>3
<1>7. CASE Reconfigure(a)
  <2>1. /\ listening # "off" /\ listening' = "off" /\ Then(a, listening, <<"close">> \o <<"prepared">>)
        /\ UNCHANGED <<stray, ptt, chosen>>
    BY <1>7 DEF Reconfigure, Hush
  <2>2. <<"close">> \o <<"prepared">> = <<"close", "prepared">>
    BY BlockFacts DEF Blocks
  <2>3. Then(a, listening, <<"close", "prepared">>)
    BY <2>1, <2>2
  <2> QED  BY <1>1, <1>3, <1>4, <2>1, <2>3, UserScriptFacts, UserMic
<1>8. ASSUME NEW m \in setup.switches, SwitchOn(a, m)
      PROVE  Apiece' /\ Calls' /\ Held' /\ Paused' /\ Idle'
  <2>1. chosen' = m /\ Enable(a, m, ptt) /\ m # "off"
    BY <1>0, <1>8 DEF SwitchOn
  <2>2. CASE ptt
    <3>1. resume' = m /\ Then(a, "off", <<>>) /\ UNCHANGED <<listening, stray>>
      BY <1>3, <2>1, <2>2 DEF Enable, Return
    <3>2. AsReported'
      BY <1>3, <1>4, <2>1, <2>2, <3>1 DEF AsReported
    <3> QED  BY <1>1, <1>3, <1>4, <2>2, <3>1, <3>2, UserMic
  <2>3. CASE ~ptt /\ listening = m
    <3>1. Then(a, "off", <<>>) /\ UNCHANGED <<listening, stray>>
      BY <2>1, <2>3 DEF Enable, Return
    <3>2. AsReported'
      BY <1>3, <1>4, <2>1, <2>3, <3>1 DEF AsReported
    <3> QED  BY <1>1, <1>3, <1>4, <2>3, <3>1, <3>2, UserMic
  <2>4. CASE ~ptt /\ listening # m /\ listening = "off"
    <3>1. Then(a, m, <<"opened">>) /\ UNCHANGED <<listening, stray>>
      BY <1>3, <2>1, <2>4 DEF Enable, OpenMic
    <3> QED  BY <1>1, <1>3, <1>4, <2>1, <2>4, <3>1, UserScriptFacts, UserMic
  <2>5. CASE ~ptt /\ listening # m /\ listening # "off"
    <3>1. listening' = "off" /\ Then(a, m, <<"close">> \o <<"open">>) /\ UNCHANGED stray
      BY <2>1, <2>5 DEF Enable, Hush
    <3>2. <<"close">> \o <<"open">> = <<"close", "open">>
      BY BlockFacts DEF Blocks
    <3>3. Then(a, m, <<"close", "open">>)
      BY <3>1, <3>2
    <3> QED  BY <1>1, <1>3, <1>4, <2>1, <2>5, <3>1, <3>3, UserScriptFacts, UserMic
  <2> QED  BY <2>2, <2>3, <2>4, <2>5
<1> QED  BY <1>5, <1>6, <1>7, <1>8

-----------------------------------------------------------------------------
(* The turn, the lifespan and the tasks *)

\* The turn queues an utterance, which restores m when it ends.
LEMMA QueueMic ==
  ASSUME IInv, Apiece, Calls, Held, Paused, Idle, setup.orderly,
         UNCHANGED <<setup, started, input, chosen>>, started = "on",
         May(Turn), todo[Turn] # <<>>, NEW m, Queue(m), Alone(Turn),
         ~AtMic(Turn) => m = "off",
         AtMic(Turn) => todo[Turn] \in Opening /\ m = mode[Turn]
  PROVE  Apiece' /\ Calls' /\ Held' /\ Paused' /\ Idle'
<1>0. TypeOK /\ Turn \in Callers /\ Turn \in Actors /\ \A u \in Utterances : u \in Actors /\ u # Turn
  BY ActorFacts DEF IInv
<1>1. PICK v \in Utterances :
        /\ speech[v] = "none" /\ speech' = [speech EXCEPT ![v] = "created"]
        /\ mode' = [mode EXCEPT ![Turn] = "off", ![v] = m]
        /\ todo' = [todo EXCEPT ![Turn] = <<>>]
  BY DEF Queue
<1>2. /\ speech'[v] = "created" /\ \A u \in Utterances \ {v} : speech'[u] = speech[u]
      /\ mode'[v] = m /\ mode'[Turn] = "off"
      /\ \A b \in Actors \ {Turn, v} : mode'[b] = mode[b]
      /\ todo'[Turn] = <<>> /\ \A b \in Actors \ {Turn} : todo'[b] = todo[b]
      /\ UNCHANGED <<setup, started, listening, ptt, resume, stt, stray, chosen>>
  BY <1>0, <1>1 DEF TypeOK, input
<1>3. "none" \notin Alive /\ "created" \in Alive
  BY DEF Alive, Playing
<1>4. todo[v] = <<>> /\ mode[v] = "off" /\ \A u \in Utterances : mode[u] = "off"
  BY <1>0, <1>1 DEF Calls, Alone
<1>5. \A b \in Actors : ~AtMic(b)'
  <2>1. ~AtMic(Turn)'
    BY <1>2, Grasp DEF AtMic
  <2> QED  BY <1>2, <2>1 DEF Alone, AtMic
<1>6. \A c \in Callers : todo'[c] = <<>>
  <2>1. \A c \in Callers \ {Turn} : todo[c] = <<>>
    BY <1>0, FreeFacts
  <2> QED  BY <1>0, <1>2, <2>1, ActorFacts
<1>7. Apiece' /\ Held'
  BY <1>2, <1>5 DEF Apiece, Held
<1>8. Calls'
  <2>1. \A b \in Actors : todo'[b] \in ScriptsOf(b) /\ (todo'[b] # <<>> => (started' = "on" <=> b # Lifespan))
    BY <1>2, <1>6 DEF Calls, ScriptsOf
  <2>2. \A u \in Utterances : todo'[u] # <<>> <=> speech'[u] = "restoring" /\ mode'[u] # "off"
    BY <1>0, <1>2, <1>4 DEF Calls
  <2>3. \A c \in Users : todo'[c] # <<"ptt">>
    BY <1>6, ActorFacts, Tuples
  <2> QED  BY <2>1, <2>2, <2>3 DEF Calls, ScriptsOf
<1>9. AtMic(Turn) => /\ listening = "off" /\ ~ptt /\ stt = "off"
                     /\ Intended => mode[Turn] = chosen
  BY <1>0, HeldFacts, Grasp
<1>10. \A u \in Utterances : mode'[u] # "off" => u = v /\ AtMic(Turn) /\ mode'[u] = mode[Turn]
  BY <1>0, <1>2, <1>4
<1>11. Paused'
  BY <1>2, <1>3, <1>5, <1>9, <1>10 DEF Paused, Intended
<1>12. Idle'
  <2>1. CASE AtMic(Turn)
    BY <1>2, <1>9, <2>1 DEF Idle, Intended
  <2>2. CASE ~AtMic(Turn)
    <3>1. \A b \in Actors : ~AtMic(b)
      BY <2>2 DEF Alone
    <3> QED  BY <1>2, <1>4, <3>1 DEF Idle, Intended
  <2> QED  BY <2>1, <2>2
<1> QED  BY <1>7, <1>8, <1>11, <1>12

LEMMA SayMicSteps ==
  ASSUME IInv, Apiece, Calls, Held, Paused, Idle, setup.orderly, UNCHANGED setup, SayPause \/ SayQueue
  PROVE  Apiece' /\ Calls' /\ Held' /\ Paused' /\ Idle'
<1>0. TypeOK /\ Turn \in Callers /\ Turn \in Actors /\ Turn \notin Utterances /\ Turn # Lifespan
  BY ActorFacts DEF IInv
<1>1. CASE SayPause
  <2>1. At(Turn, "say") /\ UNCHANGED <<started, ptt, resume, stt, stray, chosen>>
    BY <1>1 DEF SayPause
  <2>2. todo[Turn] = <<"say">> /\ May(Turn) /\ started = "on" /\ todo[Turn] # <<>>
    BY <1>0, <2>1, Left, AtMay, Tuples
  <2>3. ~AtMic(Turn)
    BY <2>2, Grasp DEF AtMic
  <2>4. \A u \in Utterances : speech[u] \notin Alive
    BY <1>0, <2>2, FreeFacts DEF IInv, Orderly
  <2>5. \A u \in Utterances : mode[u] = "off"
    BY <2>4 DEF Paused
  <2>6. Alone(Turn) /\ AsReported
    BY <1>0, <2>2, <2>3, <2>5, AloneFree
  <2>7. CASE ~setup.bargeIn /\ listening # "off"
    <3>1. /\ listening' = "off" /\ Then(Turn, listening, <<"close">> \o <<"queue">>) /\ UNCHANGED speech
      BY <1>1, <2>7 DEF SayPause, Hush, output
    <3>2. <<"close">> \o <<"queue">> = <<"close", "queue">>
      BY BlockFacts DEF Blocks
    <3>3. Then3(Turn, listening, <<"close", "queue">>)
      BY <1>0, <3>1, <3>2, ThenOnly
    <3>4. /\ todo'[Turn] = <<"close", "queue">> /\ mode'[Turn] = listening
          /\ \A b \in Actors \ {Turn} : todo'[b] = todo[b] /\ mode'[b] = mode[b]
      BY <3>3 DEF Then3
    <3>5. ~ptt /\ (Intended => listening = chosen)
      BY <2>2, <2>6, <2>7 DEF AsReported, Apiece
    <3>6. HeldBy(Turn)' /\ AtMic(Turn)'
      <4>1. Intended' => mode'[Turn] = chosen'
        BY <2>1, <3>4, <3>5 DEF Intended
      <4>2. todo'[Turn] \in Closing
        BY <3>4 DEF Closing
      <4> QED  BY <1>0, <2>1, <3>1, <3>5, <4>1, <4>2, HoldsNow
    <3>7. Apiece'
      BY <2>1, <3>1 DEF Apiece
    <3>8. Calls'
      <4>1. todo'[Turn] \in ScriptsOf(Turn) /\ todo'[Turn] # <<"ptt">>
        BY <1>0, <3>4, Scripts, Tuples
      <4>2. \A c \in Callers \ {Turn} : todo[c] = <<>>
        BY <1>0, <2>2, FreeFacts
      <4> QED  BY <1>0, <2>1, <2>2, <3>1, <3>4, <4>1, <4>2, CallsOn
    <3> QED  BY <1>0, <2>6, <3>4, <3>6, <3>7, <3>8, Grips
  <2>8. CASE ~(~setup.bargeIn /\ listening # "off")
    <3>1. Queue("off") /\ UNCHANGED <<setup, started, input, chosen>>
      BY <1>1, <2>1, <2>8 DEF SayPause, input
    <3> QED  BY <2>2, <2>3, <2>6, <3>1, QueueMic
  <2> QED  BY <2>7, <2>8
<1>2. CASE SayQueue
  <2>1. At(Turn, "queue") /\ Queue(mode[Turn]) /\ UNCHANGED <<setup, started, input, chosen>>
    BY <1>2 DEF SayQueue
  <2>2. todo[Turn] = <<"queue">> /\ May(Turn) /\ started = "on" /\ todo[Turn] # <<>>
    BY <1>0, <2>1, Left, AtMay, Tuples
  <2>3. todo[Turn] \in Opening /\ AtMic(Turn)
    BY <2>2, Grasp DEF Opening, AtMic
  <2>4. Alone(Turn)
    BY <1>0, <2>3, AloneAt
  <2> QED  BY <2>1, <2>2, <2>3, <2>4, QueueMic
<1> QED  BY <1>1, <1>2

LEMMA StopMicSteps ==
  ASSUME IInv, Apiece, Calls, Held, Paused, Idle, setup.orderly, UNCHANGED setup, Stop \/ Shut
  PROVE  Apiece' /\ Calls' /\ Held' /\ Paused' /\ Idle'
<1>0. /\ TypeOK /\ Lifespan \in Callers /\ Lifespan \in Actors /\ Lifespan \notin Utterances
      /\ \A u \in Utterances : u \in Actors
  BY ActorFacts DEF IInv
<1>1. CASE Stop
  <2>1. /\ MayCall(Lifespan) /\ started' = "stopping" /\ started' # "on" /\ started = "on"
        /\ UNCHANGED <<ptt, stt, stray, chosen>> /\ speech' = speech
        /\ listening = "off" => Then(Lifespan, "off", <<"shut">>) /\ listening' = listening
        /\ listening # "off" => /\ listening' = "off"
                                /\ Then(Lifespan, "off", <<"close">> \o <<"shutSpeech">>)
    BY <1>1 DEF Stop, MayCall, Interrupt, Hush, output
  <2>2. May(Lifespan) /\ todo[Lifespan] = <<>> /\ ~AtMic(Lifespan)
    BY <2>1, Grasp DEF May, MayCall, AtMic
  <2>3. \A b \in Actors \ {Lifespan} : todo[b] = <<>> /\ ~AtMic(b)
    <3>1. \A c \in Callers \ {Lifespan} : todo[c] = <<>>
      BY <1>0, <2>2, FreeFacts
    <3>2. \A u \in Utterances : todo[u] = <<>>
      BY <1>0, <2>2, FreeFacts DEF Calls
    <3> QED  BY <3>1, <3>2, Grasp DEF Actors, AtMic
  <2>4. /\ \A b \in Actors \ {Lifespan} : todo'[b] = todo[b] /\ mode'[b] = mode[b]
        /\ mode'[Lifespan] = "off"
        /\ todo'[Lifespan] = IF listening = "off" THEN <<"shut">> ELSE <<"close", "shutSpeech">>
    <3>1. <<"close">> \o <<"shutSpeech">> = <<"close", "shutSpeech">>
      BY BlockFacts DEF Blocks
    <3>2. Then3(Lifespan, "off", IF listening = "off" THEN <<"shut">> ELSE <<"close", "shutSpeech">>)
      BY <1>0, <2>1, <3>1, ThenOnly
    <3> QED  BY <3>2 DEF Then3
  <2>5. Apiece'
    BY <2>1 DEF Apiece
  <2>6. Calls'
    <3>1. todo'[Lifespan] \in ScriptsOf(Lifespan) /\ todo'[Lifespan] # <<"ptt">>
      BY <1>0, <2>4, Scripts, Tuples
    <3>2. \A c \in Callers \ {Lifespan} : todo[c] = <<>>
      BY <2>3, ActorFacts
    <3>3. \A u \in Utterances : speech'[u] = "restoring" <=> speech[u] = "restoring"
      BY <2>1
    <3>4. todo'[Lifespan] # <<>> => (started' = "on" <=> Lifespan # Lifespan)
      BY <2>1
    <3> QED  BY <1>0, <2>3, <2>4, <3>1, <3>2, <3>3, <3>4, CallsOn
  <2>7. CASE listening = "off"
    <3>1. \A b \in Actors : ~AtMic(b)'
      <4>1. ~AtMic(Lifespan)'
        BY <2>4, <2>7, Grasp DEF AtMic
      <4> QED  BY <2>3, <2>4, <4>1 DEF AtMic
    <3>2. \A u \in Utterances : mode'[u] = mode[u]
      BY <1>0, <2>4
    <3>3. Paused'
      BY <2>1, <2>7, <3>1, <3>2 DEF Paused, Intended
    <3> QED  BY <2>1, <2>5, <2>6, <3>1, <3>3 DEF Held, Idle
  <2>8. CASE listening # "off"
    <3>1. \A u \in Utterances : mode[u] = "off"
      BY <2>8 DEF Paused
    <3>2. Alone(Lifespan)
      BY <2>3, <3>1 DEF Alone
    <3>3. todo'[Lifespan] \in Closing
      BY <2>4, <2>8 DEF Closing
    <3>4. ~ptt'
      BY <2>1, <2>8 DEF Apiece
    <3>5. HeldBy(Lifespan)' /\ AtMic(Lifespan)'
      BY <1>0, <2>1, <2>8, <3>3, <3>4, HoldsNow DEF Intended
    <3> QED  BY <1>0, <2>4, <2>5, <2>6, <3>2, <3>5, Grips
  <2> QED  BY <2>7, <2>8
<1>2. CASE Shut
  <2>1. /\ At(Lifespan, "shut") /\ started' = "off" /\ started' # "on"
        /\ todo' = [todo EXCEPT ![Lifespan] = <<>>, ![Barge] = <<>>]
        /\ UNCHANGED <<listening, ptt, resume, stray, mode, chosen>> /\ speech' = speech
    BY <1>2 DEF Shut, output
  <2>2. started # "on" /\ todo[Lifespan] = <<"shut">>
    BY <1>0, <2>1, Left
  <2>3. \A b \in Actors \ {Lifespan} : todo[b] = <<>>
    BY <2>2 DEF Calls
  <2>4. \A b \in Actors : todo'[b] = <<>>
    BY <1>0, <2>1, <2>3, ActorFacts DEF TypeOK
  <2>5. \A b \in Actors : ~AtMic(b)'
    BY <2>4, Grasp DEF AtMic
  <2>6. \A b \in Actors \ {Lifespan} : todo'[b] = todo[b] /\ mode'[b] = mode[b]
    BY <2>1, <2>3, <2>4
  <2>7. Calls'
    <3>1. \A c \in Callers \ {Lifespan} : todo[c] = <<>>
      BY <2>3, ActorFacts
    <3>2. todo'[Lifespan] = <<>> /\ <<>> \in ScriptsOf(Lifespan) /\ <<>> # <<"ptt">>
      BY <1>0, <2>4, Tuples DEF ScriptsOf
    <3> QED  BY <1>0, <2>1, <2>3, <2>6, <3>1, <3>2, CallsOn
  <2>8. Paused'
    BY <2>1, <2>5 DEF Paused, Intended
  <2> QED  BY <2>1, <2>5, <2>7, <2>8 DEF Apiece, Held, Idle
<1> QED  BY <1>1, <1>2

\* An utterance's task moves on, and does not touch the microphone.
LEMMA MoveMic ==
  ASSUME IInv, Apiece, Calls, Held, Paused, Idle, setup.orderly, UNCHANGED setup, NEW u \in Utterances,
         \/ Drop(u) \/ Begin(u) \/ Unready(u) \/ Break(u) \/ Unwind(u) \/ Restored(u)
         \/ \E yes \in BOOLEAN : Ready(u, yes)
  PROVE  Apiece' /\ Calls' /\ Held' /\ Paused' /\ Idle'
<1>0. TypeOK /\ u \in Actors /\ u \notin Callers
  BY ActorFacts DEF IInv
<1>1. ~Drop(u)
  <2>1. cancelled[u] => \A v \in Utterances : speech[v] # "created"
    BY DEF IInv, Orderly
  <2> QED  BY <2>1 DEF Drop, Moves
<1>2. PICK to \in Alive \cup Over :
        /\ speech' = [speech EXCEPT ![u] = to]
        /\ \/ speech[u] \in Alive \ {"restoring"} /\ to \in Alive \ {"restoring"}
           \/ speech[u] = "restoring" /\ todo[u] = <<>> /\ to = "done"
  BY <1>1 DEF Begin, Unready, Break, Unwind, Restored, Ready, Moves, Alive, Over, Playing
<1>3. UNCHANGED <<started, ptt, input, todo, waits, mode, chosen>>
  BY <1>1 DEF Begin, Unready, Break, Unwind, Restored, Ready, actors, input
<1>4. speech'[u] = to /\ \A v \in Utterances \ {u} : speech'[v] = speech[v]
  BY <1>0, <1>2 DEF TypeOK
<1>5. todo[u] = <<>> /\ ~AtMic(u) /\ (speech[u] = "restoring" => mode[u] = "off")
  BY <1>2, Grasp DEF Calls, AtMic
<1>6. ~AtMic(u)'
  BY <1>3, <1>5 DEF AtMic
<1>7. to # "restoring" /\ speech[u] \in Alive
  BY <1>2 DEF Alive
<1>8. \A v \in Utterances : mode'[v] # "off" /\ speech[v] \in Alive => speech'[v] \in Alive
  BY <1>2, <1>3, <1>4, <1>5
<1>9. Apiece' /\ Held' /\ Paused' /\ Idle'
  BY <1>0, <1>3, <1>5, <1>6, <1>8, Aside
<1>10. Calls'
  BY <1>3, <1>4, <1>5, <1>7, TaskOn
<1> QED  BY <1>9, <1>10

LEMMA FinallyMic ==
  ASSUME IInv, Apiece, Calls, Held, Paused, Idle, setup.orderly, UNCHANGED setup,
         NEW u \in Utterances, Finally(u)
  PROVE  Apiece' /\ Calls' /\ Held' /\ Paused' /\ Idle'
<1>0. TypeOK /\ u \in Actors /\ u \notin Callers /\ "restoring" \in Alive
  BY ActorFacts DEF IInv, Alive
<1>1. PICK how \in Endings(u) : TRUE
  BY DEF Finally
<1>2. speech[u] \in Alive /\ speech[u] # "restoring"
  BY <1>1, EndingFacts DEF Endings
<1>3. todo[u] = <<>> /\ ~AtMic(u)
  BY <1>2, Grasp DEF Calls, AtMic
<1>4. /\ UNCHANGED <<started, ptt, stt, waits, chosen>>
      /\ speech' = [speech EXCEPT ![u] = IF todo'[u] = <<>> THEN "done" ELSE "restoring"]
      /\ started = "on" /\ ~ptt => Restore(u, ptt)
      /\ ~(started = "on" /\ ~ptt) => Return(u) /\ UNCHANGED <<listening, stray, resume>>
  BY DEF Finally
<1>5. /\ speech'[u] = IF todo'[u] = <<>> THEN "done" ELSE "restoring"
      /\ \A v \in Utterances \ {u} : speech'[v] = speech[v]
  BY <1>0, <1>4 DEF TypeOK
<1>6. \A v \in Utterances \ {u} : mode[v] = "off"
  BY <1>2 DEF Paused, IInv, OneAlive
<1>7. CASE started = "on" /\ ~ptt /\ mode[u] # "off"
  <2>1. /\ listening = "off" /\ (Intended => mode[u] = chosen)
        /\ \A a \in Actors : ~AtMic(a)
    BY <1>3, <1>7 DEF Paused
  <2>2. stt = "off" /\ ptt = FALSE
    BY <1>0, <1>7, <2>1 DEF Idle, TypeOK
  <2>3. UNCHANGED <<listening, stray>> /\ Then(u, mode[u], <<"opened">>)
    BY <1>0, <1>4, <1>7, <2>1, <2>2, RestoreOpens
  <2>4. Then3(u, mode[u], <<"opened">>)
    BY <1>0, <2>3, ThenOnly
  <2>5. /\ todo'[u] = <<"opened">> /\ todo'[u] # <<>> /\ mode'[u] = mode[u]
        /\ \A b \in Actors \ {u} : todo'[b] = todo[b] /\ mode'[b] = mode[b]
    BY <2>4, Tuples DEF Then3
  <2>6. Alone(u)
    BY <1>6, <2>1 DEF Alone
  <2>7. todo'[u] \in Opening
    BY <2>5 DEF Opening
  <2>8. HeldBy(u)' /\ AtMic(u)'
    BY <1>0, <1>4, <1>7, <2>1, <2>2, <2>3, <2>5, <2>7, HoldsNow DEF Intended
  <2>9. Held' /\ Paused' /\ Idle'
    BY <1>0, <1>4, <1>5, <1>7, <2>5, <2>6, <2>8, Grips
  <2>10. Calls'
    BY <1>0, <1>2, <1>4, <1>5, <1>7, <2>5, TaskOn
  <2> QED  BY <1>4, <1>7, <2>3, <2>9, <2>10 DEF Apiece
<1>8. CASE ~(started = "on" /\ ~ptt /\ mode[u] # "off")
  <2>1. Then(u, "off", <<>>) /\ UNCHANGED <<listening, stray, resume>>
    BY <1>4, <1>8 DEF Restore, Return
  <2>2. Then3(u, "off", <<>>)
    BY <1>0, <2>1, ThenOnly
  <2>3. /\ todo'[u] = <<>> /\ mode'[u] = "off"
        /\ \A b \in Actors \ {u} : todo'[b] = todo[b] /\ mode'[b] = mode[b]
    BY <2>2 DEF Then3
  <2>4. started' # "on" \/ mode'[u] = mode[u]
    BY <1>4, <1>8, <2>3 DEF Paused
  <2>5. ~AtMic(u)'
    BY <2>3, Grasp DEF AtMic
  <2>6. \A v \in Utterances : mode'[v] # "off" /\ speech[v] \in Alive => speech'[v] \in Alive
    BY <1>5, <2>3
  <2>7. UNCHANGED <<setup, input, chosen>>
    BY <1>4, <2>1 DEF input
  <2>8. Apiece' /\ Held' /\ Paused' /\ Idle'
    BY <1>0, <1>3, <1>4, <2>3, <2>4, <2>5, <2>6, <2>7, Aside
  <2>9. Calls'
    BY <1>2, <1>4, <1>5, <2>3, TaskOn
  <2> QED  BY <2>8, <2>9
<1> QED  BY <1>7, <1>8

-----------------------------------------------------------------------------
(* The microphone *)

MicInv == IInv /\ Mic

LEMMA MicInitially == Init => MicInv
<1> SUFFICES ASSUME Init PROVE Mic
  BY Initially DEF MicInv
<1>1. /\ \A a \in Actors : todo[a] = <<>> /\ mode[a] = "off"
      /\ started = "on" /\ listening = "off" /\ stt = "off" /\ chosen = "off"
      /\ ptt = FALSE /\ stray = FALSE /\ \A u \in Utterances : speech[u] = "none"
  BY DEF Init
<1>2. \A a \in Actors : ~AtMic(a)
  BY <1>1, Grasp DEF AtMic
<1>3. Apiece /\ Held /\ Idle
  BY <1>1, <1>2 DEF Apiece, Held, Idle
<1>4. Calls /\ Paused
  <2>1. \A u \in Utterances : mode[u] = "off" /\ todo[u] = <<>>
    BY <1>1, ActorFacts
  <2>2. \A c \in Users : todo[c] # <<"ptt">>
    BY <1>1, ActorFacts, Tuples
  <2> QED  BY <1>1, <2>1, <2>2 DEF Calls, Paused, ScriptsOf
<1> QED  BY <1>3, <1>4 DEF Mic

LEMMA MicStep == MicInv /\ [Next]_vars => MicInv'
<1> SUFFICES ASSUME MicInv, [Next]_vars PROVE Mic'
  BY Stepwise DEF MicInv
<1>1. CASE UNCHANGED vars
  BY <1>1 DEF MicInv, Mic, vars, controller, output, input, actors, Apiece, Calls, Held, HeldBy,
              Paused, Idle, AtMic, Intended, ScriptsOf
<1> SUFFICES ASSUME Step, UNCHANGED setup PROVE Mic'
  BY <1>1 DEF Next
<1> SUFFICES ASSUME setup.orderly PROVE Apiece' /\ Calls' /\ Held' /\ Paused' /\ Idle'
  BY DEF Mic
<1>0. IInv /\ Apiece /\ Calls /\ Held /\ Paused /\ Idle
  BY DEF MicInv, Mic
<1>2. CASE Say \/ BargeSense \/ Stop \/ \E c \in Users \cup {Turn} : Silence(c)
  BY <1>0, <1>2, AsideSteps, StopMicSteps
<1>3. ASSUME NEW c \in Users, Press(c)
      PROVE  Apiece' /\ Calls' /\ Held' /\ Paused' /\ Idle'
  BY <1>0, <1>3, AsideSteps, SwitchMicSteps DEF Press
<1>4. ASSUME NEW u \in Utterances, Speak(u)
      PROVE  Apiece' /\ Calls' /\ Held' /\ Paused' /\ Idle'
  BY <1>0, <1>4, MoveMic, FinallyMic DEF Speak
<1>5. ASSUME NEW a \in Actors, Proceed(a)
      PROVE  Apiece' /\ Calls' /\ Held' /\ Paused' /\ Idle'
  <2>1. CASE Close(a)
    BY <1>0, <2>1, CloseStep
  <2>2. CASE Opened(a) \/ Reopen(a) \/ OpenFails(a)
    BY <1>0, <2>2, OpenSteps
  <2>3. CASE Ended(a) \/ BargeAct \/ StopSpeech
    BY <1>0, <2>3, AsideSteps
  <2>4. CASE a \in Users /\ (Ptt(a) \/ Reconfigured(a))
    BY <1>0, <2>4, PttMicSteps
  <2>5. CASE SayPause \/ SayQueue
    BY <1>0, <2>5, SayMicSteps
  <2>6. CASE Shut
    BY <1>0, <2>6, StopMicSteps
  <2> QED  BY <1>5, <2>1, <2>2, <2>3, <2>4, <2>5, <2>6 DEF Proceed
<1> QED  BY <1>2, <1>3, <1>4, <1>5 DEF Step

\* What is invariant gives the promise.
LEMMA MicIsRight == MicInv => MicrophoneIsRight
<1> SUFFICES ASSUME MicInv PROVE MicrophoneIsRight
  OBVIOUS
<1>1. CASE ~setup.orderly
  BY <1>1 DEF MicrophoneIsRight, ListeningIsAsChosen, MicrophoneMatches, InUse
<1>2. CASE setup.orderly
  <2>1. Apiece /\ Paused /\ Idle
    BY <1>2 DEF MicInv, Mic
  <2>2. MicrophoneMatches /\ ListeningIsAsChosen
    <3>1. ASSUME InUse
          PROVE  /\ stt = IF ptt THEN "ptt" ELSE listening
                 /\ ~setup.micFails /\ ~ptt => listening = chosen
      <4>1. \A a \in Actors : ~AtMic(a)
        BY <3>1, Grasp DEF InUse, Quiet, AtMic
      <4>2. \A u \in Utterances : mode[u] = "off"
        BY <2>1, <3>1 DEF InUse, Quiet, Paused
      <4> QED  BY <2>1, <3>1, <4>1, <4>2 DEF Idle, Intended, InUse
    <3> QED  BY <2>1, <3>1 DEF MicrophoneMatches, ListeningIsAsChosen, Apiece
  <2> QED  BY <2>2 DEF MicrophoneIsRight
<1> QED  BY <1>1, <1>2

\* Whatever the users, the turn, barge-in and the tasks of the utterances do in orderly circumstances:
\* push-to-talk and passive listening never read at once, and with nothing under way the microphone is
\* open for the mode that is reported, which is the one that was asked for last.
THEOREM MicRight == Spec => []MicrophoneIsRight
BY MicInitially, MicStep, MicIsRight, PTL DEF Spec
=============================================================================
