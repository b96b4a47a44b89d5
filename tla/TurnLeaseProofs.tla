-------------------------- MODULE TurnLeaseProofs --------------------------
(***************************************************************************)
(* Single flight of turns for every number of attempts and every length of *)
(* the history, and of what runs beside it (MCTurnLease) the long-term     *)
(* memory, for any number of calls and of facts, for every provider, with  *)
(* threads that fail or are left behind, deadlines and a shutdown that is  *)
(* cut short.                                                              *)
(*                                                                         *)
(* LiveHoldsLease is inductive together with the facts that an attempt     *)
(* beyond the counter has no task, and that the lifespan and the runtime   *)
(* state go together (so that nothing is admitted once shutdown began).    *)
(*                                                                         *)
(* A thread that changes the memory was begun under the lock, which it     *)
(* holds until it ends (Locking); ids are handed out in increasing order,  *)
(* one for a call at most (Numbering); and what close() waits for is every *)
(* observation there is, since none begins after it (Closing).             *)
(***************************************************************************)
EXTENDS MCTurnLease, FiniteSetTheorems, TLAPS

Events == [turn : Turns, state : Terminal \cup {"accepted", "thinking", "rejected"}]

\* The runtime state that the supervisor shows at each stage of the lifespan.
Stages ==
  /\ lifespan = "starting" <=> runtime = "starting"
  /\ lifespan = "serving" <=> runtime = "ready"
  /\ lifespan \in {"stopping", "closing"} <=> runtime = "stopping"
  /\ lifespan = "stopped" <=> runtime = "stopped"

Lease ==
  /\ LiveHoldsLease
  /\ \A t \in Turns : sequence < t => phase[t] = "none"
  /\ active <= sequence
  /\ lifespan = "starting" => active = 0
  /\ lifespan \in {"closing", "stopped"} => \A t \in Turns : phase[t] # "created"
  /\ lifespan = "stopped" => active = 0

IInv == TypeOK /\ Stages /\ Lease

\* A step of a turn's task leaves it live or ends it, and then frees the lease.
LEMMA TaskEffect ==
  ASSUME IInv, NEW t \in Turns, TaskStep(t)
  PROVE  /\ phase[t] \in Live
         /\ UNCHANGED <<runtime, sequence, lifespan>>
         /\ \E p \in (Live \ {"created"}) \cup {"done"} :
               /\ phase' = [phase EXCEPT ![t] = p]
               /\ active' = IF p = "done" THEN 0 ELSE active
         /\ cancelled' \in [Turns -> BOOLEAN]
         /\ outcome' \in [Turns -> Outcomes]
         /\ memory' \in Seq(Turns)
         /\ \/ feed' = feed /\ active' = active
            \/ \E e \in Events : /\ feed' = Append(feed, e)
                                 /\ e.turn = t
                                 /\ e.state \in Terminal
<1> USE DEF IInv, Lease, TypeOK, LiveHoldsLease, Events
<1>1. CASE Begin(t) \/ Accepted(t) \/ Say(t) \/ Said(t)
  BY <1>1 DEF Begin, Accepted, Say, Said, Step, Live
<1>2. ASSUME NEW state \in Terminal, phase[t] \in Live, FinishTurn(t, state)
      PROVE  /\ active' = 0
             /\ \E e \in Events : /\ feed' = Append(feed, e)
                                  /\ e.turn = t
                                  /\ e.state \in Terminal
  <2>1. Event(t, state) \in Events /\ Event(t, state).turn = t /\ Event(t, state).state = state
    BY <1>2 DEF Event
  <2> QED  BY <2>1, <1>2 DEF FinishTurn
<1>3. CASE Reply(t) \/ Silent(t) \/ Fail(t) \/ Cancelled(t)
  <2>1. PICK state \in Terminal : FinishTurn(t, state)
    BY <1>3 DEF Reply, Silent, Fail, Cancelled, Terminal
  <2>2. phase[t] \in Live
    BY <1>3 DEF Reply, Silent, Fail, Cancelled, Live
  <2>3. PICK how \in Outcomes : End(t, how)
    BY <1>3 DEF Reply, Silent, Fail, Cancelled, Outcomes
  <2>4. cancelled' \in [Turns -> BOOLEAN]
    BY <1>3 DEF Reply, Silent, Fail, Cancelled
  <2>5. memory' \in Seq(Turns)
    <3>0. memory \in Seq(Turns) /\ Append(memory, t) \in Seq(Turns)
      OBVIOUS
    <3>1. CASE HistoryTurns = 0 \/ Len(memory) < HistoryTurns
      <4>1. Remember(memory, t) \in Seq(Turns)
        BY <3>0, <3>1 DEF Remember
      <4>2. memory' \in {memory, Remember(memory, t)}
        BY <1>3 DEF Reply, Silent, Fail, Cancelled
      <4> QED  BY <3>0, <4>1, <4>2
    <3>2. CASE HistoryTurns # 0 /\ ~(Len(memory) < HistoryTurns)
      <4>1. memory # <<>>
        BY <3>2, HistoryTurnsAssumption
      <4>2. Append(Tail(memory), t) \in Seq(Turns)
        BY <4>1
      <4> QED  BY <1>3, <3>2, <4>2 DEF Reply, Silent, Fail, Cancelled, Remember
    <3> QED  BY <3>1, <3>2
  <2>6. /\ active' = 0
        /\ \E e \in Events : /\ feed' = Append(feed, e)
                             /\ e.turn = t
                             /\ e.state \in Terminal
    BY <2>1, <2>2, <1>2
  <2>7. /\ phase' = [phase EXCEPT ![t] = "done"]
        /\ outcome' \in [Turns -> Outcomes]
        /\ UNCHANGED <<runtime, sequence, lifespan>>
    BY <2>3 DEF End
  <2> QED  BY <2>2, <2>4, <2>5, <2>6, <2>7
<1>4. CASE Swallow(t)
  BY <1>4 DEF Swallow, Live
<1> QED  BY <1>1, <1>3, <1>4 DEF TaskStep

\* What an attempt does to the lease.
LEMMA SubmitEffect ==
  ASSUME IInv, Submit
  PROVE  /\ sequence' = sequence + 1 /\ sequence' \in Turns
         /\ UNCHANGED <<runtime, cancelled, outcome, memory, lifespan>>
         /\ \/ /\ runtime = "ready" /\ active = 0
               /\ active' = sequence'
               /\ phase' = [phase EXCEPT ![sequence'] = "created"]
               /\ feed' = Append(Append(feed, Event(sequence', "accepted")),
                                 Event(sequence', "thinking"))
            \/ /\ active' = active
               /\ phase' = [phase EXCEPT ![sequence'] = "refused"]
               /\ feed' = Append(feed, Event(sequence', "rejected"))
BY DEF Submit

LEMMA Typed == IInv /\ [Next]_vars => TypeOK'
<1> SUFFICES ASSUME IInv, [Next]_vars PROVE TypeOK'
  OBVIOUS
<1>1. CASE UNCHANGED vars
  BY <1>1 DEF vars, IInv, TypeOK
<1>2. CASE Submit
  <2>1. /\ sequence' = sequence + 1 /\ sequence' \in Turns
        /\ UNCHANGED <<runtime, cancelled, outcome, memory, lifespan>>
        /\ \/ /\ active' = sequence'
              /\ phase' = [phase EXCEPT ![sequence'] = "created"]
              /\ feed' = Append(Append(feed, Event(sequence', "accepted")),
                                Event(sequence', "thinking"))
           \/ /\ active' = active
              /\ phase' = [phase EXCEPT ![sequence'] = "refused"]
              /\ feed' = Append(feed, Event(sequence', "rejected"))
    BY <1>2, SubmitEffect
  <2>2. \A s \in {"accepted", "thinking", "rejected"} : Event(sequence', s) \in Events
    BY <2>1 DEF Event, Events
  <2>3. feed \in Seq(Events)
    BY DEF IInv, TypeOK, Events
  <2>4. feed' \in Seq(Events)
    BY <2>1, <2>2, <2>3
  <2>5. sequence' \in 0..MaxTurns /\ active' \in 0..MaxTurns
    BY <2>1 DEF IInv, TypeOK, Turns
  <2> QED  BY <2>1, <2>4, <2>5 DEF IInv, TypeOK, Phases, Live, Events
<1>3. ASSUME NEW t \in Turns, TaskStep(t) PROVE TypeOK'
  <2>1. feed \in Seq(Events)
    BY DEF IInv, TypeOK, Events
  <2>2. feed' \in Seq(Events)
    <3>1. feed' = feed \/ \E e \in Events : feed' = Append(feed, e)
      BY <1>3, TaskEffect
    <3>2. ASSUME NEW e \in Events PROVE Append(feed, e) \in Seq(Events)
      BY <2>1
    <3> QED  BY <2>1, <3>1, <3>2
  <2>3. active' \in 0..MaxTurns /\ phase' \in [Turns -> Phases]
    BY <1>3, TaskEffect, MaxTurnsAssumption DEF IInv, TypeOK, Phases, Live
  <2> QED  BY <1>3, <2>2, <2>3, TaskEffect DEF IInv, TypeOK, Events
<1>4. CASE Ready \/ Stop \/ Stopped
  BY <1>4 DEF Ready, Stop, Stopped, IInv, TypeOK, RuntimeStates
<1>5. CASE Close
  <2>1. \A t \in Turns : (phase[t] \in Live) \in BOOLEAN
    OBVIOUS
  <2>2. cancelled' \in [Turns -> BOOLEAN]
    BY <1>5, <2>1, Zenon DEF Close
  <2> QED  BY <1>5, <2>2 DEF Close, IInv, TypeOK
<1> QED  BY <1>1, <1>2, <1>3, <1>4, <1>5 DEF Next

LEMMA Staged == IInv /\ [Next]_vars => Stages'
<1> SUFFICES ASSUME IInv, [Next]_vars PROVE Stages'
  OBVIOUS
<1>1. CASE UNCHANGED <<runtime, lifespan>>
  BY <1>1 DEF IInv, Stages
<1>2. CASE Ready \/ Stop \/ Close \/ Stopped
  BY <1>2 DEF Ready, Stop, Close, Stopped, IInv, Stages
<1>3. CASE Submit
  BY <1>3, <1>1 DEF Submit
<1>4. ASSUME NEW t \in Turns, TaskStep(t) PROVE UNCHANGED <<runtime, lifespan>>
  BY <1>4, TaskEffect
<1> QED  BY <1>1, <1>2, <1>3, <1>4 DEF Next, vars

LEMMA Leased == IInv /\ [Next]_vars => Lease'
<1> SUFFICES ASSUME IInv, [Next]_vars PROVE Lease'
  OBVIOUS
<1>0. phase \in [Turns -> Phases] /\ sequence \in Nat /\ active \in Nat
  BY MaxTurnsAssumption DEF IInv, TypeOK
<1>1. CASE UNCHANGED vars
  BY <1>1 DEF vars, IInv, Lease, LiveHoldsLease
<1>2. CASE Submit
  <2>1. /\ sequence' = sequence + 1 /\ sequence' \in Turns
        /\ lifespan' = lifespan /\ runtime' = runtime
    BY <1>2, SubmitEffect
  <2>2. CASE /\ runtime = "ready" /\ active = 0
             /\ active' = sequence'
             /\ phase' = [phase EXCEPT ![sequence'] = "created"]
    <3>1. lifespan = "serving" /\ lifespan' = "serving"
      BY <2>1, <2>2 DEF IInv, Stages
    <3>2. \A t \in Turns : phase[t] \notin Live
      BY <2>2 DEF IInv, Lease, LiveHoldsLease, Turns
    <3>3. /\ phase'[sequence'] = "created"
          /\ \A t \in Turns : t # sequence' => phase'[t] = phase[t]
      BY <2>1, <2>2, <1>0
    <3>4. LiveHoldsLease'
      BY <2>2, <3>2, <3>3, <2>1 DEF LiveHoldsLease, Live
    <3>5. \A t \in Turns : sequence' < t => phase'[t] = "none"
      BY <2>1, <3>3, <1>0 DEF IInv, Lease, Turns
    <3> QED  BY <2>1, <2>2, <3>1, <3>4, <3>5, <1>0 DEF Lease
  <2>3. CASE active' = active /\ phase' = [phase EXCEPT ![sequence'] = "refused"]
    <3>1. phase[sequence'] = "none"
      BY <2>1, <1>0 DEF IInv, Lease
    <3>2. /\ phase'[sequence'] = "refused"
          /\ \A t \in Turns : t # sequence' => phase'[t] = phase[t]
      BY <2>1, <2>3, <1>0
    <3>3. LiveHoldsLease'
      BY <2>1, <2>3, <3>1, <3>2 DEF IInv, Lease, LiveHoldsLease, Live, TypeOK, Turns
    <3>4. \A t \in Turns : sequence' < t => phase'[t] = "none"
      BY <2>1, <3>2, <1>0 DEF IInv, Lease, Turns
    <3>5. lifespan \in {"closing", "stopped"} => \A t \in Turns : phase'[t] # "created"
      BY <3>2 DEF IInv, Lease
    <3> QED  BY <2>1, <2>3, <3>3, <3>4, <3>5, <1>0 DEF IInv, Lease
  <2> QED  BY <2>2, <2>3, <1>2, SubmitEffect
<1>3. ASSUME NEW t \in Turns, TaskStep(t) PROVE Lease'
  <2>1. PICK p \in (Live \ {"created"}) \cup {"done"} :
           /\ phase' = [phase EXCEPT ![t] = p]
           /\ active' = IF p = "done" THEN 0 ELSE active
    BY <1>3, TaskEffect
  <2>2. phase[t] \in Live /\ UNCHANGED <<runtime, sequence, lifespan>>
    BY <1>3, TaskEffect
  <2>3. active = t /\ t # 0
    BY <2>2 DEF IInv, Lease, LiveHoldsLease, Turns
  <2>4. phase'[t] = p /\ \A u \in Turns : u # t => phase'[u] = phase[u] /\ phase[u] \notin Live
    BY <2>1, <2>3, <1>0 DEF IInv, Lease, LiveHoldsLease
  <2>5. LiveHoldsLease'
    BY <2>1, <2>3, <2>4 DEF LiveHoldsLease, Live
  <2>6. \A u \in Turns : sequence' < u => phase'[u] = "none"
    BY <2>2, <2>4 DEF IInv, Lease, Live
  <2>7. lifespan' \in {"closing", "stopped"} => \A u \in Turns : phase'[u] # "created"
    BY <2>2, <2>4 DEF IInv, Lease, Live
  <2>8. active' <= sequence' /\ (active' = 0 \/ active' = active)
    BY <2>1, <2>2, <1>0 DEF IInv, Lease
  <2> QED  BY <2>2, <2>5, <2>6, <2>7, <2>8 DEF IInv, Lease
<1>4. CASE Ready \/ Stop \/ Close
  BY <1>4 DEF Ready, Stop, Close, IInv, Lease, LiveHoldsLease
<1>5. CASE Stopped
  <2>1. active = 0
    BY <1>5, <1>0 DEF Stopped, IInv, Lease, LiveHoldsLease, Turns, TypeOK
  <2> QED  BY <1>5, <2>1 DEF Stopped, IInv, Lease, LiveHoldsLease
<1> QED  BY <1>1, <1>2, <1>3, <1>4, <1>5 DEF Next

LEMMA Initially == Init => IInv
<1> SUFFICES ASSUME Init PROVE IInv
  OBVIOUS
<1>1. TypeOK
  <2>1. <<>> \in Seq(Turns) /\ <<>> \in Seq(Events)
    OBVIOUS
  <2>2. 0 \in 0..MaxTurns
    BY MaxTurnsAssumption
  <2> QED  BY <2>1, <2>2 DEF Init, TypeOK, RuntimeStates, Phases, Outcomes, Events
<1>2. Lease
  BY DEF Init, Lease, LiveHoldsLease, Live
<1>3. Stages
  BY DEF Init, Stages
<1> QED  BY <1>1, <1>2, <1>3 DEF IInv

(***************************************************************************)
(* The history.  What was published and what is remembered are statements  *)
(* about all earlier turns; they are inductive with IInv, once it is known *)
(* which turns are over (Ended), and that the feed speaks of a turn only   *)
(* after it was counted and says its end only when its task is done        *)
(* (Told).                                                                 *)
(***************************************************************************)
Tells(i, t, states) == feed[i].turn = t /\ feed[i].state \in states

Ended ==
  /\ \A t \in Turns : outcome[t] # "none" => phase[t] = "done"
  /\ active # 0 => \A t \in Turns : phase[t] = "done" => t < active

Told ==
  \A i \in 1..Len(feed) :
    /\ feed[i].turn <= sequence
    /\ feed[i].state \in Terminal => phase[feed[i].turn] = "done"
    /\ feed[i].state = "accepted" =>
         \/ phase[feed[i].turn] \in Live
         \/ \E k \in i..Len(feed) : Tells(k, feed[i].turn, Terminal)

History == Ended /\ Told /\ TurnsAreSerial

\* How a turn's task ends, and what it then tells: its state is that of its outcome, and only an
\* answered turn is remembered.
LEMMA EndEffect ==
  ASSUME IInv, NEW t \in Turns, TaskStep(t)
  PROVE  \/ UNCHANGED <<outcome, memory, feed, active>> /\ phase'[t] \in Live
         \/ /\ active' = 0 /\ phase' = [phase EXCEPT ![t] = "done"]
            /\ \E e \in Events : \E how \in Outcomes \ {"none"} :
                 /\ feed' = Append(feed, e) /\ e.turn = t /\ e.state \in Terminal
                 /\ outcome' = [outcome EXCEPT ![t] = how]
                 /\ e.state = "completed" => how \in {"replied", "silent"}
                 /\ e.state # "completed" => how = e.state
                 /\ memory' = IF how = "replied" THEN Remember(memory, t) ELSE memory
<1> USE DEF IInv, Lease, TypeOK, LiveHoldsLease, Events
<1>1. CASE Begin(t) \/ Accepted(t) \/ Say(t) \/ Said(t) \/ Swallow(t)
  BY <1>1 DEF Begin, Accepted, Say, Said, Step, Swallow, Live
<1>2. ASSUME NEW state \in Terminal, NEW how \in Outcomes \ {"none"},
             phase[t] \in Live, FinishTurn(t, state), End(t, how),
             state = "completed" => how \in {"replied", "silent"},
             state # "completed" => how = state,
             memory' = IF how = "replied" THEN Remember(memory, t) ELSE memory
      PROVE  /\ active' = 0 /\ phase' = [phase EXCEPT ![t] = "done"]
             /\ \E e \in Events : \E h \in Outcomes \ {"none"} :
                  /\ feed' = Append(feed, e) /\ e.turn = t /\ e.state \in Terminal
                  /\ outcome' = [outcome EXCEPT ![t] = h]
                  /\ e.state = "completed" => h \in {"replied", "silent"}
                  /\ e.state # "completed" => h = e.state
                  /\ memory' = IF h = "replied" THEN Remember(memory, t) ELSE memory
  <2>1. Event(t, state) \in Events /\ Event(t, state).turn = t /\ Event(t, state).state = state
    BY <1>2 DEF Event
  <2>2. active' = 0 /\ feed' = Append(feed, Event(t, state))
    BY <1>2 DEF FinishTurn
  <2> QED  BY <1>2, <2>1, <2>2 DEF End
<1>3. CASE Reply(t)
  BY <1>3, <1>2 DEF Reply, Live, Terminal, Outcomes
<1>4. CASE Silent(t)
  BY <1>4, <1>2 DEF Silent, Live, Terminal, Outcomes
<1>5. CASE Fail(t)
  BY <1>5, <1>2 DEF Fail, Live, Terminal, Outcomes
<1>6. CASE Cancelled(t)
  BY <1>6, <1>2 DEF Cancelled, Live, Terminal, Outcomes
<1> QED  BY <1>1, <1>3, <1>4, <1>5, <1>6 DEF TaskStep

LEMMA AppendFacts ==
  ASSUME NEW S, NEW s \in Seq(S), NEW x \in S
  PROVE  /\ Append(s, x) \in Seq(S) /\ Len(Append(s, x)) = Len(s) + 1
         /\ \A i \in 1..Len(s) : Append(s, x)[i] = s[i]
         /\ Append(s, x)[Len(s) + 1] = x
OBVIOUS

\* What the end of a turn leaves of the feed.
LEMMA EndTold ==
  ASSUME IInv, History, NEW t \in Turns, phase[t] \in Live, UNCHANGED sequence,
         phase' = [phase EXCEPT ![t] = "done"],
         NEW e \in Events, feed' = Append(feed, e), e.turn = t, e.state \in Terminal,
         NEW how \in Outcomes \ {"none"}, outcome' = [outcome EXCEPT ![t] = how],
         e.state = "completed" => how \in {"replied", "silent"},
         e.state # "completed" => how = e.state
  PROVE  Told' /\ FeedIsSerial'
<1> DEFINE n == Len(feed)
<1>1. /\ n \in Nat /\ Len(feed') = n + 1 /\ feed'[n + 1] = e
      /\ \A i \in 1..n : feed'[i] = feed[i] /\ feed[i].turn \in Turns
  <2>1. feed \in Seq(Events)
    BY DEF IInv, TypeOK, Events
  <2>2. /\ n \in Nat /\ Len(feed') = n + 1 /\ feed'[n + 1] = e
        /\ \A i \in 1..n : feed'[i] = feed[i]
    BY <2>1, AppendFacts
  <2>3. \A i \in 1..n : feed[i] \in Events
    BY <2>1
  <2> QED  BY <2>2, <2>3 DEF Events
<1>2. /\ \A i \in 1..(n + 1) : i \in 1..n \/ i = n + 1
      /\ 1..n \subseteq 1..(n + 1) /\ n + 1 \in 1..(n + 1)
  BY <1>1
<1>3. /\ phase'[t] = "done" /\ outcome'[t] = how
      /\ \A u \in Turns : u # t => phase'[u] = phase[u] /\ outcome'[u] = outcome[u]
  BY DEF IInv, TypeOK
<1>4. \A i \in 1..n : feed[i].turn = t => feed[i].state \notin Terminal
  BY DEF History, Told, Live
<1>5. t <= sequence /\ e.state # "accepted"
  BY DEF IInv, Lease, Live, Turns, Terminal, TypeOK
<1>6. Told'
  <2> SUFFICES ASSUME NEW i \in 1..(n + 1)
               PROVE  /\ feed'[i].turn <= sequence
                      /\ feed'[i].state \in Terminal => phase'[feed'[i].turn] = "done"
                      /\ feed'[i].state = "accepted" =>
                           \/ phase'[feed'[i].turn] \in Live
                           \/ \E k \in i..(n + 1) : feed'[k].turn = feed'[i].turn /\ feed'[k].state \in Terminal
    BY <1>1 DEF Told, Tells
  <2>1. CASE i = n + 1
    BY <2>1, <1>1, <1>3, <1>5
  <2>2. CASE i \in 1..n
    <3>1. /\ feed[i].turn <= sequence
          /\ feed[i].state \in Terminal => phase[feed[i].turn] = "done"
          /\ feed[i].state = "accepted" =>
               \/ phase[feed[i].turn] \in Live
               \/ \E k \in i..n : feed[k].turn = feed[i].turn /\ feed[k].state \in Terminal
      BY <2>2 DEF History, Told, Tells
    <3>2. \A k \in i..n : k \in 1..n /\ k \in i..(n + 1)
      BY <2>2, <1>1
    <3>3. n + 1 \in i..(n + 1)
      BY <2>2, <1>1
    <3>4. CASE feed[i].turn = t
      BY <2>2, <3>1, <3>3, <3>4, <1>1, <1>3
    <3>5. CASE feed[i].turn # t
      BY <2>2, <3>1, <3>2, <3>5, <1>1, <1>3
    <3> QED  BY <3>4, <3>5
  <2> QED  BY <2>1, <2>2, <1>2
<1>7. OneTerminal'
  <2> SUFFICES ASSUME NEW i \in 1..(n + 1), feed'[i].state \in Terminal
               PROVE  /\ \A k \in 1..(n + 1) :
                           k # i /\ feed'[k].turn = feed'[i].turn
                             => k < i /\ feed'[k].state \notin Terminal
                      /\ feed'[i].state # "completed" => outcome'[feed'[i].turn] = feed'[i].state
                      /\ feed'[i].state = "completed"
                           => outcome'[feed'[i].turn] \in {"replied", "silent"}
    BY <1>1 DEF OneTerminal
  <2>1. CASE i = n + 1
    <3>1. \A k \in 1..(n + 1) : k # i => k \in 1..n /\ k < i
      BY <2>1, <1>1
    <3> QED  BY <2>1, <3>1, <1>1, <1>3, <1>4
  <2>2. CASE i \in 1..n
    <3>1. feed[i].turn # t
      BY <2>2, <1>1, <1>4
    <3>2. /\ \A k \in 1..n : k # i /\ feed[k].turn = feed[i].turn
                               => k < i /\ feed[k].state \notin Terminal
          /\ feed[i].state # "completed" => outcome[feed[i].turn] = feed[i].state
          /\ feed[i].state = "completed" => outcome[feed[i].turn] \in {"replied", "silent"}
      BY <2>2, <1>1 DEF History, TurnsAreSerial, FeedIsSerial, OneTerminal
    <3> QED  BY <2>2, <3>1, <3>2, <1>1, <1>2, <1>3
  <2> QED  BY <2>1, <2>2, <1>2
<1>8. ASSUME NEW i \in 1..(n + 1), NEW j \in 1..(n + 1),
             i < j, feed'[i].state = "accepted", feed'[j].state = "accepted"
      PROVE  /\ feed'[i].turn < feed'[j].turn
             /\ \E k \in i..j : feed'[k].turn = feed'[i].turn /\ feed'[k].state \in Terminal
  <2>1. i \in 1..n /\ j \in 1..n
    BY <1>8, <1>1, <1>2, <1>5
  <2>2. \A k \in i..j : k \in 1..n
    BY <2>1, <1>1
  <2>3. feed[i].state = "accepted" /\ feed[j].state = "accepted"
    BY <2>1, <1>1, <1>8
  <2>4. /\ feed[i].turn < feed[j].turn
        /\ \E k \in i..j : feed[k].turn = feed[i].turn /\ feed[k].state \in Terminal
    BY <2>1, <2>3, <1>8 DEF History, TurnsAreSerial, FeedIsSerial
  <2>5. PICK k \in i..j : feed[k].turn = feed[i].turn /\ feed[k].state \in Terminal
    BY <2>4
  <2>6. feed'[k].turn = feed'[i].turn /\ feed'[k].state \in Terminal
    BY <2>1, <2>2, <2>5, <1>1
  <2> QED  BY <2>1, <2>4, <2>6, <1>1
<1> QED  BY <1>1, <1>6, <1>7, <1>8 DEF FeedIsSerial

\* What an attempt adds to the feed: it is about a new turn, of which nothing was told.
LEMMA SubmitTold ==
  ASSUME IInv, History, Submit
  PROVE  Told' /\ FeedIsSerial'
<1> DEFINE n == Len(feed)
           t == sequence + 1
<1>0. /\ sequence \in Nat /\ t \in Turns /\ sequence' = t /\ outcome' = outcome
      /\ \A u \in Turns : u # t => phase'[u] = phase[u]
      /\ phase[t] = "none"
  BY SubmitEffect, MaxTurnsAssumption DEF IInv, TypeOK, Lease
<1>1. feed \in Seq(Events)
  BY DEF IInv, TypeOK, Events
<1>2. /\ n \in Nat /\ Len(feed') \in Nat /\ n <= Len(feed')
      /\ \A i \in 1..n : feed'[i] = feed[i] /\ i \in 1..Len(feed')
      /\ \A i \in 1..Len(feed') \ 1..n :
           /\ feed'[i].turn = t /\ feed'[i].state \notin Terminal
           /\ feed'[i].state = "accepted" =>
                i = n + 1 /\ active = 0 /\ phase'[t] \in Live
  <2>1. \A s \in {"accepted", "thinking", "rejected"} :
           Event(t, s) \in Events /\ Event(t, s).turn = t /\ Event(t, s).state = s
    BY <1>0 DEF Event, Events
  <2>2. CASE /\ active = 0 /\ phase' = [phase EXCEPT ![t] = "created"]
             /\ feed' = Append(Append(feed, Event(t, "accepted")), Event(t, "thinking"))
    <3> DEFINE half == Append(feed, Event(t, "accepted"))
    <3>1. /\ half \in Seq(Events) /\ Len(half) = n + 1 /\ n \in Nat
          /\ half[n + 1] = Event(t, "accepted") /\ \A i \in 1..n : half[i] = feed[i]
      BY <1>1, <2>1, AppendFacts
    <3>2. /\ Len(feed') = n + 2 /\ feed'[n + 2] = Event(t, "thinking")
          /\ \A i \in 1..(n + 1) : feed'[i] = half[i]
      <4> HIDE DEF half
      <4>1. feed' = Append(half, Event(t, "thinking"))
        BY <2>2 DEF half
      <4>2. Event(t, "thinking") \in Events
        BY <2>1
      <4>3. /\ Len(feed') = Len(half) + 1 /\ feed'[Len(half) + 1] = Event(t, "thinking")
            /\ \A i \in 1..Len(half) : feed'[i] = half[i]
        BY <3>1, <4>1, <4>2, AppendFacts
      <4> QED  BY <3>1, <4>3
    <3> HIDE DEF half
    <3>3. phase'[t] \in Live
      BY <1>0, <2>2 DEF IInv, TypeOK, Live
    <3>4. \A i \in 1..Len(feed') \ 1..n : i = n + 1 \/ i = n + 2
      BY <3>1, <3>2
    <3>5. \A i \in 1..n : i \in 1..(n + 1) /\ i \in 1..Len(feed')
      BY <3>1, <3>2
    <3> QED  BY <2>1, <2>2, <3>1, <3>2, <3>3, <3>4, <3>5 DEF Terminal
  <2>3. CASE feed' = Append(feed, Event(t, "rejected"))
    <3>1. /\ n \in Nat /\ Len(feed') = n + 1 /\ feed'[n + 1] = Event(t, "rejected")
          /\ \A i \in 1..n : feed'[i] = feed[i]
      BY <1>1, <2>1, <2>3, AppendFacts
    <3>2. \A i \in 1..Len(feed') \ 1..n : i = n + 1
      BY <3>1
    <3> QED  BY <2>1, <3>1, <3>2 DEF Terminal
  <2> QED  BY <1>0, <2>2, <2>3, SubmitEffect
<1>3. \A i \in 1..n : /\ feed[i].turn \in Turns /\ feed[i].turn < t
                      /\ phase'[feed[i].turn] = phase[feed[i].turn]
  <2>1. \A i \in 1..n : feed[i] \in Events /\ feed[i].turn <= sequence
    BY <1>1 DEF History, Told
  <2> QED  BY <2>1, <1>0 DEF Events, Turns
<1>4. Told'
  <2> SUFFICES ASSUME NEW i \in 1..Len(feed')
               PROVE  /\ feed'[i].turn <= t
                      /\ feed'[i].state \in Terminal => phase'[feed'[i].turn] = "done"
                      /\ feed'[i].state = "accepted" =>
                           \/ phase'[feed'[i].turn] \in Live
                           \/ \E k \in i..Len(feed') : feed'[k].turn = feed'[i].turn /\ feed'[k].state \in Terminal
    BY <1>0 DEF Told, Tells
  <2>1. CASE i \in 1..n
    <3>1. /\ feed[i].turn <= sequence
          /\ feed[i].state \in Terminal => phase[feed[i].turn] = "done"
          /\ feed[i].state = "accepted" =>
               \/ phase[feed[i].turn] \in Live
               \/ \E k \in i..n : feed[k].turn = feed[i].turn /\ feed[k].state \in Terminal
      BY <2>1 DEF History, Told, Tells
    <3>2. \A k \in i..n : k \in 1..n /\ k \in i..Len(feed')
      BY <2>1, <1>2
    <3>3. feed'[i] = feed[i] /\ feed[i].turn < t /\ phase'[feed[i].turn] = phase[feed[i].turn]
      BY <2>1, <1>2, <1>3
    <3>4. feed'[i].turn <= t
      BY <2>1, <3>3, <1>0, <1>3 DEF Turns
    <3> QED  BY <3>1, <3>2, <3>3, <3>4, <1>2
  <2>2. CASE i \notin 1..n
    BY <2>2, <1>0, <1>2
  <2> QED  BY <2>1, <2>2
<1>5. OneTerminal'
  <2> SUFFICES ASSUME NEW i \in 1..Len(feed'), feed'[i].state \in Terminal
               PROVE  /\ \A k \in 1..Len(feed') :
                           k # i /\ feed'[k].turn = feed'[i].turn
                             => k < i /\ feed'[k].state \notin Terminal
                      /\ feed'[i].state # "completed" => outcome'[feed'[i].turn] = feed'[i].state
                      /\ feed'[i].state = "completed"
                           => outcome'[feed'[i].turn] \in {"replied", "silent"}
    BY DEF OneTerminal
  <2>1. i \in 1..n
    BY <1>2
  <2>2. feed'[i] = feed[i] /\ feed[i].turn # t
    BY <2>1, <1>0, <1>2, <1>3 DEF Turns
  <2>3. /\ \A k \in 1..n : k # i /\ feed[k].turn = feed[i].turn
                             => k < i /\ feed[k].state \notin Terminal
        /\ feed[i].state # "completed" => outcome[feed[i].turn] = feed[i].state
        /\ feed[i].state = "completed" => outcome[feed[i].turn] \in {"replied", "silent"}
    BY <2>1, <2>2 DEF History, TurnsAreSerial, FeedIsSerial, OneTerminal
  <2>4. \A k \in 1..Len(feed') : feed'[k].turn = feed'[i].turn => k \in 1..n
    BY <2>2, <1>2
  <2> QED  BY <2>2, <2>3, <2>4, <1>0, <1>2
<1>6. ASSUME NEW i \in 1..Len(feed'), NEW j \in 1..Len(feed'),
             i < j, feed'[i].state = "accepted", feed'[j].state = "accepted"
      PROVE  /\ feed'[i].turn < feed'[j].turn
             /\ \E k \in i..j : feed'[k].turn = feed'[i].turn /\ feed'[k].state \in Terminal
  <2>1. i \in 1..n
    <3>1. j \in 1..n \/ j = n + 1
      BY <1>2, <1>6
    <3> QED  BY <3>1, <1>2, <1>6
  <2>2. feed'[i] = feed[i] /\ feed[i].turn \in Turns /\ feed[i].turn < t
    BY <2>1, <1>2, <1>3
  <2>3. CASE j \in 1..n
    <3>1. PICK k \in i..j : feed[k].turn = feed[i].turn /\ feed[k].state \in Terminal
      BY <2>1, <2>2, <2>3, <1>2, <1>6 DEF History, TurnsAreSerial, FeedIsSerial
    <3>2. feed[i].turn < feed[j].turn
      BY <2>1, <2>2, <2>3, <1>2, <1>6 DEF History, TurnsAreSerial, FeedIsSerial
    <3>3. k \in 1..n
      BY <2>1, <2>3, <1>2
    <3> QED  BY <2>2, <2>3, <3>1, <3>2, <3>3, <1>2
  <2>4. CASE j \notin 1..n
    <3>1. j = n + 1 /\ feed'[j].turn = t /\ active = 0
      BY <2>4, <1>2, <1>6
    <3>2. phase[feed[i].turn] \notin Live
      BY <2>2, <3>1 DEF IInv, Lease, LiveHoldsLease, Turns
    <3>3. PICK k \in i..n : feed[k].turn = feed[i].turn /\ feed[k].state \in Terminal
      BY <2>1, <2>2, <3>2, <1>6 DEF History, Told, Tells
    <3>4. k \in 1..n /\ k \in i..j
      BY <2>1, <3>1, <1>2
    <3> QED  BY <2>2, <3>1, <3>3, <3>4, <1>2
  <2> QED  BY <2>3, <2>4
<1> QED  BY <1>4, <1>5, <1>6 DEF FeedIsSerial

\* What an end leaves of the history that is kept: an answered turn is newer than all that were
\* answered before it, and pushes out the oldest where the deque is full.
LEMMA EndRemembered ==
  ASSUME IInv, History, NEW t \in Turns, phase[t] \in Live,
         NEW how \in Outcomes \ {"none"}, outcome' = [outcome EXCEPT ![t] = how],
         memory' = IF how = "replied" THEN Remember(memory, t) ELSE memory
  PROVE  MemoryIsRecent'
<1> DEFINE Since(x) == {u \in Replied : u >= x}
           H == HistoryTurns
           n == Len(memory)
<1>0. /\ memory \in Seq(Turns) /\ n \in Nat /\ H \in Nat
      /\ \A i \in 1..n : memory[i] \in Turns
  BY HistoryTurnsAssumption DEF IInv, TypeOK
<1>1. /\ active = t /\ outcome[t] = "none" /\ outcome'[t] = how
      /\ \A u \in Turns : u # t => outcome'[u] = outcome[u]
  BY DEF IInv, TypeOK, Lease, LiveHoldsLease, History, Ended, Live
<1>2. \A u \in Replied : u \in Turns /\ u < t
  <2>1. \A u \in Turns : outcome[u] = "replied" => phase[u] = "done"
    BY DEF History, Ended
  <2> QED  BY <2>1, <1>1 DEF Replied, History, Ended, Turns
<1>3. /\ n <= H
      /\ \A i \in 1..n : memory[i] \in Replied /\ Cardinality(Since(memory[i])) = n - i + 1
      /\ n < H => n = Cardinality(Replied)
  BY DEF History, TurnsAreSerial, MemoryIsRecent
<1>4. IsFiniteSet(Replied) /\ \A x : IsFiniteSet(Since(x))
  <2>1. IsFiniteSet(Turns)
    BY FS_Interval, MaxTurnsAssumption DEF Turns
  <2> QED  BY <2>1, FS_Subset DEF Replied
<1>5. CASE how # "replied"
  <2>1. Replied' = Replied /\ memory' = memory
    BY <1>5, <1>1 DEF Replied
  <2> QED  BY <2>1, <1>3 DEF MemoryIsRecent
<1>6. CASE how = "replied"
  <2>1. Replied' = Replied \cup {t} /\ t \notin Replied
    BY <1>6, <1>1, <1>2 DEF Replied, Turns
  <2>2. Cardinality(Replied') = Cardinality(Replied) + 1
    BY <2>1, <1>4, FS_AddElement
  <2> DEFINE Now(x) == {u \in Replied' : u >= x}
  <2>3. \A x \in Replied : Cardinality(Now(x)) = Cardinality(Since(x)) + 1
    <3> SUFFICES ASSUME NEW x \in Replied
                 PROVE  Cardinality(Now(x)) = Cardinality(Since(x)) + 1
      OBVIOUS
    <3>1. Now(x) = Since(x) \cup {t} /\ t \notin Since(x)
      BY <2>1, <1>2 DEF Turns
    <3>2. IsFiniteSet(Since(x))
      BY <1>4
    <3> HIDE DEF Since, Now
    <3>3. Cardinality(Since(x) \cup {t}) = Cardinality(Since(x)) + 1
      BY <3>1, <3>2, FS_AddElement
    <3> QED  BY <3>1, <3>3
  <2>4. Now(t) = {t}
    BY <2>1, <1>2 DEF Turns
  <2>5. Cardinality(Now(t)) = 1
    BY <2>4, FS_Singleton
  <2>10. ASSUME Len(memory') <= H, Len(memory') = Cardinality(Replied') \/ Len(memory') = H,
                \A i \in 1..Len(memory') :
                  memory'[i] \in Replied' /\ Cardinality(Now(memory'[i])) = Len(memory') - i + 1
         PROVE  MemoryIsRecent'
    BY <2>10, <1>0 DEF MemoryIsRecent
  <2> HIDE DEF Since, Now
  <2>6. CASE H = 0
    BY <2>6, <1>0, <1>3, <1>6 DEF MemoryIsRecent, Remember
  <2>7. CASE H # 0 /\ n < H
    <3>1. memory' = Append(memory, t)
      BY <2>7, <1>6 DEF Remember
    <3>2. /\ Len(memory') = n + 1 /\ memory'[n + 1] = t
          /\ \A i \in 1..n : memory'[i] = memory[i]
      BY <3>1, <1>0, AppendFacts
    <3>3. ASSUME NEW i \in 1..(n + 1)
          PROVE  /\ memory'[i] \in Replied'
                 /\ Cardinality(Now(memory'[i])) = (n + 1) - i + 1
      <4>1. CASE i = n + 1
        BY <4>1, <3>2, <2>1, <2>5, <1>0
      <4>2. CASE i \in 1..n
        <5>1. Cardinality(Since(memory[i])) = n - i + 1 /\ memory[i] \in Replied
          BY <4>2, <1>3
        <5>2. Cardinality(Now(memory[i])) = (n - i + 1) + 1
          BY <5>1, <2>3
        <5> QED  BY <4>2, <5>1, <5>2, <3>2, <2>1, <1>0
      <4> QED  BY <4>1, <4>2, <1>0
    <3>4. Len(memory') <= H /\ Len(memory') = Cardinality(Replied')
      BY <3>2, <2>2, <2>7, <1>0, <1>3
    <3> QED  BY <3>2, <3>3, <3>4, <2>10
  <2>8. CASE H # 0 /\ ~(n < H)
    <3>0. n = H /\ n # 0 /\ memory # <<>>
      BY <2>8, <1>0, <1>3
    <3>1. memory' = Append(Tail(memory), t)
      BY <2>8, <1>6 DEF Remember
    <3>2. /\ Tail(memory) \in Seq(Turns) /\ Len(Tail(memory)) = n - 1
          /\ \A i \in 1..(n - 1) : Tail(memory)[i] = memory[i + 1]
      BY <3>0, <1>0
    <3>3. /\ Len(memory') = n /\ memory'[n] = t
          /\ \A i \in 1..(n - 1) : memory'[i] = memory[i + 1]
      <4> DEFINE rest == Tail(memory)
      <4> HIDE DEF rest
      <4>1. /\ rest \in Seq(Turns) /\ Len(rest) = n - 1
            /\ \A i \in 1..(n - 1) : rest[i] = memory[i + 1]
        BY <3>2 DEF rest
      <4>2. memory' = Append(rest, t)
        BY <3>1 DEF rest
      <4>3. /\ Len(memory') = Len(rest) + 1 /\ memory'[Len(rest) + 1] = t
            /\ \A i \in 1..Len(rest) : memory'[i] = rest[i]
        BY <4>1, <4>2, AppendFacts
      <4> QED  BY <4>1, <4>3, <1>0
    <3>4. ASSUME NEW i \in 1..n
          PROVE  /\ memory'[i] \in Replied'
                 /\ Cardinality(Now(memory'[i])) = n - i + 1
      <4>1. CASE i = n
        BY <4>1, <3>3, <2>1, <2>5, <1>0
      <4>2. CASE i \in 1..(n - 1)
        <5>0. i + 1 \in 1..n
          BY <4>2, <1>0
        <5>1. Cardinality(Since(memory[i + 1])) = n - (i + 1) + 1 /\ memory[i + 1] \in Replied
          BY <5>0, <1>3
        <5>2. Cardinality(Now(memory[i + 1])) = (n - (i + 1) + 1) + 1
          BY <5>1, <2>3
        <5> QED  BY <4>2, <5>1, <5>2, <3>3, <2>1, <1>0
      <4> QED  BY <4>1, <4>2, <1>0
    <3>5. Len(memory') = n /\ n = H /\ n <= H
      BY <3>0, <3>3, <1>0
    <3> HIDE DEF H, n
    <3> QED  BY <3>4, <3>5, <2>10
  <2> QED  BY <2>6, <2>7, <2>8
<1> QED  BY <1>5, <1>6

\* The history is kept by every step.
LEMMA HistoryKept == IInv /\ History /\ [Next]_vars => History'
<1> SUFFICES ASSUME IInv, History, [Next]_vars PROVE History'
  OBVIOUS
<1>0. phase \in [Turns -> Phases] /\ outcome \in [Turns -> Outcomes]
  BY DEF IInv, TypeOK
<1>1. CASE UNCHANGED <<active, sequence, phase, outcome, memory, feed>>
  <2>1. Ended' /\ Told'
    BY <1>1 DEF History, Ended, Told, Tells
  <2>2. FeedIsSerial'
    BY <1>1 DEF History, TurnsAreSerial, FeedIsSerial, OneTerminal
  <2>3. MemoryIsRecent'
    BY <1>1 DEF History, TurnsAreSerial, MemoryIsRecent, Replied
  <2> QED  BY <2>1, <2>2, <2>3 DEF History, TurnsAreSerial
<1>2. CASE Submit
  <2>1. Ended'
    <3>1. /\ sequence' = sequence + 1 /\ sequence' \in Turns /\ outcome' = outcome
          /\ sequence \in Nat /\ phase[sequence'] = "none"
          /\ active' \in {active, sequence'}
          /\ \/ phase' = [phase EXCEPT ![sequence'] = "created"]
             \/ phase' = [phase EXCEPT ![sequence'] = "refused"]
      BY <1>2, SubmitEffect, MaxTurnsAssumption DEF IInv, TypeOK, Lease
    <3>2. \A u \in Turns : phase'[u] = "done" <=> phase[u] = "done"
      BY <3>1, <1>0
    <3>3. \A u \in Turns : phase[u] = "done" => u < sequence'
      BY <3>1, <1>0 DEF IInv, Lease, Turns
    <3> QED  BY <3>1, <3>2, <3>3 DEF History, Ended
  <2>2. UNCHANGED <<outcome, memory>>
    BY <1>2, SubmitEffect
  <2>3. MemoryIsRecent'
    BY <2>2 DEF History, TurnsAreSerial, MemoryIsRecent, Replied
  <2> QED  BY <1>2, <2>1, <2>3, SubmitTold DEF History, TurnsAreSerial
<1>3. ASSUME NEW t \in Turns, TaskStep(t) PROVE History'
  <2>1. /\ phase[t] \in Live /\ sequence' = sequence
        /\ \E p : phase' = [phase EXCEPT ![t] = p]
    BY <1>3, TaskEffect
  <2>2. CASE UNCHANGED <<outcome, memory, feed, active>> /\ phase'[t] \in Live
    <3>1. \A u \in Turns : /\ phase'[u] = "done" <=> phase[u] = "done"
                           /\ phase'[u] \in Live <=> phase[u] \in Live
      BY <2>1, <2>2, <1>0 DEF Live
    <3>2. Ended'
      BY <2>2, <3>1 DEF History, Ended
    <3>3. Told'
      <4>1. \A i \in 1..Len(feed) : feed[i].turn \in Turns
        <5>1. feed \in Seq(Events)
          BY DEF IInv, TypeOK, Events
        <5>2. \A i \in 1..Len(feed) : feed[i] \in Events
          BY <5>1
        <5> QED  BY <5>2 DEF Events
      <4> QED  BY <2>1, <2>2, <3>1, <4>1 DEF History, Told, Tells
    <3>4. TurnsAreSerial'
      BY <2>2 DEF History, TurnsAreSerial, FeedIsSerial, OneTerminal, MemoryIsRecent, Replied
    <3> QED  BY <3>2, <3>3, <3>4 DEF History
  <2>3. CASE /\ active' = 0 /\ phase' = [phase EXCEPT ![t] = "done"]
             /\ \E e \in Events : \E how \in Outcomes \ {"none"} :
                  /\ feed' = Append(feed, e) /\ e.turn = t /\ e.state \in Terminal
                  /\ outcome' = [outcome EXCEPT ![t] = how]
                  /\ e.state = "completed" => how \in {"replied", "silent"}
                  /\ e.state # "completed" => how = e.state
                  /\ memory' = IF how = "replied" THEN Remember(memory, t) ELSE memory
    <3>1. PICK e \in Events, how \in Outcomes \ {"none"} :
            /\ feed' = Append(feed, e) /\ e.turn = t /\ e.state \in Terminal
            /\ outcome' = [outcome EXCEPT ![t] = how]
            /\ e.state = "completed" => how \in {"replied", "silent"}
            /\ e.state # "completed" => how = e.state
            /\ memory' = IF how = "replied" THEN Remember(memory, t) ELSE memory
      BY <2>3
    <3>2. Told' /\ FeedIsSerial'
      BY <2>1, <2>3, <3>1, EndTold
    <3>3. MemoryIsRecent'
      BY <2>1, <3>1, EndRemembered
    <3>4. Ended'
      BY <2>3, <3>1, <1>0 DEF History, Ended
    <3> QED  BY <3>2, <3>3, <3>4 DEF History, TurnsAreSerial
  <2> QED  BY <1>3, <2>2, <2>3, EndEffect
<1>4. CASE Ready \/ Stop \/ Close \/ Stopped
  BY <1>1, <1>4 DEF Ready, Stop, Close, Stopped
<1> QED  BY <1>1, <1>2, <1>3, <1>4 DEF Next, vars

LEMMA HistoryInitially == Init => History
<1> SUFFICES ASSUME Init PROVE History
  OBVIOUS
<1>1. Replied = {} /\ Len(memory) = 0 /\ Len(feed) = 0
  BY DEF Init, Replied
<1>2. MemoryIsRecent
  BY <1>1, FS_EmptySet, HistoryTurnsAssumption DEF MemoryIsRecent
<1>3. Told /\ FeedIsSerial
  BY <1>1 DEF Told, FeedIsSerial, OneTerminal
<1>4. Ended
  BY DEF Init, Ended
<1> QED  BY <1>2, <1>3, <1>4 DEF History, TurnsAreSerial

\* The inductive invariant of the lease, in every reachable state.
THEOREM LeaseInvariant == Safety => []IInv
<1>1. IInv /\ [Next]_vars => IInv'
  BY Typed, Staged, Leased DEF IInv
<1> QED  BY <1>1, Initially, PTL DEF Safety

\* The variables keep their types.
THEOREM TypeCorrect == Safety => []TypeOK
<1>1. IInv => TypeOK
  BY DEF IInv
<1> QED  BY <1>1, LeaseInvariant, PTL

\* Two turns are never in the pipeline together and no dead task holds the lease.
THEOREM SingleTurn == Safety => []LiveHoldsLease
<1>1. IInv => LiveHoldsLease
  BY DEF IInv, Lease
<1> QED  BY <1>1, LeaseInvariant, PTL

\* Nothing is at work once the lifespan reports "stopped".
THEOREM Quiet == Safety => []StoppedIsQuiet
<1>1. IInv => StoppedIsQuiet
  BY DEF IInv, Lease, LiveHoldsLease, StoppedIsQuiet, Turns
<1> QED  BY <1>1, LeaseInvariant, PTL

\* Turn states are published turn by turn, a turn has one terminal state, and the history offered
\* to the model is that of the turns that were answered last.
THEOREM SerialTurns == Safety => []TurnsAreSerial
<1>1. History => TurnsAreSerial
  BY DEF History
<1>2. Safety => []History
  BY HistoryInitially, HistoryKept, LeaseInvariant, PTL DEF Safety
<1> QED  BY <1>1, <1>2, PTL

\* The supervisor implements the single-flight lease: every attempt, failure,
\* cancellation and stage of the lifespan is a grant, a release, a move of the
\* gate or none of these.
THEOREM ImplementsSingleFlight == Safety => FlightSafety
<1>1. Init => Flight!Init
  BY DEF Init, Flight!Init, Admitted, Gate, Live
<1>2. IInv /\ [Next]_vars => [Flight!Next]_<<active, Admitted, Gate>>
  <2> SUFFICES ASSUME IInv, [Next]_vars
               PROVE  [Flight!Next]_<<active, Admitted, Gate>>
    OBVIOUS
  <2>0. phase \in [Turns -> Phases] /\ sequence \in Nat
    BY MaxTurnsAssumption DEF IInv, TypeOK
  <2>1. CASE UNCHANGED vars
    BY <2>1 DEF vars, Admitted, Gate
  <2>2. CASE Submit
    <3>1. /\ sequence' = sequence + 1 /\ sequence' \in Turns
          /\ runtime' = runtime
      BY <2>2, SubmitEffect
    <3>2. Gate' = Gate
      BY <3>1 DEF Gate
    <3>3. phase[sequence'] = "none"
      BY <3>1, <2>0 DEF IInv, Lease
    <3>4. CASE /\ runtime = "ready" /\ active = 0
               /\ active' = sequence'
               /\ phase' = [phase EXCEPT ![sequence'] = "created"]
      <4>1. Admitted' = Admitted \cup {active'}
        BY <3>1, <3>3, <3>4, <2>0 DEF Admitted, Live
      <4>2. \A t \in Admitted : t <= sequence
        BY <2>0 DEF Admitted, IInv, Lease, Live, Turns
      <4>3. \A t \in Admitted : t < active'
        BY <4>2, <3>1, <3>4, <2>0 DEF Admitted, Turns
      <4>4. Gate = "open" /\ active' \in Nat \ {0}
        BY <3>1, <3>4 DEF Gate, Turns
      <4>5. Flight!Grant
        BY <3>2, <3>4, <4>1, <4>3, <4>4 DEF Flight!Grant
      <4> QED  BY <4>5 DEF Flight!Next
    <3>5. CASE active' = active /\ phase' = [phase EXCEPT ![sequence'] = "refused"]
      <4>1. Admitted' = Admitted
        BY <3>1, <3>3, <3>5, <2>0 DEF Admitted, Live
      <4> QED  BY <3>2, <3>5, <4>1
    <3> QED  BY <3>4, <3>5, <2>2, SubmitEffect
  <2>3. ASSUME NEW t \in Turns, TaskStep(t)
        PROVE  [Flight!Next]_<<active, Admitted, Gate>>
    <3>1. PICK p \in (Live \ {"created"}) \cup {"done"} :
             /\ phase' = [phase EXCEPT ![t] = p]
             /\ active' = IF p = "done" THEN 0 ELSE active
      BY <2>3, TaskEffect
    <3>2. phase[t] \in Live /\ runtime' = runtime
      BY <2>3, TaskEffect
    <3>3. Admitted' = Admitted
      BY <3>1, <3>2, <2>0 DEF Admitted
    <3>4. Gate' = Gate
      BY <3>2 DEF Gate
    <3>5. active # 0
      BY <3>2 DEF IInv, Lease, LiveHoldsLease, Turns
    <3>6. CASE p = "done"
      <4>1. Flight!Release
        BY <3>1, <3>3, <3>4, <3>5, <3>6 DEF Flight!Release
      <4> QED  BY <4>1 DEF Flight!Next
    <3>7. CASE p # "done"
      BY <3>1, <3>3, <3>4, <3>7
    <3> QED  BY <3>6, <3>7
  <2>4. CASE Ready \/ Stop \/ Close \/ Stopped
    <3>1. UNCHANGED <<active, Admitted>>
      BY <2>4 DEF Ready, Stop, Close, Stopped, Admitted
    <3>2. \/ Gate' = Gate
          \/ Gate = "before" /\ Gate' = "open"
          \/ Gate = "open" /\ Gate' = "shut"
      BY <2>4 DEF Ready, Stop, Close, Stopped, Gate, IInv, Stages
    <3> QED  BY <3>1, <3>2 DEF Flight!Next, Flight!OpenGate, Flight!ShutGate
  <2> QED  BY <2>1, <2>2, <2>3, <2>4 DEF Next
<1> QED  BY <1>1, <1>2, LeaseInvariant, PTL
         DEF Safety, FlightSafety, Flight!Safety, Flight!flightVars

-----------------------------------------------------------------------------
(* The long-term memory                                                    *)

\* What a call does, how far it has come, and how it was answered.
Kinds == {"none", "observe", "close", "context", "list", "delete", "update", "clear"}
Standings == {"none", "extracts", "waits", "creates", "works", "left", "closes", "done"}

Answers == {"none", "refused", "empty", "rows", "kept", "missing", "gone", "changed", "failed",
            "given_up"}

Shape == [kind : Kinds, fact : Facts \cup {"none"}, id : Nat, stage : Standings, answer : Answers]

\* What TypeOK leaves open.
Typing ==
  /\ Recall!TypeOK
  /\ provider \in {"none", "sqlite", "hindsight"} /\ nextId \in Nat
  /\ call \in [Recall!Calls -> Shape]
  /\ \A c \in Recall!Calls :
       /\ call[c].kind \in {"observe", "update"} => call[c].fact \in Facts
       /\ call[c].kind = "none" <=> call[c].stage = "none"
       /\ call[c].stage = "closes" => call[c].kind = "close"
       /\ call[c].kind = "close" => call[c].stage \in {"closes", "done"}
  /\ \A o \in pending : call[o].kind = "observe"

Locking ==
  provider = "sqlite" =>
    \A c \in Recall!Calls : /\ call[c].stage = "creates" => lock = c
                            /\ Recall!Changes(c) /\ ~cut => lock = c

\* Each call that ends has used up one id at most.
Used == {c \in Recall!Calls : call[c].stage = "done"}

Numbering ==
  /\ \A f \in Facts : record[f] < nextId
  /\ nextId <= 1 + Cardinality(Used)
  /\ \A f, g \in Facts : record[f] = record[g] => (f = g \/ record[f] = Recall!NoRecord)

Closing ==
  \A c \in Recall!Calls : call[c].kind = "close" =>
    /\ \A o \in Recall!Calls : call[o].kind = "observe" /\ call[o].stage # "done" => o \in pending
    /\ call[c].stage = "done" /\ ~cut => \A o \in pending : call[o].stage = "done"

RInv == Typing /\ Locking /\ Numbering /\ Closing

-----------------------------------------------------------------------------
(* The table that a transaction leaves *)

\* A table in which an id is the id of one fact, and none is above the next.
Sound(table) ==
  /\ table \in [Facts -> 0..nextId]
  /\ \A f, g \in Facts : table[f] = table[g] => (f = g \/ table[f] = 0)

LEMMA ResultFacts ==
  ASSUME Typing, Numbering, NEW c \in Recall!Calls, call[c].stage \in {"works", "left"}
  PROVE  Sound(Recall!Result(call[c]).table) /\ Recall!Result(call[c]).answer \in Answers
<1> DEFINE k == call[c]
           table == Recall!Purged(k.kind)
           r == Recall!Result(k)
<1>0. SUFFICES Sound(r.table) /\ r.answer \in Answers
  OBVIOUS
<1>1. /\ k.kind \in Recall!Reads \cup Recall!Edits \cup {"observe"} /\ k.id \in Nat
      /\ k.kind \in {"observe", "update"} => k.fact \in Facts
  BY DEF Typing, Shape, Kinds, Recall!Reads, Recall!Edits
<1>2. Sound(record) /\ nextId \in Nat
  BY DEF Typing, Numbering, Sound, Recall!TypeOK, Recall!NoRecord
<1>3. Sound(table) /\ \A f \in Facts : table[f] < nextId
  <2>1. table = record \/ table = [f \in Facts |-> IF f \in old THEN 0 ELSE record[f]]
    BY DEF Recall!Purged, Recall!NoRecord
  <2>2. \A f \in Facts : record[f] < nextId /\ record[f] \in Nat
    BY DEF Typing, Numbering, Recall!TypeOK
  <2>3. 0 < nextId \/ Facts = {}
    BY <1>2, <2>2
  <2>4. CASE table = record
    BY <1>2, <2>2, <2>4
  <2>5. CASE table = [f \in Facts |-> IF f \in old THEN 0 ELSE record[f]]
    <3>1. \A f \in Facts : table[f] = IF f \in old THEN 0 ELSE record[f]
      BY <2>5
    <3>2. table \in [Facts -> 0..nextId]
      BY <1>2, <2>5 DEF Sound
    <3> HIDE DEF table
    <3>3. \A f \in Facts : table[f] < nextId
      BY <2>2, <2>3, <3>1
    <3>4. \A f, g \in Facts : table[f] = table[g] => (f = g \/ table[f] = 0)
      BY <1>2, <3>1 DEF Sound
    <3> QED  BY <3>2, <3>3, <3>4 DEF Sound
  <2> QED  BY <2>1, <2>4, <2>5
<1> HIDE DEF table, k
<1>4. CASE provider = "none"
  <2>1. r.table = record /\ r.answer = "empty"
    BY <1>1, <1>4 DEF Recall!Result, Recall!Reads, Recall!Edits
  <2> HIDE DEF r
  <2> QED  BY <1>2, <2>1 DEF Answers
<1>5. CASE provider # "none" /\ k.kind \in Recall!Reads
  <2>1. r.table = table /\ r.answer = "rows"
    BY <1>5 DEF Recall!Result, Recall!Reads, table
  <2> HIDE DEF r
  <2> QED  BY <1>3, <2>1 DEF Answers
<1>6. CASE provider # "none" /\ k.kind = "observe"
  <2>1. r.answer = "kept" /\ r.table = IF table[k.fact] = 0 THEN [table EXCEPT ![k.fact] = nextId] ELSE table
    BY <1>6 DEF Recall!Result, Recall!Reads, table, Recall!NoRecord
  <2>2. k.fact \in Facts /\ nextId \in 0..nextId
    BY <1>1, <1>2, <1>6
  <2> HIDE DEF r
  <2>3. Sound(r.table)
    <3>1. CASE table[k.fact] = 0
      <4>1. r.table = [table EXCEPT ![k.fact] = nextId]
        BY <2>1, <3>1
      <4>2. r.table \in [Facts -> 0..nextId]
        BY <1>3, <2>2, <4>1 DEF Sound
      <4>3. \A f \in Facts : r.table[f] = IF f = k.fact THEN nextId ELSE table[f]
        BY <1>3, <4>1 DEF Sound
      <4>4. \A f \in Facts : table[f] # nextId
        BY <1>2, <1>3 DEF Sound
      <4> QED  BY <1>3, <4>2, <4>3, <4>4 DEF Sound
    <3>2. CASE table[k.fact] # 0
      BY <1>3, <2>1, <3>2
    <3> QED  BY <3>1, <3>2
  <2> QED  BY <2>1, <2>3 DEF Answers
<1>7. CASE provider # "none" /\ k.kind \in {"delete", "clear"}
  <2>1. /\ r.answer \in {"gone", "missing"}
        /\ \/ r.table = [f \in Facts |-> IF table[f] = k.id THEN 0 ELSE table[f]]
           \/ r.table = [f \in Facts |-> 0]
    BY <1>7 DEF Recall!Result, Recall!Reads, table, Recall!NoRecord
  <2> HIDE DEF r
  <2>2. \A f \in Facts : r.table[f] \in {0, table[f]}
    BY <2>1
  <2>3. r.table \in [Facts -> 0..nextId]
    BY <1>2, <1>3, <2>1 DEF Sound
  <2>4. Sound(r.table)
    BY <1>3, <2>2, <2>3 DEF Sound
  <2> QED  BY <2>1, <2>4 DEF Answers
<1>8. CASE provider # "none" /\ k.kind = "update"
  <2> DEFINE moved == [f \in Facts |-> IF f = k.fact THEN k.id ELSE IF table[f] = k.id THEN 0 ELSE table[f]]
             refused == Recall!Holds(table, k.id) = {} \/ table[k.fact] \notin {0, k.id}
  <2>1. r = IF refused THEN [table |-> table, answer |-> "missing"]
                       ELSE [table |-> moved, answer |-> "changed"]
    BY <1>8 DEF Recall!Result, Recall!Reads, table, Recall!NoRecord
  <2>2. CASE refused
    <3>1. r.table = table /\ r.answer = "missing"
      BY <2>1, <2>2
    <3> QED  BY <1>3, <3>1 DEF Answers
  <2>3. CASE ~refused
    <3>1. r.table = moved /\ r.answer = "changed"
      BY <2>1, <2>3
    <3>2. \E f \in Facts : table[f] = k.id
      BY <2>3 DEF Recall!Holds
    <3>3. k.id \in 0..nextId
      BY <1>3, <3>2 DEF Sound
    <3>4. moved \in [Facts -> 0..nextId]
      BY <1>2, <1>3, <3>3 DEF Sound
    <3>5. \A f \in Facts : moved[f] = IF f = k.fact THEN k.id ELSE IF table[f] = k.id THEN 0 ELSE table[f]
      OBVIOUS
    <3> HIDE DEF moved, r
    <3>6. \A f, g \in Facts : moved[f] = moved[g] => (f = g \/ moved[f] = 0)
      BY <1>3, <3>5 DEF Sound
    <3> QED  BY <3>1, <3>4, <3>6 DEF Sound, Answers
  <2> QED  BY <2>2, <2>3
<1> QED  BY <1>1, <1>4, <1>5, <1>6, <1>7, <1>8 DEF Recall!Edits

-----------------------------------------------------------------------------
(* Calls that go on *)

LEMMA CallFacts ==
  /\ IsFiniteSet(Recall!Calls) /\ Cardinality(Recall!Calls) = MaxCalls /\ MaxCalls \in Nat
  /\ Recall!NoCall \notin Recall!Calls
<1>1. MaxCalls \in Nat
  BY RecallAssumption DEF Recall!MemoryBounds
<1> QED  BY <1>1, FS_Interval DEF Recall!Calls, Recall!NoCall

\* What a step may do to a call that is at work.
Moves(c) ==
  \/ call'[c] = call[c]
  \/ /\ call'[c] \in Shape /\ call'[c].kind = call[c].kind /\ call'[c].fact = call[c].fact
     /\ call[c].stage \notin {"none", "done"} /\ call'[c].stage \notin {"none", "closes"}
     /\ call[c].kind = "close" =>
          call'[c].stage = "done" /\ (cut' \/ \A o \in pending : call[o].stage = "done")

Moving ==
  /\ call' \in [Recall!Calls -> Shape] /\ \A c \in Recall!Calls : Moves(c)
  /\ UNCHANGED <<provider, pending>> /\ (cut => cut')

LEMMA Moved ==
  ASSUME Typing, Closing, Moving
  PROVE  /\ Closing' /\ Used \subseteq Used'
         /\ \A o \in pending' : call'[o].kind = "observe"
         /\ \A c \in Recall!Calls :
              /\ call'[c].kind \in {"observe", "update"} => call'[c].fact \in Facts
              /\ call'[c].kind = "none" <=> call'[c].stage = "none"
              /\ call'[c].stage = "closes" => call'[c].kind = "close"
              /\ call'[c].kind = "close" => call'[c].stage \in {"closes", "done"}
              /\ call'[c].stage \in Standings /\ call'[c].kind = call[c].kind
<1>1. \A c \in Recall!Calls :
        /\ call'[c].kind \in {"observe", "update"} => call'[c].fact \in Facts
        /\ call'[c].kind = "none" <=> call'[c].stage = "none"
        /\ call'[c].stage = "closes" => call'[c].kind = "close"
        /\ call'[c].kind = "close" => call'[c].stage \in {"closes", "done"}
        /\ call'[c].stage \in Standings /\ call'[c].kind = call[c].kind
        /\ call[c].stage = "done" => call'[c].stage = "done"
  BY DEF Typing, Moving, Moves, Shape
<1>2. Used \subseteq Used'
  BY <1>1 DEF Used
<1>3. Closing'
  <2> SUFFICES ASSUME NEW c \in Recall!Calls, call'[c].kind = "close"
               PROVE  /\ \A o \in Recall!Calls :
                           call'[o].kind = "observe" /\ call'[o].stage # "done" => o \in pending'
                      /\ call'[c].stage = "done" /\ ~cut' => \A o \in pending' : call'[o].stage = "done"
    BY DEF Closing
  <2>1. call[c].kind = "close" /\ pending' = pending /\ pending \subseteq Recall!Calls
    BY <1>1 DEF Moving, Typing, Recall!TypeOK
  <2>2. \A o \in Recall!Calls : call'[o].kind = "observe" /\ call'[o].stage # "done" => o \in pending'
    BY <1>1, <2>1 DEF Closing
  <2>3. ASSUME call'[c].stage = "done", ~cut' PROVE \A o \in pending : call[o].stage = "done"
    <3>1. CASE call'[c] = call[c]
      BY <2>1, <2>3, <3>1 DEF Closing, Moving
    <3>2. CASE call'[c] # call[c]
      BY <2>1, <2>3, <3>2 DEF Moving, Moves
    <3> QED  BY <3>1, <3>2
  <2> QED  BY <1>1, <2>1, <2>2, <2>3
<1>4. \A o \in pending' : call'[o].kind = "observe"
  BY <1>1 DEF Moving, Typing, Recall!TypeOK
<1> QED  BY <1>1, <1>2, <1>3, <1>4

\* With the table left alone, the numbering is kept.
LEMMA TableKept ==
  ASSUME Typing, Numbering, Used \subseteq Used', UNCHANGED <<record, nextId>>
  PROVE  Numbering'
<1>1. IsFiniteSet(Used') /\ Cardinality(Used') \in Nat /\ Cardinality(Used) \in Nat
  <2>1. Used' \subseteq Recall!Calls /\ Used \subseteq Recall!Calls
    BY DEF Used
  <2> QED  BY <2>1, CallFacts, FS_Subset, FS_CardinalityType
<1>2. Cardinality(Used) <= Cardinality(Used')
  BY <1>1, FS_Subset
<1>3. nextId <= 1 + Cardinality(Used')
  BY <1>1, <1>2 DEF Numbering, Typing
<1> QED  BY <1>3 DEF Numbering, Recall!NoRecord

\* A thread ends: its call does, and the table is what Result says.
LEMMA Committed ==
  ASSUME Typing, Numbering, NEW c \in Recall!Calls, call[c].stage \in {"works", "left"},
         Recall!Commit(call[c]), Used \subseteq Used', call'[c].stage = "done"
  PROVE  Numbering' /\ record' \in [Facts -> 0..MaxCalls] /\ old' \subseteq Facts /\ nextId' \in Nat
<1> DEFINE table == Recall!Result(call[c]).table
<1>1. record' = table /\ nextId' = IF \E f \in Facts : table[f] = nextId THEN nextId + 1 ELSE nextId
  BY DEF Recall!Commit
<1>2. Sound(table) /\ nextId \in Nat
  BY ResultFacts DEF Typing
<1>3. old' \subseteq Facts
  BY DEF Recall!Commit, Typing, Recall!TypeOK
<1> HIDE DEF table
<1>4. Cardinality(Used) + 1 <= Cardinality(Used') /\ Cardinality(Used') <= MaxCalls
      /\ Cardinality(Used) \in Nat /\ Cardinality(Used') \in Nat
  <2>1. Used' \subseteq Recall!Calls /\ c \in Used' /\ c \notin Used
    BY DEF Used
  <2> DEFINE S == Used
             T == Used'
  <2>2. S \subseteq T /\ T \subseteq Recall!Calls /\ c \in T /\ c \notin S
    BY <2>1
  <2> HIDE DEF S, T
  <2>3. IsFiniteSet(T) /\ Cardinality(T) <= MaxCalls
    BY <2>2, CallFacts, FS_Subset
  <2>4. IsFiniteSet(S) /\ Cardinality(S) <= Cardinality(T) /\ Cardinality(S) # Cardinality(T)
    BY <2>2, <2>3, FS_Subset
  <2>5. Cardinality(S) \in Nat /\ Cardinality(T) \in Nat
    BY <2>3, <2>4, FS_CardinalityType
  <2>6. Cardinality(S) + 1 <= Cardinality(T)
    BY <2>4, <2>5
  <2> QED  BY <2>3, <2>5, <2>6 DEF S, T
<1>5. nextId' \in Nat /\ nextId' <= 1 + Cardinality(Used') /\ \A f \in Facts : table[f] < nextId'
  <2>1. \A f \in Facts : table[f] \in 0..nextId
    BY <1>2 DEF Sound
  <2>2. nextId <= 1 + Cardinality(Used)
    BY DEF Numbering
  <2>3. CASE \E f \in Facts : table[f] = nextId
    BY <1>1, <1>2, <1>4, <2>1, <2>2, <2>3
  <2>4. CASE ~\E f \in Facts : table[f] = nextId
    BY <1>1, <1>2, <1>4, <2>1, <2>2, <2>4
  <2> QED  BY <2>3, <2>4
<1>6. record' \in [Facts -> 0..MaxCalls]
  <2>1. \A f \in Facts : table[f] \in 0..MaxCalls
    BY <1>2, <1>4, <1>5, CallFacts DEF Sound
  <2> QED  BY <1>1, <1>2, <2>1 DEF Sound
<1>7. Numbering'
  BY <1>1, <1>2, <1>5 DEF Numbering, Sound, Recall!NoRecord
<1> QED  BY <1>3, <1>5, <1>6, <1>7

-----------------------------------------------------------------------------
(* The steps *)

\* A call gives up its await: it is done, or its thread is left behind.
LEMMA AbandonedFacts ==
  ASSUME NEW c \in Recall!Calls, NEW k \in Shape
  PROVE  LET a == Recall!Abandoned(c, k)
         IN /\ a \in Shape /\ a.kind = k.kind /\ a.fact = k.fact
            /\ a.stage = IF k.stage = "works" /\ provider # "none" THEN "left" ELSE "done"
<1> DEFINE stage == IF k.stage = "works" /\ provider # "none" THEN "left" ELSE "done"
<1>1. stage \in Standings /\ "given_up" \in Answers
  BY DEF Standings, Answers
<1>2. Recall!Abandoned(c, k) = [k EXCEPT !.answer = "given_up", !.stage = stage]
  BY DEF Recall!Abandoned
<1> HIDE DEF stage
<1>4. /\ Recall!Abandoned(c, k) \in Shape /\ Recall!Abandoned(c, k).stage = stage
      /\ Recall!Abandoned(c, k).kind = k.kind /\ Recall!Abandoned(c, k).fact = k.fact
  BY <1>1, <1>2 DEF Shape
<1> QED  BY <1>4 DEF stage

\* A step of the calls that leaves the table alone.
LEMMA QuietStep ==
  ASSUME RInv, Moving, UNCHANGED <<record, nextId>>, old' \subseteq Facts,
         lock' \in Recall!Calls \cup {0}, initialized' \in BOOLEAN, cut' \in BOOLEAN, Locking'
  PROVE  RInv'
<1>1. Closing' /\ Numbering'
  BY Moved, TableKept DEF RInv
<1>2. Typing'
  <2>1. Recall!TypeOK'
    BY Moved DEF RInv, Typing, Recall!TypeOK, Recall!NoCall, Moving, Standings
  <2> QED  BY <2>1, Moved DEF RInv, Typing, Moving
<1> QED  BY <1>1, <1>2 DEF RInv

LEMMA ArriveStep ==
  ASSUME RInv, NEW c \in Recall!Calls, NEW kind \in Kinds \ {"none"}, NEW f \in Facts \cup {"none"},
         NEW id \in Nat, Recall!Arrive(c, kind, f, id),
         kind \in {"observe", "update"} => f \in Facts,
         kind \in {"observe", "close"} => \A e \in Recall!Calls : call[e].kind # "close"
  PROVE  RInv'
<1> DEFINE refused == kind \in Recall!Edits /\ provider = "hindsight"
           stage == IF kind = "observe" /\ extraction = "llm" THEN "extracts"
                    ELSE IF kind = "close" THEN "closes"
                    ELSE IF refused THEN "done" ELSE Recall!Enters(kind)
           k == [kind |-> kind, fact |-> f, id |-> id, stage |-> stage,
                 answer |-> IF refused THEN "refused" ELSE "none"]
<1>0. /\ Typing /\ Locking /\ Numbering /\ Closing /\ call[c].kind = "none" /\ call[c].stage = "none"
      /\ UNCHANGED <<provider, extraction, lock, initialized, record, old, nextId, cut>>
  BY DEF RInv, Recall!Arrive, Recall!Unused
<1>1. call' = [call EXCEPT ![c] = k]
  BY DEF Recall!Arrive
<1>2. /\ Recall!Enters(kind) \in {"waits", "works"}
      /\ provider = "sqlite" /\ Recall!Enters(kind) = "works" => kind \in Recall!Reads
  BY DEF Recall!Enters
<1>3. /\ stage \in {"extracts", "closes", "done", "waits", "works"}
      /\ stage = "closes" <=> kind = "close"
      /\ provider = "sqlite" /\ stage = "works" => kind \in Recall!Reads
  BY <1>2 DEF Recall!Edits, Recall!Reads
<1> HIDE DEF stage
<1>4. k \in Shape /\ k.stage = stage /\ k.kind = kind /\ k.fact = f
  BY <1>3 DEF Shape, Standings, Answers
<1> HIDE DEF k
<1>5. /\ call' \in [Recall!Calls -> Shape] /\ call'[c] = k
      /\ \A d \in Recall!Calls \ {c} : call'[d] = call[d]
  BY <1>0, <1>1, <1>4 DEF Typing
<1>6. pending' = IF kind # "close" THEN pending
                 ELSE {o \in Recall!Calls : call[o].kind = "observe" /\ call[o].stage # "done"}
  BY DEF Recall!Arrive
<1>7. Typing'
  <2>1. \A d \in Recall!Calls : call'[d].stage \in Standings
    BY <1>5 DEF Shape
  <2>2. Recall!TypeOK'
    BY <1>0, <1>6, <2>1 DEF Typing, Recall!TypeOK, Standings
  <2>3. ASSUME NEW d \in Recall!Calls
        PROVE  /\ call'[d].kind \in {"observe", "update"} => call'[d].fact \in Facts
               /\ call'[d].kind = "none" <=> call'[d].stage = "none"
               /\ call'[d].stage = "closes" => call'[d].kind = "close"
               /\ call'[d].kind = "close" => call'[d].stage \in {"closes", "done"}
    <3>1. CASE d = c
      BY <1>3, <1>4, <1>5, <3>1
    <3>2. CASE d # c
      BY <1>0, <1>5, <3>2 DEF Typing
    <3> QED  BY <3>1, <3>2
  <2>4. ASSUME NEW o \in pending' PROVE call'[o].kind = "observe"
    <3>1. o \in Recall!Calls /\ call[o].kind = "observe"
      BY <1>0, <1>6, <2>4 DEF Typing, Recall!TypeOK
    <3> QED  BY <1>0, <1>5, <3>1
  <2> QED  BY <1>0, <1>5, <2>2, <2>3, <2>4 DEF Typing
<1>8. Locking'
  <2> SUFFICES ASSUME provider = "sqlite", NEW d \in Recall!Calls
               PROVE  /\ call'[d].stage = "creates" => lock = d
                      /\ Recall!Changes(d)' /\ ~cut => lock = d
    BY <1>0 DEF Locking
  <2>1. CASE d = c
    BY <1>3, <1>4, <1>5, <2>1 DEF Recall!Changes, Recall!Edits, Recall!Reads
  <2>2. CASE d # c
    BY <1>0, <1>5, <2>2 DEF Locking, Recall!Changes
  <2> QED  BY <2>1, <2>2
<1>9. Numbering'
  <2>1. Used \subseteq Used'
    BY <1>0, <1>5 DEF Used
  <2> QED  BY <1>0, <2>1, TableKept
<1>10. Closing'
  <2> SUFFICES ASSUME NEW d \in Recall!Calls, call'[d].kind = "close"
               PROVE  /\ \A o \in Recall!Calls :
                           call'[o].kind = "observe" /\ call'[o].stage # "done" => o \in pending'
                      /\ call'[d].stage = "done" /\ ~cut' => \A o \in pending' : call'[o].stage = "done"
    BY DEF Closing
  <2>1. CASE kind = "close"
    <3>1. d = c /\ call'[d].stage = "closes"
      BY <1>3, <1>4, <1>5, <2>1
    <3>2. \A o \in Recall!Calls : call'[o].kind = "observe" => o # c /\ call'[o] = call[o]
      BY <1>4, <1>5, <2>1
    <3> QED  BY <1>6, <2>1, <3>1, <3>2
  <2>2. CASE kind # "close"
    <3>1. d # c /\ call[d].kind = "close" /\ kind # "observe" /\ call'[d] = call[d] /\ pending' = pending
      BY <1>4, <1>5, <1>6, <2>2
    <3>2. \A o \in Recall!Calls : call'[o].kind = "observe" => o # c /\ call'[o] = call[o]
      BY <1>4, <1>5, <3>1
    <3>3. \A o \in pending : o \in Recall!Calls /\ (call[o].stage = "done" => call'[o].stage = "done")
      BY <1>0, <1>5 DEF Typing, Recall!TypeOK
    <3> QED  BY <1>0, <3>1, <3>2, <3>3 DEF Closing
  <2> QED  BY <2>1, <2>2
<1> QED  BY <1>7, <1>8, <1>9, <1>10 DEF RInv

\* One call goes on to another record, and the table stays.
LEMMA OneMoves ==
  ASSUME RInv, NEW c \in Recall!Calls, NEW k \in Shape, call' = [call EXCEPT ![c] = k],
         k.kind = call[c].kind, k.fact = call[c].fact,
         call[c].stage \notin {"none", "done"}, k.stage \notin {"none", "closes"},
         call[c].kind = "close" =>
           k.stage = "done" /\ (cut' \/ \A o \in pending : call[o].stage = "done"),
         UNCHANGED <<provider, pending>>, cut => cut'
  PROVE  /\ Moving /\ call'[c] = k
         /\ \A d \in Recall!Calls \ {c} : call'[d] = call[d]
BY DEF RInv, Typing, Moving, Moves

\* The calls whose step is about the lock and the threads.
LEMMA ThreadSteps ==
  ASSUME RInv, NEW c \in Recall!Calls,
         \/ Recall!Extracted(c) \/ Recall!Acquire(c) \/ Recall!Created(c) \/ Recall!Fail(c)
         \/ Recall!Deadline(c)
  PROVE  RInv'
<1>0. /\ Typing /\ Locking /\ call[c] \in Shape /\ lock \in Recall!Calls \cup {0}
      /\ initialized \in BOOLEAN /\ cut \in BOOLEAN /\ old \subseteq Facts
      /\ 0 \notin Recall!Calls
  BY CallFacts DEF RInv, Typing, Recall!TypeOK, Recall!NoCall
<1>1. call[c].stage \in {"extracts", "waits", "creates", "works"} => call[c].kind # "close"
  BY <1>0 DEF Typing
<1>2. CASE Recall!Extracted(c)
  <2>1. PICK stage \in {Recall!Enters("observe"), "done"} : call' = [call EXCEPT ![c].stage = stage]
    BY <1>2 DEF Recall!Extracted
  <2>2. /\ call[c].stage = "extracts"
        /\ UNCHANGED <<provider, extraction, lock, initialized, record, old, nextId, pending, cut>>
    BY <1>2 DEF Recall!Extracted
  <2>3. /\ stage \in {"waits", "works", "done"}
        /\ provider = "sqlite" => stage # "works"
    BY <2>1 DEF Recall!Enters, Recall!Reads
  <2> DEFINE k == [call[c] EXCEPT !.stage = stage]
  <2>4. call' = [call EXCEPT ![c] = k]
    BY <2>1
  <2>5. k \in Shape /\ k.stage = stage /\ k.kind = call[c].kind /\ k.fact = call[c].fact
    BY <1>0, <2>3 DEF Shape, Standings, Answers
  <2> HIDE DEF k
  <2>6. /\ Moving /\ call'[c] = k /\ \A d \in Recall!Calls \ {c} : call'[d] = call[d]
    BY <1>1, <2>2, <2>3, <2>4, <2>5, OneMoves
  <2>7. Locking'
    BY <1>0, <2>2, <2>3, <2>5, <2>6 DEF Locking, Recall!Changes
  <2> QED  BY <1>0, <2>2, <2>6, <2>7, QuietStep
<1>3. CASE Recall!Acquire(c)
  <2> DEFINE stage == IF initialized THEN "works" ELSE "creates"
             reads == initialized /\ call[c].kind \in Recall!Reads
             k == [call[c] EXCEPT !.stage = stage]
  <2>1. /\ call[c].stage = "waits" /\ lock = 0
        /\ call' = [call EXCEPT ![c] = k]
        /\ lock' = IF reads THEN 0 ELSE c
        /\ UNCHANGED <<provider, extraction, initialized, record, old, nextId, pending, cut>>
    BY <1>3 DEF Recall!Acquire, Recall!NoCall
  <2>2. k \in Shape /\ k.stage = stage /\ k.kind = call[c].kind /\ k.fact = call[c].fact
    BY <1>0 DEF Shape, Standings, Answers
  <2> HIDE DEF k
  <2>3. /\ Moving /\ call'[c] = k /\ \A d \in Recall!Calls \ {c} : call'[d] = call[d]
    BY <1>1, <2>1, <2>2, OneMoves
  <2>4. Locking'
    <3> SUFFICES ASSUME provider = "sqlite", NEW d \in Recall!Calls
                 PROVE  /\ call'[d].stage = "creates" => lock' = d
                        /\ Recall!Changes(d)' /\ ~cut' => lock' = d
      BY <2>1 DEF Locking
    <3>1. CASE d = c
      BY <2>1, <2>2, <2>3, <3>1 DEF Recall!Changes, Recall!Edits, Recall!Reads
    <3>2. CASE d # c
      <4>1. ~(call[d].stage = "creates") /\ ~(Recall!Changes(d) /\ ~cut)
        BY <1>0, <2>1 DEF Locking
      <4> QED  BY <2>1, <2>3, <3>2, <4>1 DEF Recall!Changes
    <3> QED  BY <3>1, <3>2
  <2> QED  BY <1>0, <2>1, <2>3, <2>4, QuietStep
<1>4. CASE Recall!Created(c)
  <2> DEFINE stage == IF call[c].kind \in Recall!Reads THEN "works" ELSE "waits"
             k == [call[c] EXCEPT !.stage = stage]
  <2>1. /\ call[c].stage = "creates" /\ lock' = 0 /\ initialized' = TRUE
        /\ call' = [call EXCEPT ![c] = k]
        /\ UNCHANGED <<provider, extraction, record, old, nextId, pending, cut>>
    BY <1>4 DEF Recall!Created, Recall!NoCall
  <2>2. k \in Shape /\ k.stage = stage /\ k.kind = call[c].kind /\ k.fact = call[c].fact
    BY <1>0 DEF Shape, Standings, Answers
  <2> HIDE DEF k
  <2>3. /\ Moving /\ call'[c] = k /\ \A d \in Recall!Calls \ {c} : call'[d] = call[d]
    BY <1>1, <2>1, <2>2, OneMoves
  <2>4. Locking'
    <3> SUFFICES ASSUME provider = "sqlite", NEW d \in Recall!Calls
                 PROVE  call'[d].stage # "creates" /\ ~(Recall!Changes(d)' /\ ~cut')
      BY <2>1 DEF Locking
    <3>0. lock = c
      BY <1>0, <2>1 DEF Locking
    <3>1. CASE d = c
      BY <2>2, <2>3, <3>1 DEF Recall!Changes, Recall!Edits, Recall!Reads
    <3>2. CASE d # c
      BY <1>0, <2>1, <2>3, <3>0, <3>2 DEF Locking, Recall!Changes
    <3> QED  BY <3>1, <3>2
  <2> QED  BY <1>0, <2>1, <2>3, <2>4, QuietStep
<1>5. ASSUME NEW k \in Shape, call' = [call EXCEPT ![c] = k],
             k.kind = call[c].kind, k.fact = call[c].fact, k.stage \in {"done", "left"},
             k.stage = "left" => call[c].kind \in Recall!Reads,
             call[c].stage \in {"waits", "creates", "works"},
             lock' = (IF lock = c THEN 0 ELSE lock),
             UNCHANGED <<provider, extraction, initialized, record, old, nextId, pending, cut>>
      PROVE  RInv'
  <2>1. /\ Moving /\ call'[c] = k /\ \A d \in Recall!Calls \ {c} : call'[d] = call[d]
    BY <1>1, <1>5, OneMoves
  <2>2. Locking'
    <3> SUFFICES ASSUME provider = "sqlite", NEW d \in Recall!Calls
                 PROVE  /\ call'[d].stage = "creates" => lock' = d
                        /\ Recall!Changes(d)' /\ ~cut' => lock' = d
      BY <1>5 DEF Locking
    <3>1. CASE d = c
      BY <1>5, <2>1, <3>1 DEF Recall!Changes, Recall!Edits, Recall!Reads
    <3>2. CASE d # c
      BY <1>0, <1>5, <2>1, <3>2 DEF Locking, Recall!Changes
    <3> QED  BY <3>1, <3>2
  <2> QED  BY <1>0, <1>5, <2>1, <2>2, QuietStep
<1>6. CASE Recall!Fail(c)
  <2> DEFINE k == [call[c] EXCEPT !.stage = "done", !.answer = "failed"]
  <2>1. /\ call[c].stage \in {"creates", "works"} /\ lock' = IF lock = c THEN 0 ELSE lock
        /\ call' = [call EXCEPT ![c] = k]
        /\ UNCHANGED <<provider, extraction, initialized, record, old, nextId, pending, cut>>
    BY <1>6 DEF Recall!Fail, Recall!NoCall
  <2>2. k \in Shape /\ k.stage = "done" /\ k.kind = call[c].kind /\ k.fact = call[c].fact
    BY <1>0 DEF Shape, Standings, Answers
  <2> HIDE DEF k
  <2> QED  BY <1>5, <2>1, <2>2
<1>7. CASE Recall!Deadline(c)
  <2> DEFINE k == Recall!Abandoned(c, call[c])
  <2>1. /\ call[c].stage \in {"waits", "creates", "works"} /\ call[c].kind = "context"
        /\ lock' = IF lock = c THEN 0 ELSE lock
        /\ call' = [call EXCEPT ![c] = k]
        /\ UNCHANGED <<provider, extraction, initialized, record, old, nextId, pending, cut>>
    BY <1>7 DEF Recall!Deadline, Recall!NoCall
  <2>2. k \in Shape /\ k.stage \in {"done", "left"} /\ k.kind = call[c].kind /\ k.fact = call[c].fact
    BY <1>0, AbandonedFacts
  <2> HIDE DEF k
  <2> QED  BY <1>5, <2>1, <2>2 DEF Recall!Reads
<1> QED  BY <1>2, <1>3, <1>4, <1>6, <1>7

\* A thread that ends, in time or left behind.
LEMMA CommitSteps ==
  ASSUME RInv, NEW c \in Recall!Calls, Recall!Work(c) \/ Recall!LeftEnds(c)
  PROVE  RInv'
<1>0. /\ Typing /\ Locking /\ Numbering /\ Closing /\ call[c] \in Shape
      /\ lock \in Recall!Calls \cup {0} /\ 0 \notin Recall!Calls
  BY CallFacts DEF RInv, Typing, Recall!TypeOK, Recall!NoCall
<1> DEFINE answered == [call[c] EXCEPT !.stage = "done", !.answer = Recall!Result(call[c]).answer]
           ended == [call[c] EXCEPT !.stage = "done"]
<1>1. /\ call[c].stage \in {"works", "left"}
      /\ Recall!Commit(call[c]) \/ UNCHANGED <<record, old, nextId>>
      /\ call' = [call EXCEPT ![c] = answered] \/ call' = [call EXCEPT ![c] = ended]
      /\ lock' = (IF lock = c THEN 0 ELSE lock) \/ (lock' = lock /\ call[c].stage = "left")
      /\ UNCHANGED <<provider, extraction, initialized, pending, cut>>
  BY DEF Recall!Work, Recall!LeftEnds, Recall!NoCall
<1>2. PICK k \in Shape : /\ call' = [call EXCEPT ![c] = k]
                         /\ k.stage = "done" /\ k.kind = call[c].kind /\ k.fact = call[c].fact
  <2>1. Recall!Result(call[c]).answer \in Answers
    BY <1>0, <1>1, ResultFacts
  <2>2. answered \in Shape /\ answered.stage = "done" /\ answered.kind = call[c].kind
        /\ answered.fact = call[c].fact
    BY <1>0, <2>1 DEF Shape, Standings
  <2>3. ended \in Shape /\ ended.stage = "done" /\ ended.kind = call[c].kind /\ ended.fact = call[c].fact
    BY <1>0 DEF Shape, Standings
  <2> HIDE DEF answered, ended
  <2> QED  BY <1>1, <2>2, <2>3
<1> HIDE DEF answered, ended
<1>3. call[c].kind # "close"
  BY <1>0, <1>1 DEF Typing
<1>4. /\ Moving /\ call'[c] = k /\ \A d \in Recall!Calls \ {c} : call'[d] = call[d]
  BY <1>1, <1>2, <1>3, OneMoves
<1>5. Closing' /\ Used \subseteq Used'
  BY <1>0, <1>4, Moved
<1>6. Numbering' /\ record' \in [Facts -> 0..MaxCalls] /\ old' \subseteq Facts /\ nextId' \in Nat
  <2>1. CASE Recall!Commit(call[c])
    BY <1>0, <1>1, <1>2, <1>4, <1>5, <2>1, Committed
  <2>2. CASE UNCHANGED <<record, old, nextId>>
    BY <1>0, <1>5, <2>2, TableKept DEF Typing, Recall!TypeOK
  <2> QED  BY <1>1, <2>1, <2>2
<1>7. Typing'
  <2>1. lock' \in Recall!Calls \cup {0}
    BY <1>0, <1>1
  <2>2. Recall!TypeOK'
    BY <1>0, <1>1, <1>4, <1>6, <2>1, Moved DEF Typing, Recall!TypeOK, Standings, Recall!NoCall
  <2> QED  BY <1>0, <1>1, <1>4, <1>6, <2>2, Moved DEF Typing, Moving
<1>8. Locking'
  <2> SUFFICES ASSUME provider = "sqlite", NEW d \in Recall!Calls
               PROVE  /\ call'[d].stage = "creates" => lock' = d
                      /\ Recall!Changes(d)' /\ ~cut' => lock' = d
    BY <1>1 DEF Locking
  <2>1. CASE d = c
    BY <1>2, <1>4, <2>1 DEF Recall!Changes
  <2>2. CASE d # c
    BY <1>0, <1>1, <1>4, <2>2 DEF Locking, Recall!Changes
  <2> QED  BY <2>1, <2>2
<1> QED  BY <1>5, <1>6, <1>7, <1>8 DEF RInv

\* The end of close(), and a record that grows old.
LEMMA CloseSteps ==
  ASSUME RInv, \/ \E c \in Recall!Calls : Recall!Closed(c) \/ Recall!CloseCut(c)
               \/ \E f \in Facts : Recall!Expire(f)
  PROVE  RInv'
<1>0. /\ Typing /\ Locking /\ Numbering /\ Closing
      /\ lock \in Recall!Calls \cup {0} /\ 0 \notin Recall!Calls
      /\ initialized \in BOOLEAN /\ cut \in BOOLEAN /\ old \subseteq Facts /\ pending \subseteq Recall!Calls
  BY CallFacts DEF RInv, Typing, Recall!TypeOK, Recall!NoCall
<1>1. ASSUME NEW c \in Recall!Calls, Recall!Closed(c) PROVE RInv'
  <2> DEFINE k == [call[c] EXCEPT !.stage = "done"]
  <2>1. /\ call[c].stage = "closes" /\ \A o \in pending : call[o].stage = "done"
        /\ call' = [call EXCEPT ![c] = k]
        /\ UNCHANGED <<provider, extraction, lock, initialized, record, old, nextId, pending, cut>>
    BY <1>1 DEF Recall!Closed
  <2>2. k \in Shape /\ k.stage = "done" /\ k.kind = call[c].kind /\ k.fact = call[c].fact
    BY <1>0 DEF Typing, Shape, Standings
  <2> HIDE DEF k
  <2>3. /\ Moving /\ call'[c] = k /\ \A d \in Recall!Calls \ {c} : call'[d] = call[d]
    BY <2>1, <2>2, OneMoves
  <2>4. Locking'
    BY <1>0, <2>1, <2>2, <2>3 DEF Locking, Recall!Changes
  <2> QED  BY <1>0, <2>1, <2>3, <2>4, QuietStep
<1>2. ASSUME NEW c \in Recall!Calls, Recall!CloseCut(c) PROVE RInv'
  <2>1. PICK o \in pending :
          /\ call[o].stage # "done"
          /\ call' = [call EXCEPT ![c].stage = "done", ![o] = Recall!Abandoned(o, @)]
          /\ lock' = IF lock = o THEN 0 ELSE lock
    BY <1>2 DEF Recall!CloseCut, Recall!NoCall
  <2>2. /\ call[c].stage = "closes" /\ cut' = TRUE
        /\ UNCHANGED <<provider, extraction, initialized, record, old, nextId, pending>>
    BY <1>2 DEF Recall!CloseCut
  <2> DEFINE k == [call[c] EXCEPT !.stage = "done"]
             a == Recall!Abandoned(o, call[o])
  <2>3. k \in Shape /\ k.stage = "done" /\ k.kind = call[c].kind /\ k.fact = call[c].fact
    BY <1>0 DEF Typing, Shape, Standings
  <2>4. /\ o \in Recall!Calls /\ call[o] \in Shape /\ call[o].kind = "observe"
        /\ call[c].kind = "close" /\ o # c
    BY <1>0, <2>2 DEF Typing
  <2>5. /\ a \in Shape /\ a.kind = call[o].kind /\ a.fact = call[o].fact
        /\ a.stage \in {"left", "done"}
    BY <2>4, AbandonedFacts
  <2>6. /\ call' \in [Recall!Calls -> Shape] /\ call'[o] = a /\ call'[c] = k
        /\ \A d \in Recall!Calls \ {c, o} : call'[d] = call[d]
    <3>1. call' = [[call EXCEPT ![c] = k] EXCEPT ![o] = a]
      BY <1>0, <2>1, <2>4 DEF Typing
    <3> HIDE DEF a, k
    <3> QED  BY <1>0, <2>3, <2>4, <2>5, <3>1 DEF Typing
  <2> HIDE DEF a, k
  <2>7. call[o].stage \notin {"none", "done"}
    BY <1>0, <2>1, <2>4 DEF Typing
  <2>8. Moving
    <3> SUFFICES ASSUME NEW d \in Recall!Calls PROVE Moves(d)
      BY <2>2, <2>6 DEF Moving
    <3>1. CASE d = o
      BY <2>4, <2>5, <2>6, <2>7, <3>1 DEF Moves
    <3>2. CASE d = c
      BY <2>2, <2>3, <2>6, <3>2 DEF Moves
    <3>3. CASE d \notin {c, o}
      BY <2>6, <3>3 DEF Moves
    <3> QED  BY <3>1, <3>2, <3>3
  <2>9. Locking'
    <3> SUFFICES ASSUME provider = "sqlite", NEW d \in Recall!Calls, call'[d].stage = "creates"
                 PROVE  lock' = d
      BY <2>2 DEF Locking
    <3>1. d \notin {c, o} /\ call[d].stage = "creates"
      BY <2>3, <2>5, <2>6
    <3> QED  BY <1>0, <2>1, <3>1 DEF Locking
  <2>10. lock' \in Recall!Calls \cup {0}
    BY <1>0, <2>1
  <2> QED  BY <1>0, <2>2, <2>8, <2>9, <2>10, QuietStep
<1>3. ASSUME NEW f \in Facts, Recall!Expire(f) PROVE RInv'
  <2>1. /\ old' \subseteq Facts
        /\ UNCHANGED <<provider, extraction, call, lock, initialized, record, nextId, pending, cut>>
    BY <1>0, <1>3 DEF Recall!Expire
  <2>2. Moving
    BY <1>0, <2>1 DEF Moving, Moves, Typing
  <2>3. Locking'
    BY <1>0, <2>1 DEF Locking, Recall!Changes
  <2> QED  BY <1>0, <2>1, <2>2, <2>3, QuietStep
<1> QED  BY <1>1, <1>2, <1>3

\* A call arrives.
LEMMA Arrivals ==
  ASSUME RInv, NEW c \in Recall!Calls,
         \/ \E f \in Facts : Recall!Observe(c, f)
         \/ Recall!Ask(c) \/ Recall!Close(c)
  PROVE  RInv'
<1>1. ASSUME NEW f \in Facts, Recall!Observe(c, f) PROVE RInv'
  BY <1>1, ArriveStep DEF Recall!Observe, Kinds, Recall!NoRecord
<1>2. CASE Recall!Close(c)
  BY <1>2, ArriveStep DEF Recall!Close, Kinds, Recall!NoRecord
<1>3. CASE Recall!Ask(c)
  <2>1. ASSUME NEW kind \in Recall!Reads \cup {"clear"}, Recall!Arrive(c, kind, "none", Recall!NoRecord)
        PROVE  RInv'
    BY <2>1, ArriveStep DEF Kinds, Recall!Reads, Recall!NoRecord
  <2>2. ASSUME NEW id \in 1..(nextId - 1), Recall!Arrive(c, "delete", "none", id) PROVE RInv'
    BY <2>2, ArriveStep DEF Kinds, RInv, Typing
  <2>3. ASSUME NEW id \in 1..(nextId - 1), NEW f \in Facts, Recall!Arrive(c, "update", f, id) PROVE RInv'
    BY <2>3, ArriveStep DEF Kinds, RInv, Typing
  <2> QED  BY <1>3, <2>1, <2>2, <2>3 DEF Recall!Ask
<1> QED  BY <1>1, <1>2, <1>3

-----------------------------------------------------------------------------
(* The memory, as a part of the conversation *)

LEMMA RInitially == ConversationInit => RInv
<1> SUFFICES ASSUME Recall!Init PROVE RInv
  BY DEF ConversationInit
<1>1. /\ call = [c \in Recall!Calls |-> Recall!Unused] /\ pending = {} /\ nextId = 1
      /\ record = [f \in Facts |-> 0] /\ provider \in {"none", "sqlite", "hindsight"}
      /\ initialized = FALSE /\ cut = FALSE /\ old = {} /\ lock = 0
  BY DEF Recall!Init, Recall!NoCall, Recall!NoRecord
<1>2. \A c \in Recall!Calls : call[c] \in Shape /\ call[c].kind = "none" /\ call[c].stage = "none"
  BY <1>1 DEF Recall!Unused, Shape, Kinds, Standings, Answers, Recall!NoRecord
<1>3. Typing
  <2>1. Recall!TypeOK
    <3>1. record \in [Facts -> 0..MaxCalls]
      BY <1>1, CallFacts
    <3> QED  BY <1>1, <1>2, <3>1 DEF Recall!TypeOK, Recall!NoCall
  <2>2. call \in [Recall!Calls -> Shape]
    BY <1>1, <1>2
  <2> QED  BY <1>1, <1>2, <2>1, <2>2 DEF Typing
<1>4. Locking /\ Closing
  BY <1>2 DEF Locking, Closing, Recall!Changes, Recall!Edits
<1>5. Numbering
  <2>1. Used = {}
    BY <1>2 DEF Used
  <2>2. Cardinality(Used) = 0
    BY <2>1, FS_EmptySet
  <2> QED  BY <1>1, <2>2 DEF Numbering, Recall!NoRecord
<1> QED  BY <1>3, <1>4, <1>5 DEF RInv

LEMMA RStepwise == RInv /\ [ConversationNext]_<<part, vars, recallVars>> => RInv'
<1> SUFFICES ASSUME RInv, [ConversationNext]_<<part, vars, recallVars>> PROVE RInv'
  OBVIOUS
<1>1. CASE UNCHANGED recallVars
  BY <1>1 DEF recallVars, RInv, Typing, Locking, Numbering, Closing, Used, Recall!TypeOK, Recall!Changes
<1>2. CASE Recall!Next
  BY <1>2, Arrivals, ThreadSteps, CommitSteps, CloseSteps DEF Recall!Next
<1> QED  BY <1>1, <1>2 DEF ConversationNext

\* What the invariant says of the memory.
LEMMA Kept == RInv => Recall!TypeOK /\ Recall!MemoryIsKept
<1> SUFFICES ASSUME RInv PROVE Recall!TypeOK /\ Recall!MemoryIsKept
  OBVIOUS
<1>1. Recall!TypeOK
  BY DEF RInv, Typing
<1>2. (provider = "sqlite" /\ ~cut) =>
        \A c, d \in Recall!Calls : Recall!Changes(c) /\ Recall!Changes(d) => c = d
  BY DEF RInv, Locking
<1>3. \A f, g \in Facts : record[f] = record[g] => (f = g \/ record[f] = Recall!NoRecord)
  BY DEF RInv, Numbering
<1>4. (\E c \in Recall!Calls : call[c].kind = "close" /\ call[c].stage = "done") =>
        (cut \/ \A c \in Recall!Calls : call[c].kind = "observe" => call[c].stage = "done")
  BY DEF RInv, Closing
<1>5. Recall!MemoryIsKept
  BY <1>2, <1>3, <1>4, Zenon DEF Recall!MemoryIsKept
<1> QED  BY <1>1, <1>5

\* Two threads that write never work at once unless the shutdown was cut short, an id never names
\* two facts, and a close() that returned in time left no observation at work: for any number of
\* calls, given up or failed at any point (providers.py:95-205, service.py:50-91).
THEOREM MemoryKept == ConversationSpec => []MemoryIsKept
<1>1. ConversationInit => RInv
  BY RInitially
<1>2. RInv /\ [ConversationNext]_<<part, vars, recallVars>> => RInv'
  BY RStepwise
<1>3. RInv => MemoryIsKept
  BY Kept DEF MemoryIsKept
<1> QED  BY <1>1, <1>2, <1>3, PTL DEF ConversationSpec
=============================================================================
