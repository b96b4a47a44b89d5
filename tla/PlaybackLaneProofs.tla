------------------------ MODULE PlaybackLaneProofs ------------------------
(***************************************************************************)
(* An abandoned playback stays away from later replies, for every number   *)
(* of replies.                                                             *)
(*                                                                         *)
(* A lane that was given up may go on for ever, so what counts is what is  *)
(* still to run on it: nothing that builds an engine, and no playback that *)
(* was not told to stop (OldLanes).  That holds because the lane in use is *)
(* given up by the job that holds the lock alone (OneHolder), when what    *)
(* was to be prepared on it is done (Prepared) and the playbacks left on   *)
(* it are its own and those of jobs whose cleanup was cancelled (Playing). *)
(***************************************************************************)
EXTENDS PlaybackLane, FiniteSetTheorems, SequenceTheorems, TLAPS

Entries == [what : {"prepare", "play", "close"}, of : 0..MaxReplies]

\* The places of a lane that hold something to run.
Places(l) == 1..Len(work[l])

\* The lock has one holder, at the head of the line.
OneHolder == \A j \in Replies : job[j] \in Holding => line # <<>> /\ Head(line) = j

\* A job that waits for the lock is in the line, and no job is there before its task.
Waiting == \A j \in Replies : job[j] = "queued" => \E i \in DOMAIN line : line[i] = j
Begun == \A j \in Replies : task[j] = "none" => job[j] = "none"

\* What each lane has to run: one entry at most for each job, as its answer says.
OneEntry ==
  \A l, m \in Lanes : \A i \in Places(l), k \in Places(m) :
    work[l][i].of # 0 /\ work[l][i].of = work[m][k].of => l = m /\ i = k

EntryIsDue ==
  \A l \in Lanes : \A i \in Places(l) :
    LET e == work[l][i] IN
    /\ e.what = "close" <=> e.of = 0
    /\ e.what = "prepare" => answer[e.of] = "none"
    /\ e.what = "play" => answer[e.of] = "prepared"
    /\ e.of # 0 => job[e.of] \notin {"none", "created", "queued"}

\* A lane that was given up has nothing to build, and none was begun after the one in use.
OldLanes ==
  \A l \in Lanes :
    /\ l > lane => work[l] = <<>>
    /\ l < lane => \A i \in Places(l) :
         work[l][i].what = "close" \/ (work[l][i].what = "play" /\ work[l][i].of \in flagged)

\* A job that waits for its engine is the last that asked for one; once it has it, no one asks.
Prepared ==
  \A j \in Replies :
    /\ job[j] = "preparing" /\ answer[j] = "none" =>
         \E i \in Places(lane) : /\ work[lane][i] = Item("prepare", j)
                                 /\ \A k \in Places(lane) : k > i => work[lane][k].what = "close"
    /\ \/ job[j] = "preparing" /\ answer[j] # "none"
       \/ job[j] \in {"playing", "stopping", "draining"}
       => \A i \in Places(lane) : work[lane][i].what # "prepare"

\* The playbacks on the lane in use are its holder's and those whose cleanup was cancelled.
Playing ==
  /\ \A i \in Places(lane) :
       work[lane][i].what = "play" =>
         \/ job[work[lane][i].of] \in {"playing", "stopping", "draining"}
         \/ work[lane][i].of \in aborted
  /\ \A l \in Lanes : \A i \in Places(l) :
       work[l][i].what = "play" => job[work[l][i].of] # "preparing"

Fresh ==
  /\ \A j \in Replies : job[j] \in {"none", "created", "queued"} => answer[j] = "none"
  /\ aborted \subseteq flagged
  /\ \A j \in Replies : job[j] \in {"stopping", "draining"} => j \in flagged
  /\ \A j \in aborted : job[j] = "over"

\* A reply replaces the lane once at most.
LanesUsed == lane <= 1 + Cardinality({j \in Replies : job[j] = "over"})

IInv ==
  /\ TypeOK
  /\ OneHolder /\ OneEntry /\ EntryIsDue /\ OldLanes /\ Prepared /\ Playing /\ Fresh /\ LanesUsed
  /\ EngineStaysOnItsLane
  /\ Waiting /\ Begun

-----------------------------------------------------------------------------
(* The types and the lock *)

\* What the line is without a job.
LEMMA WithoutFacts ==
  ASSUME TypeOK, NEW j \in Replies
  PROVE  /\ Without(j) \in Seq(Replies)
         /\ line # <<>> /\ Head(line) # j => Without(j) # <<>> /\ Head(Without(j)) = Head(line)
         /\ \A k \in DOMAIN line : line[k] # j =>
              \E n \in DOMAIN Without(j) : Without(j)[n] = line[k]
<1>0. line \in Seq(Replies) /\ DOMAIN line = 1..Len(line) /\ Len(line) \in Nat
  BY DEF TypeOK
<1>1. CASE ~\E i \in DOMAIN line : line[i] = j
  BY <1>0, <1>1 DEF Without
<1>2. CASE \E i \in DOMAIN line : line[i] = j
  <2> DEFINE i == CHOOSE i \in DOMAIN line : line[i] = j
             front == SubSeq(line, 1, i - 1)
             back == SubSeq(line, i + 1, Len(line))
  <2>1. i \in 1..Len(line) /\ line[i] = j
    BY <1>0, <1>2
  <2>2. Without(j) = front \o back
    BY <1>2 DEF Without
  <2> HIDE DEF i
  <2>3. /\ front \in Seq(Replies) /\ back \in Seq(Replies) /\ Len(front) = i - 1
        /\ \A k \in 1..(i - 1) : front[k] = line[k]
        /\ Len(back) = Len(line) - i
        /\ \A k \in 1..(Len(line) - i) : back[k] = line[i + k]
    <3>1. \A k \in 1..(i - 1) : line[k] \in Replies
      BY <1>0, <2>1
    <3>2. \A k \in (i + 1)..Len(line) : line[k] \in Replies
      BY <1>0, <2>1
    <3>3. i - 1 \in Int /\ i + 1 \in Int /\ 1 \in Int /\ Len(line) \in Int
      BY <1>0, <2>1
    <3>4. front \in Seq(Replies) /\ Len(front) = (IF 1 <= i - 1 THEN (i - 1) - 1 + 1 ELSE 0)
          /\ \A k \in 1..((i - 1) - 1 + 1) : front[k] = line[1 + k - 1]
      BY <3>1, <3>3, SubSeqProperties
    <3>5. /\ back \in Seq(Replies)
          /\ Len(back) = (IF i + 1 <= Len(line) THEN Len(line) - (i + 1) + 1 ELSE 0)
          /\ \A k \in 1..(Len(line) - (i + 1) + 1) : back[k] = line[(i + 1) + k - 1]
      BY <3>2, <3>3, SubSeqProperties
    <3> HIDE DEF front, back
    <3>6. i \in Nat /\ Len(line) \in Nat /\ 1 <= i /\ i <= Len(line)
      BY <2>1, <1>0
    <3>7. /\ Len(back) = Len(line) - i /\ Len(front) = i - 1
          /\ Len(line) - (i + 1) + 1 = Len(line) - i /\ (i - 1) - 1 + 1 = i - 1
      BY <3>4, <3>5, <3>6
    <3>8. \A k \in 1..(Len(line) - i) : back[k] = line[i + k]
      <4> TAKE k \in 1..(Len(line) - i)
      <4>1. back[k] = line[(i + 1) + k - 1]
        BY <3>5, <3>7
      <4>2. (i + 1) + k - 1 = i + k
        BY <3>6
      <4> QED  BY <4>1, <4>2
    <3>9. \A k \in 1..(i - 1) : front[k] = line[k]
      <4> TAKE k \in 1..(i - 1)
      <4>1. front[k] = line[1 + k - 1]
        BY <3>4, <3>7
      <4>2. 1 + k - 1 = k
        OBVIOUS
      <4> QED  BY <4>1, <4>2
    <3> QED  BY <3>4, <3>5, <3>7, <3>8, <3>9
  <2> HIDE DEF front, back
  <2>4. /\ front \o back \in Seq(Replies)
        /\ Len(front) # 0 => /\ front \o back # <<>>
                             /\ Head(front \o back) = front[1]
        /\ \A k \in 1..Len(line) : k # i =>
             \E n \in DOMAIN (front \o back) : (front \o back)[n] = line[k]
    <3> DEFINE all == front \o back
    <3>1. /\ all \in Seq(Replies) /\ Len(all) = Len(front) + Len(back)
          /\ \A k \in 1..(Len(front) + Len(back)) :
               all[k] = IF k <= Len(front) THEN front[k] ELSE back[k - Len(front)]
      BY <2>3, ConcatProperties
    <3> HIDE DEF all
    <3>2. Len(front) \in Nat /\ Len(back) \in Nat
      BY <2>3
    <3>3. Len(front) # 0 => all # <<>> /\ Head(all) = all[1] /\ all[1] = front[1]
      BY <3>1, <3>2
    <3>4. ASSUME NEW k \in 1..Len(line), k # i PROVE \E n \in DOMAIN all : all[n] = line[k]
      <4>0. i \in Nat /\ Len(line) \in Nat /\ 1 <= i /\ i <= Len(line) /\ k \in Nat /\ 1 <= k /\ k <= Len(line)
        BY <2>1, <1>0, <3>4
      <4>1. /\ Len(front) + Len(back) = Len(line) - 1
            /\ \A n \in 1..(Len(line) - 1) :
                 all[n] = IF n <= Len(front) THEN front[n] ELSE back[n - Len(front)]
        BY <3>1, <2>3, <4>0
      <4>2. DOMAIN all = 1..(Len(line) - 1)
        BY <3>1, <4>1
      <4>3. CASE k < i
        <5>1. k \in 1..(Len(line) - 1) /\ k <= Len(front) /\ k \in 1..(i - 1)
          BY <4>3, <4>0, <2>3
        <5>2. all[k] = front[k]
          BY <5>1, <4>1
        <5>3. front[k] = line[k]
          BY <5>1, <2>3
        <5> QED  BY <4>2, <5>1, <5>2, <5>3
      <4>4. CASE k > i
        <5>1. /\ k - 1 \in 1..(Len(line) - 1) /\ ~(k - 1 <= Len(front)) /\ k - i \in 1..(Len(line) - i)
              /\ (k - 1) - Len(front) = k - i /\ i + (k - i) = k
          BY <4>4, <4>0, <2>3
        <5>2. all[k - 1] = back[(k - 1) - Len(front)]
          BY <5>1, <4>1
        <5>3. back[k - i] = line[i + (k - i)]
          BY <5>1, <2>3
        <5> QED  BY <4>2, <5>1, <5>2, <5>3
      <4> QED  BY <3>4, <4>0, <4>3, <4>4
    <3> QED  BY <3>1, <3>3, <3>4 DEF all
  <2>5. line # <<>> /\ Head(line) # j => i # 1
    BY <1>0, <2>1
  <2>6. line # <<>> => Head(line) = line[1]
    BY <1>0
  <2>7. line # <<>> /\ Head(line) # j => Without(j) # <<>> /\ Head(Without(j)) = Head(line)
    <3> SUFFICES ASSUME line # <<>>, Head(line) # j PROVE Without(j) # <<>> /\ Head(Without(j)) = Head(line)
      OBVIOUS
    <3>1. i # 1
      BY <2>5
    <3>2. i - 1 \in Nat /\ i - 1 # 0 /\ 1 \in 1..(i - 1)
      BY <3>1, <2>1, <1>0
    <3>3. Len(front) # 0 /\ front[1] = line[1]
      BY <3>2, <2>3
    <3> QED  BY <3>3, <2>2, <2>4, <2>6
  <2>8. \A k \in DOMAIN line : line[k] # j => \E n \in DOMAIN Without(j) : Without(j)[n] = line[k]
    BY <2>1, <2>2, <2>4, <1>0
  <2> QED  BY <2>2, <2>4, <2>7, <2>8
<1> QED  BY <1>1, <1>2

\* What a lane has to run after an entry was added to the one in use, or the first was done.
Push(e) == work' = [work EXCEPT ![lane] = Append(@, e)]
Pop(l) == work[l] # <<>> /\ work' = [work EXCEPT ![l] = Tail(@)]

LEMMA PushFacts ==
  ASSUME TypeOK, NEW e \in Entries, Push(e)
  PROVE  /\ work' \in [Lanes -> Seq(Entries)]
         /\ \A l \in Lanes \ {lane} : work'[l] = work[l]
         /\ Len(work[lane]) \in Nat /\ Len(work'[lane]) = Len(work[lane]) + 1
         /\ work'[lane][Len(work[lane]) + 1] = e
         /\ \A i \in Places(lane) : work'[lane][i] = work[lane][i]
<1>1. work \in [Lanes -> Seq(Entries)] /\ lane \in Lanes
  BY DEF TypeOK, Entries
<1>2. work[lane] \in Seq(Entries)
  BY <1>1
<1> DEFINE s == work[lane]
<1>3. s \in Seq(Entries)
  BY <1>2
<1> HIDE DEF s
<1>4. /\ Append(s, e) \in Seq(Entries) /\ Len(s) \in Nat /\ Len(Append(s, e)) = Len(s) + 1
      /\ Append(s, e)[Len(s) + 1] = e /\ \A i \in 1..Len(s) : Append(s, e)[i] = s[i]
  BY <1>3, AppendProperties
<1>5. work' = [work EXCEPT ![lane] = Append(s, e)]
  BY DEF Push, s
<1> QED  BY <1>1, <1>4, <1>5 DEF s, Places

LEMMA PopFacts ==
  ASSUME TypeOK, NEW l \in Lanes, Pop(l)
  PROVE  /\ work' \in [Lanes -> Seq(Entries)]
         /\ \A m \in Lanes \ {l} : work'[m] = work[m]
         /\ Len(work[l]) \in Nat \ {0} /\ Len(work'[l]) = Len(work[l]) - 1
         /\ \A i \in 1..(Len(work[l]) - 1) : work'[l][i] = work[l][i + 1] /\ i + 1 \in Places(l)
         /\ 1 \in Places(l) /\ Head(work[l]) = work[l][1]
<1>1. work \in [Lanes -> Seq(Entries)]
  BY DEF TypeOK, Entries
<1> DEFINE s == work[l]
<1>2. s \in Seq(Entries) /\ s # <<>>
  BY <1>1 DEF Pop
<1>3. work' = [work EXCEPT ![l] = Tail(s)]
  BY DEF Pop
<1> HIDE DEF s
<1>4. /\ Head(s) = s[1] /\ Tail(s) \in Seq(Entries) /\ Len(Tail(s)) = Len(s) - 1
      /\ \A i \in 1..Len(Tail(s)) : Tail(s)[i] = s[i + 1]
  BY <1>2, HeadTailProperties
<1>5. Len(s) \in Nat \ {0} /\ 1 \in 1..Len(s) /\ \A i \in 1..(Len(s) - 1) : i + 1 \in 1..Len(s)
  BY <1>2
<1> QED  BY <1>1, <1>3, <1>4, <1>5 DEF s, Places

\* What the end of speak() does to its job and to the line.
LEMMA OverFacts ==
  ASSUME TypeOK, NEW j \in Replies, Over(j)
  PROVE  /\ job' \in [Replies -> JobStates] /\ line' \in Seq(Replies)
         /\ cancelled' \in SUBSET Replies /\ event' \in 0..MaxReplies
         /\ job'[j] = "over" /\ \A k \in Replies \ {j} : job'[k] = job[k]
         /\ line # <<>> /\ Head(line) # j => line' # <<>> /\ Head(line') = Head(line)
<1>1. line \in Seq(Replies) /\ Without(j) \in Seq(Replies)
  BY WithoutFacts DEF TypeOK
<1>2. line # <<>> => Tail(line) \in Seq(Replies)
  BY <1>1, HeadTailProperties
<1>3. line' \in Seq(Replies)
  BY <1>1, <1>2 DEF Over
<1>4. line # <<>> /\ Head(line) # j => line' # <<>> /\ Head(line') = Head(line)
  BY WithoutFacts DEF Over
<1>5. /\ job' \in [Replies -> JobStates] /\ job'[j] = "over"
      /\ \A k \in Replies \ {j} : job'[k] = job[k]
  BY DEF Over, TypeOK, JobStates
<1>6. cancelled' \in SUBSET Replies
  BY DEF Over, TypeOK
<1>7. event' \in 0..MaxReplies
  BY MaxRepliesAssumption DEF Over, TypeOK
<1> QED  BY <1>3, <1>4, <1>5, <1>6, <1>7

\* Entering with the lock, and what it asks for.
LEMMA ItemFacts ==
  ASSUME NEW j \in Replies
  PROVE  /\ Item("prepare", j) \in Entries /\ Item("play", j) \in Entries
         /\ Item("close", 0) \in Entries
         /\ \A what : Item(what, j).what = what /\ Item(what, j).of = j
         /\ Item("close", 0).what = "close" /\ Item("close", 0).of = 0
BY MaxRepliesAssumption DEF Item, Entries, Replies

\* There is a lane to turn to for a job that is not over.
LEMMA LanesSuffice ==
  ASSUME TypeOK, LanesUsed, NEW j \in Replies, job[j] # "over"
  PROVE  lane + 1 \in Lanes
<1> DEFINE O == {k \in Replies : job[k] = "over"}
<1>1. IsFiniteSet(Replies) /\ Cardinality(Replies) = MaxReplies
  BY FS_Interval, MaxRepliesAssumption DEF Replies
<1>2. O \subseteq Replies /\ O # Replies
  OBVIOUS
<1>3. IsFiniteSet(O) /\ Cardinality(O) <= Cardinality(Replies)
      /\ (Cardinality(Replies) = Cardinality(O) => Replies = O)
  BY <1>1, <1>2, FS_Subset
<1>4. Cardinality(O) \in Nat
  BY <1>3, FS_CardinalityType
<1>5. Cardinality(O) < MaxReplies
  BY <1>1, <1>2, <1>3, <1>4, MaxRepliesAssumption
<1>6. lane <= 1 + Cardinality(O)
  BY DEF LanesUsed
<1> HIDE DEF O
<1> QED  BY <1>4, <1>5, <1>6, MaxRepliesAssumption DEF TypeOK, Lanes

\* A step leaves every variable its type.
LEMMA Typed == IInv /\ [Next]_vars => TypeOK'
<1> SUFFICES ASSUME IInv, [Next]_vars PROVE TypeOK'
  OBVIOUS
<1>0. TypeOK /\ line \in Seq(Replies) /\ work \in [Lanes -> Seq(Entries)] /\ event \in 0..MaxReplies
  BY DEF IInv, TypeOK, Entries
<1>1. CASE UNCHANGED vars
  BY <1>1, <1>0 DEF vars, calls, jobs, threads, TypeOK
<1>2. CASE Say \/ Closed
  BY <1>2, <1>0 DEF Say, Closed, jobs, threads, TypeOK, TaskStates, JobStates, Current, Holding
<1>3. CASE Close
  <2>1. Push(Item("close", 0))
    BY <1>3 DEF Close, Push
  <2>2. Item("close", 0) \in Entries
    BY MaxRepliesAssumption DEF Item, Entries
  <2>3. work' \in [Lanes -> Seq(Entries)]
    BY <1>0, <2>1, <2>2, PushFacts
  <2>4. flagged' \in SUBSET Replies
    BY <1>3, <1>0 DEF Close, StopCall, TypeOK, Replies
  <2> QED  BY <1>3, <2>3, <2>4 DEF Close, IInv, TypeOK, jobs, Entries
<1>4. ASSUME NEW j \in Replies, Interrupt(j) \/ TaskStep(j) PROVE TypeOK'
  <2>1. flagged' \in SUBSET Replies
    BY <1>4, <1>0 DEF Interrupt, TaskStep, Ready, Unwind, Expire, Finish, StopCall, TypeOK, Replies
  <2>2. cancelled' \in SUBSET Replies
    BY <1>4, <1>0 DEF Interrupt, TaskStep, Ready, Unwind, Expire, Finish, CancelJob, TypeOK, jobs
  <2>3. /\ task' \in [Replies -> TaskStates] /\ interrupted' \in SUBSET Replies
        /\ UNCHANGED <<adapter, job, aborted, line, event, threads>>
    BY <1>4, <1>0 DEF Interrupt, TaskStep, Ready, Unwind, Expire, Finish, TypeOK, jobs, TaskStates,
                      Current
  <2> QED  BY <1>0, <2>1, <2>2, <2>3 DEF TypeOK, threads
<1>5. ASSUME NEW j \in Replies, JobStep(j) PROVE TypeOK'
  <2>1. ASSUME Over(j), UNCHANGED <<calls, lane, work, stage, engine>>,
               aborted' \in SUBSET Replies, flagged' \in SUBSET Replies,
               answer' \in [Replies -> {"none", "prepared", "played", "skipped", "failed"}]
        PROVE  TypeOK'
    BY <1>0, <2>1, OverFacts DEF TypeOK, calls
  <2>2. ASSUME Push(Item("prepare", j)) \/ Push(Item("play", j)) PROVE work' \in [Lanes -> Seq(Entries)]
    BY <1>0, <2>2, PushFacts, ItemFacts
  <2>3. ASSUME Enter(j)
        PROVE  /\ work' \in [Lanes -> Seq(Entries)] /\ job' \in [Replies -> JobStates]
               /\ event' \in 0..MaxReplies
    BY <2>3, <2>2, <1>0, MaxRepliesAssumption DEF Enter, Push, TypeOK, JobStates, Holding, Replies
  <2>4. CASE Arrive(j)
    <3>1. line' \in Seq(Replies)
      BY <1>0, <2>4 DEF Arrive
    <3>2. /\ work' \in [Lanes -> Seq(Entries)] /\ job' \in [Replies -> JobStates]
          /\ event' \in 0..MaxReplies
      BY <1>0, <2>3, <2>4 DEF Arrive, TypeOK, JobStates
    <3> QED  BY <1>0, <2>4, <3>1, <3>2 DEF Arrive, TypeOK, calls, Entries
  <2>5. CASE Admit(j)
    BY <1>0, <2>3, <2>5 DEF Admit, TypeOK, calls, Entries
  <2>6. CASE Play(j)
    <3>1. Push(Item("play", j))
      BY <2>6 DEF Play, Push
    <3> QED  BY <1>0, <2>6, <2>2, <3>1 DEF Play, TypeOK, calls, Entries, JobStates, Holding
  <2>7. CASE Refused(j)
    BY <1>0, <2>1, <2>7 DEF Refused, TypeOK
  <2>8. CASE Played(j) \/ Drained(j)
    BY <1>0, <2>1, <2>8 DEF Played, Drained, TypeOK, threads
  <2>9. CASE Dropped(j) \/ Abort(j)
    BY <1>0, <2>1, <2>9 DEF Dropped, Abort, TypeOK, threads
  <2>10. CASE Quit(j) \/ Stopped(j)
    <3>1. job' \in [Replies -> JobStates]
      BY <1>0, <2>10 DEF Quit, Stopped, TypeOK, JobStates, Holding
    <3>2. cancelled' \in SUBSET Replies /\ flagged' \in SUBSET Replies
      BY <1>0, <2>10 DEF Quit, Stopped, TypeOK
    <3> QED  BY <1>0, <2>10, <3>1, <3>2 DEF Quit, Stopped, TypeOK, calls, threads
  <2>11. CASE Rotate(j)
    <3>1. lane' \in Lanes
      BY <2>11, LanesSuffice DEF Rotate, IInv
    <3> QED  BY <1>0, <2>11, <3>1, OverFacts DEF Rotate, TypeOK, calls
  <2> QED  BY <1>5, <2>4, <2>5, <2>6, <2>7, <2>8, <2>9, <2>10, <2>11 DEF JobStep
<1>6. ASSUME NEW l \in Lanes, Thread(l) PROVE TypeOK'
  <2>1. ASSUME Return(l, "prepared") \/ Return(l, "failed") \/ Return(l, "skipped") \/ Return(l, "played"),
               work[l] # <<>>
        PROVE  /\ work' \in [Lanes -> Seq(Entries)]
               /\ stage' \in [Lanes -> Stages]
               /\ answer' \in [Replies -> {"none", "prepared", "played", "skipped", "failed"}]
    <3>1. Pop(l)
      BY <2>1 DEF Return, Pop
    <3> QED  BY <1>0, <2>1, <3>1, PopFacts DEF Return, TypeOK, Stages
  <2>2. engine' \in {0} \cup Lanes
    BY <1>6, <1>0 DEF Thread, Prepare, Advance, Silent, CloseEngine, Built, TypeOK
  <2>3. CASE Prepare(l) \/ Silent(l)
    BY <2>1, <2>2, <2>3, <1>0 DEF Prepare, Silent, Running, TypeOK, calls, jobs, Entries
  <2>4. CASE Advance(l)
    <3>1. CASE stage[l] # "committed" /\ Head(work[l]).of \in flagged
      BY <2>1, <2>2, <2>4, <3>1, <1>0 DEF Advance, Running, TypeOK, calls, jobs, Entries
    <3>2. CASE ~(stage[l] # "committed" /\ Head(work[l]).of \in flagged)
      <4>1. stage[l] \in Stages \ {"sounding"}
        BY <2>4, <1>0 DEF Advance, TypeOK
      <4>2. Further(stage[l]) \in Stages
        BY <4>1 DEF Further, Stages
      <4> QED  BY <2>2, <2>4, <3>2, <4>2, <1>0 DEF Advance, TypeOK, calls, jobs
    <3> QED  BY <3>1, <3>2
  <2>5. CASE CloseEngine(l)
    <3>1. Pop(l)
      BY <2>5 DEF CloseEngine, Running, Pop
    <3>2. work' \in [Lanes -> Seq(Entries)]
      BY <1>0, <3>1, PopFacts
    <3> QED  BY <2>2, <2>5, <3>2, <1>0 DEF CloseEngine, TypeOK, calls, jobs, Entries
  <2> QED  BY <1>6, <2>3, <2>4, <2>5 DEF Thread
<1> QED  BY <1>1, <1>2, <1>3, <1>4, <1>5, <1>6 DEF Next

-----------------------------------------------------------------------------
(* What the steps of the tasks and of speak() leave of the invariant *)

\* All of IInv but the types.
Kept ==
  /\ OneHolder /\ OneEntry /\ EntryIsDue /\ OldLanes /\ Prepared /\ Playing /\ Fresh /\ LanesUsed
  /\ EngineStaysOnItsLane

\* An entry is one of Entries: it is of a reply, unless it closes the engine.
LEMMA PlaceFacts ==
  ASSUME TypeOK, EntryIsDue, NEW l \in Lanes, NEW i \in Places(l)
  PROVE  /\ work[l][i] \in Entries
         /\ work[l][i].what \in {"prepare", "play", "close"}
         /\ work[l][i].what # "close" => work[l][i].of \in Replies
<1>1. work[l] \in Seq(Entries)
  BY DEF TypeOK, Entries
<1>2. work[l][i] \in Entries
  BY <1>1 DEF Places
<1>3. work[l][i].what # "close" => work[l][i].of # 0
  BY DEF EntryIsDue
<1> QED  BY <1>2, <1>3, MaxRepliesAssumption DEF Entries, Replies

\* What was over stays over, so a lane that was there to be used still is.
LEMMA LanesStay ==
  ASSUME LanesUsed, TypeOK, lane' = lane, \A k \in Replies : job[k] = "over" => job'[k] = "over"
  PROVE  LanesUsed'
<1> DEFINE O == {k \in Replies : job[k] = "over"}
           P == {k \in Replies : job'[k] = "over"}
<1>1. IsFiniteSet(Replies)
  BY FS_Interval, MaxRepliesAssumption DEF Replies
<1>2. O \subseteq P /\ P \subseteq Replies
  OBVIOUS
<1>3. lane <= 1 + Cardinality(O) /\ lane \in Nat
  BY MaxRepliesAssumption DEF LanesUsed, TypeOK, Lanes
<1>4. SUFFICES lane <= 1 + Cardinality(P)
  BY DEF LanesUsed
<1> HIDE DEF O, P
<1>5. IsFiniteSet(P) /\ IsFiniteSet(O) /\ Cardinality(O) <= Cardinality(P)
  BY <1>1, <1>2, FS_Subset
<1>6. Cardinality(P) \in Nat /\ Cardinality(O) \in Nat
  BY <1>5, FS_CardinalityType
<1> QED  BY <1>3, <1>5, <1>6

\* A step of a task, or of the clock: more replies may be flagged.
LEMMA TasksKeep ==
  ASSUME IInv, UNCHANGED <<job, aborted, line, lane, work, engine, answer>>, flagged \subseteq flagged'
  PROVE  Kept'
<1>1. OneHolder' /\ OneEntry' /\ EntryIsDue' /\ Prepared' /\ Playing'
  BY DEF IInv, OneHolder, OneEntry, EntryIsDue, Prepared, Playing, Places
<1>2. OldLanes' /\ Fresh' /\ EngineStaysOnItsLane'
  BY DEF IInv, OldLanes, Fresh, EngineStaysOnItsLane, Places
<1>3. LanesUsed'
  BY LanesStay DEF IInv
<1> QED  BY <1>1, <1>2, <1>3 DEF Kept

\* A job that moves on without the lane: it had nothing to do before, or is told to stop.
LEMMA MovesKeep ==
  ASSUME IInv, NEW j \in Replies,
         \/ job[j] = "none" /\ job' = [job EXCEPT ![j] = "created"]
         \/ job[j] = "created" /\ job' = [job EXCEPT ![j] = "queued"]
         \/ /\ job[j] \in {"playing", "stopping"} /\ j \in flagged'
            /\ \/ job' = [job EXCEPT ![j] = "stopping"]
               \/ job' = [job EXCEPT ![j] = "draining"],
         UNCHANGED <<aborted, lane, work, engine, answer>>,
         flagged \subseteq flagged',
         line # <<>> => line' # <<>> /\ Head(line') = Head(line)
  PROVE  Kept'
<1>0. job \in [Replies -> JobStates]
  BY DEF IInv, TypeOK
<1>1. \A k \in Replies \ {j} : job'[k] = job[k]
  BY <1>0
<1>2. \/ job[j] = "none" /\ job'[j] = "created"
      \/ job[j] = "created" /\ job'[j] = "queued"
      \/ job[j] \in {"playing", "stopping"} /\ job'[j] \in {"stopping", "draining"} /\ j \in flagged'
  BY <1>0
<1>3. OneHolder'
  BY <1>1, <1>2 DEF IInv, OneHolder, Holding
<1>4. OneEntry' /\ OldLanes' /\ EngineStaysOnItsLane'
  BY DEF IInv, OneEntry, OldLanes, EngineStaysOnItsLane, Places
<1>5. EntryIsDue'
  <2>1. \A l \in Lanes : \A i \in Places(l) :
          work[l][i].of # 0 => job'[work[l][i].of] \notin {"none", "created", "queued"}
    <3> SUFFICES ASSUME NEW l \in Lanes, NEW i \in Places(l), work[l][i].of # 0
                 PROVE  job'[work[l][i].of] \notin {"none", "created", "queued"}
      OBVIOUS
    <3>1. work[l][i].of \in Replies
      BY PlaceFacts DEF IInv, EntryIsDue
    <3>2. job[work[l][i].of] \notin {"none", "created", "queued"}
      BY DEF IInv, EntryIsDue
    <3> QED  BY <3>1, <3>2, <1>1, <1>2
  <2> QED  BY <2>1 DEF IInv, EntryIsDue, Places
<1>6. Prepared'
  BY <1>1, <1>2 DEF IInv, Prepared, Places
<1>7. Playing'
  <2>1. ASSUME NEW l \in Lanes, NEW i \in Places(l), work[l][i].what = "play"
        PROVE  /\ job'[work[l][i].of] # "preparing"
               /\ job[work[l][i].of] \in {"playing", "stopping", "draining"}
                    => job'[work[l][i].of] \in {"playing", "stopping", "draining"}
    <3>1. work[l][i].of \in Replies /\ job[work[l][i].of] # "preparing"
      BY <2>1, PlaceFacts DEF IInv, Playing
    <3> QED  BY <3>1, <1>1, <1>2
  <2>2. lane \in Lanes
    BY DEF IInv, TypeOK
  <2> QED  BY <2>1, <2>2 DEF IInv, Playing, Places
<1>8. Fresh'
  <2>1. aborted \subseteq Replies
    BY DEF IInv, TypeOK
  <2> QED  BY <2>1, <1>1, <1>2 DEF IInv, Fresh
<1>9. LanesUsed'
  BY <1>1, <1>2, LanesStay DEF IInv
<1> QED  BY <1>3, <1>4, <1>5, <1>6, <1>7, <1>8, <1>9 DEF Kept

\* speak() ends, with no playback of its own left on the lane unless its cleanup was cancelled.
LEMMA EndsKeep ==
  ASSUME IInv, NEW j \in Replies, Over(j), job[j] # "over",
         UNCHANGED <<lane, work, engine>>,
         flagged \subseteq flagged',
         aborted' = aborted \/ (aborted' = aborted \cup {j} /\ j \in flagged'),
         answer' = answer \/ /\ answer' = [answer EXCEPT ![j] = "failed"]
                             /\ \A l \in Lanes : \A i \in Places(l) : work[l][i].of # j,
         \/ j \in aborted'
         \/ \A i \in Places(lane) : work[lane][i] # Item("play", j)
  PROVE  Kept'
<1>0. job \in [Replies -> JobStates] /\ answer \in [Replies -> {"none", "prepared", "played", "skipped", "failed"}]
      /\ lane \in Lanes
  BY DEF IInv, TypeOK
<1>1. job'[j] = "over" /\ \A k \in Replies \ {j} : job'[k] = job[k]
  BY OverFacts DEF IInv
<1>2. line # <<>> /\ Head(line) # j => line' # <<>> /\ Head(line') = Head(line)
  BY OverFacts DEF IInv
<1>3. \A k \in Replies \ {j} : answer'[k] = answer[k]
  BY <1>0
<1>4. OneHolder'
  <2> SUFFICES ASSUME NEW k \in Replies, job'[k] \in Holding PROVE line' # <<>> /\ Head(line') = k
    BY DEF OneHolder
  <2>1. k # j
    BY <1>1 DEF Holding
  <2> QED  BY <2>1, <1>1, <1>2 DEF IInv, OneHolder
<1>5. OneEntry' /\ EngineStaysOnItsLane'
  BY DEF IInv, OneEntry, EngineStaysOnItsLane, Places
<1>6. OldLanes'
  BY DEF IInv, OldLanes, Places
<1>7. EntryIsDue'
  <2> SUFFICES ASSUME NEW l \in Lanes, NEW i \in Places(l)
               PROVE  LET e == work[l][i] IN
                      /\ e.what = "close" <=> e.of = 0
                      /\ e.what = "prepare" => answer'[e.of] = "none"
                      /\ e.what = "play" => answer'[e.of] = "prepared"
                      /\ e.of # 0 => job'[e.of] \notin {"none", "created", "queued"}
    BY DEF EntryIsDue, Places
  <2>1. work[l][i].what = "close" <=> work[l][i].of = 0
    BY DEF IInv, EntryIsDue
  <2>2. CASE work[l][i].of = j
    BY <2>1, <2>2, <1>1 DEF IInv, EntryIsDue, Replies
  <2>3. CASE work[l][i].of # j /\ work[l][i].of # 0
    <3>1. work[l][i].of \in Replies \ {j}
      BY <2>1, <2>3, PlaceFacts DEF IInv
    <3> QED  BY <2>1, <3>1, <1>1, <1>3 DEF IInv, EntryIsDue
  <2>4. CASE work[l][i].of = 0
    BY <2>1, <2>4
  <2> QED  BY <2>2, <2>3, <2>4
<1>8. Prepared'
  <2>1. \A k \in Replies : job'[k] \in Holding => k # j /\ job'[k] = job[k] /\ answer'[k] = answer[k]
    BY <1>1, <1>3 DEF Holding
  <2> QED  BY <2>1 DEF IInv, Prepared, Places, Holding
<1>9. Playing'
  <2>1. ASSUME NEW l \in Lanes, NEW i \in Places(l), work[l][i].what = "play"
        PROVE  job'[work[l][i].of] # "preparing"
    <3>1. work[l][i].of \in Replies /\ job[work[l][i].of] # "preparing"
      BY <2>1, PlaceFacts DEF IInv, Playing
    <3> QED  BY <3>1, <1>1
  <2>2. ASSUME NEW i \in Places(lane), work[lane][i].what = "play"
        PROVE  \/ job'[work[lane][i].of] \in {"playing", "stopping", "draining"}
               \/ work[lane][i].of \in aborted'
    <3>1. work[lane][i].of \in Replies /\ work[lane][i] \in Entries
      BY <2>2, <1>0, PlaceFacts DEF IInv
    <3>2. CASE work[lane][i].of = j
      <4>1. work[lane][i] = Item("play", j)
        BY <2>2, <3>1, <3>2 DEF Item, Entries
      <4> QED  BY <4>1, <3>2
    <3>3. CASE work[lane][i].of # j
      BY <2>2, <3>1, <3>3, <1>1 DEF IInv, Playing
    <3> QED  BY <3>2, <3>3
  <2> QED  BY <2>1, <2>2 DEF Playing, Places
<1>10. Fresh'
  <2>1. aborted \subseteq Replies
    BY DEF IInv, TypeOK
  <2>2. (\A k \in aborted : job[k] = "over") /\ aborted \subseteq flagged
    BY DEF IInv, Fresh
  <2>3. \A k \in aborted' : job'[k] = "over"
    BY <2>1, <2>2, <1>1
  <2>4. aborted' \subseteq flagged'
    BY <2>2
  <2>5. \A k \in Replies : /\ job'[k] \in {"none", "created", "queued"} => answer'[k] = "none"
                           /\ job'[k] \in {"stopping", "draining"} => k \in flagged'
    BY <1>1, <1>3 DEF IInv, Fresh
  <2> QED  BY <2>3, <2>4, <2>5 DEF Fresh
<1>11. LanesUsed'
  BY <1>1, LanesStay DEF IInv
<1> QED  BY <1>4, <1>5, <1>6, <1>7, <1>8, <1>9, <1>10, <1>11 DEF Kept

\* Two jobs never hold the lock.
LEMMA HolderIsOne ==
  OneHolder => \A j, k \in Replies : job[j] \in Holding /\ job[k] \in Holding => j = k
BY DEF OneHolder

\* An entry is added to the lane in use: what was there stays, and the new one is the last.
LEMMA PushPlaces ==
  ASSUME TypeOK, NEW e \in Entries, Push(e), lane' = lane
  PROVE  /\ \A l \in Lanes : \A i \in Places(l)' :
              \/ i \in Places(l) /\ work'[l][i] = work[l][i]
              \/ l = lane /\ i = Len(work[lane]) + 1 /\ work'[l][i] = e
         /\ \A l \in Lanes : \A i \in Places(l) : i \in Places(l)' /\ work'[l][i] = work[l][i]
         /\ Len(work[lane]) + 1 \in Places(lane)' /\ work'[lane][Len(work[lane]) + 1] = e
         /\ \A i \in Places(lane) : i < Len(work[lane]) + 1
         /\ \A l \in Lanes : l # lane => work'[l] = work[l]
<1>1. /\ \A l \in Lanes \ {lane} : work'[l] = work[l]
      /\ Len(work[lane]) \in Nat /\ Len(work'[lane]) = Len(work[lane]) + 1
      /\ work'[lane][Len(work[lane]) + 1] = e
      /\ \A i \in Places(lane) : work'[lane][i] = work[lane][i]
  BY PushFacts
<1>2. \A l \in Lanes : l # lane => Places(l)' = Places(l) /\ work'[l] = work[l]
  BY <1>1 DEF Places
<1>3. Places(lane) = 1..Len(work[lane]) /\ Places(lane)' = 1..(Len(work[lane]) + 1)
  BY <1>1 DEF Places
<1> DEFINE n == Len(work[lane])
<1>4. /\ \A i \in 1..(n + 1) : i \in 1..n \/ i = n + 1
      /\ n + 1 \in 1..(n + 1) /\ \A i \in 1..n : i \in 1..(n + 1) /\ i < n + 1
  BY <1>1
<1>5. /\ \A i \in Places(lane)' : i \in Places(lane) \/ i = n + 1
      /\ n + 1 \in Places(lane)' /\ \A i \in Places(lane) : i \in Places(lane)' /\ i < n + 1
  BY <1>3, <1>4
<1> HIDE DEF n
<1>6. ASSUME NEW l \in Lanes, NEW i \in Places(l)'
      PROVE  \/ i \in Places(l) /\ work'[l][i] = work[l][i]
             \/ l = lane /\ i = n + 1 /\ work'[l][i] = e
  <2>1. CASE l = lane
    BY <2>1, <1>1, <1>5, <1>6 DEF n
  <2>2. CASE l # lane
    BY <2>2, <1>2, <1>6
  <2> QED  BY <2>1, <2>2
<1>7. ASSUME NEW l \in Lanes, NEW i \in Places(l)
      PROVE  i \in Places(l)' /\ work'[l][i] = work[l][i]
  <2>1. CASE l = lane
    BY <2>1, <1>1, <1>5, <1>7
  <2>2. CASE l # lane
    BY <2>2, <1>2, <1>7
  <2> QED  BY <2>1, <2>2
<1> QED  BY <1>1, <1>2, <1>5, <1>6, <1>7 DEF n

\* Entries stay one for each job when the new one is of a job that has none.
LEMMA PushKeepsOneEntry ==
  ASSUME TypeOK, OneEntry, NEW e \in Entries, Push(e), lane' = lane,
         e.of # 0 => \A l \in Lanes : \A i \in Places(l) : work[l][i].of # e.of
  PROVE  OneEntry'
<1> SUFFICES ASSUME NEW l \in Lanes, NEW m \in Lanes, NEW i \in Places(l)', NEW k \in Places(m)',
                    work'[l][i].of # 0, work'[l][i].of = work'[m][k].of
             PROVE  l = m /\ i = k
  BY DEF OneEntry, Places
<1>1. \/ i \in Places(l) /\ work'[l][i] = work[l][i]
      \/ l = lane /\ i = Len(work[lane]) + 1 /\ work'[l][i] = e
  BY PushPlaces
<1>2. \/ k \in Places(m) /\ work'[m][k] = work[m][k]
      \/ m = lane /\ k = Len(work[lane]) + 1 /\ work'[m][k] = e
  BY PushPlaces
<1> QED  BY <1>1, <1>2 DEF OneEntry

\* A job that did not hold the lock, or waits for its engine no more, has nothing to run.
LEMMA NoEntry ==
  ASSUME IInv, NEW j \in Replies,
         \/ job[j] \in {"none", "created", "queued"}
         \/ job[j] = "preparing" /\ answer[j] # "none"
  PROVE  \A l \in Lanes : \A i \in Places(l) : work[l][i].of # j
<1> SUFFICES ASSUME NEW l \in Lanes, NEW i \in Places(l), work[l][i].of = j PROVE FALSE
  OBVIOUS
<1>1. /\ work[l][i].what \in {"prepare", "play", "close"}
      /\ j # 0
  BY PlaceFacts DEF IInv, Replies
<1>2. job[j] \notin {"none", "created", "queued"}
  BY <1>1 DEF IInv, EntryIsDue
<1>3. work[l][i].what = "prepare" => answer[j] = "none"
  BY DEF IInv, EntryIsDue
<1>4. work[l][i].what = "play" => job[j] # "preparing"
  BY DEF IInv, Playing
<1>5. work[l][i].what # "close"
  BY <1>1 DEF IInv, EntryIsDue
<1> QED  BY <1>1, <1>2, <1>3, <1>4, <1>5

\* The lock is taken and the engine asked for.
LEMMA EnterKeeps ==
  ASSUME IInv, NEW j \in Replies, job[j] \in {"created", "queued"}, Enter(j),
         UNCHANGED <<aborted, lane, engine, answer>>, flagged' = flagged,
         line' # <<>> /\ Head(line') = j,
         line # <<>> => Head(line) = j
  PROVE  Kept'
<1> DEFINE e == Item("prepare", j)
           n == Len(work[lane]) + 1
<1>0. /\ job \in [Replies -> JobStates] /\ lane \in Lanes /\ e \in Entries
      /\ e.what = "prepare" /\ e.of = j
  BY ItemFacts DEF IInv, TypeOK
<1>1. job'[j] = "preparing" /\ \A k \in Replies \ {j} : job'[k] = job[k]
  BY <1>0 DEF Enter
<1>2. Push(e)
  BY DEF Enter, Push
<1> HIDE DEF e
<1>3. \A l \in Lanes : \A i \in Places(l) : work[l][i].of # j
  BY NoEntry
<1>4. /\ \A l \in Lanes : \A i \in Places(l)' :
           \/ i \in Places(l) /\ work'[l][i] = work[l][i]
           \/ l = lane /\ i = n /\ work'[l][i] = e
      /\ n \in Places(lane)' /\ work'[lane][n] = e
      /\ \A i \in Places(lane) : i < n
      /\ \A l \in Lanes : l # lane => work'[l] = work[l]
  BY <1>0, <1>2, PushPlaces DEF IInv
<1> HIDE DEF n
<1>5. OneHolder'
  BY <1>1 DEF IInv, OneHolder
<1>6. OneEntry'
  BY <1>0, <1>2, <1>3, PushKeepsOneEntry DEF IInv
<1>7. \A k \in Replies \ {j} : job'[k] \notin Holding
  BY <1>1, <1>5 DEF OneHolder, Holding
<1>8. answer[j] = "none"
  BY DEF IInv, Fresh
<1>9. EntryIsDue'
  <2> SUFFICES ASSUME NEW l \in Lanes, NEW i \in Places(l)'
               PROVE  LET d == work'[l][i] IN
                      /\ d.what = "close" <=> d.of = 0
                      /\ d.what = "prepare" => answer[d.of] = "none"
                      /\ d.what = "play" => answer[d.of] = "prepared"
                      /\ d.of # 0 => job'[d.of] \notin {"none", "created", "queued"}
    BY DEF EntryIsDue
  <2>1. CASE i \in Places(l) /\ work'[l][i] = work[l][i]
    <3>1. work[l][i].what = "close" <=> work[l][i].of = 0
      BY <2>1 DEF IInv, EntryIsDue
    <3>2. work[l][i].of # 0 => work[l][i].of \in Replies \ {j}
      BY <2>1, <3>1, <1>3, PlaceFacts DEF IInv
    <3> QED  BY <2>1, <3>1, <3>2, <1>1 DEF IInv, EntryIsDue
  <2>2. CASE l = lane /\ i = n /\ work'[l][i] = e
    BY <2>2, <1>0, <1>1, <1>8 DEF Replies
  <2> QED  BY <1>4, <2>1, <2>2
<1>10. OldLanes'
  <2> SUFFICES ASSUME NEW l \in Lanes
               PROVE  /\ l > lane => work'[l] = <<>>
                      /\ l < lane => \A i \in Places(l)' :
                           \/ work'[l][i].what = "close"
                           \/ work'[l][i].what = "play" /\ work'[l][i].of \in flagged
    BY DEF OldLanes
  <2>1. l # lane => work'[l] = work[l] /\ Places(l)' = Places(l)
    BY <1>4 DEF Places
  <2>2. l > lane \/ l < lane => l # lane
    BY <1>0 DEF Lanes
  <2> QED  BY <2>1, <2>2 DEF IInv, OldLanes
<1>11. Prepared'
  <2> SUFFICES /\ \E i \in Places(lane)' :
                    /\ work'[lane][i] = Item("prepare", j)
                    /\ \A k \in Places(lane)' : k > i => work'[lane][k].what = "close"
    BY <1>1, <1>7, <1>8 DEF Prepared, Holding
  <2>1. \A k \in Places(lane)' : ~(k > n)
    <3>1. n \in Nat
      BY PushFacts, <1>0, <1>2 DEF IInv, n
    <3> QED  BY <1>4, <1>0, <3>1 DEF Places
  <2> QED  BY <1>4, <2>1 DEF e
<1>12. Playing'
  <2>1. ASSUME NEW l \in Lanes, NEW i \in Places(l)', work'[l][i].what = "play"
        PROVE  /\ i \in Places(l) /\ work'[l][i] = work[l][i]
               /\ job'[work'[l][i].of] = job[work[l][i].of]
    <3>1. i \in Places(l) /\ work'[l][i] = work[l][i]
      BY <2>1, <1>4, <1>0
    <3>2. work[l][i].of \in Replies \ {j}
      BY <2>1, <3>1, <1>3, PlaceFacts DEF IInv
    <3> QED  BY <3>1, <3>2, <1>1
  <2> QED  BY <2>1, <1>0 DEF IInv, Playing
<1>13. Fresh'
  <2>1. (\A k \in aborted : k \in Replies /\ job[k] = "over") /\ aborted \subseteq flagged
    BY DEF IInv, Fresh, TypeOK
  <2> QED  BY <2>1, <1>1, <1>8 DEF IInv, Fresh
<1>14. LanesUsed' /\ EngineStaysOnItsLane'
  BY <1>1, LanesStay DEF IInv, EngineStaysOnItsLane
<1> QED  BY <1>5, <1>6, <1>9, <1>10, <1>11, <1>12, <1>13, <1>14 DEF Kept

\* The playback is handed to the lane.
LEMMA PlayKeeps ==
  ASSUME IInv, NEW j \in Replies, Play(j)
  PROVE  Kept'
<1> DEFINE e == Item("play", j)
           n == Len(work[lane]) + 1
<1>0. /\ job \in [Replies -> JobStates] /\ lane \in Lanes /\ e \in Entries
      /\ e.what = "play" /\ e.of = j
      /\ UNCHANGED <<aborted, line, flagged, lane, engine, answer>>
  BY ItemFacts DEF IInv, TypeOK, Play
<1>1. /\ job[j] = "preparing" /\ answer[j] = "prepared"
      /\ job'[j] = "playing" /\ \A k \in Replies \ {j} : job'[k] = job[k]
  BY <1>0 DEF Play
<1>2. Push(e)
  BY DEF Play, Push
<1> HIDE DEF e
<1>3. \A l \in Lanes : \A i \in Places(l) : work[l][i].of # j
  BY <1>1, NoEntry
<1>4. /\ \A l \in Lanes : \A i \in Places(l)' :
           \/ i \in Places(l) /\ work'[l][i] = work[l][i]
           \/ l = lane /\ i = n /\ work'[l][i] = e
      /\ \A l \in Lanes : l # lane => work'[l] = work[l]
  BY <1>0, <1>2, PushPlaces DEF IInv
<1> HIDE DEF n
<1>5. OneHolder'
  BY <1>0, <1>1 DEF IInv, OneHolder, Holding
<1>6. OneEntry'
  BY <1>0, <1>2, <1>3, PushKeepsOneEntry DEF IInv
<1>7. \A k \in Replies \ {j} : job'[k] \notin Holding
  BY <1>1, <1>5 DEF OneHolder, Holding
<1>9. EntryIsDue'
  <2> SUFFICES ASSUME NEW l \in Lanes, NEW i \in Places(l)'
               PROVE  LET d == work'[l][i] IN
                      /\ d.what = "close" <=> d.of = 0
                      /\ d.what = "prepare" => answer[d.of] = "none"
                      /\ d.what = "play" => answer[d.of] = "prepared"
                      /\ d.of # 0 => job'[d.of] \notin {"none", "created", "queued"}
    BY <1>0 DEF EntryIsDue
  <2>1. CASE i \in Places(l) /\ work'[l][i] = work[l][i]
    <3>1. work[l][i].what = "close" <=> work[l][i].of = 0
      BY <2>1 DEF IInv, EntryIsDue
    <3>2. work[l][i].of # 0 => work[l][i].of \in Replies \ {j}
      BY <2>1, <3>1, <1>3, PlaceFacts DEF IInv
    <3> QED  BY <2>1, <3>1, <3>2, <1>1 DEF IInv, EntryIsDue
  <2>2. CASE l = lane /\ i = n /\ work'[l][i] = e
    BY <2>2, <1>0, <1>1 DEF Replies
  <2> QED  BY <1>4, <2>1, <2>2
<1>10. OldLanes'
  <2> SUFFICES ASSUME NEW l \in Lanes
               PROVE  /\ l > lane => work'[l] = <<>>
                      /\ l < lane => \A i \in Places(l)' :
                           \/ work'[l][i].what = "close"
                           \/ work'[l][i].what = "play" /\ work'[l][i].of \in flagged
    BY <1>0 DEF OldLanes
  <2>1. l # lane => work'[l] = work[l] /\ Places(l)' = Places(l)
    BY <1>4 DEF Places
  <2>2. l > lane \/ l < lane => l # lane
    BY <1>0 DEF Lanes
  <2> QED  BY <2>1, <2>2 DEF IInv, OldLanes
<1>11. Prepared'
  <2> SUFFICES \A i \in Places(lane)' : work'[lane][i].what # "prepare"
    BY <1>0, <1>1, <1>7 DEF Prepared, Holding
  <2> TAKE i \in Places(lane)'
  <2>1. \A k \in Places(lane) : work[lane][k].what # "prepare"
    BY <1>1 DEF IInv, Prepared
  <2>2. lane' = lane
    BY <1>0
  <2> QED  BY <1>4, <1>0, <2>1, <2>2
<1>12. Playing'
  <2>1. ASSUME NEW l \in Lanes, NEW i \in Places(l)', work'[l][i].what = "play"
        PROVE  \/ /\ i \in Places(l) /\ work'[l][i] = work[l][i]
                  /\ job'[work'[l][i].of] = job[work[l][i].of]
               \/ job'[work'[l][i].of] = "playing"
    <3>1. CASE i \in Places(l) /\ work'[l][i] = work[l][i]
      <4>1. work[l][i].of \in Replies \ {j}
        BY <2>1, <3>1, <1>3, PlaceFacts DEF IInv
      <4> QED  BY <3>1, <4>1, <1>1
    <3>2. CASE work'[l][i] = e
      BY <3>2, <1>0, <1>1
    <3> QED  BY <2>1, <1>4, <3>1, <3>2
  <2> QED  BY <2>1, <1>0 DEF IInv, Playing
<1>13. Fresh'
  <2>1. (\A k \in aborted : k \in Replies /\ job[k] = "over") /\ aborted \subseteq flagged
    BY DEF IInv, Fresh, TypeOK
  <2> QED  BY <2>1, <1>0, <1>1 DEF IInv, Fresh
<1>14. LanesUsed' /\ EngineStaysOnItsLane'
  BY <1>0, <1>1, LanesStay DEF IInv, EngineStaysOnItsLane
<1> QED  BY <1>5, <1>6, <1>9, <1>10, <1>11, <1>12, <1>13, <1>14 DEF Kept

\* close() leaves the closing of the engine to the lane.
LEMMA CloseKeeps ==
  ASSUME IInv, Close
  PROVE  Kept'
<1> DEFINE e == Item("close", 0)
           n == Len(work[lane]) + 1
<1>0. /\ lane \in Lanes /\ e \in Entries /\ e.what = "close" /\ e.of = 0
      /\ UNCHANGED <<job, aborted, line, lane, engine, answer>> /\ flagged \subseteq flagged'
  BY MaxRepliesAssumption DEF IInv, TypeOK, Close, jobs, StopCall, Item, Entries
<1>2. Push(e)
  BY DEF Close, Push
<1> HIDE DEF e
<1>4. /\ \A l \in Lanes : \A i \in Places(l)' :
           \/ i \in Places(l) /\ work'[l][i] = work[l][i]
           \/ l = lane /\ i = n /\ work'[l][i] = e
      /\ \A l \in Lanes : \A i \in Places(l) : i \in Places(l)' /\ work'[l][i] = work[l][i]
      /\ \A l \in Lanes : l # lane => work'[l] = work[l]
  BY <1>0, <1>2, PushPlaces DEF IInv
<1> HIDE DEF n
<1>5. OneHolder'
  BY <1>0 DEF IInv, OneHolder
<1>6. OneEntry'
  BY <1>0, <1>2, PushKeepsOneEntry DEF IInv
<1>9. EntryIsDue'
  <2> SUFFICES ASSUME NEW l \in Lanes, NEW i \in Places(l)'
               PROVE  LET d == work'[l][i] IN
                      /\ d.what = "close" <=> d.of = 0
                      /\ d.what = "prepare" => answer[d.of] = "none"
                      /\ d.what = "play" => answer[d.of] = "prepared"
                      /\ d.of # 0 => job[d.of] \notin {"none", "created", "queued"}
    BY <1>0 DEF EntryIsDue
  <2> QED  BY <1>0, <1>4 DEF IInv, EntryIsDue
<1>10. OldLanes'
  <2> SUFFICES ASSUME NEW l \in Lanes
               PROVE  /\ l > lane => work'[l] = <<>>
                      /\ l < lane => \A i \in Places(l)' :
                           \/ work'[l][i].what = "close"
                           \/ work'[l][i].what = "play" /\ work'[l][i].of \in flagged'
    BY <1>0 DEF OldLanes
  <2>1. l # lane => work'[l] = work[l] /\ Places(l)' = Places(l)
    BY <1>4 DEF Places
  <2>2. l > lane \/ l < lane => l # lane
    BY <1>0 DEF Lanes
  <2> QED  BY <2>1, <2>2, <1>0 DEF IInv, OldLanes
<1>11. Prepared'
  <2> SUFFICES ASSUME NEW j \in Replies
               PROVE  /\ job[j] = "preparing" /\ answer[j] = "none" =>
                           \E i \in Places(lane)' :
                              /\ work'[lane][i] = Item("prepare", j)
                              /\ \A k \in Places(lane)' : k > i => work'[lane][k].what = "close"
                      /\ \/ job[j] = "preparing" /\ answer[j] # "none"
                         \/ job[j] \in {"playing", "stopping", "draining"}
                         => \A i \in Places(lane)' : work'[lane][i].what # "prepare"
    BY <1>0 DEF Prepared
  <2>1. ASSUME job[j] = "preparing", answer[j] = "none"
        PROVE  \E i \in Places(lane)' :
                  /\ work'[lane][i] = Item("prepare", j)
                  /\ \A k \in Places(lane)' : k > i => work'[lane][k].what = "close"
    <3>1. PICK i \in Places(lane) :
            /\ work[lane][i] = Item("prepare", j)
            /\ \A k \in Places(lane) : k > i => work[lane][k].what = "close"
      BY <2>1 DEF IInv, Prepared
    <3>2. i \in Places(lane)' /\ work'[lane][i] = Item("prepare", j)
      BY <3>1, <1>0, <1>4
    <3>3. \A k \in Places(lane)' : k > i => work'[lane][k].what = "close"
      BY <3>1, <1>0, <1>4
    <3> QED  BY <3>2, <3>3
  <2>2. ASSUME \/ job[j] = "preparing" /\ answer[j] # "none"
               \/ job[j] \in {"playing", "stopping", "draining"}
        PROVE  \A i \in Places(lane)' : work'[lane][i].what # "prepare"
    <3>1. \A i \in Places(lane) : work[lane][i].what # "prepare"
      BY <2>2 DEF IInv, Prepared
    <3> QED  BY <3>1, <1>0, <1>4
  <2> QED  BY <2>1, <2>2
<1>12. Playing'
  <2>1. ASSUME NEW l \in Lanes, NEW i \in Places(l)', work'[l][i].what = "play"
        PROVE  i \in Places(l) /\ work'[l][i] = work[l][i]
    BY <2>1, <1>4, <1>0
  <2> QED  BY <2>1, <1>0 DEF IInv, Playing
<1>13. Fresh'
  BY <1>0 DEF IInv, Fresh
<1>14. LanesUsed' /\ EngineStaysOnItsLane'
  BY <1>0, LanesStay DEF IInv, EngineStaysOnItsLane
<1> QED  BY <1>5, <1>6, <1>9, <1>10, <1>11, <1>12, <1>13, <1>14 DEF Kept

\* The lane is given up: what is left on it is told to stop, and the next one is empty.
LEMMA RotateKeeps ==
  ASSUME IInv, NEW j \in Replies, Rotate(j)
  PROVE  Kept'
<1>0. /\ job \in [Replies -> JobStates] /\ lane \in Lanes /\ lane + 1 \in Lanes
      /\ UNCHANGED <<aborted, work, flagged, answer>> /\ lane' = lane + 1 /\ engine' = 0
      /\ job[j] = "draining" /\ j \in flagged
  BY LanesSuffice DEF IInv, TypeOK, Rotate, Fresh
<1>1. job'[j] = "over" /\ \A k \in Replies \ {j} : job'[k] = job[k]
  BY OverFacts DEF IInv, Rotate
<1>2. \A k \in Replies : job'[k] \notin Holding
  <2>1. \A k \in Replies \ {j} : job[k] \notin Holding
    BY <1>0 DEF IInv, OneHolder, Holding
  <2> QED  BY <1>1, <2>1 DEF Holding
<1>3. OneHolder' /\ Prepared'
  BY <1>2 DEF OneHolder, Prepared, Holding
<1>4. OneEntry' /\ EngineStaysOnItsLane'
  BY <1>0 DEF IInv, OneEntry, EngineStaysOnItsLane, Places
<1>5. EntryIsDue'
  <2> SUFFICES ASSUME NEW l \in Lanes, NEW i \in Places(l), work[l][i].of # 0
               PROVE  job'[work[l][i].of] \notin {"none", "created", "queued"}
    BY <1>0 DEF IInv, EntryIsDue, Places
  <2>1. work[l][i].of \in Replies /\ job[work[l][i].of] \notin {"none", "created", "queued"}
    BY PlaceFacts DEF IInv, EntryIsDue
  <2> QED  BY <2>1, <1>1
<1>6. work[lane + 1] = <<>>
  BY <1>0 DEF IInv, OldLanes, Lanes
<1>7. OldLanes'
  <2>1. ASSUME NEW i \in Places(lane)
        PROVE  work[lane][i].what = "close" \/ (work[lane][i].what = "play" /\ work[lane][i].of \in flagged)
    <3>1. work[lane][i].what \in {"play", "close"}
      BY <1>0, PlaceFacts DEF IInv, Prepared
    <3>2. CASE work[lane][i].what = "play"
      <4>1. CASE work[lane][i].of \in aborted
        BY <4>1, <3>2 DEF IInv, Fresh
      <4>2. CASE job[work[lane][i].of] \in {"playing", "stopping", "draining"}
        <5>1. work[lane][i].of \in Replies
          BY <1>0, <3>2, PlaceFacts DEF IInv
        <5>2. work[lane][i].of = j
          BY <5>1, <4>2, <1>0, HolderIsOne DEF IInv, Holding
        <5> QED  BY <5>2, <1>0, <3>2
      <4> QED  BY <3>2, <4>1, <4>2 DEF IInv, Playing
    <3> QED  BY <3>1, <3>2
  <2> SUFFICES ASSUME NEW l \in Lanes
               PROVE  /\ l > lane + 1 => work[l] = <<>>
                      /\ l < lane + 1 => \A i \in Places(l) :
                           \/ work[l][i].what = "close"
                           \/ work[l][i].what = "play" /\ work[l][i].of \in flagged
    BY <1>0 DEF OldLanes, Places
  <2>2. l > lane + 1 => l > lane
    BY <1>0 DEF Lanes
  <2>3. l < lane + 1 => l = lane \/ l < lane
    BY <1>0 DEF Lanes
  <2> QED  BY <2>1, <2>2, <2>3 DEF IInv, OldLanes
<1>8. Playing'
  <2>1. Places(lane)' = {}
    BY <1>0, <1>6 DEF Places
  <2>2. ASSUME NEW l \in Lanes, NEW i \in Places(l), work[l][i].what = "play"
        PROVE  job'[work[l][i].of] # "preparing"
    <3>1. work[l][i].of \in Replies
      BY <2>2, PlaceFacts DEF IInv
    <3> QED  BY <3>1, <1>2 DEF Holding
  <2> QED  BY <2>1, <2>2, <1>0 DEF Playing, Places
<1>9. Fresh'
  <2>1. (\A k \in aborted : k \in Replies /\ job[k] = "over") /\ aborted \subseteq flagged
    BY DEF IInv, Fresh, TypeOK
  <2> QED  BY <2>1, <1>0, <1>1 DEF IInv, Fresh
<1>10. LanesUsed'
  <2> DEFINE O == {k \in Replies : job[k] = "over"}
             P == {k \in Replies : job'[k] = "over"}
  <2>1. IsFiniteSet(Replies)
    BY FS_Interval, MaxRepliesAssumption DEF Replies
  <2>2. IsFiniteSet(O)
    BY <2>1, FS_Subset
  <2>3. P = O \cup {j} /\ j \notin O
    BY <1>0, <1>1
  <2>4. lane <= 1 + Cardinality(O) /\ lane \in Nat
    BY <1>0, MaxRepliesAssumption DEF IInv, LanesUsed, Lanes
  <2>5. SUFFICES lane + 1 <= 1 + Cardinality(P)
    BY <1>0 DEF LanesUsed
  <2> HIDE DEF O, P
  <2>6. Cardinality(P) = Cardinality(O) + 1 /\ Cardinality(O) \in Nat
    BY <2>2, <2>3, FS_AddElement, FS_CardinalityType
  <2> QED  BY <2>4, <2>6
<1> QED  BY <1>3, <1>4, <1>5, <1>7, <1>8, <1>9, <1>10 DEF Kept

-----------------------------------------------------------------------------
(* What the threads leave of it *)

\* The first entry of a lane is done: the others move up.
LEMMA PopPlaces ==
  ASSUME TypeOK, NEW l \in Lanes, Pop(l)
  PROVE  /\ \A m \in Lanes : m # l => work'[m] = work[m] /\ Places(m)' = Places(m)
         /\ \A i \in Places(l)' : i + 1 \in Places(l) /\ work'[l][i] = work[l][i + 1]
         /\ \A i \in Places(l) : i # 1 => i - 1 \in Places(l)' /\ work'[l][i - 1] = work[l][i]
         /\ 1 \in Places(l) /\ Head(work[l]) = work[l][1]
<1>1. /\ \A m \in Lanes \ {l} : work'[m] = work[m]
      /\ Len(work[l]) \in Nat \ {0} /\ Len(work'[l]) = Len(work[l]) - 1
      /\ \A i \in 1..(Len(work[l]) - 1) : work'[l][i] = work[l][i + 1] /\ i + 1 \in Places(l)
      /\ 1 \in Places(l) /\ Head(work[l]) = work[l][1]
  BY PopFacts
<1>2. Places(l)' = 1..(Len(work[l]) - 1)
  BY <1>1 DEF Places
<1>3. \A i \in Places(l) : i # 1 => i - 1 \in Places(l)' /\ (i - 1) + 1 = i
  BY <1>1, <1>2 DEF Places
<1>4. \A m \in Lanes : m # l => work'[m] = work[m] /\ Places(m)' = Places(m)
  BY <1>1 DEF Places
<1>5. \A i \in Places(l)' : i + 1 \in Places(l) /\ work'[l][i] = work[l][i + 1]
  BY <1>1, <1>2
<1>6. \A i \in Places(l) : i # 1 => work'[l][i - 1] = work[l][i]
  BY <1>3, <1>5
<1> QED  BY <1>1, <1>3, <1>4, <1>5, <1>6

\* A thread is done with its first entry, and the job it was for is answered.
LEMMA PopKeeps ==
  ASSUME IInv, NEW l \in Lanes, Pop(l),
         UNCHANGED <<job, aborted, line, flagged, lane>>,
         \/ answer' = answer /\ Head(work[l]).of = 0
         \/ \E how \in {"prepared", "played", "skipped", "failed"} :
              /\ Head(work[l]).of # 0
              /\ answer' = [answer EXCEPT ![Head(work[l]).of] = how],
         engine' \in {0, lane}
  PROVE  Kept'
<1> DEFINE h == work[l][1].of
<1>0. /\ lane \in Lanes /\ l \in Lanes
      /\ answer \in [Replies -> {"none", "prepared", "played", "skipped", "failed"}]
  BY DEF IInv, TypeOK
<1>1. /\ \A m \in Lanes : m # l => work'[m] = work[m] /\ Places(m)' = Places(m)
      /\ \A i \in Places(l)' : i + 1 \in Places(l) /\ work'[l][i] = work[l][i + 1]
      /\ \A i \in Places(l) : i # 1 => i - 1 \in Places(l)' /\ work'[l][i - 1] = work[l][i]
      /\ 1 \in Places(l) /\ Head(work[l]) = work[l][1]
  BY PopPlaces DEF IInv
<1>2. \A i \in Places(l)' : i \in Nat /\ i + 1 # 1 /\ i >= 1
  BY DEF Places
\* Every entry that is left was there before, after the first on this lane.
<1>3. \A m \in Lanes : \A i \in Places(m)' :
        \E k \in Places(m) : /\ work'[m][i] = work[m][k]
                             /\ (m # l /\ k = i) \/ (m = l /\ k = i + 1)
  <2> TAKE m \in Lanes
  <2> TAKE i \in Places(m)'
  <2>1. CASE m = l
    BY <2>1, <1>1
  <2>2. CASE m # l
    <3>1. i \in Places(m)
      BY <2>2, <1>1
    <3>2. work'[m][i] = work[m][i]
      BY <2>2, <1>1
    <3>3. /\ work'[m][i] = work[m][i]
          /\ (m # l /\ i = i) \/ (m = l /\ i = i + 1)
      BY <2>2, <3>2
    <3> QED  BY <3>1, <3>3
  <2> QED  BY <2>1, <2>2
<1>4. \A m \in Lanes : \A i \in Places(m)' : h # 0 => work'[m][i].of # h
  <2> SUFFICES ASSUME NEW m \in Lanes, NEW i \in Places(m)', h # 0, work'[m][i].of = h PROVE FALSE
    OBVIOUS
  <2>1. PICK k \in Places(m) : /\ work'[m][i] = work[m][k]
                               /\ (m # l /\ k = i) \/ (m = l /\ k = i + 1)
    BY <1>3
  <2>2. m = l /\ k = 1
    BY <2>1, <1>1 DEF IInv, OneEntry
  <2> QED  BY <2>1, <2>2, <1>2
<1>5. \A k \in Replies : k # h => answer'[k] = answer[k]
  BY <1>0, <1>1
<1>6. h \in Replies => answer'[h] # "none"
  BY <1>0, <1>1, MaxRepliesAssumption DEF Replies
<1>7. h = 0 \/ h \in Replies
  BY <1>1, PlaceFacts DEF IInv, EntryIsDue
<1>8. OneHolder'
  BY DEF IInv, OneHolder
<1>9. OneEntry'
  <2> SUFFICES ASSUME NEW m \in Lanes, NEW n \in Lanes, NEW i \in Places(m)', NEW k \in Places(n)',
                      work'[m][i].of # 0, work'[m][i].of = work'[n][k].of
               PROVE  m = n /\ i = k
    BY DEF OneEntry
  <2>1. PICK a \in Places(m) : /\ work'[m][i] = work[m][a]
                               /\ (m # l /\ a = i) \/ (m = l /\ a = i + 1)
    BY <1>3
  <2>2. PICK b \in Places(n) : /\ work'[n][k] = work[n][b]
                               /\ (n # l /\ b = k) \/ (n = l /\ b = k + 1)
    BY <1>3
  <2>3. m = n /\ a = b
    BY <2>1, <2>2 DEF IInv, OneEntry
  <2>4. m = l => i \in Nat /\ k \in Nat
    BY <2>3, <1>2
  <2> QED  BY <2>1, <2>2, <2>3, <2>4
<1>10. EntryIsDue'
  <2> SUFFICES ASSUME NEW m \in Lanes, NEW i \in Places(m)'
               PROVE  LET e == work'[m][i] IN
                      /\ e.what = "close" <=> e.of = 0
                      /\ e.what = "prepare" => answer'[e.of] = "none"
                      /\ e.what = "play" => answer'[e.of] = "prepared"
                      /\ e.of # 0 => job[e.of] \notin {"none", "created", "queued"}
    BY DEF EntryIsDue
  <2>1. PICK k \in Places(m) : work'[m][i] = work[m][k]
    BY <1>3
  <2>2. /\ work[m][k].what = "close" <=> work[m][k].of = 0
        /\ work[m][k].what # "close" => work[m][k].of \in Replies
    BY PlaceFacts DEF IInv, EntryIsDue
  <2>3. work[m][k].what # "close" => answer'[work[m][k].of] = answer[work[m][k].of]
    BY <2>1, <2>2, <1>4, <1>5
  <2> QED  BY <2>1, <2>2, <2>3 DEF IInv, EntryIsDue
<1>11. OldLanes'
  <2> SUFFICES ASSUME NEW m \in Lanes
               PROVE  /\ m > lane => work'[m] = <<>>
                      /\ m < lane => \A i \in Places(m)' :
                           \/ work'[m][i].what = "close"
                           \/ work'[m][i].what = "play" /\ work'[m][i].of \in flagged
    BY DEF OldLanes
  <2>1. m > lane => m # l
    BY DEF IInv, OldLanes, Pop
  <2> QED  BY <2>1, <1>1, <1>3 DEF IInv, OldLanes
<1>12. Prepared'
  <2> SUFFICES ASSUME NEW j \in Replies
               PROVE  /\ job[j] = "preparing" /\ answer'[j] = "none" =>
                           \E i \in Places(lane)' :
                              /\ work'[lane][i] = Item("prepare", j)
                              /\ \A k \in Places(lane)' : k > i => work'[lane][k].what = "close"
                      /\ \/ job[j] = "preparing" /\ answer'[j] # "none"
                         \/ job[j] \in {"playing", "stopping", "draining"}
                         => \A i \in Places(lane)' : work'[lane][i].what # "prepare"
    BY DEF Prepared
  <2>1. ASSUME job[j] = "preparing", answer[j] = "none"
        PROVE  \E i \in Places(lane) :
                 /\ work[lane][i] = Item("prepare", j)
                 /\ \A k \in Places(lane) : k > i => work[lane][k].what = "close"
    BY <2>1 DEF IInv, Prepared
  <2>2. ASSUME job[j] = "preparing", answer'[j] = "none"
        PROVE  \E i \in Places(lane)' :
                  /\ work'[lane][i] = Item("prepare", j)
                  /\ \A k \in Places(lane)' : k > i => work'[lane][k].what = "close"
    <3>1. j # h /\ answer[j] = "none"
      BY <2>2, <1>5, <1>6
    <3>2. PICK i \in Places(lane) :
            /\ work[lane][i] = Item("prepare", j)
            /\ \A k \in Places(lane) : k > i => work[lane][k].what = "close"
      BY <2>1, <2>2, <3>1
    <3>3. CASE lane # l
      BY <3>2, <3>3, <1>0, <1>1
    <3>4. CASE lane = l
      <4>1. i # 1 /\ i \in Nat
        BY <3>1, <3>2, <3>4, ItemFacts DEF Places
      <4>2. i - 1 \in Places(lane)' /\ work'[lane][i - 1] = Item("prepare", j)
        BY <4>1, <3>2, <3>4, <1>1
      <4>3. ASSUME NEW k \in Places(lane)', k > i - 1 PROVE work'[lane][k].what = "close"
        <5>1. k + 1 \in Places(lane) /\ work'[lane][k] = work[lane][k + 1] /\ k \in Nat
          BY <4>3, <3>4, <1>1, <1>2
        <5>2. k + 1 > i
          BY <4>1, <4>3, <5>1
        <5> QED  BY <5>1, <5>2, <3>2
      <4> QED  BY <4>2, <4>3
    <3> QED  BY <3>3, <3>4
  <2>3. ASSUME \/ job[j] = "preparing" /\ answer'[j] # "none"
               \/ job[j] \in {"playing", "stopping", "draining"}
        PROVE  \A i \in Places(lane)' : work'[lane][i].what # "prepare"
    <3>1. CASE \/ job[j] = "preparing" /\ answer[j] # "none"
               \/ job[j] \in {"playing", "stopping", "draining"}
      <4>1. \A i \in Places(lane) : work[lane][i].what # "prepare"
        BY <3>1 DEF IInv, Prepared
      <4> QED  BY <4>1, <1>0, <1>3
    <3>2. CASE job[j] = "preparing" /\ answer[j] = "none" /\ answer'[j] # "none"
      <4>1. j = h
        BY <3>2, <1>5
      <4>2. PICK i \in Places(lane) :
              /\ work[lane][i] = Item("prepare", j)
              /\ \A k \in Places(lane) : k > i => work[lane][k].what = "close"
        BY <2>1, <3>2
      <4>3. lane = l /\ i = 1
        <5>1. work[lane][i].of = j /\ j # 0
          BY <4>2, ItemFacts DEF Replies
        <5> QED  BY <5>1, <4>1, <1>0, <1>1 DEF IInv, OneEntry
      <4> SUFFICES ASSUME NEW k \in Places(lane)' PROVE work'[lane][k].what # "prepare"
        OBVIOUS
      <4>4. k + 1 \in Places(lane) /\ work'[lane][k] = work[lane][k + 1] /\ k \in Nat /\ k >= 1
        BY <4>3, <1>1, <1>2
      <4>5. k + 1 > i
        BY <4>3, <4>4
      <4> QED  BY <4>2, <4>4, <4>5
    <3> QED  BY <2>3, <3>1, <3>2
  <2> QED  BY <2>2, <2>3
<1>13. Playing'
  BY <1>0, <1>3 DEF IInv, Playing
<1>14. Fresh'
  <2>1. h \in Replies => job[h] \notin {"none", "created", "queued"}
    BY <1>0, <1>1, MaxRepliesAssumption DEF IInv, EntryIsDue, Replies
  <2>2. \A k \in Replies : job[k] \in {"none", "created", "queued"} => answer'[k] = "none"
    BY <2>1, <1>5 DEF IInv, Fresh
  <2> QED  BY <2>2 DEF IInv, Fresh
<1>15. LanesUsed' /\ EngineStaysOnItsLane'
  BY LanesStay DEF IInv, EngineStaysOnItsLane
<1> QED  BY <1>8, <1>9, <1>10, <1>11, <1>12, <1>13, <1>14, <1>15 DEF Kept

\* The engine is built on the lane in use: nothing that builds one is left on another.
LEMMA ThreadKeeps ==
  ASSUME IInv, NEW l \in Lanes, Thread(l)
  PROVE  Kept'
<1>0. /\ engine \in {0, lane} /\ lane \in Lanes
      /\ UNCHANGED <<job, aborted, line, flagged, lane>>
  BY DEF IInv, EngineStaysOnItsLane, TypeOK, Thread, Prepare, Advance, Silent, CloseEngine, jobs
<1>1. work[l] # <<>>
  BY DEF Thread, Prepare, Advance, Silent, CloseEngine, Running
<1>2. 1 \in Places(l) /\ Head(work[l]) = work[l][1]
  <2>1. work[l] \in Seq(Entries)
    BY DEF IInv, TypeOK, Entries
  <2> QED  BY <1>1, <2>1 DEF Places
<1>3. ~(l > lane)
  BY <1>1 DEF IInv, OldLanes
<1>4. l = lane \/ l < lane
  BY <1>0, <1>3 DEF Lanes
<1>5. Head(work[l]).what \in {"prepare", "play"} => Head(work[l]).of # 0
  BY <1>2 DEF IInv, EntryIsDue
<1>6. ASSUME NEW how \in {"prepared", "played", "skipped", "failed"}, Return(l, how),
             Head(work[l]).what \in {"prepare", "play"}, engine' \in {0, lane}
      PROVE  Kept'
  <2>1. Pop(l) /\ answer' = [answer EXCEPT ![Head(work[l]).of] = how]
    BY <1>1, <1>6 DEF Return, Pop
  <2> QED  BY <2>1, <1>0, <1>5, <1>6, PopKeeps
<1>7. CASE Prepare(l)
  <2>1. l = lane
    BY <1>2, <1>4, <1>7 DEF Prepare, Running, IInv, OldLanes
  <2>2. engine' \in {0, lane} /\ Head(work[l]).what = "prepare"
    BY <2>1, <1>0, <1>7 DEF Prepare, Built, Running
  <2> QED  BY <2>2, <1>6, <1>7 DEF Prepare
<1>8. CASE Silent(l)
  <2>1. engine' \in {0, lane} /\ Head(work[l]).what = "play"
    BY <1>0, <1>8 DEF Silent, Running
  <2> QED  BY <2>1, <1>6, <1>8 DEF Silent
<1>9. CASE Advance(l)
  <2>1. CASE stage[l] # "committed" /\ Head(work[l]).of \in flagged
    <3>1. engine' \in {0, lane} /\ Head(work[l]).what = "play" /\ Return(l, "skipped")
      BY <2>1, <1>0, <1>9 DEF Advance, Running
    <3> QED  BY <3>1, <1>6
  <2>2. CASE ~(stage[l] # "committed" /\ Head(work[l]).of \in flagged)
    <3>1. stage[l] = "idle" => l = lane
      <4>1. stage[l] = "idle" => Head(work[l]).of \notin flagged
        BY <2>2
      <4>2. Head(work[l]).what = "play"
        BY <1>9 DEF Advance, Running
      <4> QED  BY <4>1, <4>2, <1>2, <1>4 DEF IInv, OldLanes
    <3>2. engine' \in {0, lane} /\ UNCHANGED <<work, answer>>
      BY <2>2, <3>1, <1>0, <1>9 DEF Advance, Built
    <3>3. OneEntry' /\ EntryIsDue' /\ OldLanes'
      BY <3>2, <1>0 DEF IInv, OneEntry, EntryIsDue, OldLanes, Places
    <3>4. OneHolder' /\ Prepared' /\ Playing' /\ Fresh'
      BY <3>2, <1>0 DEF IInv, OneHolder, Prepared, Playing, Fresh, Places
    <3>5. LanesUsed' /\ EngineStaysOnItsLane'
      BY <3>2, <1>0, LanesStay DEF IInv, EngineStaysOnItsLane
    <3> QED  BY <3>3, <3>4, <3>5 DEF Kept
  <2> QED  BY <2>1, <2>2
<1>10. CASE CloseEngine(l)
  <2>1. Pop(l) /\ answer' = answer /\ engine' = 0
    BY <1>10 DEF CloseEngine, Running, Pop
  <2>2. Head(work[l]).of = 0
    BY <1>2, <1>10 DEF CloseEngine, Running, IInv, EntryIsDue
  <2> QED  BY <2>1, <2>2, <1>0, PopKeeps
<1> QED  BY <1>7, <1>8, <1>9, <1>10 DEF Thread

-----------------------------------------------------------------------------
(* The invariant and the theorems *)

\* It holds when the adapter starts.
LEMMA Initially == Init => IInv
<1> SUFFICES ASSUME Init PROVE IInv
  OBVIOUS
<1>0. lane = 1 /\ 1 \in Lanes /\ \A l \in Lanes : work[l] = <<>> /\ Places(l) = {}
  BY MaxRepliesAssumption DEF Init, Lanes, Places
<1>1. TypeOK
  <2>1. <<>> \in Seq(Replies) /\ <<>> \in Seq([what : {"prepare", "play", "close"}, of : 0..MaxReplies])
    OBVIOUS
  <2> QED  BY <1>0, <2>1, MaxRepliesAssumption DEF Init, TypeOK, TaskStates, JobStates, Stages
<1>2. OneHolder /\ OneEntry /\ EntryIsDue /\ OldLanes /\ Playing
  BY <1>0 DEF Init, OneHolder, Holding, OneEntry, EntryIsDue, OldLanes, Playing, Lanes
<1>3. Prepared /\ Fresh /\ EngineStaysOnItsLane
  BY <1>0 DEF Init, Prepared, Fresh, EngineStaysOnItsLane
<1>4. LanesUsed
  <2> DEFINE O == {j \in Replies : job[j] = "over"}
  <2>1. O = {}
    BY DEF Init
  <2>2. SUFFICES lane <= 1 + Cardinality(O)
    BY DEF LanesUsed
  <2> HIDE DEF O
  <2> QED  BY <2>1, <1>0, FS_EmptySet
<1>5. Waiting /\ Begun
  BY DEF Init, Waiting, Begun
<1> QED  BY <1>1, <1>2, <1>3, <1>4, <1>5 DEF IInv

\* A job that waits for the lock stays in the line until it is its turn, or ends.
LEMMA WaitingKept == IInv /\ [Next]_vars => Waiting'
<1> SUFFICES ASSUME IInv, [Next]_vars, NEW k \in Replies, job'[k] = "queued"
             PROVE  \E i \in DOMAIN line' : line'[i] = k
  BY DEF Waiting
<1>0. /\ job \in [Replies -> JobStates] /\ line \in Seq(Replies) /\ DOMAIN line = 1..Len(line)
      /\ Len(line) \in Nat
      /\ job[k] = "queued" => \E i \in DOMAIN line : line[i] = k
  BY DEF IInv, TypeOK, Waiting
<1>1. ASSUME job' = job, line' = line PROVE \E i \in DOMAIN line' : line'[i] = k
  BY <1>0, <1>1
<1>2. ASSUME NEW j \in Replies, Over(j) PROVE \E i \in DOMAIN line' : line'[i] = k
  <2>1. k # j /\ job[k] = "queued"
    BY <1>2, OverFacts DEF IInv
  <2>2. PICK i \in DOMAIN line : line[i] = k
    BY <2>1, <1>0
  <2>3. CASE line # <<>> /\ Head(line) = j
    <3>1. /\ line' = Tail(line) /\ Head(line) = line[1] /\ Len(line') = Len(line) - 1
          /\ DOMAIN line' = 1..(Len(line) - 1)
          /\ \A n \in 1..Len(line') : line'[n] = line[n + 1]
      BY <2>3, <1>0, <1>2, HeadTailProperties DEF Over
    <3>2. i \in Nat /\ 1 <= i /\ i <= Len(line) /\ i # 1
      BY <1>0, <2>1, <2>2, <2>3, <3>1
    <3>3. i - 1 \in 1..(Len(line) - 1) /\ (i - 1) + 1 = i
      BY <1>0, <3>2
    <3> QED  BY <2>2, <3>1, <3>3
  <2>4. CASE ~(line # <<>> /\ Head(line) = j)
    <3>1. line' = Without(j)
      BY <2>4, <1>2 DEF Over
    <3>2. line[i] # j
      BY <2>1, <2>2
    <3>3. \E n \in DOMAIN Without(j) : Without(j)[n] = line[i]
      BY <2>2, <3>2, WithoutFacts DEF IInv
    <3> QED  BY <2>2, <3>1, <3>3
  <2> QED  BY <2>3, <2>4
<1>3. CASE UNCHANGED vars \/ Close \/ Closed
  BY <1>1, <1>3 DEF vars, jobs, Close, Closed
<1>4. CASE Say
  BY <1>0, <1>4 DEF Say
<1>5. ASSUME NEW j \in Replies, Interrupt(j) \/ TaskStep(j)
      PROVE  \E i \in DOMAIN line' : line'[i] = k
  BY <1>1, <1>5 DEF Interrupt, TaskStep, Ready, Unwind, Expire, Finish, jobs
<1>6. ASSUME NEW l \in Lanes, Thread(l) PROVE \E i \in DOMAIN line' : line'[i] = k
  BY <1>1, <1>6 DEF Thread, Prepare, Advance, Silent, CloseEngine, jobs
<1>7. ASSUME NEW j \in Replies, JobStep(j) PROVE \E i \in DOMAIN line' : line'[i] = k
  <2>1. CASE Arrive(j)
    <3>1. /\ line' = Append(line, j) /\ Len(line') = Len(line) + 1
          /\ DOMAIN line' = 1..(Len(line) + 1)
          /\ line'[Len(line) + 1] = j /\ \A n \in 1..Len(line) : line'[n] = line[n]
      BY <2>1, <1>0, AppendProperties DEF Arrive
    <3>2. Len(line) + 1 \in DOMAIN line' /\ DOMAIN line \subseteq DOMAIN line'
      BY <3>1, <1>0
    <3>3. k = j \/ job[k] = "queued"
      BY <1>0, <2>1 DEF Arrive, Enter
    <3> QED  BY <1>0, <3>1, <3>2, <3>3
  <2>2. CASE Admit(j) \/ Play(j) \/ Quit(j) \/ Stopped(j)
    <3>1. job[k] = "queued" /\ line' = line
      BY <1>0, <2>2 DEF Admit, Enter, Play, Quit, Stopped
    <3> QED  BY <1>0, <3>1
  <2> QED  BY <1>2, <1>7, <2>1, <2>2 DEF JobStep, Refused, Played, Dropped, Drained, Rotate, Abort
<1> QED  BY <1>3, <1>4, <1>5, <1>6, <1>7 DEF Next

\* The task of a reply starts its job.
LEMMA BegunKept == IInv /\ [Next]_vars => Begun'
<1> SUFFICES ASSUME IInv, [Next]_vars, NEW k \in Replies, task'[k] = "none" PROVE job'[k] = "none"
  BY DEF Begun
<1>0. /\ job \in [Replies -> JobStates] /\ task \in [Replies -> TaskStates]
      /\ task[k] = "none" => job[k] = "none"
  BY DEF IInv, TypeOK, Begun
<1>1. ASSUME task' = task, job'[k] = job[k] PROVE job'[k] = "none"
  BY <1>0, <1>1
<1>2. CASE UNCHANGED vars \/ Close \/ Closed
  BY <1>1, <1>2 DEF vars, calls, jobs, Close, Closed
<1>3. CASE Say
  BY <1>0, <1>3 DEF Say
<1>4. ASSUME NEW j \in Replies, Interrupt(j) \/ TaskStep(j) PROVE job'[k] = "none"
  BY <1>0, <1>4 DEF Interrupt, TaskStep, Ready, Unwind, Expire, Finish, jobs
<1>5. ASSUME NEW l \in Lanes, Thread(l) PROVE job'[k] = "none"
  BY <1>1, <1>5 DEF Thread, Prepare, Advance, Silent, CloseEngine, calls, jobs
<1>6. ASSUME NEW j \in Replies, JobStep(j) PROVE job'[k] = "none"
  <2>1. task' = task /\ job[j] # "none"
    BY <1>6 DEF JobStep, Arrive, Admit, Play, Refused, Played, Dropped, Quit, Stopped, Drained,
                Rotate, Abort, calls
  <2>2. k # j
    BY <1>0, <2>1
  <2>3. job'[k] = job[k]
    BY <1>0, <1>6, <2>2 DEF JobStep, Arrive, Admit, Enter, Play, Refused, Played, Dropped, Quit,
                            Stopped, Drained, Rotate, Abort, Over
  <2> QED  BY <1>1, <2>1, <2>3
<1> QED  BY <1>2, <1>3, <1>4, <1>5, <1>6 DEF Next

\* Every step keeps the invariant.
LEMMA Stepwise == IInv /\ [Next]_vars => IInv'
<1> SUFFICES ASSUME IInv, [Next]_vars PROVE Kept'
  BY Typed, WaitingKept, BegunKept DEF IInv, Kept
<1>1. CASE UNCHANGED vars
  BY <1>1, TasksKeep DEF vars, jobs, threads
<1>2. CASE Say
  <2>1. PICK j \in Replies :
          /\ task[j] = "none" /\ job' = [job EXCEPT ![j] = "created"]
          /\ UNCHANGED <<aborted, line, flagged, lane, work, engine, answer>>
    BY <1>2 DEF Say, threads
  <2>2. job[j] = "none"
    BY <2>1 DEF IInv, Begun
  <2> QED  BY <2>1, <2>2, MovesKeep
<1>3. CASE Close
  BY <1>3, CloseKeeps
<1>4. CASE Closed
  BY <1>4, TasksKeep DEF Closed, jobs, threads
<1>5. ASSUME NEW j \in Replies, Interrupt(j) \/ TaskStep(j) PROVE Kept'
  BY <1>5, TasksKeep DEF Interrupt, TaskStep, Ready, Unwind, Expire, Finish, StopCall, jobs, threads
<1>6. ASSUME NEW j \in Replies, JobStep(j) PROVE Kept'
  <2>0. /\ job \in [Replies -> JobStates] /\ line \in Seq(Replies) /\ lane \in Lanes
        /\ job[j] \in Holding => line # <<>> /\ Head(line) = j
    BY DEF IInv, TypeOK, OneHolder
  <2>1. CASE Arrive(j)
    <3>1. line' # <<>> /\ Head(line') = (IF line = <<>> THEN j ELSE Head(line))
      BY <2>0, <2>1, AppendProperties DEF Arrive
    <3>2. CASE line = <<>>
      BY <2>1, <3>1, <3>2, EnterKeeps DEF Arrive
    <3>3. CASE line # <<>>
      BY <2>1, <3>1, <3>3, MovesKeep DEF Arrive
    <3> QED  BY <3>2, <3>3
  <2>2. CASE Admit(j)
    <3>1. line # <<>>
      BY <2>0, <2>2 DEF Admit, IInv, Waiting
    <3> QED  BY <2>2, <3>1, EnterKeeps DEF Admit
  <2>3. CASE Play(j)
    BY <2>3, PlayKeeps
  <2>4. CASE Refused(j)
    <3>1. \A l \in Lanes : \A i \in Places(l) : work[l][i].of # j
      BY <2>4, NoEntry DEF Refused
    <3>2. \A i \in Places(lane) : work[lane][i] # Item("play", j)
      BY <3>1, <2>0, ItemFacts
    <3> QED  BY <2>4, <3>1, <3>2, EndsKeep DEF Refused
  <2>5. CASE Played(j) \/ Drained(j)
    <3>1. \A i \in Places(lane) : work[lane][i] # Item("play", j)
      BY <2>5, <2>0, ItemFacts DEF Played, Drained, Answered, IInv, EntryIsDue
    <3> QED  BY <2>5, <3>1, EndsKeep DEF Played, Drained, threads
  <2>6. CASE Dropped(j)
    <3>1. \A i \in Places(lane) : work[lane][i] # Item("play", j)
      BY <2>6, <2>0, ItemFacts DEF Dropped, IInv, EntryIsDue, Playing, Replies
    <3> QED  BY <2>6, <3>1, EndsKeep DEF Dropped, threads
  <2>7. CASE Quit(j) \/ Stopped(j)
    <3>1. j \in flagged' /\ flagged \subseteq flagged'
      BY <2>7 DEF Quit, Stopped, IInv, Fresh
    <3> QED  BY <2>7, <3>1, MovesKeep DEF Quit, Stopped, threads
  <2>8. CASE Rotate(j)
    BY <2>8, RotateKeeps
  <2>9. CASE Abort(j)
    <3>1. j \in flagged
      BY <2>9 DEF Abort, IInv, Fresh
    <3> QED  BY <2>9, <3>1, EndsKeep DEF Abort, threads
  <2> QED  BY <1>6, <2>1, <2>2, <2>3, <2>4, <2>5, <2>6, <2>7, <2>8, <2>9 DEF JobStep
<1>7. ASSUME NEW l \in Lanes, Thread(l) PROVE Kept'
  BY <1>7, ThreadKeeps
<1> QED  BY <1>1, <1>2, <1>3, <1>4, <1>5, <1>6, <1>7 DEF Next

\* The variables of the adapter and of the controller's calls keep their types.
THEOREM LaneTypes == Spec => []TypeOK
<1>1. IInv => TypeOK
  BY DEF IInv
<1> QED  BY <1>1, Initially, Stepwise, PTL DEF Spec

\* speak() leaves no playback of its own on the lane that the next reply will use, and an
\* engine stays with the thread that built it: what _rotate_worker_lane() abandons never
\* meets a later reply, however many replies there are and however long a thread hangs.
THEOREM AbandonedLanesStayAway == Spec => []LaneSurvives
<1>1. IInv => LaneSurvives
  <2> SUFFICES ASSUME IInv, NEW j \in Replies \ aborted, job[j] = "over",
                      NEW i \in 1..Len(work[lane]), work[lane][i] = Item("play", j)
               PROVE  FALSE
    BY DEF IInv, LaneSurvives, LaneIsFree
  <2>1. work[lane][i].what = "play" /\ work[lane][i].of = j
    BY ItemFacts
  <2> QED  BY <2>1 DEF IInv, Playing, Places
<1> QED  BY <1>1, Initially, Stepwise, PTL DEF Spec
=============================================================================
