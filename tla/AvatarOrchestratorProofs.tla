---------------------- MODULE AvatarOrchestratorProofs ----------------------
(***************************************************************************)
(* What the user is shown, for any number of events, turns, renderers,     *)
(* requests, windows and sockets.                                          *)
(*                                                                         *)
(* The avatar follows its director, and a renderer in use displays what it *)
(* was told last, for timers that fire at any moment, for renderers that   *)
(* fail and for a lifespan that ends at any step (IInv): what the director *)
(* decided is what the last directive in the line for the lock carries,    *)
(* until that one is through (Followed); a renderer that waits to be       *)
(* swapped in is still unused (Swaps), so that the one in use is loaded    *)
(* whenever a directive may reach it (Shapes), and it displays the current *)
(* directive except while a swap is about to send it again, or the pack    *)
(* route has sent one that was not current any more (Displayed).           *)
(*                                                                         *)
(* In a conversation that nothing disturbs, the events that are still to   *)
(* be handled lead the director to what the turn is due (TurnInv); and in  *)
(* every one, an avatar that speaks, or is going to, is still to hear of   *)
(* the end of a voice (VoiceInv): CInv.                                    *)
(*                                                                         *)
(* A window was told of no state that its pump is still to send, and shows *)
(* the newest one that was sent (WindowsFollow); for this, whoever waits   *)
(* for a socket is at work on it (SocketsAreRight) and the states of turns *)
(* follow one another (FeedIsSound): BInv.                                 *)
(***************************************************************************)
EXTENDS MCConversationAvatar, SequenceTheorems, TLAPS

Entries ==
  [who : {"consumer"}, directive : Directives]
    \cup [who : {"return"}, directive : Directives, of : Nat]
    \cup [who : {"swap"}, to : Runtimes]

\* What TypeOK leaves open: directives are numbered as they are made.
Numbers ==
  /\ made \in Nat
  /\ pack \in [stage : {"none", "loading", "again"}, runtime : Runtimes, directive : Directives]
  /\ line \in Seq(Entries)
  /\ \A i \in DOMAIN line :
       /\ line[i].who # "swap" => line[i].directive.id \in 1..made
       /\ line[i].who = "return" => line[i].of \in 1..made
  /\ current.id = 0 => current.state = Rest

\* What the head of the line is doing inside the lock.
Swapping == {"shutting", "loading", "again"}

Locked ==
  /\ stage = "free" <=> line = <<>>
  /\ stage = "applying" => line[1].who # "swap"
  /\ stage \in Swapping => line[1].who = "swap" /\ line[1].to = active

\* Renderers that wait to be swapped in are new, each for one request.
Begun(i) == i = 1 /\ stage \in Swapping

Swaps ==
  \A i \in DOMAIN line : line[i].who = "swap" =>
    /\ ~Begun(i) => shape[line[i].to] = "new" /\ line[i].to # active
    /\ \A j \in DOMAIN line : line[j].who = "swap" /\ line[j].to = line[i].to => i = j

\* The renderer in use is loaded outside a swap, until stop() has shut it down.
Shapes ==
  /\ stage \in {"shutting", "loading"} => shape[active] \in {"new", "shut"}
  /\ life # "stopped" /\ stage \notin {"shutting", "loading"} => shape[active] \in {"loaded", "empty"}

Displayed ==
  ~Mirroring /\ ~lost /\ ~stale /\ shape[active] = "loaded" /\ stage # "again" =>
    shown[active] = current.state

\* The last directive in the line is what the director decided; with none there, the current is.
IsLast(i) == i \in Pending /\ \A j \in Pending : j <= i

Followed ==
  life = "on" =>
    /\ Pending # {} => \E i \in DOMAIN line : IsLast(i) /\ line[i].directive.state = director
    /\ Pending = {} /\ ~lost => current.state = director

IInv == TypeOK /\ Numbers /\ Locked /\ Swaps /\ Shapes /\ Displayed /\ Followed

-----------------------------------------------------------------------------
(* What the director answers, and the line *)

\* An event leads to a state of the avatar.
LEMMA NextStateFacts == \A e \in Events : NextState(e) \in States
<1> SUFFICES ASSUME NEW e \in Events PROVE NextState(e) \in States
  OBVIOUS
<1>1. CASE e \in DOMAIN Cue
  BY <1>1 DEF NextState, Cue, States
<1>2. CASE e \notin DOMAIN Cue
  <2>1. e \in DOMAIN Reaction
    BY <1>2 DEF Events
  <2>2. \A x \in DOMAIN Reaction : Reaction[x].to \in States
    BY DEF Reaction, States
  <2> QED  BY <2>1, <2>2, <1>2 DEF NextState
<1> QED  BY <1>1, <1>2

\* The line keeps its order when an entry leaves it, from wherever it was.
Shrunk(i) ==
  /\ line' \in Seq(Entries) /\ DOMAIN line' = 1..(Len(line) - 1)
  /\ \A k \in 1..(Len(line) - 1) : line'[k] = line[IF k < i THEN k ELSE k + 1]

LEMMA LineFacts ==
  ASSUME Numbers
  PROVE  /\ line \in Seq(Entries) /\ Len(line) \in Nat /\ DOMAIN line = 1..Len(line)
         /\ line = <<>> <=> Len(line) = 0
         /\ line # <<>> => 1 \in DOMAIN line /\ Head(line) = line[1]
         /\ \A i \in DOMAIN line : line[i] \in Entries
BY DEF Numbers

LEMMA LeaveFacts ==
  ASSUME Numbers, line # <<>>, Leave
  PROVE  /\ Shrunk(1)
         /\ stage' = IF Len(line) = 1 THEN "free" ELSE "waking"
         /\ line' = <<>> <=> Len(line) = 1
<1>1. line \in Seq(Entries) /\ Len(line) \in Nat \ {0}
  BY LineFacts
<1>2. /\ Tail(line) \in Seq(Entries) /\ Len(Tail(line)) = Len(line) - 1
      /\ \A k \in 1..Len(Tail(line)) : Tail(line)[k] = line[k + 1]
  BY <1>1, HeadTailProperties
<1>3. DOMAIN Tail(line) = 1..(Len(line) - 1) /\ (Tail(line) = <<>> <=> Len(line) = 1)
  BY <1>1, <1>2
<1> QED  BY <1>1, <1>2, <1>3 DEF Leave, Shrunk

\* A sequence without its i-th element.
LEMMA RemovalFacts ==
  ASSUME NEW S, NEW s \in Seq(S), NEW i \in 1..Len(s)
  PROVE  LET r == SubSeq(s, 1, i - 1) \o SubSeq(s, i + 1, Len(s))
         IN /\ r \in Seq(S) /\ Len(r) = Len(s) - 1
            /\ \A k \in 1..(Len(s) - 1) : r[k] = s[IF k < i THEN k ELSE k + 1]
<1> DEFINE n == Len(s)
           front == SubSeq(s, 1, i - 1)
           back == SubSeq(s, i + 1, n)
           both == front \o back
<1>1. n \in Nat /\ i \in Nat /\ 1 <= i /\ i <= n
  OBVIOUS
<1>2. (\A k \in 1..(i - 1) : s[k] \in S) /\ \A k \in (i + 1)..n : s[k] \in S
  OBVIOUS
<1> HIDE DEF n
<1>3. i - 1 \in Int /\ i + 1 \in Int /\ 1 \in Int /\ n \in Int
  BY <1>1
<1>4. front \in Seq(S) /\ Len(front) = (IF 1 <= i - 1 THEN (i - 1) - 1 + 1 ELSE 0)
      /\ \A k \in 1..((i - 1) - 1 + 1) : front[k] = s[1 + k - 1]
  BY <1>2, <1>3, SubSeqProperties
<1>5. back \in Seq(S) /\ Len(back) = (IF i + 1 <= n THEN n - (i + 1) + 1 ELSE 0)
      /\ \A k \in 1..(n - (i + 1) + 1) : back[k] = s[(i + 1) + k - 1]
  BY <1>2, <1>3, SubSeqProperties
<1> HIDE DEF front, back
<1>6. Len(front) = i - 1 /\ Len(back) = n - i
      /\ (i - 1) - 1 + 1 = i - 1 /\ n - (i + 1) + 1 = n - i
  BY <1>1, <1>4, <1>5
<1>7. /\ both \in Seq(S) /\ Len(both) = Len(front) + Len(back)
      /\ \A k \in 1..(Len(front) + Len(back)) :
           both[k] = IF k <= Len(front) THEN front[k] ELSE back[k - Len(front)]
  BY <1>4, <1>5, ConcatProperties
<1> HIDE DEF both
<1>8. Len(front) + Len(back) = n - 1
  BY <1>1, <1>6
<1>9. ASSUME NEW k \in 1..(n - 1) PROVE both[k] = s[IF k < i THEN k ELSE k + 1]
  <2>1. both[k] = IF k <= Len(front) THEN front[k] ELSE back[k - Len(front)]
    BY <1>7, <1>8
  <2>2. CASE k < i
    <3>1. k <= Len(front) /\ k \in 1..((i - 1) - 1 + 1) /\ 1 + k - 1 = k
      BY <2>2, <1>1, <1>6
    <3>2. front[k] = s[1 + k - 1]
      BY <3>1, <1>4
    <3> QED  BY <2>1, <2>2, <3>1, <3>2
  <2>3. CASE ~(k < i)
    <3>1. /\ ~(k <= Len(front)) /\ k - Len(front) \in 1..(n - (i + 1) + 1)
          /\ (i + 1) + (k - Len(front)) - 1 = k + 1
      BY <2>3, <1>1, <1>6
    <3>2. back[k - Len(front)] = s[(i + 1) + (k - Len(front)) - 1]
      BY <3>1, <1>5
    <3> QED  BY <2>1, <2>3, <3>1, <3>2
  <2> QED  BY <2>2, <2>3
<1> QED  BY <1>7, <1>8, <1>9 DEF both, front, back, n

LEMMA WithdrawFacts ==
  ASSUME Numbers, NEW i \in DOMAIN line, Withdraw(i)
  PROVE  /\ Shrunk(i)
         /\ stage' = IF i # 1 THEN stage ELSE IF Len(line) = 1 THEN "free" ELSE "waking"
         /\ line' = <<>> <=> Len(line) = 1
<1>1. line \in Seq(Entries) /\ Len(line) \in Nat /\ i \in 1..Len(line)
  BY LineFacts
<1>2. /\ line' \in Seq(Entries) /\ Len(line') = Len(line) - 1
      /\ \A k \in 1..(Len(line) - 1) : line'[k] = line[IF k < i THEN k ELSE k + 1]
  BY <1>1, RemovalFacts DEF Withdraw
<1>3. DOMAIN line' = 1..Len(line') /\ (line' = <<>> <=> Len(line') = 0)
  BY <1>2
<1>4. stage' = IF i # 1 THEN stage ELSE IF Len(line) = 1 THEN "free" ELSE "waking"
  BY DEF Withdraw
<1>5. Len(line') = 0 <=> Len(line) = 1
  BY <1>1, <1>2
<1> QED  BY <1>2, <1>3, <1>4, <1>5 DEF Shrunk

\* Who enters is the last in the line, and acquires the lock when nobody was there.
LEMMA EnterFacts ==
  ASSUME Numbers, NEW e \in Entries, Enter(e)
  PROVE  /\ line' \in Seq(Entries) /\ DOMAIN line' = 1..(Len(line) + 1)
         /\ line'[Len(line) + 1] = e
         /\ \A i \in DOMAIN line : line'[i] = line[i]
         /\ line = <<>> => Acquire(e)
         /\ line # <<>> => UNCHANGED <<timer, stage, active, shape>>
<1>1. /\ line \in Seq(Entries) /\ Len(line) \in Nat /\ DOMAIN line = 1..Len(line)
      /\ line = <<>> <=> Len(line) = 0
  BY LineFacts
<1>2. CASE line = <<>>
  <2>1. line' = <<e>> /\ Acquire(e)
    BY <1>2 DEF Enter
  <2>2. <<e>> \in Seq(Entries) /\ DOMAIN <<e>> = 1..1 /\ <<e>>[1] = e
    OBVIOUS
  <2>3. Len(line) + 1 = 1 /\ DOMAIN line = {}
    BY <1>1, <1>2
  <2> QED  BY <1>2, <2>1, <2>2, <2>3
<1>3. CASE line # <<>>
  <2>1. line' = Append(line, e) /\ UNCHANGED <<timer, stage, active, shape>>
    BY <1>3 DEF Enter
  <2>2. /\ Append(line, e) \in Seq(Entries) /\ Len(Append(line, e)) = Len(line) + 1
        /\ Append(line, e)[Len(line) + 1] = e
        /\ \A i \in 1..Len(line) : Append(line, e)[i] = line[i]
    BY <1>1, AppendProperties
  <2> QED  BY <1>1, <1>3, <2>1, <2>2
<1> QED  BY <1>2, <1>3

-----------------------------------------------------------------------------
(* What happens to the lock leaves of the invariant *)

LockInv == Locked /\ Swaps /\ Shapes /\ Displayed

\* Every swap in the line but one that has begun is to a new renderer of its own.
Waits(s) ==
  \A i \in DOMAIN s : s[i].who = "swap" =>
    /\ shape[s[i].to] = "new" /\ s[i].to # active
    /\ \A j \in DOMAIN s : s[j].who = "swap" /\ s[j].to = s[i].to => i = j

\* The head takes a lock that nobody has.
LEMMA AcquireKeeps ==
  ASSUME IInv, stage \in {"free", "waking"},
         line' \in Seq(Entries), line' # <<>>, Acquire(line'[1]), Waits(line'),
         UNCHANGED <<current, shown, route, life, lost>>
  PROVE  LockInv'
<1> DEFINE e == line'[1]
<1>0. /\ e \in Entries /\ active \in Runtimes
      /\ shape \in [Runtimes -> {"new", "loaded", "empty", "closing", "shut"}]
      /\ 1 \in DOMAIN line'
  BY DEF IInv, TypeOK
<1>1. \A i \in DOMAIN line' : line'[i].who = "swap" => line'[i].to \in Runtimes
  BY DEF Entries
<1> HIDE DEF e
<1>2. CASE e.who = "swap"
  <2>1. /\ stage' = "shutting" /\ active' = e.to
        /\ shape' = [shape EXCEPT ![active] = "closing"]
    BY <1>2 DEF Acquire, e
  <2>2. e.to \in Runtimes /\ shape[e.to] = "new" /\ e.to # active
    BY <1>0, <1>1, <1>2 DEF Waits, e
  <2>3. Locked'
    BY <1>2, <2>1 DEF Locked, Swapping, e
  <2>4. Swaps'
    <3> SUFFICES ASSUME NEW i \in DOMAIN line', line'[i].who = "swap"
                 PROVE  /\ i # 1 => shape'[line'[i].to] = "new" /\ line'[i].to # active'
                        /\ \A j \in DOMAIN line' : line'[j].who = "swap" /\ line'[j].to = line'[i].to => i = j
      BY <2>1 DEF Swaps, Begun, Swapping
    <3>1. line'[i].to \in Runtimes /\ shape[line'[i].to] = "new" /\ line'[i].to # active
          /\ \A j \in DOMAIN line' : line'[j].who = "swap" /\ line'[j].to = line'[i].to => i = j
      BY <1>1 DEF Waits
    <3>2. shape'[line'[i].to] = "new"
      BY <3>1, <2>1, <1>0
    <3>3. i # 1 => line'[i].to # active'
      BY <3>1, <2>1, <1>0, <1>2 DEF e
    <3> QED  BY <3>1, <3>2, <3>3
  <2>5. shape'[active'] = "new"
    BY <2>1, <2>2, <1>0
  <2> QED  BY <2>1, <2>3, <2>4, <2>5 DEF LockInv, Shapes, Displayed
<1>3. CASE e.who # "swap"
  <2>1. stage' = "applying" /\ active' = active /\ shape' = shape
    BY <1>3 DEF Acquire, e
  <2>2. Locked'
    BY <1>3, <2>1 DEF Locked, Swapping, e
  <2>3. Swaps'
    BY <2>1 DEF Swaps, Waits
  <2>4. Shapes' /\ Displayed'
    BY <2>1 DEF IInv, Shapes, Displayed, Mirroring, route
  <2> QED  BY <2>2, <2>3, <2>4 DEF LockInv
<1> QED  BY <1>2, <1>3

\* Nothing has begun for the head of a line that waits for its turn.
LEMMA LineWaits ==
  ASSUME IInv, stage \notin Swapping
  PROVE  Waits(line)
BY DEF IInv, Swaps, Begun, Waits

\* The lock is asked for.
LEMMA EnterKeeps ==
  ASSUME IInv, NEW e \in Entries, Enter(e),
         e.who = "swap" => /\ shape[e.to] = "new" /\ e.to # active
                           /\ \A i \in DOMAIN line : line[i].who = "swap" => line[i].to # e.to,
         UNCHANGED <<current, shown, route, life, lost>>
  PROVE  LockInv'
<1>0. /\ line' \in Seq(Entries) /\ DOMAIN line' = 1..(Len(line) + 1)
      /\ line'[Len(line) + 1] = e
      /\ \A i \in DOMAIN line : line'[i] = line[i]
      /\ line = <<>> => Acquire(e)
      /\ line # <<>> => UNCHANGED <<timer, stage, active, shape>>
      /\ Len(line) \in Nat /\ DOMAIN line = 1..Len(line) /\ (line = <<>> <=> Len(line) = 0)
  BY EnterFacts, LineFacts DEF IInv
<1>1. CASE line = <<>>
  <2>0. Len(line) + 1 = 1 /\ 1..1 = {1}
    BY <1>0, <1>1
  <2>1. line' # <<>> /\ line'[1] = e /\ DOMAIN line' = {1}
    <3>1. line'[1] = e /\ DOMAIN line' = {1}
      BY <2>0, <1>0
    <3>2. line' # <<>>
      BY <3>1, DOMAIN <<>> = {}
    <3> QED  BY <3>1, <3>2
  <2>2. Waits(line')
    BY <2>1 DEF Waits
  <2>3. stage = "free"
    BY <1>1 DEF IInv, Locked
  <2> QED  BY <1>0, <1>1, <2>1, <2>2, <2>3, AcquireKeeps
<1>2. CASE line # <<>>
  <2>0. UNCHANGED <<stage, active, shape>> /\ line' # <<>> /\ line'[1] = line[1] /\ 1 \in DOMAIN line
    BY <1>0, <1>2
  <2>1. Locked'
    BY <2>0, <1>2 DEF IInv, Locked
  <2>2. \A i \in DOMAIN line' : i \in DOMAIN line \/ (i = Len(line) + 1 /\ i \notin DOMAIN line /\ i # 1)
    BY <1>0, <1>2
  <2>3. Swaps'
    <3> SUFFICES ASSUME NEW i \in DOMAIN line', line'[i].who = "swap"
                 PROVE  /\ ~(i = 1 /\ stage \in Swapping) => shape[line'[i].to] = "new" /\ line'[i].to # active
                        /\ \A j \in DOMAIN line' : line'[j].who = "swap" /\ line'[j].to = line'[i].to => i = j
      BY <2>0 DEF Swaps, Begun
    <3>1. CASE i \in DOMAIN line
      <4>1. line'[i] = line[i]
        BY <3>1, <1>0
      <4>2. /\ ~(i = 1 /\ stage \in Swapping) => shape[line[i].to] = "new" /\ line[i].to # active
            /\ \A j \in DOMAIN line : line[j].who = "swap" /\ line[j].to = line[i].to => i = j
        BY <3>1, <4>1 DEF IInv, Swaps, Begun
      <4>3. ASSUME NEW j \in DOMAIN line', line'[j].who = "swap", line'[j].to = line'[i].to PROVE i = j
        <5>1. CASE j \in DOMAIN line
          BY <4>1, <4>2, <4>3, <5>1, <1>0
        <5>2. CASE j = Len(line) + 1
          BY <4>1, <4>3, <5>2, <3>1, <1>0
        <5> QED  BY <5>1, <5>2, <2>2
      <4> QED  BY <4>1, <4>2, <4>3
    <3>2. CASE i = Len(line) + 1 /\ i # 1
      <4>1. line'[i] = e /\ e.who = "swap" /\ shape[e.to] = "new" /\ e.to # active
        BY <3>2, <1>0
      <4>2. ASSUME NEW j \in DOMAIN line', line'[j].who = "swap", line'[j].to = line'[i].to PROVE i = j
        <5>1. j \notin DOMAIN line
          BY <4>1, <4>2, <1>0
        <5> QED  BY <5>1, <2>2, <3>2
      <4> QED  BY <4>1, <4>2, <3>2
    <3> QED  BY <3>1, <3>2, <2>2
  <2>4. Shapes' /\ Displayed'
    BY <2>0 DEF IInv, Shapes, Displayed, Mirroring, route
  <2> QED  BY <2>1, <2>3, <2>4 DEF LockInv
<1> QED  BY <1>1, <1>2

\* An entry leaves the line, and the lock if it had it: the swaps that wait still do.
LEMMA ShrinkKeeps ==
  ASSUME IInv, NEW i \in DOMAIN line, Shrunk(i),
         stage' = IF i # 1 THEN stage ELSE IF Len(line) = 1 THEN "free" ELSE "waking",
         line' = <<>> <=> Len(line) = 1,
         active' = active, \A r \in Runtimes \ {active} : shape'[r] = shape[r]
  PROVE  Locked' /\ Swaps'
<1>0. /\ line \in Seq(Entries) /\ Len(line) \in Nat /\ i \in 1..Len(line) /\ DOMAIN line = 1..Len(line)
      /\ line' \in Seq(Entries) /\ DOMAIN line' = 1..(Len(line) - 1)
      /\ \A j \in DOMAIN line : line[j] \in Entries
  BY LineFacts DEF IInv, Shrunk
<1> DEFINE old(k) == IF k < i THEN k ELSE k + 1
<1>1. \A k \in 1..(Len(line) - 1) : line'[k] = line[old(k)]
  BY DEF Shrunk
<1>2. \A k \in 1..(Len(line) - 1) : old(k) \in DOMAIN line /\ (old(k) = 1 => i # 1 /\ k = 1)
                                    /\ (i # 1 /\ k = 1 => old(k) = 1)
  <2> SUFFICES ASSUME NEW k \in 1..(Len(line) - 1)
               PROVE  /\ old(k) \in 1..Len(line) /\ (old(k) = 1 => i # 1 /\ k = 1)
                      /\ (i # 1 /\ k = 1 => old(k) = 1)
    BY <1>0
  <2>1. k \in Nat /\ 1 <= k /\ k <= Len(line) - 1 /\ i \in Nat /\ 1 <= i /\ i <= Len(line)
    BY <1>0
  <2>2. CASE k < i
    BY <2>1, <2>2, <1>0
  <2>3. CASE ~(k < i)
    BY <2>1, <2>3, <1>0
  <2> QED  BY <2>2, <2>3
<1>3. \A k, j \in 1..(Len(line) - 1) : old(k) = old(j) => k = j
  <2> TAKE k, j \in 1..(Len(line) - 1)
  <2>1. k \in Int /\ j \in Int /\ i \in Int
    BY <1>0
  <2>2. CASE k < i /\ j < i
    BY <2>2
  <2>3. CASE k < i /\ ~(j < i)
    BY <2>1, <2>3
  <2>4. CASE ~(k < i) /\ j < i
    BY <2>1, <2>4
  <2>5. CASE ~(k < i) /\ ~(j < i)
    BY <2>1, <2>5
  <2> QED  BY <2>2, <2>3, <2>4, <2>5
<1> HIDE DEF old
<1>5. Locked'
  <2>1. stage' = "free" <=> line' = <<>>
    <3>1. CASE i = 1
      BY <3>1
    <3>2. CASE i # 1
      <4>1. Len(line) # 1 /\ line # <<>>
        BY <3>2, <1>0
      <4> QED  BY <3>2, <4>1 DEF IInv, Locked
    <3> QED  BY <3>1, <3>2
  <2>2. ASSUME stage' \in Swapping \cup {"applying"} PROVE stage' = stage /\ line'[1] = line[1]
    <3>1. i # 1 /\ stage' = stage
      BY <2>2 DEF Swapping
    <3>2. 1 \in 1..(Len(line) - 1)
      BY <3>1, <1>0
    <3>3. line'[1] = line[1]
      BY <3>1, <3>2, <1>1, <1>2
    <3> QED  BY <3>1, <3>3
  <2> QED  BY <2>1, <2>2 DEF IInv, Locked, Swapping
<1>6. Swaps'
  <2> SUFFICES ASSUME NEW k \in DOMAIN line', line'[k].who = "swap"
               PROVE  /\ ~(k = 1 /\ stage' \in Swapping) => shape'[line'[k].to] = "new" /\ line'[k].to # active
                      /\ \A j \in DOMAIN line' : line'[j].who = "swap" /\ line'[j].to = line'[k].to => k = j
    BY DEF Swaps, Begun
  <2>1. old(k) \in DOMAIN line /\ line'[k] = line[old(k)] /\ line[old(k)].to \in Runtimes
    BY <1>0, <1>1, <1>2 DEF Entries
  <2>2. ASSUME ~(k = 1 /\ stage' \in Swapping) PROVE shape'[line'[k].to] = "new" /\ line'[k].to # active
    <3>1. ~(old(k) = 1 /\ stage \in Swapping)
      BY <2>2, <1>0, <1>2
    <3>2. shape[line[old(k)].to] = "new" /\ line[old(k)].to # active
      BY <2>1, <3>1 DEF IInv, Swaps, Begun
    <3> QED  BY <2>1, <3>2
  <2>3. ASSUME NEW j \in DOMAIN line', line'[j].who = "swap", line'[j].to = line'[k].to PROVE k = j
    <3>1. old(j) \in DOMAIN line /\ line'[j] = line[old(j)]
      BY <1>0, <1>1, <1>2
    <3>2. old(k) = old(j)
      BY <2>1, <2>3, <3>1 DEF IInv, Swaps
    <3> QED  BY <3>2, <1>0, <1>3
  <2> QED  BY <2>2, <2>3
<1> QED  BY <1>5, <1>6

-----------------------------------------------------------------------------
(* The types *)

\* The types and numbers of what a step leaves alone or changes to what it may be.
LEMMA AcquireTypes ==
  ASSUME TypeOK, Numbers, NEW e \in Entries, Acquire(e)
  PROVE  /\ timer' = 0 /\ stage' \in {"applying", "shutting"} /\ active' \in Runtimes
         /\ shape' \in [Runtimes -> {"new", "loaded", "empty", "closing", "shut"}]
<1>1. CASE e.who = "swap"
  <2>1. e.to \in Runtimes
    BY <1>1 DEF Entries
  <2> QED  BY <1>1, <2>1 DEF Acquire, TypeOK
<1>2. CASE e.who # "swap"
  BY <1>2 DEF Acquire, TypeOK
<1> QED  BY <1>1, <1>2

\* The directive that is sent.
LEMMA HeadFacts ==
  ASSUME IInv, stage = "applying"
  PROVE  /\ line # <<>> /\ Head(line) = line[1] /\ 1 \in DOMAIN line /\ line[1].who # "swap"
         /\ line[1].directive \in Directives /\ line[1].directive.id \in 1..made
<1>1. line # <<>> /\ Head(line) = line[1] /\ 1 \in DOMAIN line /\ line[1] \in Entries
  BY LineFacts DEF IInv, Locked
<1>2. line[1].who # "swap"
  BY DEF IInv, Locked
<1>3. line[1].directive \in Directives
  BY <1>1, <1>2 DEF Entries
<1>4. line[1].directive.id \in 1..made
  BY <1>1, <1>2 DEF IInv, Numbers
<1> QED  BY <1>1, <1>2, <1>3, <1>4

\* What is asked of the lock has a number of its own.
LEMMA EnterTypes ==
  ASSUME IInv, NEW e \in Entries, Enter(e),
         made' \in Nat, made <= made',
         e.who # "swap" => e.directive.id \in 1..made',
         e.who = "return" => e.of \in 1..made'
  PROVE  /\ line' \in Seq(Entries)
         /\ \A i \in DOMAIN line' : /\ line'[i].who # "swap" => line'[i].directive.id \in 1..made'
                                    /\ line'[i].who = "return" => line'[i].of \in 1..made'
         /\ timer' \in 0..made' /\ active' \in Runtimes
         /\ stage' \in {"free", "waking", "applying", "shutting", "loading", "again"}
         /\ shape' \in [Runtimes -> {"new", "loaded", "empty", "closing", "shut"}]
<1>1. /\ line' \in Seq(Entries) /\ DOMAIN line' = 1..(Len(line) + 1)
      /\ line'[Len(line) + 1] = e
      /\ \A i \in DOMAIN line : line'[i] = line[i]
      /\ line = <<>> => Acquire(e)
      /\ line # <<>> => UNCHANGED <<timer, stage, active, shape>>
      /\ Len(line) \in Nat /\ DOMAIN line = 1..Len(line)
  BY EnterFacts, LineFacts DEF IInv
<1>2. made \in Nat /\ 1..made \subseteq 1..made' /\ 0..made \subseteq 0..made'
  BY DEF IInv, Numbers
<1>3. \A i \in DOMAIN line' : /\ line'[i].who # "swap" => line'[i].directive.id \in 1..made'
                              /\ line'[i].who = "return" => line'[i].of \in 1..made'
  <2> TAKE i \in DOMAIN line'
  <2>1. i \in DOMAIN line \/ i = Len(line) + 1
    BY <1>1
  <2>2. CASE i \in DOMAIN line
    <3>1. /\ line[i].who # "swap" => line[i].directive.id \in 1..made
          /\ line[i].who = "return" => line[i].of \in 1..made
      BY <2>2 DEF IInv, Numbers
    <3> QED  BY <3>1, <2>2, <1>1, <1>2
  <2>3. CASE i = Len(line) + 1
    BY <2>3, <1>1
  <2> QED  BY <2>1, <2>2, <2>3
<1>4. CASE line = <<>>
  <2>1. /\ timer' = 0 /\ stage' \in {"applying", "shutting"} /\ active' \in Runtimes
        /\ shape' \in [Runtimes -> {"new", "loaded", "empty", "closing", "shut"}]
    BY <1>1, <1>4, AcquireTypes DEF IInv
  <2> QED  BY <2>1, <1>1, <1>3
<1>5. CASE line # <<>>
  <2>1. /\ timer \in 0..made /\ active \in Runtimes
        /\ stage \in {"free", "waking", "applying", "shutting", "loading", "again"}
        /\ shape \in [Runtimes -> {"new", "loaded", "empty", "closing", "shut"}]
    BY DEF IInv, TypeOK
  <2> QED  BY <2>1, <1>1, <1>2, <1>3, <1>5
<1> QED  BY <1>4, <1>5

\* A shorter line holds entries of the one before.
LEMMA ShrinkTypes ==
  ASSUME IInv, NEW i \in DOMAIN line, Shrunk(i), made' = made
  PROVE  /\ line' \in Seq(Entries)
         /\ \A k \in DOMAIN line' : /\ line'[k].who # "swap" => line'[k].directive.id \in 1..made'
                                    /\ line'[k].who = "return" => line'[k].of \in 1..made'
<1>1. /\ line' \in Seq(Entries) /\ DOMAIN line' = 1..(Len(line) - 1)
      /\ \A k \in 1..(Len(line) - 1) : line'[k] = line[IF k < i THEN k ELSE k + 1]
      /\ Len(line) \in Nat /\ DOMAIN line = 1..Len(line)
  BY LineFacts DEF IInv, Shrunk
<1>2. \A k \in 1..(Len(line) - 1) : k \in DOMAIN line /\ k + 1 \in DOMAIN line
  BY <1>1
<1> SUFFICES ASSUME NEW k \in DOMAIN line'
             PROVE  /\ line'[k].who # "swap" => line'[k].directive.id \in 1..made
                    /\ line'[k].who = "return" => line'[k].of \in 1..made
  BY <1>1
<1>3. PICK n \in DOMAIN line : line'[k] = line[n]
  BY <1>1, <1>2
<1> QED  BY <1>3 DEF IInv, Numbers

-----------------------------------------------------------------------------
(* The steps that leave the lock alone *)

\* The renderer in use shows what it did, or what it should, or is known not to.
ShowsOn ==
  \/ shown'[active] = shown[active] /\ UNCHANGED <<lost, stale>> /\ (Mirroring => Mirroring')
  \/ lost' = TRUE \/ stale' = TRUE \/ Mirroring' \/ shown'[active] = current.state

LEMMA ShowsSame ==
  ASSUME UNCHANGED <<shown, active, lost, stale, pack>>
  PROVE  ShowsOn
BY DEF ShowsOn, Mirroring

LEMMA StillKeeps ==
  ASSUME IInv, UNCHANGED <<line, stage, active, shape, current, director>>,
         life = "stopped" => life' = "stopped",
         life' = "on" => life = "on",
         lost' = lost \/ lost' = TRUE,
         ShowsOn
  PROVE  LockInv' /\ Followed'
<1>1. lost \in BOOLEAN
  BY DEF IInv, TypeOK
<1>2. Locked' /\ Swaps' /\ Shapes'
  BY DEF IInv, Locked, Swaps, Begun, Shapes
<1>3. Displayed'
  BY DEF ShowsOn, IInv, Displayed
<1>4. Followed'
  <2> SUFFICES ASSUME life' = "on" PROVE Followed'
    BY DEF Followed
  <2>1. /\ Pending # {} => \E i \in DOMAIN line : IsLast(i) /\ line[i].directive.state = director
        /\ Pending = {} /\ ~lost => current.state = director
    BY DEF IInv, Followed
  <2> QED  BY <2>1, <1>1 DEF Followed, IsLast, Pending
<1> QED  BY <1>2, <1>3, <1>4 DEF LockInv

\* Publishing, timers, the pack route and stop() until the tasks unwind.
LEMMA StillStep ==
  ASSUME IInv,
         \/ UNCHANGED vars
         \/ \E event \in Events : Publish(event)
         \/ Fire \/ PackSwap \/ PackStep \/ Stop \/ Gathered
  PROVE  IInv'
<1>0. TypeOK /\ Numbers /\ made \in Nat
  BY DEF IInv, Numbers
<1>1. CASE UNCHANGED vars
  <2>1. LockInv' /\ Followed'
    BY <1>1, StillKeeps, ShowsSame DEF vars, lock, display, intake, route
  <2>2. TypeOK' /\ Numbers'
    BY <1>0, <1>1 DEF vars, intake, lock, holds, display, route, TypeOK, Numbers
  <2> QED  BY <2>1, <2>2 DEF IInv, LockInv
<1>2. ASSUME NEW event \in Events, Publish(event) PROVE IInv'
  <2>1. LockInv' /\ Followed'
    BY <1>2, StillKeeps, ShowsSame DEF Publish, lock, display, route
  <2>2. inbox' \in Seq(Events) /\ published' \in Nat
    BY <1>0, <1>2 DEF Publish, TypeOK
  <2>3. TypeOK' /\ Numbers'
    BY <1>0, <1>2, <2>2 DEF Publish, lock, holds, display, route, TypeOK, Numbers
  <2> QED  BY <2>1, <2>3 DEF IInv, LockInv
<1>3. CASE Fire
  <2>1. LockInv' /\ Followed'
    BY <1>3, StillKeeps, ShowsSame DEF Fire, lock, display, route
  <2>2. timer' \in 0..made /\ returns' \subseteq 1..made
    <3>1. timer \in 0..made /\ timer # 0 /\ returns \subseteq 1..made
          /\ timer' = 0 /\ returns' = returns \cup {timer}
      BY <1>0, <1>3 DEF Fire, TypeOK
    <3>2. timer \in 1..made /\ 0 \in 0..made
      BY <1>0, <3>1
    <3> QED  BY <3>1, <3>2
  <2>3. TypeOK' /\ Numbers'
    BY <1>0, <1>3, <2>2 DEF Fire, intake, lock, display, route, TypeOK, Numbers
  <2> QED  BY <2>1, <2>3 DEF IInv, LockInv
<1>4. CASE PackSwap
  <2>0. packSwaps \in Nat
    BY <1>0, BoundsAssumption DEF TypeOK
  <2>1. LockInv' /\ Followed'
    <3>1. ShowsOn
      BY <1>4 DEF PackSwap, display, ShowsOn, Mirroring
    <3> QED  BY <1>4, <3>1, StillKeeps DEF PackSwap, lock, display
  <2>2. packSwaps' \in 0..MaxPackSwaps
    BY <1>0, <1>4, <2>0, BoundsAssumption DEF PackSwap, TypeOK
  <2>3. NoDirective \in Directives
    BY DEF NoDirective, Directives, Rest, States
  <2>4. pack' \in [stage : {"none", "loading", "again"}, runtime : Runtimes, directive : Directives]
    BY <1>0, <1>4, <2>3 DEF PackSwap, NoPack, TypeOK
  <2>5. TypeOK' /\ Numbers'
    BY <1>0, <1>4, <2>2, <2>4 DEF PackSwap, intake, lock, holds, display, TypeOK, Numbers
  <2> QED  BY <2>1, <2>5 DEF IInv, LockInv
<1>5. CASE PackStep
  <2>0. /\ pack \in [stage : {"none", "loading", "again"}, runtime : Runtimes, directive : Directives]
        /\ active \in Runtimes /\ shown \in [Runtimes -> States]
        /\ current.id = 0 => current.state = Rest
    BY <1>0 DEF TypeOK, Numbers
  <2>1. LockInv' /\ Followed'
    <3>1. CASE PackLoad
      <4>1. /\ shown' = [shown EXCEPT ![pack.runtime] = Rest]
            /\ UNCHANGED <<line, stage, active, shape, current, director, life, lost, stale>>
            /\ pack.stage = "loading"
            /\ current.id # 0 => pack' = [pack EXCEPT !.stage = "again", !.directive = current]
        BY <3>1 DEF PackLoad, lock
      <4>2. CASE pack.runtime # active
        <5>1. shown'[active] = shown[active] /\ ~Mirroring
          BY <2>0, <4>1, <4>2 DEF Mirroring
        <5>2. ShowsOn
          BY <4>1, <5>1 DEF ShowsOn
        <5> QED  BY <4>1, <5>2, StillKeeps
      <4>3. CASE pack.runtime = active /\ current.id = 0
        <5>1. ShowsOn
          BY <2>0, <4>1, <4>3 DEF ShowsOn
        <5> QED  BY <4>1, <5>1, StillKeeps
      <4>4. CASE pack.runtime = active /\ current.id # 0
        <5>1. Mirroring'
          BY <2>0, <4>1, <4>4 DEF Mirroring
        <5>2. ShowsOn
          BY <5>1 DEF ShowsOn
        <5> QED  BY <4>1, <5>2, StillKeeps
      <4> QED  BY <4>2, <4>3, <4>4
    <3>2. CASE PackAgain
      <4>1. /\ shown' = [shown EXCEPT ![pack.runtime] = pack.directive.state]
            /\ UNCHANGED <<line, stage, active, shape, current, director, life, lost>>
            /\ stale' = IF pack.runtime = active THEN pack.directive # current ELSE stale
        BY <3>2 DEF PackAgain, lock
      <4>2. CASE pack.runtime # active
        <5>1. shown'[active] = shown[active] /\ ~Mirroring
          BY <2>0, <4>1, <4>2 DEF Mirroring
        <5>2. ShowsOn
          BY <4>1, <4>2, <5>1 DEF ShowsOn
        <5> QED  BY <4>1, <5>2, StillKeeps
      <4>3. CASE pack.runtime = active
        <5>1. stale' = TRUE \/ shown'[active] = current.state
          BY <2>0, <4>1, <4>3
        <5>2. ShowsOn
          BY <5>1 DEF ShowsOn
        <5> QED  BY <4>1, <5>2, StillKeeps
      <4> QED  BY <4>2, <4>3
    <3>3. CASE PackFails
      <4>1. lost' = TRUE /\ UNCHANGED <<line, stage, active, shape, current, director, life>>
        BY <3>3 DEF PackFails, lock, display
      <4>2. ShowsOn
        BY <4>1 DEF ShowsOn
      <4> QED  BY <4>1, <4>2, StillKeeps
    <3> QED  BY <1>5, <3>1, <3>2, <3>3 DEF PackStep
  <2>2. /\ NoPack.stage = "none"
        /\ NoPack \in [stage : {"none", "loading", "again"}, runtime : Runtimes, directive : Directives]
    BY RuntimesAssumption DEF NoPack, NoDirective, Directives, Rest, States
  <2>3. CASE PackLoad
    <3>1. shown' \in [Runtimes -> States]
      BY <1>0, <2>3 DEF PackLoad, TypeOK, Rest, States
    <3>2. pack' \in [stage : {"none", "loading", "again"}, runtime : Runtimes, directive : Directives]
      <4>1. CASE current.id = 0
        BY <2>2, <2>3, <4>1 DEF PackLoad
      <4>2. CASE current.id # 0
        BY <1>0, <2>3, <4>2 DEF PackLoad, TypeOK, Numbers
      <4> QED  BY <4>1, <4>2
    <3>3. TypeOK' /\ Numbers'
      BY <1>0, <2>0, <2>3, <3>1, <3>2 DEF PackLoad, intake, lock, holds, TypeOK, Numbers
    <3> QED  BY <2>1, <3>3 DEF IInv, LockInv
  <2>4. CASE PackAgain
    <3>1. shown' \in [Runtimes -> States]
      BY <1>0, <2>4 DEF PackAgain, TypeOK, Directives
    <3>2. TypeOK' /\ Numbers'
      BY <1>0, <2>2, <2>4, <3>1 DEF PackAgain, intake, lock, holds, TypeOK, Numbers
    <3> QED  BY <2>1, <3>2 DEF IInv, LockInv
  <2>5. CASE PackFails
    <3>1. TypeOK' /\ Numbers'
      BY <1>0, <2>2, <2>5 DEF PackFails, intake, lock, holds, display, TypeOK, Numbers
    <3> QED  BY <2>1, <3>1 DEF IInv, LockInv
  <2> QED  BY <1>5, <2>3, <2>4, <2>5 DEF PackStep
<1>6. CASE Stop
  <2>1. LockInv' /\ Followed'
    BY <1>6, StillKeeps, ShowsSame DEF Stop, lock, display, route
  <2>2. Returning \subseteq 1..made
    BY <1>0 DEF Returning, TypeOK, Numbers
  <2>3. TypeOK' /\ Numbers'
    BY <1>0, <1>6, <2>2 DEF Stop, intake, lock, display, route, TypeOK, Numbers
  <2> QED  BY <2>1, <2>3 DEF IInv, LockInv
<1>7. CASE Gathered
  <2>1. LockInv' /\ Followed'
    BY <1>7, StillKeeps, ShowsSame DEF Gathered, lock, display, route
  <2>2. TypeOK' /\ Numbers'
    BY <1>0, <1>7 DEF Gathered, intake, lock, holds, display, route, TypeOK, Numbers
  <2> QED  BY <2>1, <2>2 DEF IInv, LockInv
<1> QED  BY <1>1, <1>2, <1>3, <1>4, <1>5, <1>6, <1>7

-----------------------------------------------------------------------------
(* The steps that ask for the lock or take it *)

\* The last directive to enter is the one the director has just made.
LEMMA EnterFollowed ==
  ASSUME IInv, NEW e \in Entries, Enter(e), UNCHANGED <<current, life, lost>>,
         IF e.who = "swap" THEN director' = director ELSE e.directive.state = director'
  PROVE  Followed'
<1>0. PICK n \in Nat \ {0} : n = Len(line) + 1
  BY LineFacts DEF IInv
<1>1. /\ DOMAIN line' = 1..n /\ line'[n] = e /\ \A i \in DOMAIN line : line'[i] = line[i]
      /\ DOMAIN line = 1..(n - 1)
  BY <1>0, EnterFacts, LineFacts DEF IInv
<1>2. /\ DOMAIN line' = DOMAIN line \cup {n} /\ n \notin DOMAIN line
      /\ \A i \in DOMAIN line : i <= n
  BY <1>1
<1>3. Pending' = IF e.who = "swap" THEN Pending ELSE Pending \cup {n}
  <2>1. \A i \in DOMAIN line : line'[i].who # "swap" <=> line[i].who # "swap"
    BY <1>1
  <2>2. line'[n].who # "swap" <=> e.who # "swap"
    BY <1>1
  <2> QED  BY <2>1, <2>2, <1>2 DEF Pending
<1> SUFFICES ASSUME life = "on"
             PROVE  /\ Pending' # {} => \E i \in DOMAIN line' : IsLast(i)' /\ line'[i].directive.state = director'
                    /\ Pending' = {} /\ ~lost => current.state = director'
  BY DEF Followed
<1>5. CASE e.who = "swap"
  <2>1. Pending' = Pending /\ director' = director
    BY <1>3, <1>5
  <2>2. ASSUME Pending # {}
        PROVE  \E i \in DOMAIN line' : IsLast(i)' /\ line'[i].directive.state = director
    <3>1. PICK i \in DOMAIN line : IsLast(i) /\ line[i].directive.state = director
      BY <2>2 DEF IInv, Followed
    <3>2. i \in DOMAIN line' /\ line'[i] = line[i] /\ IsLast(i)'
      BY <2>1, <3>1, <1>1, <1>2 DEF IsLast
    <3> QED  BY <3>1, <3>2
  <2> QED  BY <2>1, <2>2 DEF IInv, Followed
<1>6. CASE e.who # "swap"
  <2>1. n \in Pending' /\ \A j \in Pending' : j \in DOMAIN line \/ j = n
    BY <1>3, <1>6 DEF Pending
  <2>2. IsLast(n)'
    BY <2>1, <1>2 DEF IsLast
  <2>3. n \in DOMAIN line' /\ line'[n].directive.state = director'
    BY <1>1, <1>2, <1>6
  <2> QED  BY <2>1, <2>2, <2>3
<1> QED  BY <1>5, <1>6

\* An event, the return of a hold, and a request for another renderer.
LEMMA EnterStep ==
  ASSUME IInv, Handle \/ (\E id \in returns : DoReturn(id)) \/ \E r \in Runtimes : Swap(r)
  PROVE  IInv'
<1>0. TypeOK /\ Numbers /\ made \in Nat /\ made + 1 \in Nat /\ made <= made + 1 /\ made + 1 \in 1..(made + 1)
  BY DEF IInv, Numbers
<1>1. CASE Handle
  <2>1. /\ UNCHANGED <<published, current, returns, doomed, shown, route, life, lost>>
        /\ inbox # <<>> /\ inbox' = Tail(inbox)
    BY <1>1 DEF Handle
  <2>2. inbox \in Seq(Events) /\ Head(inbox) \in Events /\ inbox' \in Seq(Events)
    BY <1>0, <2>1, HeadTailProperties DEF TypeOK
  <2>3. CASE ~Answers(director, Head(inbox))
    <3>1. UNCHANGED <<director, made, line, stage, timer, active, shape>>
      BY <1>1, <2>3 DEF Handle
    <3>2. LockInv' /\ Followed'
      BY <2>1, <3>1, StillKeeps, ShowsSame DEF route
    <3>3. TypeOK' /\ Numbers'
      BY <1>0, <2>1, <2>2, <3>1 DEF route, TypeOK, Numbers
    <3> QED  BY <3>2, <3>3 DEF IInv, LockInv
  <2>4. CASE Answers(director, Head(inbox))
    <3> DEFINE d == [state |-> director', id |-> made', holds |-> Holds(Head(inbox))]
    <3>1. director' = NextState(Head(inbox)) /\ made' = made + 1 /\ Enter(Consumer(d))
      BY <1>1, <2>4 DEF Handle
    <3>2. director' \in States
      BY <2>2, <3>1, NextStateFacts
    <3>3. Holds(Head(inbox)) \in BOOLEAN
      BY DEF Holds
    <3>4. d \in Directives /\ d.state = director' /\ d.id = made + 1
      BY <1>0, <3>1, <3>2, <3>3 DEF Directives
    <3> HIDE DEF d
    <3>5. PICK e \in Entries : /\ e = Consumer(d)
                               /\ e.who = "consumer" /\ e.directive = d /\ Enter(e)
      <4>1. Consumer(d) \in Entries /\ Consumer(d).who = "consumer" /\ Consumer(d).directive = d
        BY <3>4 DEF Consumer, Entries
      <4> QED  BY <4>1, <3>1
    <3>6. LockInv'
      BY <2>1, <3>5, EnterKeeps DEF route
    <3>7. Followed'
      BY <2>1, <3>4, <3>5, EnterFollowed
    <3>8. /\ line' \in Seq(Entries)
          /\ \A i \in DOMAIN line' : /\ line'[i].who # "swap" => line'[i].directive.id \in 1..made'
                                     /\ line'[i].who = "return" => line'[i].of \in 1..made'
          /\ timer' \in 0..made' /\ active' \in Runtimes
          /\ stage' \in {"free", "waking", "applying", "shutting", "loading", "again"}
          /\ shape' \in [Runtimes -> {"new", "loaded", "empty", "closing", "shut"}]
      BY <1>0, <3>1, <3>4, <3>5, EnterTypes
    <3>9. TypeOK'
      BY <1>0, <2>1, <2>2, <3>1, <3>2, <3>8 DEF route, TypeOK, Directives
    <3>10. Numbers'
      BY <1>0, <2>1, <3>1, <3>8 DEF route, Numbers
    <3> QED  BY <3>6, <3>7, <3>9, <3>10 DEF IInv, LockInv
  <2> QED  BY <2>3, <2>4
<1>2. ASSUME NEW id \in returns, DoReturn(id) PROVE IInv'
  <2> DEFINE d == [state |-> "idle", id |-> made', holds |-> FALSE]
  <2>1. /\ UNCHANGED <<intake, current, doomed, shown, route, life, lost>>
        /\ returns' = returns \ {id}
        /\ director' = "idle" /\ made' = made + 1 /\ Enter(Return(d, id))
    BY <1>2 DEF DoReturn
  <2>2. d \in Directives /\ d.state = "idle" /\ d.id = made + 1
    BY <1>0, <2>1 DEF Directives, States
  <2>3. id \in 1..made /\ id \in 1..(made + 1) /\ id \in Nat
    BY <1>0, <1>2 DEF TypeOK
  <2> HIDE DEF d
  <2>4. PICK e \in Entries : /\ e = Return(d, id)
                             /\ e.who = "return" /\ e.directive = d /\ e.of = id /\ Enter(e)
    <3>1. /\ Return(d, id) \in Entries /\ Return(d, id).who = "return"
          /\ Return(d, id).directive = d /\ Return(d, id).of = id
      BY <2>2, <2>3 DEF Return, Entries
    <3> QED  BY <3>1, <2>1
  <2>5. LockInv'
    BY <2>1, <2>4, EnterKeeps DEF route
  <2>6. Followed'
    BY <2>1, <2>2, <2>4, EnterFollowed
  <2>7. /\ line' \in Seq(Entries)
        /\ \A i \in DOMAIN line' : /\ line'[i].who # "swap" => line'[i].directive.id \in 1..made'
                                   /\ line'[i].who = "return" => line'[i].of \in 1..made'
        /\ timer' \in 0..made' /\ active' \in Runtimes
        /\ stage' \in {"free", "waking", "applying", "shutting", "loading", "again"}
        /\ shape' \in [Runtimes -> {"new", "loaded", "empty", "closing", "shut"}]
    BY <1>0, <2>1, <2>2, <2>3, <2>4, EnterTypes
  <2>8. TypeOK'
    BY <1>0, <2>1, <2>7 DEF intake, route, TypeOK, Directives, States
  <2>9. Numbers'
    BY <1>0, <2>1, <2>7 DEF route, Numbers
  <2> QED  BY <2>5, <2>6, <2>8, <2>9 DEF IInv, LockInv
<1>3. ASSUME NEW r \in Runtimes, Swap(r) PROVE IInv'
  <2>1. /\ UNCHANGED <<intake, director, made, current, returns, doomed, shown, route, life, lost>>
        /\ shape[r] = "new" /\ r # active /\ Enter(Swapper(r))
        /\ \A i \in DOMAIN line : line[i] # Swapper(r)
    BY <1>3 DEF Swap
  <2>2. PICK e \in Entries : e = Swapper(r) /\ e.who = "swap" /\ e.to = r /\ Enter(e)
    <3>1. Swapper(r) \in Entries /\ Swapper(r).who = "swap" /\ Swapper(r).to = r
      BY DEF Swapper, Entries
    <3> QED  BY <3>1, <2>1
  <2>3. \A i \in DOMAIN line : line[i].who = "swap" => line[i].to # e.to
    <3> SUFFICES ASSUME NEW i \in DOMAIN line, line[i].who = "swap", line[i].to = r PROVE FALSE
      BY <2>2
    <3>1. line[i] \in [who : {"swap"}, to : Runtimes]
      BY LineFacts DEF IInv, Entries
    <3>2. line[i] = Swapper(r)
      BY <3>1 DEF Swapper
    <3> QED  BY <3>2, <2>1
  <2>4. LockInv'
    BY <2>1, <2>2, <2>3, EnterKeeps DEF route
  <2>5. Followed'
    BY <2>1, <2>2, EnterFollowed
  <2>6. /\ line' \in Seq(Entries)
        /\ \A i \in DOMAIN line' : /\ line'[i].who # "swap" => line'[i].directive.id \in 1..made'
                                   /\ line'[i].who = "return" => line'[i].of \in 1..made'
        /\ timer' \in 0..made' /\ active' \in Runtimes
        /\ stage' \in {"free", "waking", "applying", "shutting", "loading", "again"}
        /\ shape' \in [Runtimes -> {"new", "loaded", "empty", "closing", "shut"}]
    BY <1>0, <2>1, <2>2, EnterTypes
  <2>7. TypeOK' /\ Numbers'
    BY <1>0, <2>1, <2>6 DEF intake, route, TypeOK, Numbers
  <2> QED  BY <2>4, <2>5, <2>7 DEF IInv, LockInv
<1> QED  BY <1>1, <1>2, <1>3

\* Who was woken takes the lock.
LEMMA WakeStep ==
  ASSUME IInv, Wake
  PROVE  IInv'
<1>0. TypeOK /\ Numbers
  BY DEF IInv
<1>1. /\ stage = "waking" /\ Acquire(Head(line))
      /\ UNCHANGED <<intake, director, made, current, line, returns, doomed, shown, route, life, lost>>
  BY DEF Wake
<1>2. line # <<>> /\ line \in Seq(Entries) /\ Head(line) = line[1] /\ line[1] \in Entries
  BY <1>1, LineFacts DEF IInv, Locked
<1>3. LockInv'
  <2>1. Acquire(line'[1]) /\ Waits(line') /\ line' \in Seq(Entries) /\ line' # <<>>
    <3>1. Waits(line)
      BY <1>1, LineWaits DEF Swapping
    <3>2. line' = line
      BY <1>1
    <3> QED  BY <1>1, <1>2, <3>1, <3>2
  <2> QED  BY <1>1, <2>1, AcquireKeeps DEF route
<1>4. Followed'
  BY <1>1 DEF IInv, Followed, IsLast, Pending
<1>5. /\ timer' = 0 /\ stage' \in {"applying", "shutting"} /\ active' \in Runtimes
      /\ shape' \in [Runtimes -> {"new", "loaded", "empty", "closing", "shut"}]
  BY <1>0, <1>1, <1>2, AcquireTypes
<1>6. TypeOK' /\ Numbers'
  BY <1>0, <1>1, <1>5 DEF intake, route, TypeOK, Numbers
<1> QED  BY <1>3, <1>4, <1>6 DEF IInv, LockInv

-----------------------------------------------------------------------------
(* The steps that give the lock up, or work inside it *)

\* The head leaves: the last directive is still the director's, or it was the head's.
LEMMA LeaveFollowed ==
  ASSUME IInv, line # <<>>, Shrunk(1), UNCHANGED <<life, director>>,
         \/ line[1].who = "swap" /\ current' = current /\ (lost' = lost \/ lost' = TRUE)
         \/ line[1].who # "swap" /\ (lost' = TRUE \/ current'.state = line[1].directive.state)
  PROVE  Followed'
<1>0. PICK n \in Nat \ {0} : n = Len(line)
  BY LineFacts DEF IInv
<1>1. /\ DOMAIN line = 1..n /\ DOMAIN line' = 1..(n - 1)
      /\ \A k \in 1..(n - 1) : line'[k] = line[k + 1]
  <2>1. /\ DOMAIN line = 1..n /\ DOMAIN line' = 1..(n - 1)
        /\ \A k \in 1..(n - 1) : line'[k] = line[IF k < 1 THEN k ELSE k + 1]
    BY <1>0, LineFacts DEF IInv, Shrunk
  <2>2. \A k \in 1..(n - 1) : ~(k < 1)
    OBVIOUS
  <2> QED  BY <2>1, <2>2
<1>2. lost \in BOOLEAN
  BY DEF IInv, TypeOK
<1>3. \A k \in 1..(n - 1) : k + 1 \in DOMAIN line /\ (k \in Pending' <=> k + 1 \in Pending)
  BY <1>1 DEF Pending
<1>4. Pending' \subseteq 1..(n - 1) /\ Pending \subseteq 1..n
  BY <1>1 DEF Pending
<1>5. \A j \in Pending : j # 1 => j - 1 \in Pending'
  <2> TAKE j \in Pending
  <2>1. j # 1 => j - 1 \in 1..(n - 1) /\ (j - 1) + 1 = j
    BY <1>4
  <2> QED  BY <2>1, <1>3
<1>6. 1 \in Pending <=> line[1].who # "swap"
  BY <1>1 DEF Pending
<1> SUFFICES ASSUME life = "on"
             PROVE  /\ Pending' # {} => \E i \in DOMAIN line' : IsLast(i)' /\ line'[i].directive.state = director
                    /\ Pending' = {} /\ ~lost' => current'.state = director
  BY DEF Followed
<1>7. ASSUME Pending # {}
      PROVE  \E i \in DOMAIN line : IsLast(i) /\ line[i].directive.state = director
  BY <1>7 DEF IInv, Followed
<1>8. ASSUME Pending' # {}
      PROVE  \E i \in DOMAIN line' : IsLast(i)' /\ line'[i].directive.state = director
  <2>1. PICK k \in 1..(n - 1) : k \in Pending'
    BY <1>4, <1>8
  <2>2. k + 1 \in Pending
    BY <2>1, <1>3
  <2>3. PICK i \in DOMAIN line : IsLast(i) /\ line[i].directive.state = director
    BY <2>2, <1>7
  <2>4. i \in 1..n /\ k + 1 <= i
    BY <2>2, <2>3, <1>1 DEF IsLast
  <2>5. i # 1 /\ i - 1 \in 1..(n - 1) /\ (i - 1) + 1 = i
    BY <2>4
  <2>6. PICK m \in 1..(n - 1) : m = i - 1
    BY <2>5
  <2>7. line'[m] = line[i] /\ m \in DOMAIN line' /\ m \in Pending'
    BY <2>3, <2>5, <2>6, <1>1, <1>5 DEF IsLast
  <2>8. ASSUME NEW j \in Pending' PROVE j <= m
    <3>1. j \in 1..(n - 1) /\ j + 1 \in Pending
      BY <1>3, <1>4, <2>8
    <3>2. j + 1 <= i
      BY <3>1, <2>3 DEF IsLast
    <3> QED  BY <3>1, <3>2, <2>6, <2>4
  <2>9. IsLast(m)'
    BY <2>7, <2>8 DEF IsLast
  <2> QED  BY <2>3, <2>7, <2>9
<1>9. ASSUME Pending' = {}, ~lost' PROVE current'.state = director
  <2>1. \A j \in Pending : j = 1
    BY <1>5, <1>9
  <2>2. CASE line[1].who = "swap"
    <3>1. Pending = {}
      BY <2>1, <2>2, <1>6
    <3> QED  BY <2>2, <3>1, <1>2, <1>9 DEF IInv, Followed
  <2>3. CASE line[1].who # "swap"
    <3>1. 1 \in Pending
      BY <2>3, <1>6
    <3>2. PICK i \in DOMAIN line : IsLast(i) /\ line[i].directive.state = director
      BY <3>1, <1>7
    <3>3. i = 1
      BY <3>2, <2>1 DEF IsLast
    <3> QED  BY <2>3, <3>2, <3>3, <1>9
  <2> QED  BY <2>2, <2>3
<1> QED  BY <1>8, <1>9

\* A directive was taken by its renderer, or raised there.
LEMMA DirectiveStep ==
  ASSUME IInv, Applied \/ ApplyFails
  PROVE  IInv'
<1>0. TypeOK /\ Numbers
  BY DEF IInv
<1> DEFINE d == Head(line).directive
<1>1. /\ stage = "applying" /\ Leave
      /\ UNCHANGED <<intake, director, made, returns, doomed, active, shape, pack, packSwaps, life>>
  BY DEF Applied, ApplyFails, holds, display, route
<1>2. /\ line # <<>> /\ Head(line) = line[1] /\ 1 \in DOMAIN line /\ line[1].who # "swap"
      /\ d = line[1].directive /\ d \in Directives /\ d.id \in 1..made
  BY <1>1, HeadFacts
<1>3. /\ \/ shown' = [shown EXCEPT ![active] = d.state] /\ current' = d /\ lost' = FALSE
         \/ UNCHANGED <<shown, current>> /\ lost' = TRUE
      /\ timer' = timer \/ timer' = IF d.holds THEN d.id ELSE 0
      /\ stale' = stale \/ stale' = FALSE
  BY DEF Applied, ApplyFails, holds, display, route
<1> HIDE DEF d
<1>4. /\ Shrunk(1) /\ stage' = (IF Len(line) = 1 THEN "free" ELSE "waking")
      /\ line' = <<>> <=> Len(line) = 1
  BY <1>1, <1>2, LeaveFacts DEF IInv
<1>5. Locked' /\ Swaps'
  BY <1>1, <1>2, <1>4, ShrinkKeeps
<1>6. Shapes'
  BY <1>1, <1>4 DEF IInv, Shapes
<1>7. Displayed'
  <2>1. active \in Runtimes /\ shown \in [Runtimes -> States]
    BY <1>0 DEF TypeOK
  <2> QED  BY <2>1, <1>1, <1>3 DEF Displayed
<1>8. Followed'
  BY <1>1, <1>2, <1>3, <1>4, LeaveFollowed
<1>9. TypeOK'
  <2>1. d.state \in States /\ d.id \in 0..made /\ d.id <= made /\ 0 \in 0..made
    <3>1. d.state \in States
      BY <1>2 DEF Directives
    <3>2. made \in Nat
      BY <1>0 DEF Numbers
    <3> QED  BY <1>2, <3>1, <3>2
  <2>2. timer' \in 0..made
    BY <1>0, <1>3, <2>1 DEF TypeOK
  <2>3. /\ shown' \in [Runtimes -> States] /\ current' \in Directives /\ current'.id <= made
        /\ {lost', stale'} \subseteq BOOLEAN
    BY <1>0, <1>2, <1>3, <2>1 DEF TypeOK
  <2> QED  BY <1>0, <1>1, <1>4, <2>2, <2>3 DEF intake, TypeOK
<1>10. Numbers'
  <2>1. /\ line' \in Seq(Entries)
        /\ \A k \in DOMAIN line' : /\ line'[k].who # "swap" => line'[k].directive.id \in 1..made'
                                   /\ line'[k].who = "return" => line'[k].of \in 1..made'
    BY <1>1, <1>2, <1>4, ShrinkTypes
  <2>2. current'.id = 0 => current'.state = Rest
    BY <1>0, <1>2, <1>3 DEF Numbers
  <2> QED  BY <1>0, <1>1, <2>1, <2>2 DEF Numbers
<1> QED  BY <1>5, <1>6, <1>7, <1>8, <1>9, <1>10 DEF IInv

\* The steps of a swap.
LEMMA SwapSteps ==
  ASSUME IInv, SwapStep
  PROVE  IInv'
<1>0. /\ TypeOK /\ Numbers /\ active \in Runtimes
      /\ shape \in [Runtimes -> {"new", "loaded", "empty", "closing", "shut"}]
      /\ shown \in [Runtimes -> States] /\ Rest \in States /\ current.state \in States
      /\ {lost, stale} \subseteq BOOLEAN
  BY DEF IInv, TypeOK, Rest, States, Directives
<1>1. /\ stage \in Swapping
      /\ UNCHANGED <<intake, director, made, current, holds, active, pack, packSwaps, life>>
      /\ stale' = stale \/ stale' = FALSE
  BY DEF route, SwapStep, SwapShut, SwapLoad, SwapLoadFails, SwapAgain, SwapAgainFails, Swapping, display
<1>2. line # <<>> /\ 1 \in DOMAIN line /\ line[1].who = "swap" /\ line[1].to = active
  BY <1>1, LineFacts DEF IInv, Locked, Swapping
<1>3. ASSUME Leave,
             shape' \in [Runtimes -> {"new", "loaded", "empty", "closing", "shut"}],
             shown' \in [Runtimes -> States],
             \A r \in Runtimes \ {active} : shape'[r] = shape[r],
             shape'[active] \in {"loaded", "empty"} \/ (shape'[active] = shape[active] /\ stage = "again"),
             lost' = lost \/ lost' = TRUE,
             \/ lost' = TRUE
             \/ shape'[active] = "empty"
             \/ shown'[active] = current.state
      PROVE  IInv'
  <2>1. /\ Shrunk(1) /\ stage' = (IF Len(line) = 1 THEN "free" ELSE "waking")
        /\ line' = <<>> <=> Len(line) = 1
    BY <1>2, <1>3, LeaveFacts DEF IInv
  <2>2. Locked' /\ Swaps'
    BY <1>1, <1>2, <1>3, <2>1, ShrinkKeeps
  <2>3. Shapes'
    BY <1>1, <1>3, <2>1 DEF IInv, Shapes
  <2>4. Displayed'
    BY <1>1, <1>3 DEF Displayed
  <2>5. Followed'
    BY <1>1, <1>2, <1>3, <2>1, LeaveFollowed
  <2>6. {lost', stale'} \subseteq BOOLEAN
    BY <1>0, <1>1, <1>3
  <2>7. TypeOK'
    BY <1>0, <1>1, <1>3, <2>1, <2>6 DEF intake, holds, TypeOK
  <2>8. /\ line' \in Seq(Entries)
        /\ \A k \in DOMAIN line' : /\ line'[k].who # "swap" => line'[k].directive.id \in 1..made'
                                   /\ line'[k].who = "return" => line'[k].of \in 1..made'
    BY <1>1, <1>2, <2>1, ShrinkTypes
  <2>9. Numbers'
    BY <1>0, <1>1, <2>8 DEF Numbers
  <2> QED  BY <2>2, <2>3, <2>4, <2>5, <2>7, <2>9 DEF IInv
<1>4. ASSUME line' = line, stage' \in Swapping, UNCHANGED lost,
             shape' \in [Runtimes -> {"new", "loaded", "empty", "closing", "shut"}],
             shown' \in [Runtimes -> States],
             \A r \in Runtimes : shape[r] = "new" /\ r # active => shape'[r] = "new",
             \/ stage' = "again" /\ shape'[active] = "loaded"
             \/ stage' = "loading" /\ shape'[active] \in {"new", "shut"}
      PROVE  IInv'
  <2>1. Locked'
    BY <1>1, <1>2, <1>4 DEF IInv, Locked, Swapping
  <2>2. Swaps'
    <3>1. \A i \in DOMAIN line : line[i].who = "swap" => line[i].to \in Runtimes
      BY LineFacts DEF IInv, Entries
    <3> QED  BY <3>1, <1>1, <1>4 DEF IInv, Swaps, Begun
  <2>3. Shapes' /\ Displayed'
    BY <1>1, <1>4 DEF Shapes, Displayed
  <2>4. Followed'
    BY <1>1, <1>4 DEF IInv, Followed, IsLast, Pending
  <2>5. TypeOK'
    BY <1>0, <1>1, <1>4 DEF intake, holds, TypeOK, Swapping
  <2>6. Numbers'
    BY <1>0, <1>1, <1>4 DEF Numbers
  <2> QED  BY <2>1, <2>2, <2>3, <2>4, <2>5, <2>6 DEF IInv
<1>5. CASE SwapShut
  <2>1. /\ stage = "shutting" /\ stage' = "loading" /\ UNCHANGED <<line, shown, lost>>
        /\ shape' = [r \in Runtimes |-> IF shape[r] = "closing" THEN "shut" ELSE shape[r]]
    BY <1>5 DEF SwapShut
  <2>2. shape[active] \in {"new", "shut"}
    BY <2>1 DEF IInv, Shapes
  <2>3. /\ shape' \in [Runtimes -> {"new", "loaded", "empty", "closing", "shut"}]
        /\ shape'[active] \in {"new", "shut"}
        /\ \A r \in Runtimes : shape[r] = "new" /\ r # active => shape'[r] = "new"
    BY <1>0, <2>1, <2>2
  <2> QED  BY <1>0, <1>4, <2>1, <2>3 DEF Swapping
<1>6. CASE SwapLoad
  <2>1. /\ shape' = [shape EXCEPT ![active] = "loaded"]
        /\ shown' = [shown EXCEPT ![active] = Rest] /\ lost' = lost
        /\ IF current.id = 0 THEN Leave ELSE stage' = "again" /\ UNCHANGED line
    BY <1>6 DEF SwapLoad
  <2>2. /\ shape' \in [Runtimes -> {"new", "loaded", "empty", "closing", "shut"}]
        /\ shown' \in [Runtimes -> States]
        /\ shape'[active] = "loaded" /\ shown'[active] = Rest
        /\ \A r \in Runtimes \ {active} : shape'[r] = shape[r]
    BY <1>0, <2>1
  <2>3. CASE current.id = 0
    <3>1. current.state = Rest
      BY <1>0, <2>3 DEF Numbers
    <3>2. Leave /\ shown'[active] = current.state /\ (lost' = lost \/ lost' = TRUE)
      BY <2>1, <2>2, <2>3, <3>1
    <3> QED  BY <1>3, <2>2, <3>2
  <2>4. CASE current.id # 0
    BY <1>4, <2>1, <2>2, <2>4 DEF Swapping
  <2> QED  BY <2>3, <2>4
<1>7. CASE SwapLoadFails
  <2>1. shape' = [shape EXCEPT ![active] = "empty"] /\ UNCHANGED <<shown, lost>> /\ Leave
    BY <1>7 DEF SwapLoadFails
  <2>2. /\ shape' \in [Runtimes -> {"new", "loaded", "empty", "closing", "shut"}]
        /\ shape'[active] = "empty" /\ \A r \in Runtimes \ {active} : shape'[r] = shape[r]
    BY <1>0, <2>1
  <2> QED  BY <1>0, <1>3, <2>1, <2>2
<1>8. CASE SwapAgain
  <2>1. /\ shown' = [shown EXCEPT ![active] = current.state] /\ UNCHANGED <<shape, lost>> /\ Leave
        /\ stage = "again"
    BY <1>8 DEF SwapAgain
  <2> QED  BY <1>0, <1>3, <2>1
<1>9. CASE SwapAgainFails
  <2>1. UNCHANGED <<shape, shown>> /\ lost' = TRUE /\ Leave /\ stage = "again"
    BY <1>9 DEF SwapAgainFails, display
  <2> QED  BY <1>0, <1>3, <2>1
<1> QED  BY <1>5, <1>6, <1>7, <1>8, <1>9 DEF SwapStep

\* Tasks that unwind, and the end.
LEMMA EndSteps ==
  ASSUME IInv, Unwound \/ Unsubscribed \/ Stopped
  PROVE  IInv'
<1>0. /\ TypeOK /\ Numbers /\ active \in Runtimes
      /\ shape \in [Runtimes -> {"new", "loaded", "empty", "closing", "shut"}]
      /\ \A i \in DOMAIN line : line[i] \in Entries
  BY LineFacts DEF IInv, TypeOK
<1>1. ASSUME NEW i \in DOMAIN line, Withdraw(i), line[i].who # "swap",
             UNCHANGED <<intake, director, made, current, timer, doomed, display, route, lost>>,
             returns' \subseteq returns,
             life' \in {"gathering", "cancelling", "shutting"}, life # "stopped"
      PROVE  IInv'
  <2>1. /\ Shrunk(i)
        /\ stage' = IF i # 1 THEN stage ELSE IF Len(line) = 1 THEN "free" ELSE "waking"
        /\ line' = <<>> <=> Len(line) = 1
    BY <1>1, WithdrawFacts DEF IInv
  <2>2. Locked' /\ Swaps'
    BY <1>1, <2>1, ShrinkKeeps DEF display
  <2>3. i = 1 => stage \notin Swapping
    BY <1>1 DEF IInv, Locked
  <2>4. Shapes'
    BY <1>1, <2>1, <2>3 DEF IInv, Shapes, Swapping, display
  <2>5. Displayed'
    BY <1>1, <2>1, <2>3 DEF IInv, Displayed, Mirroring, Swapping, display, route
  <2>6. Followed'
    BY <1>1 DEF Followed
  <2>7. /\ line' \in Seq(Entries)
        /\ \A k \in DOMAIN line' : /\ line'[k].who # "swap" => line'[k].directive.id \in 1..made'
                                   /\ line'[k].who = "return" => line'[k].of \in 1..made'
    BY <1>1, <2>1, ShrinkTypes
  <2>8. stage' \in {"free", "waking", "applying", "shutting", "loading", "again"}
    BY <1>0, <2>1 DEF TypeOK
  <2>9. TypeOK' /\ Numbers'
    BY <1>0, <1>1, <2>7, <2>8 DEF intake, display, route, TypeOK, Numbers
  <2> QED  BY <2>2, <2>4, <2>5, <2>6, <2>9 DEF IInv
<1>2. ASSUME UNCHANGED <<intake, director, made, current, timer, doomed, lock, display, route, lost>>,
             returns' \subseteq returns,
             life' \in {"gathering", "cancelling", "shutting"}, life # "stopped"
      PROVE  IInv'
  <2>1. LockInv' /\ Followed'
    BY <1>2, StillKeeps, ShowsSame DEF lock, display, route
  <2>2. TypeOK' /\ Numbers'
    BY <1>0, <1>2 DEF intake, lock, display, route, TypeOK, Numbers
  <2> QED  BY <2>1, <2>2 DEF IInv, LockInv
<1>3. CASE Unwound
  <2>1. ASSUME NEW i \in DOMAIN line, IsDoomed(line[i]), Withdraw(i), UNCHANGED returns PROVE IInv'
    BY <1>1, <1>3, <2>1 DEF Unwound, IsDoomed
  <2>2. ASSUME NEW id \in returns, returns' = returns \ {id}, UNCHANGED lock PROVE IInv'
    BY <1>2, <1>3, <2>2 DEF Unwound
  <2> QED  BY <1>3, <2>1, <2>2 DEF Unwound
<1>4. CASE Unsubscribed
  <2>1. ASSUME NEW i \in DOMAIN line, IsConsumer(line[i]), Withdraw(i) PROVE IInv'
    BY <1>1, <1>4, <2>1 DEF Unsubscribed, IsConsumer, holds
  <2>2. ASSUME UNCHANGED lock PROVE IInv'
    BY <1>2, <1>4, <2>2 DEF Unsubscribed, holds
  <2> QED  BY <1>4, <2>1, <2>2 DEF Unsubscribed, ConsumerEnds
<1>5. CASE Stopped
  <2>1. /\ shape' = [shape EXCEPT ![active] = "shut"] /\ life' = "stopped"
        /\ UNCHANGED <<intake, director, made, current, lock, holds, active, shown, route, lost>>
    BY <1>5 DEF Stopped
  <2>2. /\ shape' \in [Runtimes -> {"new", "loaded", "empty", "closing", "shut"}]
        /\ shape'[active] = "shut" /\ \A r \in Runtimes \ {active} : shape'[r] = shape[r]
    BY <1>0, <2>1
  <2>3. Locked'
    BY <2>1 DEF lock, IInv, Locked
  <2>4. Swaps'
    <3>1. \A i \in DOMAIN line : line[i].who = "swap" => line[i].to \in Runtimes
      BY <1>0 DEF Entries
    <3> QED  BY <2>1, <2>2, <3>1 DEF lock, IInv, Swaps, Begun
  <2>5. Shapes' /\ Displayed' /\ Followed'
    BY <2>1, <2>2 DEF lock, Shapes, Displayed, Followed
  <2>6. TypeOK' /\ Numbers'
    BY <1>0, <2>1, <2>2 DEF intake, lock, holds, route, TypeOK, Numbers
  <2> QED  BY <2>3, <2>4, <2>5, <2>6 DEF IInv
<1> QED  BY <1>3, <1>4, <1>5

-----------------------------------------------------------------------------
(* The theorems *)

LEMMA Initially == Init => IInv
<1> SUFFICES ASSUME Init PROVE IInv
  OBVIOUS
<1>1. NoDirective \in Directives /\ NoDirective.id = 0 /\ NoDirective.state = Rest /\ Rest \in States
  BY DEF NoDirective, Directives, Rest, States
<1>2. /\ NoPack \in [stage : {"none", "loading", "again"}, runtime : Runtimes, directive : Directives]
      /\ NoPack.stage = "none"
  BY <1>1, RuntimesAssumption DEF NoPack
<1>3. line = <<>> /\ DOMAIN line = {} /\ <<>> \in Seq(Entries) /\ <<>> \in Seq(Events)
  BY DEF Init
<1>4. /\ shape \in [Runtimes -> {"new", "loaded", "empty", "closing", "shut"}] /\ shape[First] = "loaded"
      /\ shown \in [Runtimes -> States] /\ shown[First] = Rest /\ active = First
  BY <1>1, RuntimesAssumption DEF Init
<1>5. TypeOK
  <2>1. /\ published \in Nat /\ packSwaps \in 0..MaxPackSwaps
        /\ inbox \in Seq(Events) /\ {lost, stale} \subseteq BOOLEAN /\ active \in Runtimes
    <3>1. published = 0 /\ packSwaps = 0 /\ inbox = <<>> /\ lost = FALSE /\ stale = FALSE /\ active = First
      BY DEF Init
    <3>2. 0 \in Nat /\ 0 \in 0..MaxPackSwaps
      BY BoundsAssumption
    <3>3. First \in Runtimes
      BY RuntimesAssumption
    <3>4. {lost, stale} \subseteq BOOLEAN
      BY <3>1
    <3>5. inbox \in Seq(Events)
      BY <3>1, <1>3
    <3> QED  BY <3>1, <3>2, <3>3, <3>4, <3>5
  <2>2. /\ director \in States /\ current \in Directives /\ current.id <= made
        /\ timer \in 0..made /\ returns \subseteq 1..made /\ doomed \subseteq 1..made
    BY <1>1 DEF Init
  <2>3. /\ stage = "free" /\ life = "on" /\ pack.stage \in {"none", "loading", "again"}
        /\ pack.directive \in Directives
    BY <1>2 DEF Init
  <2> QED  BY <1>4, <2>1, <2>2, <2>3 DEF TypeOK
<1>6. Numbers
  BY <1>1, <1>2, <1>3 DEF Init, Numbers
<1>7. Locked /\ Swaps
  BY <1>3 DEF Init, Locked, Swapping, Swaps
<1>8. Shapes /\ Displayed
  BY <1>1, <1>4 DEF Init, Shapes, Displayed
<1>9. Followed
  BY <1>1, <1>3 DEF Init, Followed, Pending
<1> QED  BY <1>5, <1>6, <1>7, <1>8, <1>9 DEF IInv

\* Every step keeps the invariant.
LEMMA Stepwise == IInv /\ [Next]_vars => IInv'
<1> SUFFICES ASSUME IInv, [Next]_vars PROVE IInv'
  OBVIOUS
<1>1. CASE UNCHANGED vars \/ (\E event \in Events : Publish(event))
  BY <1>1, StillStep
<1>2. CASE Work
  BY <1>2, StillStep, WakeStep, EnterStep, DirectiveStep, SwapSteps DEF Work, Dispatch, ReturnStep
<1>3. CASE Request
  BY <1>3, StillStep, EnterStep DEF Request
<1>4. CASE Shutdown
  BY <1>4, StillStep, EndSteps DEF Shutdown
<1> QED  BY <1>1, <1>2, <1>3, <1>4 DEF Next

-----------------------------------------------------------------------------
(* The conversation *)

\* The variables of the conversation have their types.
ChatTypes ==
  /\ setup \in Setups /\ turn \in 0..MaxTurns /\ cue \in DOMAIN Cue
  /\ voice \in [Turns -> {"none", "queued", "playing", "cancelled", "stopping", "over"}]
  /\ current_utterance \in 0..MaxTurns
  /\ phase # "none" => turn # 0
  /\ current_utterance # 0 => voice[current_utterance] \in {"queued", "playing"}

\* The events of neutral turns; none of them asks for a return to idle.
Plainly == {"turn_thinking", "turn_over", "llm_started", "llm_replied", "tts_started", "tts_over", "cue_idle"}

\* Nothing brings the avatar back to idle, and nothing was lost.
Calm ==
  /\ life = "on" /\ ~lost /\ timer = 0 /\ returns = {}
  /\ \A i \in DOMAIN line : line[i].who # "swap" => ~line[i].directive.holds
  /\ inbox \in Seq(Plainly)

\* Only the current utterance may begin to play; and where the voice stops in time, the next
\* thought waits until it has.
Heeded ==
  /\ phase # "task" /\ cue = "cue_idle"
  /\ phase = "readying" => setup.mode = "voice_ready"
  /\ current_utterance # 0 => phase \in {"none", "accepted", "readying"}
  /\ \A t \in Turns : t # current_utterance =>
       voice[t] \in {"none", "over"} \cup IF setup.prompt /\ phase # "hushing" THEN {} ELSE {"cancelled", "stopping"}

Voiced == \E t \in Turns : voice[t] \in {"playing", "stopping"}

\* The state the avatar is to come to, once it has digested the events there are.
Due(s) ==
  /\ s \in {"thinking", "idle"} \/ (s = "speaking" /\ Voiced)
  /\ phase \in {"accepted", "hushing"} /\ overtaken # turn => s = "thinking"
  /\ phase \in {"thinking", "replying"} /\ InOrder => s = "thinking"
  /\ phase = "saying" /\ Neutral => s = "idle"
  /\ phase = "none" /\ Neutral => s = IF Playing THEN "speaking" ELSE "idle"

After(state, event) == IF Answers(state, event) THEN NextState(event) ELSE state

\* The events lead from one state to the other.
Leads(from, q, to) ==
  \E f \in [0..Len(q) -> States] :
    f[0] = from /\ f[Len(q)] = to /\ \A i \in 1..Len(q) : f[i] = After(f[i - 1], q[i])

TurnInv == Calm /\ Heeded /\ \E s \in States : Due(s) /\ Leads(director, inbox, s)

\* The turn has not said anything yet, and the later ones have not.
Unspoken ==
  \A t \in Turns :
    \/ t > turn
    \/ t = turn /\ phase \in {"accepted", "hushing", "task", "thinking", "replying", "saying"}
    => voice[t] = "none"

\* A voice is heard, whose end is still to come, or an end is among the events after the k-th.
EndsAfter(k) == Voiced \/ \E j \in DOMAIN inbox : j > k /\ inbox[j] = "tts_over"

\* Whatever else happens, an avatar that speaks, or is going to, hears of an end of it.
VoiceInv ==
  /\ life = "on" /\ ~lost /\ Unspoken
  /\ director = "speaking" => EndsAfter(0)
  /\ \A i \in DOMAIN inbox : inbox[i] = "tts_started" => EndsAfter(i)

CInv ==
  /\ IInv /\ ChatTypes
  /\ part = "conversation" => VoiceInv /\ (Undisturbed => TurnInv)

-----------------------------------------------------------------------------
(* What events do to the director *)

LEMMA AfterFacts ==
  ASSUME NEW s \in States
  PROVE  /\ After(s, "turn_thinking") = "thinking"
         /\ After(s, "llm_started") = IF s = "speaking" THEN "speaking" ELSE "thinking"
         /\ After(s, "llm_replied") = IF s = "thinking" THEN "idle" ELSE s
         /\ After(s, "turn_over") = IF s = "thinking" THEN "idle" ELSE s
         /\ After(s, "tts_started") = "speaking"
         /\ After(s, "tts_over") = IF s = "speaking" THEN "idle" ELSE s
         /\ After(s, "cue_idle") = "idle"
         /\ \A e \in Plainly : After(s, e) \in States
<1>1. /\ DOMAIN Cue = {"cue_idle", "cue_happy", "cue_error", "cue_thinking"} /\ Cue["cue_idle"] = "idle"
      /\ Plainly \ {"cue_idle"} \subseteq DOMAIN Reaction /\ "cue_idle" \notin DOMAIN Reaction
  BY DEF Cue, Reaction, Plainly
<1>2. /\ Reaction["turn_thinking"] = [to |-> "thinking", from |-> States \ {"thinking"}]
      /\ Reaction["llm_started"] = [to |-> "thinking", from |-> States \ {"thinking", "speaking"}]
      /\ Reaction["llm_replied"] = [to |-> "idle", from |-> {"thinking"}]
      /\ Reaction["turn_over"] = [to |-> "idle", from |-> {"thinking"}]
      /\ Reaction["tts_started"] = [to |-> "speaking", from |-> States \ {"speaking"}]
      /\ Reaction["tts_over"] = [to |-> "idle", from |-> {"speaking"}]
  BY DEF Reaction
<1>3. \A e \in Plainly \ {"cue_idle"} : NextState(e) = Reaction[e].to /\ (Answers(s, e) <=> s \in Reaction[e].from)
  BY <1>1 DEF NextState, Answers, Plainly
<1>4. NextState("cue_idle") = "idle" /\ Answers(s, "cue_idle")
  BY <1>1 DEF NextState, Answers
<1>5. /\ After(s, "turn_thinking") = "thinking"
      /\ After(s, "llm_started") = IF s = "speaking" THEN "speaking" ELSE "thinking"
      /\ After(s, "llm_replied") = IF s = "thinking" THEN "idle" ELSE s
      /\ After(s, "turn_over") = IF s = "thinking" THEN "idle" ELSE s
      /\ After(s, "tts_started") = "speaking"
      /\ After(s, "tts_over") = IF s = "speaking" THEN "idle" ELSE s
  BY <1>2, <1>3 DEF After, Plainly, States
<1>6. After(s, "cue_idle") = "idle"
  BY <1>4 DEF After
<1> QED  BY <1>5, <1>6 DEF Plainly, States

LEMMA PlainlyFacts == Plainly \subseteq Events /\ \A e \in Plainly : Holds(e) = FALSE
<1>1. Plainly \subseteq Events
  BY DEF Plainly, Events, Cue, Reaction
<1>2. \A e \in Plainly : NextState(e) \in {"idle", "thinking", "speaking"} /\ (e \in DOMAIN Cue => NextState(e) = "idle")
  BY DEF Plainly, Cue, Reaction, NextState
<1>3. \A e \in Plainly : ~Holds(e)
  BY <1>2 DEF Holds
<1> QED  BY <1>1, <1>3 DEF Holds

LEMMA LeadsNowhere ==
  ASSUME NEW a \in States
  PROVE  Leads(a, <<>>, a) /\ \A b : Leads(a, <<>>, b) => b = a
<1>1. Leads(a, <<>>, a)
  <2> DEFINE f == [i \in 0..0 |-> a]
             q == <<>>
  <2>1. f \in [0..Len(q) -> States] /\ f[0] = a /\ Len(q) = 0
    OBVIOUS
  <2> HIDE DEF f, q
  <2>2. \A i \in 1..Len(q) : f[i] = After(f[i - 1], q[i])
    BY <2>1
  <2>3. Leads(a, q, a)
    BY <2>1, <2>2 DEF Leads
  <2> QED  BY <2>3 DEF q
<1>2. \A b : Leads(a, <<>>, b) => b = a
  BY DEF Leads
<1> QED  BY <1>1, <1>2

LEMMA LeadsOne ==
  ASSUME NEW a \in States, NEW e \in Plainly
  PROVE  Leads(a, <<e>>, After(a, e))
<1> DEFINE f == [i \in 0..1 |-> IF i = 0 THEN a ELSE After(a, e)]
<1>1. Len(<<e>>) = 1 /\ <<e>>[1] = e /\ After(a, e) \in States
  BY AfterFacts
<1>2. f \in [0..Len(<<e>>) -> States] /\ f[0] = a /\ f[1] = After(a, e)
  BY <1>1
<1> HIDE DEF f
<1>3. \A i \in 1..Len(<<e>>) : f[i] = After(f[i - 1], <<e>>[i])
  <2>1. \A i \in 1..Len(<<e>>) : i = 1 /\ i - 1 = 0
    BY <1>1
  <2> QED  BY <1>1, <1>2, <2>1
<1> QED  BY <1>1, <1>2, <1>3 DEF Leads

LEMMA LeadsTwo ==
  ASSUME NEW a \in States, NEW e \in Plainly, NEW g \in Plainly
  PROVE  Leads(a, <<e, g>>, After(After(a, e), g))
<1> DEFINE b == After(a, e)
           c == After(b, g)
           f == [i \in 0..2 |-> IF i = 0 THEN a ELSE IF i = 1 THEN b ELSE c]
<1>1. Len(<<e, g>>) = 2 /\ <<e, g>>[1] = e /\ <<e, g>>[2] = g /\ b \in States
  BY AfterFacts
<1>2. c \in States
  BY <1>1, AfterFacts
<1>3. b = After(a, e) /\ c = After(b, g)
  OBVIOUS
<1> HIDE DEF b, c
<1>4. f \in [0..Len(<<e, g>>) -> States] /\ f[0] = a /\ f[1] = b /\ f[2] = c
  BY <1>1, <1>2
<1> HIDE DEF f
<1>5. \A i \in 1..Len(<<e, g>>) : f[i] = After(f[i - 1], <<e, g>>[i])
  <2>1. \A i \in 1..Len(<<e, g>>) : (i = 1 /\ i - 1 = 0) \/ (i = 2 /\ i - 1 = 1)
    BY <1>1
  <2> QED  BY <1>1, <1>3, <1>4, <2>1
<1>6. Leads(a, <<e, g>>, c)
  BY <1>1, <1>4, <1>5 DEF Leads
<1> QED  BY <1>6 DEF b, c

LEMMA LeadsOn ==
  ASSUME NEW S, NEW q \in Seq(S), NEW r \in Seq(S), NEW a, NEW b, NEW c, Leads(a, q, b), Leads(b, r, c)
  PROVE  Leads(a, q \o r, c)
<1>1. PICK f \in [0..Len(q) -> States] :
        f[0] = a /\ f[Len(q)] = b /\ \A i \in 1..Len(q) : f[i] = After(f[i - 1], q[i])
  BY DEF Leads
<1>2. PICK g \in [0..Len(r) -> States] :
        g[0] = b /\ g[Len(r)] = c /\ \A i \in 1..Len(r) : g[i] = After(g[i - 1], r[i])
  BY DEF Leads
<1> DEFINE m == Len(q)
           n == Len(r)
           h == [i \in 0..(m + n) |-> IF i <= m THEN f[i] ELSE g[i - m]]
<1>3. m \in Nat /\ n \in Nat
  OBVIOUS
<1>4. Len(q \o r) = m + n /\ \A i \in 1..(m + n) : (q \o r)[i] = IF i <= m THEN q[i] ELSE r[i - m]
  BY ConcatProperties
<1> DEFINE t == q \o r
<1> HIDE DEF m, n, t
<1>5. \A i \in 0..(m + n) : IF i <= m THEN i \in 0..m ELSE i - m \in 0..n
  BY <1>3
<1>6. h \in [0..(m + n) -> States]
  BY <1>1, <1>2, <1>5 DEF m, n
<1>7. h[0] = a
  BY <1>1, <1>3
<1>8. h[m + n] = c
  <2>1. CASE n = 0
    BY <1>1, <1>2, <1>3, <2>1 DEF m, n
  <2>2. CASE n # 0
    <3>1. ~(m + n <= m) /\ (m + n) - m = n /\ m + n \in 0..(m + n)
      BY <1>3, <2>2
    <3> QED  BY <1>2, <3>1 DEF n
  <2> QED  BY <2>1, <2>2
<1>9. ASSUME NEW i \in 1..(m + n) PROVE h[i] = After(h[i - 1], t[i])
  <2>1. i \in 0..(m + n) /\ i - 1 \in 0..(m + n)
    BY <1>3
  <2>2. CASE i <= m
    <3>1. i - 1 <= m /\ i \in 1..m
      BY <1>3, <2>2
    <3>2. h[i] = f[i] /\ h[i - 1] = f[i - 1] /\ t[i] = q[i]
      BY <1>4, <2>1, <2>2, <3>1 DEF m, n, t
    <3> QED  BY <1>1, <3>1, <3>2 DEF m
  <2>3. CASE i = m + 1
    <3>1. ~(i <= m) /\ i - 1 = m /\ i - m = 1 /\ 1 \in 1..n /\ i - 1 <= m
      BY <1>3, <2>3
    <3>2. h[i] = g[1] /\ h[i - 1] = b /\ t[i] = r[1]
      BY <1>1, <1>4, <2>1, <3>1 DEF m, n, t
    <3>3. g[1] = After(g[1 - 1], r[1]) /\ 1 - 1 = 0
      BY <1>2, <3>1 DEF n
    <3> QED  BY <1>2, <3>2, <3>3
  <2>4. CASE i > m + 1
    <3>1. ~(i <= m) /\ ~(i - 1 <= m) /\ i - m \in 1..n /\ (i - 1) - m = (i - m) - 1
      BY <1>3, <2>4
    <3>2. h[i] = g[i - m] /\ h[i - 1] = g[(i - m) - 1] /\ t[i] = r[i - m]
      BY <1>4, <2>1, <3>1 DEF m, n, t
    <3> QED  BY <1>2, <3>1, <3>2 DEF n
  <2> QED  BY <1>3, <2>2, <2>3, <2>4
<1> HIDE DEF h
<1>10. Len(t) = m + n
  BY <1>4 DEF m, n, t
<1>11. Leads(a, t, c)
  BY <1>6, <1>7, <1>8, <1>9, <1>10 DEF Leads
<1> QED  BY <1>11 DEF t

LEMMA LeadsFrom ==
  ASSUME NEW S, NEW q \in Seq(S), q # <<>>, NEW a, NEW b, Leads(a, q, b)
  PROVE  Leads(After(a, Head(q)), Tail(q), b)
<1>1. PICK f \in [0..Len(q) -> States] :
        f[0] = a /\ f[Len(q)] = b /\ \A i \in 1..Len(q) : f[i] = After(f[i - 1], q[i])
  BY DEF Leads
<1>2. Len(q) \in Nat \ {0} /\ Head(q) = q[1]
  OBVIOUS
<1>3. Len(Tail(q)) = Len(q) - 1 /\ \A i \in 1..Len(Tail(q)) : Tail(q)[i] = q[i + 1]
  BY HeadTailProperties
<1> DEFINE n == Len(q) - 1
           t == Tail(q)
           h == [i \in 0..n |-> f[i + 1]]
<1>4. \A i \in 0..n : i + 1 \in 0..Len(q)
  BY <1>2
<1>5. h \in [0..n -> States]
  BY <1>1, <1>4
<1>6. h[0] = After(a, Head(q))
  <2>1. 0 \in 0..n /\ 1 \in 1..Len(q) /\ 1 - 1 = 0 /\ 0 + 1 = 1
    BY <1>2
  <2>2. f[1] = After(f[1 - 1], q[1])
    BY <1>1, <2>1
  <2> QED  BY <1>1, <1>2, <2>1, <2>2
<1>7. h[n] = b
  BY <1>1, <1>2
<1>8. ASSUME NEW i \in 1..n PROVE h[i] = After(h[i - 1], t[i])
  <2>1. i \in 0..n /\ i - 1 \in 0..n /\ (i - 1) + 1 = (i + 1) - 1 /\ i + 1 \in 1..Len(q) /\ i \in 1..Len(t)
    BY <1>2, <1>3
  <2>2. h[i] = f[i + 1] /\ h[i - 1] = f[(i + 1) - 1] /\ t[i] = q[i + 1]
    BY <1>3, <2>1
  <2> QED  BY <1>1, <2>1, <2>2
<1> HIDE DEF h
<1>9. Len(t) = n
  BY <1>3
<1> HIDE DEF t, n
<1>10. Leads(After(a, Head(q)), t, b)
  BY <1>5, <1>6, <1>7, <1>8, <1>9 DEF Leads
<1> QED  BY <1>10 DEF t

-----------------------------------------------------------------------------
(* What the steps of a turn and its voice publish *)

Publishes(S) == Quietly \/ \E events \in Seq(S) : Announce(events)

LEMMA InterruptFacts ==
  ASSUME ChatTypes, Interrupt
  PROVE  /\ current_utterance' = 0
         /\ voice' \in [Turns -> {"none", "queued", "playing", "cancelled", "stopping", "over"}]
         /\ \A t \in Turns : voice'[t] =
              IF t # current_utterance THEN voice[t] ELSE IF voice[t] = "queued" THEN "cancelled" ELSE "stopping"
<1>1. \A t \in Turns : t # 0
  BY BoundAssumption DEF Turns
<1>2. current_utterance # 0 => current_utterance \in Turns
  BY BoundAssumption DEF ChatTypes, Turns
<1>3. voice \in [Turns -> {"none", "queued", "playing", "cancelled", "stopping", "over"}]
  BY DEF ChatTypes
<1>4. CASE current_utterance = 0
  BY <1>1, <1>3, <1>4 DEF Interrupt
<1>5. CASE current_utterance # 0
  BY <1>2, <1>3, <1>5 DEF Interrupt
<1> QED  BY <1>4, <1>5 DEF Interrupt

LEMMA FinishFacts ==
  ASSUME NEW S, NEW events \in Seq(S), "turn_over" \in S, FinishTurn(events)
  PROVE  phase' = "none" /\ Publishes(S)
<1>1. events \o <<"turn_over">> \in Seq(S)
  <2>1. <<"turn_over">> \in Seq(S)
    OBVIOUS
  <2> HIDE DEF FinishTurn
  <2> QED  BY <2>1, ConcatProperties
<1> QED  BY <1>1 DEF FinishTurn, Publishes

LEMMA OneOrTwo ==
  ASSUME NEW S, NEW a \in S, NEW b \in S
  PROVE  <<a>> \in Seq(S) /\ <<a, b>> \in Seq(S) /\ <<>> \in Seq(S)
OBVIOUS

LEMMA SetupFacts ==
  ASSUME ChatTypes
  PROVE  /\ setup.mode \in {"parallel", "voice_ready", "text_only", "voice_only"}
         /\ setup.cues \subseteq DOMAIN Cue /\ setup.prompt \in BOOLEAN /\ setup.hears \in BOOLEAN
BY SetupsAssumption DEF ChatTypes

\* The steps that leave the voice alone.
LEMMA TurnTypes ==
  ASSUME ChatTypes, UNCHANGED <<setup, voice, current_utterance>>,
         turn' \in 0..MaxTurns, phase' # "none" => turn' # 0, cue' \in DOMAIN Cue
  PROVE  ChatTypes'
BY DEF ChatTypes

\* All that is published but the voice's own.
Words == Events \ {"tts_started", "tts_over"}

LEMMA ChatStep ==
  ASSUME ChatTypes, Accept \/ TurnStep \/ Voice \/ Hear
  PROVE  ChatTypes' /\ setup' = setup /\ (Voice \/ Publishes(Words))
<1>0. /\ {"turn_thinking", "turn_over", "llm_started", "llm_replied", "cue_idle", "error",
         "task_completed", "heard"} \subseteq Words
      /\ DOMAIN Cue \subseteq Words /\ "cue_idle" \in DOMAIN Cue
  BY DEF Words, Events, Reaction, Cue
<1>1. CASE Accept
  <2>1. turn' \in 0..MaxTurns /\ turn' # 0
    BY <1>1, BoundAssumption DEF Accept, ChatTypes
  <2>2. ChatTypes'
    BY <1>1, <2>1, TurnTypes DEF Accept, ChatTypes
  <2> QED  BY <1>0, <1>1, <2>2, OneOrTwo DEF Accept, Publishes
<1>2. CASE Hush
  <2>1. Interrupt /\ Quietly /\ UNCHANGED <<setup, turn, cue>> /\ phase # "none"
    BY <1>2 DEF Hush
  <2>2. ChatTypes'
    BY <2>1, InterruptFacts, BoundAssumption DEF ChatTypes
  <2> QED  BY <2>1, <2>2 DEF Publishes
<1>3. CASE Start
  <2>1. ChatTypes'
    BY <1>3, TurnTypes DEF Start, ChatTypes
  <2>2. Publishes(Words)
    BY <1>0, <1>3, OneOrTwo DEF Start, Publishes
  <2> QED  BY <1>3, <2>1, <2>2 DEF Start
<1>4. CASE TaskEnds
  <2>1. PICK events \in {<<"task_completed">>, <<"error">>, <<"error", "task_completed">>, <<"error", "error">>} :
          FinishTurn(events)
    BY <1>4 DEF TaskEnds
  <2>2. events \in Seq(Words)
    <3>1. "error" \in Words /\ "task_completed" \in Words
      BY <1>0
    <3> QED  BY <2>1, <3>1, OneOrTwo
  <2>3. phase' = "none" /\ Publishes(Words)
    BY <1>0, <2>1, <2>2, FinishFacts
  <2>4. ChatTypes'
    BY <1>4, <2>3, TurnTypes DEF TaskEnds, ChatTypes
  <2> QED  BY <1>4, <2>3, <2>4 DEF TaskEnds
<1>5. \A events \in Errors : events \in Seq(Words)
  <2>1. <<"error">> \in Seq(Words) /\ <<>> \in Seq(Words)
    BY <1>0, OneOrTwo
  <2> QED  BY <2>1 DEF Errors
<1>6. CASE Generated
  <2>1. cue' \in DOMAIN Cue
    BY <1>0, <1>6, SetupFacts DEF Generated
  <2>2. ChatTypes'
    BY <1>6, <2>1, TurnTypes DEF Generated, ChatTypes
  <2>3. Publishes(Words)
    BY <1>5, <1>6 DEF Generated, Publishes
  <2> QED  BY <1>6, <2>2, <2>3 DEF Generated
<1>7. CASE Silent
  <2>1. PICK events \in Errors : FinishTurn(events \o <<"llm_replied", "cue_idle">>)
    BY <1>7 DEF Silent
  <2>2. events \in Seq(Words) /\ <<"llm_replied", "cue_idle">> \in Seq(Words)
    BY <1>0, <1>5, OneOrTwo
  <2>3. events \o <<"llm_replied", "cue_idle">> \in Seq(Words)
    BY <2>2, ConcatProperties
  <2>4. phase' = "none" /\ Publishes(Words)
    BY <1>0, <2>1, <2>3, FinishFacts
  <2>5. ChatTypes'
    BY <1>0, <1>7, <2>4, TurnTypes DEF Silent, ChatTypes
  <2> QED  BY <1>7, <2>4, <2>5 DEF Silent
<1>8. <<"llm_replied", cue>> \in Seq(Words) /\ <<cue>> \in Seq(Words)
  BY <1>0, OneOrTwo DEF ChatTypes
<1>9. ASSUME NEW aloud \in BOOLEAN, Reply(aloud) PROVE ChatTypes' /\ Publishes(Words) /\ setup' = setup
  <2>1. CASE aloud /\ setup.mode # "text_only"
    <3>1. Interrupt /\ UNCHANGED <<setup, turn, cue>> /\ phase # "none"
      BY <1>9, <2>1 DEF Reply
    <3>2. ChatTypes'
      BY <3>1, InterruptFacts, BoundAssumption DEF ChatTypes
    <3>3. Quietly \/ Announce(<<"llm_replied">>)
      BY <1>9, <2>1 DEF Reply
    <3> QED  BY <1>0, <3>1, <3>2, <3>3, OneOrTwo DEF Publishes
  <2>2. CASE ~(aloud /\ setup.mode # "text_only")
    <3>1. FinishTurn(<<"llm_replied", cue>>) /\ UNCHANGED <<setup, turn, cue, voice, current_utterance>>
      BY <1>9, <2>2 DEF Reply
    <3>2. phase' = "none" /\ Publishes(Words)
      BY <1>0, <1>8, <3>1, FinishFacts
    <3>3. ChatTypes'
      BY <3>1, <3>2, TurnTypes DEF ChatTypes
    <3> QED  BY <3>1, <3>2, <3>3
  <2> QED  BY <2>1, <2>2
<1>10. CASE Say
  <2>1. /\ voice' = [voice EXCEPT ![turn] = "queued"] /\ current_utterance' = turn
        /\ UNCHANGED <<setup, turn, cue>> /\ phase = "saying"
        /\ (phase' = "readying" /\ Quietly) \/ FinishTurn(<<cue>>)
    BY <1>10 DEF Say
  <2>2. turn \in Turns
    BY <2>1 DEF ChatTypes, Turns
  <2>3. voice' \in [Turns -> {"none", "queued", "playing", "cancelled", "stopping", "over"}] /\ voice'[turn] = "queued"
    BY <2>1, <2>2 DEF ChatTypes
  <2>4. ChatTypes'
    BY <2>1, <2>2, <2>3 DEF ChatTypes
  <2>5. Publishes(Words)
    BY <1>0, <1>8, <2>1, FinishFacts DEF Publishes
  <2> QED  BY <2>1, <2>4, <2>5
<1>11. CASE SayFails
  <2>1. PICK events \in Seq(Words) : FinishTurn(events)
    BY <1>8, <1>11 DEF SayFails
  <2>2. phase' = "none" /\ Publishes(Words)
    BY <1>0, <2>1, FinishFacts
  <2>3. ChatTypes'
    BY <1>11, <2>2, TurnTypes DEF SayFails, ChatTypes
  <2> QED  BY <1>11, <2>2, <2>3 DEF SayFails
<1>12. CASE Readied
  <2>1. FinishTurn(<<"llm_replied", cue>>)
    BY <1>12 DEF Readied
  <2>2. phase' = "none" /\ Publishes(Words)
    BY <1>0, <1>8, <2>1, FinishFacts
  <2>3. ChatTypes'
    BY <1>12, <2>2, TurnTypes DEF Readied, ChatTypes
  <2> QED  BY <1>12, <2>2, <2>3 DEF Readied
<1>13. CASE Voice
  <2>1. PICK t \in Turns : Ready(t) \/ Over(t) \/ Drop(t)
    BY <1>13 DEF Voice
  <2>2. UNCHANGED <<setup, turn, phase, cue>>
    BY <2>1 DEF Ready, Over, Drop
  <2>4. ChatTypes'
    <3>0. /\ voice \in [Turns -> {"none", "queued", "playing", "cancelled", "stopping", "over"}]
          /\ current_utterance \in 0..MaxTurns /\ 0 \in 0..MaxTurns
          /\ current_utterance # 0 => voice[current_utterance] \in {"queued", "playing"} /\ current_utterance \in Turns
      BY BoundAssumption DEF ChatTypes, Turns
    <3>1. /\ voice' \in [Turns -> {"none", "queued", "playing", "cancelled", "stopping", "over"}]
          /\ current_utterance' \in 0..MaxTurns
          /\ current_utterance' # 0 => voice'[current_utterance'] \in {"queued", "playing"}
      <4>1. CASE Ready(t)
        BY <3>0, <4>1 DEF Ready
      <4>2. CASE Over(t)
        BY <3>0, <4>2 DEF Over
      <4>3. CASE Drop(t)
        BY <3>0, <4>3 DEF Drop
      <4> QED  BY <2>1, <4>1, <4>2, <4>3
    <3> QED  BY <2>2, <3>1 DEF ChatTypes
  <2> QED  BY <1>13, <2>2, <2>4
<1>14. CASE Hear
  <2>1. Interrupt /\ UNCHANGED <<setup, turn, phase, cue>> /\ Announce(<<"heard">>)
    BY <1>14 DEF Hear
  <2>2. ChatTypes'
    BY <2>1, InterruptFacts, BoundAssumption DEF ChatTypes
  <2> QED  BY <1>0, <2>1, <2>2, OneOrTwo DEF Publishes
<1> QED  BY <1>1, <1>2, <1>3, <1>4, <1>6, <1>7, <1>9, <1>10, <1>11, <1>12, <1>13, <1>14 DEF TurnStep

LEMMA VoicePublishes ==
  ASSUME Voice
  PROVE  Publishes(Events)
<1>1. "tts_started" \in Events /\ "tts_over" \in Events
  BY DEF Events, Reaction
<1>2. PICK t \in Turns : Ready(t) \/ Over(t) \/ Drop(t)
  BY DEF Voice
<1> QED  BY <1>1, <1>2, OneOrTwo DEF Ready, Over, Drop, Publishes

LEMMA WordsArePublished == Publishes(Words) => Publishes(Events)
<1>1. \A events \in Seq(Words) : events \in Seq(Events)
  BY DEF Words
<1> QED  BY <1>1 DEF Publishes

\* What is published does not disturb the avatar.
LEMMA PublishesKeeps ==
  ASSUME IInv, Publishes(Events)
  PROVE  IInv'
<1>1. CASE Quietly
  <2>1. UNCHANGED vars
    BY <1>1 DEF Quietly, avatar, vars
  <2> QED  BY <2>1, StillStep
<1>2. ASSUME NEW events \in Seq(Events), Announce(events) PROVE IInv'
  <2>1. /\ published' = published + Len(events) /\ inbox' = inbox \o events
        /\ UNCHANGED <<director, made, current, lock, holds, display, route, life, lost>>
    BY <1>2 DEF Announce, avatar
  <2>2. LockInv' /\ Followed'
    BY <2>1, StillKeeps, ShowsSame DEF lock, display, route
  <2>3. inbox' \in Seq(Events) /\ published' \in Nat
    BY <2>1, ConcatProperties DEF IInv, TypeOK
  <2>4. TypeOK' /\ Numbers'
    BY <2>1, <2>3 DEF IInv, lock, holds, display, route, TypeOK, Numbers
  <2> QED  BY <2>2, <2>4 DEF IInv, LockInv
<1> QED  BY <1>1, <1>2 DEF Publishes

-----------------------------------------------------------------------------
(* A turn is shown as it is *)

LEMMA Onward ==
  ASSUME Calm, NEW s \in States, NEW u \in States, Leads(director, inbox, s),
         NEW events \in Seq(Plainly), Announce(events), Leads(s, events, u)
  PROVE  Calm' /\ Leads(director, inbox, u)'
<1>1. /\ inbox' = inbox \o events /\ inbox \in Seq(Plainly)
      /\ UNCHANGED <<director, made, current, lock, holds, display, route, life, lost>>
  BY DEF Announce, avatar, Calm
<1>2. inbox' \in Seq(Plainly)
  BY <1>1, ConcatProperties
<1>3. Leads(director, inbox \o events, u)
  BY <1>1, LeadsOn
<1>4. Leads(director, inbox, u)'
  BY <1>1, <1>3 DEF Leads
<1> QED  BY <1>1, <1>2, <1>4 DEF Calm, lock, holds

LEMMA Silently ==
  ASSUME Calm, NEW s \in States, Leads(director, inbox, s), Quietly
  PROVE  Calm' /\ Leads(director, inbox, s)'
BY DEF Quietly, avatar, intake, lock, holds, Calm, Leads

LEMMA Shown ==
  ASSUME NEW u \in States, Calm', Heeded', Due(u)', Leads(director, inbox, u)'
  PROVE  TurnInv'
BY DEF TurnInv

\* A turn's last words.
LEMMA Finished ==
  ASSUME Calm, NEW s \in States, Leads(director, inbox, s),
         FinishTurn(<<"llm_replied", "cue_idle">>) \/ FinishTurn(<<"cue_idle">>)
  PROVE  phase' = "none" /\ Calm' /\ Leads(director, inbox, "idle")'
<1>1. {"llm_replied", "cue_idle", "turn_over"} \subseteq Plainly /\ "idle" \in States
  BY DEF Plainly, States
<1>2. Leads("idle", <<"turn_over">>, "idle")
  <2>1. After("idle", "turn_over") = "idle"
    BY <1>1, AfterFacts
  <2> QED  BY <1>1, <2>1, LeadsOne
<1>3. ASSUME FinishTurn(<<"llm_replied", "cue_idle">>) PROVE Calm' /\ Leads(director, inbox, "idle")'
  <2> DEFINE words == <<"llm_replied", "cue_idle">>
  <2>1. Leads(s, words, "idle") /\ words \in Seq(Plainly) /\ <<"turn_over">> \in Seq(Plainly)
    <3>1. After(s, "llm_replied") \in States
      BY <1>1, AfterFacts
    <3>2. After(After(s, "llm_replied"), "cue_idle") = "idle"
      BY <3>1, AfterFacts
    <3>3. Leads(s, words, After(After(s, "llm_replied"), "cue_idle"))
      BY <1>1, LeadsTwo
    <3> QED  BY <1>1, <3>2, <3>3, OneOrTwo
  <2>2. Announce(words \o <<"turn_over">>)
    BY <1>3 DEF FinishTurn
  <2> HIDE DEF words
  <2>3. Leads(s, words \o <<"turn_over">>, "idle")
    BY <1>2, <2>1, LeadsOn
  <2>4. words \o <<"turn_over">> \in Seq(Plainly)
    BY <2>1, ConcatProperties
  <2> QED  BY <1>1, <2>2, <2>3, <2>4, Onward
<1>4. ASSUME FinishTurn(<<"cue_idle">>) PROVE Calm' /\ Leads(director, inbox, "idle")'
  <2> DEFINE words == <<"cue_idle">>
  <2>1. Leads(s, words, "idle") /\ words \in Seq(Plainly) /\ <<"turn_over">> \in Seq(Plainly)
    <3>1. After(s, "cue_idle") = "idle"
      BY AfterFacts
    <3> QED  BY <1>1, <3>1, LeadsOne, OneOrTwo
  <2>2. Announce(words \o <<"turn_over">>)
    BY <1>4 DEF FinishTurn
  <2> HIDE DEF words
  <2>3. Leads(s, words \o <<"turn_over">>, "idle")
    BY <1>2, <2>1, LeadsOn
  <2>4. words \o <<"turn_over">> \in Seq(Plainly)
    BY <2>1, ConcatProperties
  <2> QED  BY <1>1, <2>2, <2>3, <2>4, Onward
<1> QED  BY <1>3, <1>4 DEF FinishTurn

\* A single word.
LEMMA Said ==
  ASSUME Calm, NEW s \in States, Leads(director, inbox, s), NEW e \in Plainly, Announce(<<e>>)
  PROVE  Calm' /\ Leads(director, inbox, After(s, e))' /\ After(s, e) \in States
<1>1. <<e>> \in Seq(Plainly) /\ After(s, e) \in States /\ Leads(s, <<e>>, After(s, e))
  BY LeadsOne, AfterFacts, OneOrTwo
<1>2. PICK u \in States : u = After(s, e)
  BY <1>1
<1>3. Leads(director, inbox, u)' /\ Calm'
  BY <1>1, <1>2, Onward
<1> QED  BY <1>1, <1>2, <1>3

\* The steps of an undisturbed turn and of its voice.
LEMMA TurnKeeps ==
  ASSUME ChatTypes, Undisturbed, TurnInv, Unspoken, Accept \/ TurnStep \/ Voice \/ Hear
  PROVE  TurnInv'
<1>1. PICK s \in States : Due(s) /\ Leads(director, inbox, s)
  BY DEF TurnInv
<1>2. Calm /\ Heeded /\ cue = "cue_idle"
  BY DEF TurnInv, Heeded
<1>3. /\ Plainly = {"turn_thinking", "turn_over", "llm_started", "llm_replied", "tts_started", "tts_over", "cue_idle"}
      /\ {"idle", "thinking", "speaking"} \subseteq States
  BY DEF Plainly, States
<1>4. /\ voice \in [Turns -> {"none", "queued", "playing", "cancelled", "stopping", "over"}]
      /\ current_utterance # 0 => /\ voice[current_utterance] \in {"queued", "playing"}
                                  /\ current_utterance \in Turns
      /\ \A t \in Turns : t # 0
      /\ setup.prompt \in BOOLEAN /\ s \in {"thinking", "idle", "speaking"}
  BY <1>1, BoundAssumption, SetupFacts DEF ChatTypes, Turns, Due
<1> DEFINE Silenced == setup.prompt /\ phase # "hushing"
<1>00. /\ \A t \in Turns : t # current_utterance => voice[t] \in {"none", "over", "cancelled", "stopping"}
       /\ Silenced => \A t \in Turns : t # current_utterance => voice[t] \in {"none", "over"}
  BY <1>2 DEF Heeded
<1>01. setup' = setup
  BY ChatStep
<1>02. Undisturbed' /\ (Neutral' <=> Neutral) /\ (Neutral => Silenced \/ phase = "hushing")
  BY <1>01 DEF Undisturbed, Neutral
<1> HIDE DEF Silenced
<1>5. CASE Accept
  <2>1. Calm' /\ Leads(director, inbox, "thinking")'
    <3>1. After(s, "turn_thinking") = "thinking" /\ "turn_thinking" \in Plainly
      BY <1>3, AfterFacts
    <3> QED  BY <1>1, <1>2, <1>5, <3>1, Said DEF Accept
  <2>2. Heeded'
    BY <1>2, <1>5, <1>01 DEF Accept, Heeded
  <2>3. Due("thinking")'
    BY <1>5 DEF Accept, Due
  <2> QED  BY <1>3, <2>1, <2>2, <2>3, Shown
<1>6. CASE Hush
  <2>1. /\ phase = "accepted" /\ phase' = "hushing" /\ Interrupt /\ Quietly
        /\ UNCHANGED <<cue, turn, overtaken>>
    BY <1>6 DEF Hush
  <2>2. Calm' /\ Leads(director, inbox, s)'
    BY <1>1, <1>2, <2>1, Silently
  <2>3. /\ current_utterance' = 0
        /\ \A t \in Turns : voice'[t] =
             IF t # current_utterance THEN voice[t] ELSE IF voice[t] = "queued" THEN "cancelled" ELSE "stopping"
    BY <2>1, InterruptFacts
  <2>4. Heeded'
    <3>1. \A t \in Turns : voice'[t] \in {"none", "over", "cancelled", "stopping"}
      BY <1>00, <2>3
    <3> QED  BY <1>2, <2>1, <2>3, <3>1 DEF Heeded
  <2>5. Due(s)'
    <3>1. Voiced => Voiced'
      BY <1>4, <2>3 DEF Voiced
    <3> QED  BY <1>1, <2>1, <3>1 DEF Due
  <2> QED  BY <2>2, <2>4, <2>5, Shown
<1>7. CASE Start
  <2>1. /\ phase = "hushing" /\ Settled /\ phase' = "thinking" /\ Announce(<<"llm_started">>)
        /\ UNCHANGED <<setup, turn, cue, voice, current_utterance, overtaken>>
    BY <1>7 DEF Start, Undisturbed
  <2>2. current_utterance = 0 /\ (setup.prompt => \A t \in Turns : voice[t] \in {"none", "over"})
    BY <1>2, <1>4, <1>00, <2>1 DEF Heeded, Settled
  <2>3. Heeded'
    BY <1>2, <1>00, <2>1, <2>2 DEF Heeded
  <2>4. /\ After(s, "llm_started") = IF s = "speaking" THEN "speaking" ELSE "thinking"
        /\ "llm_started" \in Plainly
    BY <1>3, AfterFacts
  <2>5. CASE s # "speaking"
    <3>1. Calm' /\ Leads(director, inbox, "thinking")'
      BY <1>1, <1>2, <2>1, <2>4, <2>5, Said
    <3>2. Due("thinking")'
      BY <2>1 DEF Due
    <3> QED  BY <1>3, <2>3, <3>1, <3>2, Shown
  \* The older voice plays over the thought: it began after the turn was admitted.
  <2>6. CASE s = "speaking"
    <3>1. Calm' /\ Leads(director, inbox, "speaking")'
      BY <1>1, <1>2, <2>1, <2>4, <2>6, Said
    <3>2. Voiced /\ overtaken = turn
      BY <1>1, <2>1, <2>6 DEF Due
    <3>3. ~setup.prompt
      BY <2>2, <3>2 DEF Voiced
    <3>4. Voiced' /\ ~InOrder'
      BY <2>1, <3>2, <3>3 DEF Voiced, InOrder
    <3>5. Due("speaking")'
      BY <2>1, <3>4 DEF Due
    <3> QED  BY <1>3, <2>3, <3>1, <3>5, Shown
  <2> QED  BY <2>5, <2>6
<1>8. ~TaskEnds /\ ~Hear
  BY <1>2 DEF TaskEnds, Hear, Heeded, Undisturbed
<1>9. Errors = {<<>>}
  BY DEF Errors, Undisturbed
<1>03. setup.cues = {}
  BY DEF Undisturbed
<1>10. CASE Generated
  <2>1. /\ phase = "thinking" /\ phase' = "replying" /\ cue' = "cue_idle" /\ Announce(<<>>)
        /\ UNCHANGED <<setup, turn, voice, current_utterance, overtaken>>
    BY <1>9, <1>10, <1>03 DEF Generated
  <2>2. Calm' /\ Leads(director, inbox, s)'
    <3>1. Leads(s, <<>>, s)
      BY LeadsNowhere
    <3>2. <<>> \in Seq(Plainly)
      OBVIOUS
    <3> QED  BY <1>1, <1>2, <2>1, <3>1, <3>2, Onward
  <2>3. Heeded'
    BY <1>2, <2>1 DEF Heeded
  <2>4. Due(s)'
    BY <1>1, <2>1 DEF Due, Voiced, InOrder
  <2> QED  BY <2>2, <2>3, <2>4, Shown
\* A turn that ends, and nobody speaks where all is neutral.
<1>11. ASSUME FinishTurn(<<"llm_replied", "cue_idle">>) \/ FinishTurn(<<"cue_idle">>),
              phase \notin {"none", "hushing"}, cue' = "cue_idle",
              \A t \in Turns : t # current_utterance' => voice'[t] = voice[t] /\ t # current_utterance,
              Neutral => ~Playing'
       PROVE  TurnInv'
  <2>1. phase' = "none" /\ Calm' /\ Leads(director, inbox, "idle")'
    BY <1>1, <1>2, <1>11, Finished
  <2>2. Heeded'
    <3>1. \A t \in Turns : t # current_utterance' =>
            voice'[t] \in {"none", "over"} \cup IF setup.prompt THEN {} ELSE {"cancelled", "stopping"}
      BY <1>4, <1>00, <1>11 DEF Silenced
    <3> QED  BY <1>01, <1>11, <2>1, <3>1 DEF Heeded
  <2>3. Due("idle")'
    BY <1>02, <1>11, <2>1 DEF Due
  <2> QED  BY <1>3, <2>1, <2>2, <2>3, Shown
<1>12. ASSUME phase \in {"thinking", "replying", "saying"}
       PROVE  current_utterance = 0 /\ ~Playing /\ phase \notin {"none", "hushing"}
  BY <1>2, <1>12 DEF Heeded, Playing
<1>13. CASE Silent
  <2>1. /\ phase = "thinking" /\ cue' = "cue_idle" /\ FinishTurn(<<>> \o <<"llm_replied", "cue_idle">>)
        /\ UNCHANGED <<voice, current_utterance>>
    BY <1>9, <1>13 DEF Silent
  <2>2. FinishTurn(<<"llm_replied", "cue_idle">>)
    BY <2>1
  <2>3. ~Playing'
    BY <1>12, <2>1 DEF Playing
  <2>4. \A t \in Turns : t # current_utterance' => voice'[t] = voice[t] /\ t # current_utterance
    BY <2>1
  <2> QED  BY <1>11, <1>12, <2>1, <2>2, <2>3, <2>4
<1>14. ASSUME NEW aloud \in BOOLEAN, Reply(aloud) PROVE TurnInv'
  <2>0. phase = "replying" /\ cue' = cue /\ UNCHANGED <<turn, overtaken>>
    BY <1>14 DEF Reply, FinishTurn
  <2>1. CASE aloud /\ setup.mode # "text_only"
    <3>1. /\ phase' = "saying" /\ Interrupt
          /\ IF setup.mode = "voice_ready" THEN Quietly ELSE Announce(<<"llm_replied">>)
      BY <1>14, <2>1 DEF Reply
    <3>2. current_utterance' = 0 /\ \A t \in Turns : voice'[t] = voice[t]
      BY <1>4, <1>12, <2>0, <3>1, InterruptFacts
    <3>3. Heeded'
      BY <1>2, <1>01, <1>12, <2>0, <3>1, <3>2 DEF Heeded
    <3>4. Voiced' <=> Voiced
      BY <3>2 DEF Voiced
    <3>5. CASE setup.mode = "voice_ready"
      <4>1. Calm' /\ Leads(director, inbox, s)'
        BY <1>1, <1>2, <3>1, <3>5, Silently
      <4>2. ~Neutral'
        BY <1>02, <3>5 DEF Neutral
      <4>3. Due(s)'
        BY <1>1, <3>1, <3>4, <4>2 DEF Due
      <4> QED  BY <3>3, <4>1, <4>3, Shown
    <3>6. CASE setup.mode # "voice_ready"
      <4>1. PICK u \in States : u = IF s = "thinking" THEN "idle" ELSE s
        BY <1>3
      <4>2. Calm' /\ Leads(director, inbox, u)'
        <5>1. After(s, "llm_replied") = u /\ "llm_replied" \in Plainly
          BY <1>3, <4>1, AfterFacts
        <5> QED  BY <1>1, <1>2, <3>1, <3>6, <5>1, Said
      <4>3. Neutral => s = "thinking"
        BY <1>1, <2>0 DEF Due, InOrder, Neutral
      <4>4. Due(u)'
        BY <1>1, <1>02, <3>1, <3>4, <4>1, <4>3 DEF Due
      <4> QED  BY <3>3, <4>2, <4>4, Shown
    <3> QED  BY <3>5, <3>6
  <2>2. CASE ~(aloud /\ setup.mode # "text_only")
    <3>1. FinishTurn(<<"llm_replied", "cue_idle">>) /\ UNCHANGED <<voice, current_utterance>>
      BY <1>2, <1>14, <2>2 DEF Reply
    <3>2. ~Playing'
      BY <1>12, <2>0, <3>1 DEF Playing
    <3>3. \A t \in Turns : t # current_utterance' => voice'[t] = voice[t] /\ t # current_utterance
      BY <3>1
    <3> QED  BY <1>2, <1>11, <1>12, <2>0, <3>1, <3>2, <3>3
  <2> QED  BY <2>1, <2>2
<1>15. CASE Say
  <2>1. /\ phase = "saying" /\ voice' = [voice EXCEPT ![turn] = "queued"] /\ current_utterance' = turn
        /\ IF setup.mode = "voice_ready" THEN phase' = "readying" /\ Quietly ELSE FinishTurn(<<"cue_idle">>)
        /\ cue' = cue
    BY <1>2, <1>15 DEF Say
  <2>2. turn \in Turns /\ voice[turn] = "none"
    <3>1. turn \in Turns
      BY <2>1 DEF ChatTypes, Turns
    <3> QED  BY <2>1, <3>1 DEF Unspoken
  <2>3. voice'[turn] = "queued" /\ \A t \in Turns : t # turn => voice'[t] = voice[t]
    BY <1>4, <2>1, <2>2
  <2>4. ~Playing' /\ \A t \in Turns : t # current_utterance' => voice'[t] = voice[t] /\ t # current_utterance
    BY <1>4, <1>12, <2>1, <2>3 DEF Playing
  <2>5. CASE setup.mode = "voice_ready"
    <3>1. Calm' /\ Leads(director, inbox, s)'
      BY <1>1, <1>2, <2>1, <2>5, Silently
    <3>2. Voiced => Voiced'
      BY <2>2, <2>3 DEF Voiced
    <3>3. Due(s)'
      BY <1>1, <2>1, <2>5, <3>2 DEF Due
    <3>4. Heeded'
      <4>1. \A t \in Turns : t # current_utterance' =>
              voice'[t] \in {"none", "over"} \cup IF setup.prompt THEN {} ELSE {"cancelled", "stopping"}
        BY <1>00, <2>1, <2>4 DEF Silenced
      <4> QED  BY <1>2, <1>01, <2>1, <2>5, <4>1 DEF Heeded
    <3> QED  BY <3>1, <3>3, <3>4, Shown
  <2>6. CASE setup.mode # "voice_ready"
    BY <1>2, <1>11, <1>12, <2>1, <2>4, <2>6
  <2> QED  BY <2>5, <2>6
<1>16. CASE SayFails \/ Readied
  <2>1. /\ FinishTurn(<<"llm_replied", "cue_idle">>) \/ FinishTurn(<<"cue_idle">>)
        /\ phase \in {"saying", "readying"} /\ UNCHANGED <<cue, voice, current_utterance>>
    BY <1>2, <1>16 DEF SayFails, Readied
  <2>2. Neutral => ~Playing'
    <3>1. Neutral => phase = "saying"
      BY <1>2, <2>1 DEF Heeded, Neutral
    <3>2. Playing' <=> Playing
      BY <2>1 DEF Playing
    <3> QED  BY <1>12, <3>1, <3>2
  <2>3. \A t \in Turns : t # current_utterance' => voice'[t] = voice[t] /\ t # current_utterance
    BY <2>1
  <2>4. phase \notin {"none", "hushing"}
    BY <2>1
  <2> QED  BY <1>2, <1>11, <2>1, <2>2, <2>3, <2>4
<1>17. CASE Voice
  <2>0. PICK t \in Turns : Ready(t) \/ Over(t) \/ Drop(t)
    BY <1>17 DEF Voice
  <2>1. CASE Ready(t)
    <3>1. /\ voice[t] = "queued" /\ voice' = [voice EXCEPT ![t] = "playing"] /\ Announce(<<"tts_started">>)
          /\ UNCHANGED <<turn, phase, cue, current_utterance>> /\ (phase = "accepted" => overtaken' = turn)
      BY <2>1 DEF Ready
    <3>2. t = current_utterance /\ phase \in {"none", "accepted", "readying"} /\ t # 0
      BY <1>2, <1>4, <1>00, <3>1 DEF Heeded
    <3>3. voice'[t] = "playing" /\ \A v \in Turns : v # t => voice'[v] = voice[v]
      BY <1>4, <3>1
    <3>4. Calm' /\ Leads(director, inbox, "speaking")'
      <4>1. After(s, "tts_started") = "speaking" /\ "tts_started" \in Plainly
        BY <1>3, AfterFacts
      <4> QED  BY <1>1, <1>2, <3>1, <4>1, Said
    <3>5. Heeded'
      BY <1>2, <1>01, <3>1, <3>2, <3>3 DEF Heeded
    <3>6. Due("speaking")'
      BY <3>1, <3>2, <3>3 DEF Due, Playing, Voiced
    <3> QED  BY <1>3, <3>4, <3>5, <3>6, Shown
  <2>2. CASE Over(t)
    <3>1. /\ voice[t] \in Sounding /\ voice' = [voice EXCEPT ![t] = "over"] /\ Announce(<<"tts_over">>)
          /\ current_utterance' = IF current_utterance = t THEN 0 ELSE current_utterance
          /\ UNCHANGED <<turn, phase, cue, overtaken>>
      BY <2>2 DEF Over
    <3>2. /\ voice'[t] = "over" /\ \A v \in Turns : v # t => voice'[v] = voice[v]
          /\ t # current_utterance => ~Silenced
      BY <1>4, <1>00, <3>1 DEF Sounding
    <3>3. PICK u \in States : u = (IF s = "speaking" THEN "idle" ELSE s)
      BY <1>3
    <3>4. Calm' /\ Leads(director, inbox, u)'
      <4>1. After(s, "tts_over") = u /\ "tts_over" \in Plainly
        BY <1>3, <3>3, AfterFacts
      <4> QED  BY <1>1, <1>2, <3>1, <4>1, Said
    <3>5. Heeded'
      <4>1. \A v \in Turns : v # current_utterance' => voice'[v] = "over" \/ (v # current_utterance /\ voice'[v] = voice[v])
        BY <3>1, <3>2
      <4>2. phase' = phase /\ cue' = cue /\ (current_utterance' # 0 => current_utterance # 0)
        BY <3>1
      <4> QED  BY <1>2, <1>01, <4>1, <4>2 DEF Heeded
    <3>6. Due(u)'
      <4>1. phase = "none" /\ Neutral => u = "idle" /\ ~Playing'
        <5> SUFFICES ASSUME phase = "none", Neutral PROVE u = "idle" /\ ~Playing'
          OBVIOUS
        <5>1. Silenced /\ s \in {"speaking", "idle"}
          BY <1>1, <1>02 DEF Due
        <5>2. current_utterance' = 0
          BY <3>1, <3>2, <5>1
        <5> QED  BY <3>3, <5>1, <5>2 DEF Playing
      <4>2. u \in {"thinking", "idle"}
        BY <1>4, <3>3
      <4>3. (s = "thinking" => u = "thinking") /\ (s = "idle" => u = "idle")
        BY <3>3
      <4>4. InOrder' <=> InOrder
        BY <1>01, <3>1 DEF InOrder
      <4> QED  BY <1>1, <1>02, <3>1, <4>1, <4>2, <4>3, <4>4 DEF Due
    <3> QED  BY <3>4, <3>5, <3>6, Shown
  <2>3. CASE Drop(t)
    <3>1. /\ voice[t] = "cancelled" /\ voice' = [voice EXCEPT ![t] = "over"] /\ Quietly
          /\ UNCHANGED <<turn, phase, cue, current_utterance, overtaken>>
      BY <2>3 DEF Drop
    <3>2. voice'[t] = "over" /\ t # current_utterance /\ \A v \in Turns : v # t => voice'[v] = voice[v]
      BY <1>4, <3>1
    <3>3. Calm' /\ Leads(director, inbox, s)'
      BY <1>1, <1>2, <3>1, Silently
    <3>4. Heeded'
      BY <1>2, <1>01, <3>1, <3>2 DEF Heeded
    <3>5. Due(s)'
      <4>1. Voiced => Voiced'
        BY <3>1, <3>2 DEF Voiced
      <4>2. (Playing' <=> Playing) /\ (InOrder' <=> InOrder)
        BY <1>4, <1>01, <3>1, <3>2 DEF Playing, InOrder
      <4> QED  BY <1>1, <1>02, <3>1, <4>1, <4>2 DEF Due
    <3> QED  BY <3>3, <3>4, <3>5, Shown
  <2> QED  BY <2>0, <2>1, <2>2, <2>3
<1> QED  BY <1>5, <1>6, <1>7, <1>8, <1>10, <1>13, <1>14, <1>15, <1>16, <1>17 DEF TurnStep

\* What the avatar makes of the events of an undisturbed turn.
LEMMA DigestStep ==
  ASSUME IInv, TurnInv, Delivery \/ ReturnStep, UNCHANGED chat
  PROVE  TurnInv'
<1>1. PICK s \in States : Due(s) /\ Leads(director, inbox, s)
  BY DEF TurnInv
<1>2. Calm /\ Heeded
  BY DEF TurnInv
<1>3. Heeded' /\ Due(s)'
  BY <1>1, <1>2 DEF chat, Heeded, Due, Playing, Voiced, InOrder, Neutral, Undisturbed
<1>4. CASE Wake
  <2>1. UNCHANGED <<inbox, director, line, returns, life, lost>> /\ Acquire(Head(line))
    BY <1>4 DEF Wake, intake
  <2>2. timer' = 0
    BY <2>1 DEF Acquire
  <2>3. Calm' /\ Leads(director, inbox, s)'
    BY <1>1, <1>2, <2>1, <2>2 DEF Calm, Leads
  <2> QED  BY <1>3, <2>3, Shown
<1>5. CASE Applied
  <2>1. /\ stage = "applying" /\ Leave /\ timer' = (IF Head(line).directive.holds THEN Head(line).directive.id ELSE 0)
        /\ lost' = FALSE /\ UNCHANGED <<inbox, director, returns, life>>
    BY <1>5 DEF Applied, intake
  <2>2. line # <<>> /\ Head(line) = line[1] /\ 1 \in DOMAIN line /\ line[1].who # "swap"
    BY <2>1, HeadFacts
  <2>3. timer' = 0
    BY <1>2, <2>1, <2>2 DEF Calm
  <2>4. \A i \in DOMAIN line' : line'[i].who # "swap" => ~line'[i].directive.holds
    <3>1. Shrunk(1) /\ Len(line) \in Nat /\ DOMAIN line = 1..Len(line)
      BY <2>1, <2>2, LeaveFacts, LineFacts DEF IInv
    <3>2. \A i \in DOMAIN line' : \E j \in DOMAIN line : line'[i] = line[j]
      BY <3>1 DEF Shrunk
    <3> QED  BY <1>2, <3>2 DEF Calm
  <2>5. Calm' /\ Leads(director, inbox, s)'
    BY <1>1, <1>2, <2>1, <2>3, <2>4 DEF Calm, Leads
  <2> QED  BY <1>3, <2>5, Shown
<1>6. CASE Handle
  <2>1. /\ inbox # <<>> /\ inbox' = Tail(inbox) /\ inbox \in Seq(Plainly) /\ director \in States
        /\ UNCHANGED <<returns, life, lost>>
    BY <1>2, <1>6 DEF Handle, Calm, IInv, TypeOK
  <2>2. Head(inbox) \in Plainly /\ inbox' \in Seq(Plainly)
    BY <2>1, HeadTailProperties
  <2>3. Leads(After(director, Head(inbox)), Tail(inbox), s)
    BY <1>1, <2>1, LeadsFrom
  <2>4. director' = After(director, Head(inbox))
    BY <1>6 DEF Handle, After
  <2>5. Leads(director, inbox, s)'
    BY <2>1, <2>3, <2>4 DEF Leads
  <2>6. timer' = 0 /\ \A i \in DOMAIN line' : line'[i].who # "swap" => ~line'[i].directive.holds
    <3>1. CASE ~Answers(director, Head(inbox))
      BY <1>2, <1>6, <3>1 DEF Handle, Calm
    <3>2. CASE Answers(director, Head(inbox))
      <4> DEFINE d == [state |-> director', id |-> made', holds |-> Holds(Head(inbox))]
      <4>1. Enter(Consumer(d)) /\ director' = NextState(Head(inbox)) /\ made' = made + 1
        BY <1>6, <3>2 DEF Handle
      <4>2. Holds(Head(inbox)) = FALSE /\ Head(inbox) \in Events
        BY <2>2, PlainlyFacts
      <4>3. d \in Directives /\ ~d.holds
        <5>1. director' \in States
          BY <4>1, <4>2, NextStateFacts
        <5>2. made' \in Nat
          BY <4>1 DEF IInv, Numbers
        <5>3. Holds(Head(inbox)) \in BOOLEAN
          BY <4>2
        <5> QED  BY <5>1, <5>2, <5>3, <4>2 DEF Directives
      <4> HIDE DEF d
      <4>4. PICK e \in Entries : Enter(e) /\ e.who = "consumer" /\ e.directive = d
        <5>1. Consumer(d) \in Entries /\ Consumer(d).who = "consumer" /\ Consumer(d).directive = d
          BY <4>3 DEF Consumer, Entries
        <5> QED  BY <4>1, <5>1
      <4>5. /\ DOMAIN line' = 1..(Len(line) + 1) /\ line'[Len(line) + 1] = e
            /\ \A i \in DOMAIN line : line'[i] = line[i]
            /\ line = <<>> => Acquire(e)
            /\ line # <<>> => timer' = timer
            /\ Len(line) \in Nat /\ DOMAIN line = 1..Len(line)
        BY <4>4, EnterFacts, LineFacts DEF IInv
      <4>6. \A i \in DOMAIN line' : line'[i] = e \/ (i \in DOMAIN line /\ line'[i] = line[i])
        BY <4>5
      <4>7. timer' = 0
        BY <1>2, <4>5 DEF Acquire, Calm
      <4> QED  BY <1>2, <4>3, <4>4, <4>6, <4>7 DEF Calm
    <3> QED  BY <3>1, <3>2
  <2>7. Calm'
    BY <1>2, <2>1, <2>2, <2>6 DEF Calm
  <2> QED  BY <1>3, <2>5, <2>7, Shown
<1>7. ~ReturnStep
  BY <1>2 DEF ReturnStep, Fire, Calm
<1> QED  BY <1>4, <1>5, <1>6, <1>7 DEF Delivery

\* The ends of voices that are to come.
LEMMA SpeakingFacts ==
  ASSUME NEW e \in Events, NEW a \in States, After(a, e) = "speaking"
  PROVE  e = "tts_started" \/ (a = "speaking" /\ e # "tts_over")
<1>1. CASE e \in DOMAIN Cue
  <2>1. e \in {"cue_idle", "cue_happy", "cue_error", "cue_thinking"} /\ e \notin DOMAIN Reaction
    BY <1>1 DEF Cue, Reaction
  <2>2. Cue[e] # "speaking"
    BY <2>1 DEF Cue
  <2> QED  BY <1>1, <2>1, <2>2 DEF After, Answers, NextState
<1>2. CASE e \notin DOMAIN Cue
  <2>1. e \in DOMAIN Reaction
    BY <1>2 DEF Events
  <2>2. \A x \in DOMAIN Reaction : Reaction[x].to = "speaking" => x = "tts_started" \/ Reaction[x].from = {"speaking"}
    BY DEF Reaction
  <2>3. Reaction["tts_over"].to = "idle" /\ Reaction["tts_over"].from = {"speaking"}
    BY DEF Reaction
  <2> HIDE DEF After
  <2>4. After(a, e) = IF a \in Reaction[e].from THEN Reaction[e].to ELSE a
    BY <1>2, <2>1 DEF After, Answers, NextState
  <2> QED  BY <2>1, <2>2, <2>3, <2>4
<1> QED  BY <1>1, <1>2

LEMMA EndsOn ==
  ASSUME NEW S, inbox \in Seq(S), NEW events \in Seq(S), inbox' = inbox \o events, UNCHANGED director,
         Voiced => Voiced',
         \A i \in DOMAIN events : events[i] # "tts_started",
         director = "speaking" => EndsAfter(0),
         \A i \in DOMAIN inbox : inbox[i] = "tts_started" => EndsAfter(i)
  PROVE  /\ director' = "speaking" => EndsAfter(0)'
         /\ \A i \in DOMAIN inbox' : inbox'[i] = "tts_started" => EndsAfter(i)'
<1>1. /\ Len(inbox') = Len(inbox) + Len(events) /\ inbox' \in Seq(S) /\ Len(inbox) \in Nat /\ Len(events) \in Nat
      /\ \A i \in 1..(Len(inbox) + Len(events)) :
           inbox'[i] = IF i <= Len(inbox) THEN inbox[i] ELSE events[i - Len(inbox)]
  BY ConcatProperties
<1>2. DOMAIN inbox = 1..Len(inbox) /\ DOMAIN inbox' = 1..(Len(inbox) + Len(events)) /\ DOMAIN events = 1..Len(events)
  BY <1>1
<1>3. \A i \in DOMAIN inbox : i \in DOMAIN inbox' /\ inbox'[i] = inbox[i]
  BY <1>1, <1>2
<1>4. \A k : EndsAfter(k) => EndsAfter(k)'
  BY <1>3 DEF EndsAfter
<1>5. ASSUME NEW i \in DOMAIN inbox', inbox'[i] = "tts_started" PROVE EndsAfter(i)'
  <2>1. CASE i \in DOMAIN inbox
    BY <1>3, <1>4, <1>5, <2>1
  <2>2. CASE i \notin DOMAIN inbox
    <3>1. i - Len(inbox) \in DOMAIN events /\ ~(i <= Len(inbox))
      BY <1>1, <1>2, <2>2
    <3>2. inbox'[i] = events[i - Len(inbox)]
      BY <1>1, <1>2, <3>1
    <3> QED  BY <1>5, <3>1, <3>2
  <2> QED  BY <2>1, <2>2
<1> QED  BY <1>4, <1>5

\* The voice of a turn is none until it says something, and then it is not started again.
LEMMA VoiceKeeps ==
  ASSUME IInv, ChatTypes, VoiceInv, Accept \/ TurnStep \/ Voice \/ Hear
  PROVE  VoiceInv'
<1>1. /\ voice \in [Turns -> {"none", "queued", "playing", "cancelled", "stopping", "over"}]
      /\ current_utterance # 0 => voice[current_utterance] \in {"queued", "playing"} /\ current_utterance \in Turns
      /\ turn \in Nat /\ \A t \in Turns : t \in Nat \ {0}
  BY BoundAssumption DEF ChatTypes, Turns
<1>2. inbox \in Seq(Events) /\ inbox \in Seq(Events)
  BY DEF IInv, TypeOK
<1>3. /\ life = "on" /\ ~lost /\ Unspoken
      /\ director = "speaking" => EndsAfter(0)
      /\ \A i \in DOMAIN inbox : inbox[i] = "tts_started" => EndsAfter(i)
  BY DEF VoiceInv
<1>4. UNCHANGED <<director, life, lost>>
  <2>1. Publishes(Events)
    BY ChatStep, VoicePublishes, WordsArePublished
  <2> QED  BY <2>1 DEF Publishes, Quietly, Announce, avatar
\* The voices are only those of turns that came to say something.
<1>5. Unspoken' /\ (~Voice => (Voiced => Voiced'))
  <2>1. ASSUME UNCHANGED turn,
               phase' \in {"accepted", "hushing", "task", "thinking", "replying", "saying"} =>
                 phase \in {"accepted", "hushing", "task", "thinking", "replying", "saying"},
               \A t \in Turns : voice[t] = "none" => voice'[t] = "none"
        PROVE  Unspoken'
    BY <1>3, <2>1 DEF Unspoken
  <2>2. ASSUME Interrupt
        PROVE  (\A t \in Turns : voice[t] = "none" => voice'[t] = "none") /\ (Voiced => Voiced')
    BY <1>1, <2>2, InterruptFacts DEF Voiced
  <2>3. ASSUME UNCHANGED voice
        PROVE  (\A t \in Turns : voice[t] = "none" => voice'[t] = "none") /\ (Voiced => Voiced')
    BY <2>3 DEF Voiced
  <2>4. CASE Accept
    <3>1. UNCHANGED voice /\ turn' = turn + 1
      BY <2>4 DEF Accept
    <3>2. \A t \in Turns : t > turn' \/ t = turn' => t > turn
      BY <1>1, <3>1
    <3> QED  BY <1>3, <2>3, <3>1, <3>2 DEF Unspoken
  <2>5. CASE Hush
    BY <2>1, <2>2, <2>5 DEF Hush
  <2>6. CASE Start \/ TaskEnds \/ Generated \/ Silent \/ SayFails \/ Readied
    BY <2>1, <2>3, <2>6 DEF Start, TaskEnds, Generated, Silent, SayFails, Readied, FinishTurn
  <2>7. ASSUME NEW aloud \in BOOLEAN, Reply(aloud) PROVE Unspoken' /\ (Voiced => Voiced')
    <3>1. /\ phase = "replying" /\ UNCHANGED turn
          /\ Interrupt \/ UNCHANGED voice
      BY <2>7 DEF Reply
    <3> QED  BY <2>1, <2>2, <2>3, <3>1
  <2>8. CASE Say
    <3>1. /\ phase = "saying" /\ phase' \in {"none", "readying"} /\ turn' = turn
          /\ voice' = [voice EXCEPT ![turn] = "queued"]
      BY <2>8 DEF Say, FinishTurn
    <3>2. turn \in Turns /\ voice[turn] = "none"
      <4>1. turn \in Turns
        BY <3>1 DEF ChatTypes, Turns
      <4> QED  BY <1>3, <3>1, <4>1 DEF Unspoken
    <3>3. \A t \in Turns : t # turn => voice'[t] = voice[t]
      BY <1>1, <3>1
    <3>4. \A t \in Turns : t > turn => t # turn
      BY <1>1
    <3>5. Voiced => Voiced'
      BY <3>2, <3>3 DEF Voiced
    <3> QED  BY <1>3, <3>1, <3>3, <3>4, <3>5 DEF Unspoken
  <2>9. CASE Voice
    <3>1. PICK t \in Turns : Ready(t) \/ Over(t) \/ Drop(t)
      BY <2>9 DEF Voice
    <3>2. voice[t] # "none" /\ UNCHANGED <<turn, phase>> /\ \A v \in Turns : v # t => voice'[v] = voice[v]
      BY <1>1, <3>1 DEF Ready, Over, Drop, Sounding
    <3> QED  BY <2>1, <2>9, <3>2
  <2>10. CASE Hear
    BY <2>1, <2>2, <2>10 DEF Hear
  <2> QED  BY <2>4, <2>5, <2>6, <2>7, <2>8, <2>9, <2>10 DEF TurnStep
<1>6. /\ director' = "speaking" => EndsAfter(0)'
      /\ \A i \in DOMAIN inbox' : inbox'[i] = "tts_started" => EndsAfter(i)'
  <2>1. ASSUME UNCHANGED inbox, Voiced => Voiced'
        PROVE  /\ director' = "speaking" => EndsAfter(0)'
               /\ \A i \in DOMAIN inbox' : inbox'[i] = "tts_started" => EndsAfter(i)'
    BY <1>3, <1>4, <2>1 DEF EndsAfter
  <2>2. CASE ~Voice
    <3>1. Publishes(Words) /\ (Voiced => Voiced')
      BY <1>5, <2>2, ChatStep
    <3>2. CASE Quietly
      BY <2>1, <3>1, <3>2 DEF Quietly, intake
    <3>3. ASSUME NEW events \in Seq(Words), Announce(events)
          PROVE  /\ director' = "speaking" => EndsAfter(0)'
                 /\ \A i \in DOMAIN inbox' : inbox'[i] = "tts_started" => EndsAfter(i)'
      <4>1. inbox' = inbox \o events
        BY <3>3 DEF Announce
      <4>2. events \in Seq(Events) /\ \A i \in DOMAIN events : events[i] # "tts_started"
        BY DEF Words
      <4> QED  BY <1>2, <1>3, <1>4, <3>1, <4>1, <4>2, EndsOn
    <3> QED  BY <3>1, <3>2, <3>3 DEF Publishes
  <2>3. CASE Voice
    <3>1. PICK t \in Turns : Ready(t) \/ Over(t) \/ Drop(t)
      BY <2>3 DEF Voice
    <3>2. CASE Ready(t)
      <4>1. voice'[t] = "playing"
        BY <1>1, <3>2 DEF Ready
      <4> QED  BY <4>1 DEF Voiced, EndsAfter
    <3>3. CASE Over(t)
      <4>1. inbox' = inbox \o <<"tts_over">>
        BY <3>3 DEF Over, Announce
      <4>2. /\ Len(inbox) \in Nat /\ DOMAIN inbox' = 1..(Len(inbox) + 1) /\ inbox'[Len(inbox) + 1] = "tts_over"
            /\ DOMAIN inbox = 1..Len(inbox) /\ \A i \in DOMAIN inbox : inbox'[i] = inbox[i]
        <5>1. "tts_over" \in Events
          BY DEF Events, Reaction
        <5>2. inbox' = Append(inbox, "tts_over")
          BY <1>2, <4>1, <5>1
        <5> QED  BY <1>2, <5>1, <5>2, AppendProperties
      <4>3. \A i \in DOMAIN inbox' : inbox'[i] = "tts_started" => Len(inbox) + 1 > i /\ Len(inbox) + 1 \in DOMAIN inbox'
        BY <4>2
      <4>4. Len(inbox) + 1 > 0 /\ Len(inbox) + 1 \in DOMAIN inbox'
        BY <4>2
      <4> QED  BY <4>2, <4>3, <4>4 DEF EndsAfter
    <3>4. CASE Drop(t)
      <4>1. Quietly /\ voice[t] = "cancelled" /\ voice' = [voice EXCEPT ![t] = "over"]
        BY <3>4 DEF Drop
      <4>2. Voiced => Voiced'
        BY <1>1, <4>1 DEF Voiced
      <4> QED  BY <2>1, <4>1, <4>2 DEF Quietly, intake
    <3> QED  BY <3>1, <3>2, <3>3, <3>4
  <2> QED  BY <2>2, <2>3
<1> QED  BY <1>3, <1>4, <1>5, <1>6 DEF VoiceInv

\* The avatar hears of what was announced, one event after the other.
LEMMA VoiceHeard ==
  ASSUME IInv, VoiceInv, Delivery \/ ReturnStep, UNCHANGED chat
  PROVE  VoiceInv'
<1>1. (Unspoken => Unspoken') /\ (Voiced' <=> Voiced)
  BY DEF chat, Unspoken, Voiced
<1>2. life' = life /\ (lost' = lost \/ ~lost')
  BY DEF Delivery, Wake, Handle, Applied, ReturnStep, Fire, DoReturn
<1>3. CASE ~Handle
  <2>1. inbox' = inbox /\ (director' = director \/ director' = "idle")
    BY <1>3 DEF Delivery, Wake, Applied, ReturnStep, Fire, DoReturn, intake
  <2> QED  BY <1>1, <1>2, <2>1 DEF VoiceInv, EndsAfter
<1>4. CASE Handle
  <2>1. inbox \in Seq(Events) /\ inbox # <<>> /\ inbox' = Tail(inbox) /\ director \in States
    BY <1>4 DEF Handle, IInv, TypeOK
  <2>2. director' = After(director, Head(inbox))
    BY <1>4 DEF Handle, After
  <2>3. /\ Len(inbox) \in Nat \ {0} /\ DOMAIN inbox = 1..Len(inbox) /\ 1 \in DOMAIN inbox
        /\ Head(inbox) = inbox[1] /\ Head(inbox) \in Events
    BY <2>1
  <2>4. /\ Len(inbox') = Len(inbox) - 1 /\ DOMAIN inbox' = 1..(Len(inbox) - 1)
        /\ \A i \in 1..(Len(inbox) - 1) : inbox'[i] = inbox[i + 1]
    <3>1. Tail(inbox) \in Seq(Events)
      BY <2>1
    <3> QED  BY <2>1, <3>1, HeadTailProperties
  <2>5. ASSUME NEW k \in Nat, EndsAfter(k + 1) PROVE EndsAfter(k)'
    <3>1. CASE Voiced
      BY <1>1, <3>1 DEF EndsAfter
    <3>2. CASE ~Voiced
      <4>1. PICK j \in DOMAIN inbox : j > k + 1 /\ inbox[j] = "tts_over"
        BY <2>5, <3>2 DEF EndsAfter
      <4>2. j - 1 \in DOMAIN inbox' /\ j - 1 > k /\ (j - 1) + 1 = j
        BY <2>3, <2>4, <4>1
      <4>3. inbox'[j - 1] = "tts_over"
        BY <2>4, <4>1, <4>2
      <4> QED  BY <4>2, <4>3 DEF EndsAfter
    <3> QED  BY <3>1, <3>2
  <2>6. ASSUME director' = "speaking" PROVE EndsAfter(0)'
    <3>1. Head(inbox) = "tts_started" \/ (director = "speaking" /\ Head(inbox) # "tts_over")
      BY <2>1, <2>2, <2>3, <2>6, SpeakingFacts
    <3>2. EndsAfter(0 + 1)
      <4>1. CASE Head(inbox) = "tts_started"
        BY <2>3, <4>1 DEF VoiceInv
      <4>2. CASE director = "speaking" /\ Head(inbox) # "tts_over"
        <5>1. EndsAfter(0)
          BY <4>2 DEF VoiceInv
        <5>2. \A j \in DOMAIN inbox : j > 0 /\ inbox[j] = "tts_over" => j > 0 + 1
          BY <2>3, <4>2
        <5> QED  BY <5>1, <5>2 DEF EndsAfter
      <4> QED  BY <3>1, <4>1, <4>2
    <3> QED  BY <2>5, <3>2
  <2>7. ASSUME NEW i \in DOMAIN inbox', inbox'[i] = "tts_started" PROVE EndsAfter(i)'
    <3>1. i \in Nat /\ i + 1 \in DOMAIN inbox /\ inbox[i + 1] = "tts_started"
      BY <2>3, <2>4, <2>7
    <3>2. EndsAfter(i + 1)
      BY <3>1 DEF VoiceInv
    <3> QED  BY <2>5, <3>1, <3>2
  <2> QED  BY <1>1, <1>2, <2>6, <2>7 DEF VoiceInv
<1> QED  BY <1>3, <1>4

\* Whoever has digested everything shows what is due.
LEMMA DigestedShows ==
  ASSUME IInv, ChatTypes, VoiceInv, Undisturbed => TurnInv
  PROVE  TurnIsShown
<1> SUFFICES ASSUME Digested
             PROVE  /\ Undisturbed /\ InOrder /\ phase = "thinking" => current.state = "thinking"
                    /\ Neutral /\ phase = "none" /\ Playing => current.state = "speaking"
                    /\ (\A t \in Turns : voice[t] \notin {"playing", "stopping"}) => current.state # "speaking"
  BY DEF TurnIsShown
<1>1. inbox = <<>> /\ line = <<>> /\ life = "on" /\ ~lost /\ director \in States /\ DOMAIN inbox = {}
  BY DEF Digested, VoiceInv, IInv, TypeOK
<1>2. current.state = director
  BY <1>1 DEF IInv, Followed, Pending
<1>3. ASSUME Undisturbed PROVE Due(director)
  <2>1. PICK s \in States : Due(s) /\ Leads(director, inbox, s)
    BY <1>3 DEF TurnInv
  <2> QED  BY <1>1, <2>1, LeadsNowhere
<1>4. Undisturbed /\ InOrder /\ phase = "thinking" => current.state = "thinking"
  BY <1>2, <1>3 DEF Due
<1>5. Neutral /\ phase = "none" /\ Playing => current.state = "speaking"
  BY <1>2, <1>3 DEF Due, Neutral
<1>6. (\A t \in Turns : voice[t] \notin {"playing", "stopping"}) => current.state # "speaking"
  BY <1>1, <1>2 DEF VoiceInv, EndsAfter, Voiced
<1> QED  BY <1>4, <1>5, <1>6

LEMMA ConversationStarts == PartsInit => CInv
<1> SUFFICES ASSUME PartsInit PROVE CInv
  OBVIOUS
<1>1. Init /\ ConversationInit
  BY DEF PartsInit, ConversationInit
<1>2. IInv
  BY <1>1, Initially
<1>3. ChatTypes
  BY <1>1, BoundAssumption DEF ConversationInit, ChatTypes, Cue
<1>4. Calm
  BY <1>1 DEF Init, Calm
<1>5. Heeded
  BY <1>1 DEF ConversationInit, Heeded
<1>6. Due("idle") /\ Leads(director, inbox, "idle") /\ "idle" \in States
  <2>1. director = "idle" /\ inbox = <<>> /\ "idle" \in States
    BY <1>1 DEF Init, Rest, States
  <2>2. Due("idle")
    BY <1>1 DEF ConversationInit, Due, Playing
  <2> QED  BY <2>1, <2>2, LeadsNowhere
<1>7. VoiceInv
  <2>1. life = "on" /\ lost = FALSE /\ inbox = <<>> /\ director # "speaking" /\ DOMAIN inbox = {}
    BY <1>1 DEF Init, Rest
  <2>2. Unspoken
    BY <1>1 DEF ConversationInit, Unspoken
  <2> QED  BY <2>1, <2>2 DEF VoiceInv
<1> QED  BY <1>2, <1>3, <1>4, <1>5, <1>6, <1>7 DEF CInv, TurnInv

LEMMA PartsKeepAvatar ==
  ASSUME CInv, [PartsNext]_<<all, part, windowVars>>
  PROVE  CInv'
<1> USE DEF CInv
<1>1. ASSUME UNCHANGED <<vars, chat>>, part' = part PROVE CInv'
  <2>1. IInv'
    BY <1>1, Stepwise
  <2>2. ChatTypes' /\ (Undisturbed' <=> Undisturbed)
    BY <1>1 DEF chat, ChatTypes, Undisturbed
  <2>3. TurnInv => TurnInv'
    BY <1>1 DEF vars, intake, lock, holds, chat, TurnInv, Calm, Heeded, Due, Playing, Voiced, Leads, InOrder,
                Neutral, Undisturbed
  <2>4. VoiceInv => VoiceInv'
    BY <1>1 DEF vars, intake, chat, VoiceInv, Unspoken, EndsAfter, Voiced
  <2> QED  BY <1>1, <2>1, <2>2, <2>3, <2>4
<1>2. CASE UNCHANGED <<all, part, windowVars>>
  BY <1>1, <1>2 DEF all
<1>3. CASE part = "conversation" /\ ConversationNext /\ UNCHANGED <<part, windowVars>>
  <2>1. CASE Accept \/ TurnStep \/ Voice \/ Hear
    <3>1. ChatTypes' /\ Publishes(Events) /\ setup' = setup
      BY <2>1, ChatStep, VoicePublishes, WordsArePublished
    <3>2. IInv'
      BY <3>1, PublishesKeeps
    <3>3. Undisturbed' <=> Undisturbed
      BY <3>1 DEF Undisturbed
    <3>4. VoiceInv'
      BY <1>3, <2>1, VoiceKeeps
    <3>5. Undisturbed => TurnInv'
      BY <1>3, <2>1, TurnKeeps DEF VoiceInv
    <3> QED  BY <1>3, <3>1, <3>2, <3>3, <3>4, <3>5
  <2>2. CASE AvatarStep
    <3>1. (Delivery \/ ReturnStep) /\ UNCHANGED chat
      BY <2>2 DEF AvatarStep
    <3>2. IInv'
      BY <3>1, Stepwise DEF Delivery, Dispatch, Work, Next
    <3>3. ChatTypes' /\ (Undisturbed' <=> Undisturbed)
      BY <3>1 DEF chat, ChatTypes, Undisturbed
    <3>4. VoiceInv'
      BY <1>3, <3>1, VoiceHeard
    <3>5. Undisturbed => TurnInv'
      BY <1>3, <3>1, DigestStep
    <3> QED  BY <1>3, <3>2, <3>3, <3>4, <3>5
  <2> QED  BY <1>3, <2>1, <2>2 DEF ConversationNext
<1>4. CASE part = "alone" /\ Next /\ UNCHANGED <<part, chat, windowVars>>
  <2>1. IInv'
    BY <1>4, Stepwise
  <2>2. ChatTypes' /\ part' = "alone"
    BY <1>4 DEF chat, ChatTypes
  <2> QED  BY <2>1, <2>2
<1>5. CASE part = "windows" /\ Bridge!Next /\ UNCHANGED <<part, all>>
  BY <1>1, <1>5 DEF all
<1> QED  BY <1>2, <1>3, <1>4, <1>5 DEF PartsNext

-----------------------------------------------------------------------------
(* The windows                                                             *)

LEMMA SocketsAssumed ==
  NoSocket \notin Sockets /\ MaxStates \in Nat /\ MaxDirectives \in Nat /\ MaxFaults \in Nat
BY WindowsAssumption DEF Bridge!BoundsAssumption

\* What may be sent: what was published.
IsMessage(m) ==
  \/ \E n \in 1..Len(feed) : m = Bridge!Turn(n)
  \/ \E n \in 1..directives : m = Bridge!Avatar(n)
  \/ m = Bridge!Status

Lines == [by : {"endpoint", "pump", "publish"}, message : Bridge!Messages]

\* The variables of the bridge have their types.
BridgeTypes ==
  /\ feed \in Seq([state : Bridge!States, turn : Nat]) /\ Len(feed) <= MaxStates
  /\ directives \in 0..MaxDirectives
  /\ sockets \subseteq Sockets
  /\ latest \in [turn : 0..Len(feed), avatar : 0..directives]
  /\ endpoint \in [Sockets -> {"none", "replaying", "serving", "ended"}]
  /\ pump \in [Sockets -> {"none", "created", "on", "ended"}]
  /\ pos \in [Sockets -> 0..Len(feed)] /\ since \in [Sockets -> 0..Len(feed)]
  /\ replay \in [Sockets -> Seq(Bridge!Messages)]
  /\ sending \in [Sockets -> Seq(Lines)]
  /\ round \in [n : 0..directives, left : SUBSET Sockets, dead : SUBSET Sockets, busy : BOOLEAN]
  /\ conn \in [Windows -> Sockets \cup {NoSocket}]
  /\ view \in [Windows -> [turn : 0..Len(feed), told : 0..Len(feed), avatar : 0..directives]]

\* The states of turns follow one another: what ends one is of the turn that was last.
IsNewest(k, n) == k \in Bridge!Current /\ k < n /\ \A j \in Bridge!Current : j < n => j <= k

FeedIsSound ==
  /\ Bridge!Current # {} => \E k \in 1..Len(feed) : IsNewest(k, Len(feed) + 1)
  /\ \A n \in 1..Len(feed) : feed[n].state = "over" =>
       \A k \in 1..Len(feed) : IsNewest(k, n) => feed[k].turn = feed[n].turn

\* What is sent over a socket, or is to be replayed, was published.
SentWasPublished(c) ==
  /\ \A i \in DOMAIN replay[c] : IsMessage(replay[c][i])
  /\ \A i \in DOMAIN sending[c] : IsMessage(sending[c][i].message)

\* Whoever waits for a socket is at work: the endpoint replays, the pump follows the bus and
\* sends what it took last, publish() sends directives.
Occupied(c, e) ==
  /\ e.by = "endpoint" => endpoint[c] = "replaying"
  /\ e.by = "pump" => pump[c] = "on" /\ pos[c] # 0 /\ e.message = Bridge!Turn(pos[c])
  /\ e.by = "publish" => e.message.type = "avatar"

\* An endpoint and a pump wait once.
Once(s) == \A i, j \in DOMAIN s : s[i].by = s[j].by /\ s[i].by # "publish" => i = j

AtWork(c) ==
  /\ \A i \in DOMAIN sending[c] : Occupied(c, sending[c][i])
  /\ Once(sending[c])
  /\ pump[c] \in {"created", "on"} => endpoint[c] = "serving"
  /\ endpoint[c] = "none" => \A w \in Windows : conn[w] # c
  /\ c \in sockets => endpoint[c] \in {"replaying", "serving"}

SocketsAreRight ==
  /\ \A c \in Sockets : SentWasPublished(c) /\ AtWork(c)
  /\ round.left # {} => round.n # 0

\* What a pump has handed to its window.
Delivered(c) == IF Bridge!Waits(c, "pump") THEN pos[c] - 1 ELSE pos[c]

\* A window was told of nothing that its pump is still to send; and it shows the newest state
\* that was sent, once a turn has begun since it follows the bus.
Follows(w, c) ==
  /\ view[w].told <= Delivered(c)
  /\ \A n \in Bridge!Current : since[c] < n /\ n <= Delivered(c) /\ feed[n].state = "thinking" =>
       IsNewest(view[w].turn, Delivered(c) + 1)

WindowsFollow == \A w \in Windows : \A c \in Sockets : conn[w] = c /\ pump[c] = "on" => Follows(w, c)

BInv == BridgeTypes /\ FeedIsSound /\ SocketsAreRight /\ WindowsFollow

-----------------------------------------------------------------------------
(* Lines *)

WaitsIn(s, by) == \E i \in DOMAIN s : s[i].by = by

From(t, s) == \A i \in DOMAIN t : \E j \in DOMAIN s : t[i] = s[j]

LEMMA WaitsFacts == \A c, by : Bridge!Waits(c, by) <=> WaitsIn(sending[c], by)
  BY DEF Bridge!Waits, WaitsIn

LEMMA TailLine ==
  ASSUME NEW s \in Seq(Lines), s # <<>>, Once(s)
  PROVE  /\ Tail(s) \in Seq(Lines) /\ From(Tail(s), s) /\ Once(Tail(s))
         /\ Head(s) \in Lines /\ \E i \in DOMAIN s : s[i] = Head(s)
         /\ \A by \in {"endpoint", "pump"} : WaitsIn(Tail(s), by) <=> WaitsIn(s, by) /\ by # Head(s).by
<1> DEFINE t == Tail(s)
<1>1. /\ Len(s) \in Nat \ {0} /\ DOMAIN s = 1..Len(s) /\ Head(s) = s[1] /\ s[1] \in Lines
      /\ t \in Seq(Lines) /\ DOMAIN t = 1..(Len(s) - 1) /\ \A i \in 1..(Len(s) - 1) : t[i] = s[i + 1]
  <2>1. Len(s) \in Nat \ {0} /\ DOMAIN s = 1..Len(s) /\ Head(s) = s[1] /\ s[1] \in Lines
    OBVIOUS
  <2>2. /\ t \in Seq(Lines) /\ Len(t) = Len(s) - 1 /\ \A i \in 1..Len(t) : t[i] = s[i + 1]
    BY HeadTailProperties
  <2> QED  BY <2>1, <2>2
<1> HIDE DEF t
<1>2. From(t, s)
  <2>1. ASSUME NEW i \in DOMAIN t PROVE \E j \in DOMAIN s : t[i] = s[j]
    <3>1. i + 1 \in DOMAIN s /\ t[i] = s[i + 1]
      BY <1>1
    <3> QED  BY <3>1
  <2> QED  BY <2>1 DEF From
<1>3. Once(t)
  <2>1. ASSUME NEW i \in DOMAIN t, NEW j \in DOMAIN t, t[i].by = t[j].by, t[i].by # "publish" PROVE i = j
    <3>1. i + 1 \in DOMAIN s /\ j + 1 \in DOMAIN s /\ t[i] = s[i + 1] /\ t[j] = s[j + 1] /\ i \in Nat /\ j \in Nat
      BY <1>1
    <3>2. i + 1 = j + 1
      BY <2>1, <3>1 DEF Once
    <3> QED  BY <3>1, <3>2
  <2> QED  BY <2>1 DEF Once
<1>4. ASSUME NEW by \in {"endpoint", "pump"} PROVE WaitsIn(t, by) <=> WaitsIn(s, by) /\ by # Head(s).by
  <2>1. ASSUME WaitsIn(t, by) PROVE WaitsIn(s, by) /\ by # Head(s).by
    <3>1. PICK i \in DOMAIN t : t[i].by = by
      BY <2>1 DEF WaitsIn
    <3>2. i + 1 \in DOMAIN s /\ s[i + 1].by = by /\ i + 1 # 1 /\ 1 \in DOMAIN s
      BY <1>1, <3>1
    <3>3. s[1].by # by
      BY <1>4, <3>2 DEF Once
    <3> QED  BY <1>1, <3>2, <3>3 DEF WaitsIn
  <2>2. ASSUME WaitsIn(s, by), by # Head(s).by PROVE WaitsIn(t, by)
    <3>1. PICK i \in DOMAIN s : s[i].by = by
      BY <2>2 DEF WaitsIn
    <3>2. i # 1
      BY <1>1, <2>2, <3>1
    <3>3. i - 1 \in DOMAIN t /\ t[i - 1] = s[i]
      <4>1. i \in 1..Len(s) /\ i - 1 \in 1..(Len(s) - 1) /\ (i - 1) + 1 = i
        BY <1>1, <3>2
      <4> QED  BY <1>1, <4>1
    <3> QED  BY <3>1, <3>3 DEF WaitsIn
  <2> QED  BY <2>1, <2>2
<1>5. \E i \in DOMAIN s : s[i] = Head(s)
  BY <1>1
<1> QED  BY <1>1, <1>2, <1>3, <1>4, <1>5 DEF t

LEMMA AppendLine ==
  ASSUME NEW s \in Seq(Lines), NEW e \in Lines, Once(s), e.by # "publish" => ~WaitsIn(s, e.by)
  PROVE  /\ Append(s, e) \in Seq(Lines) /\ Once(Append(s, e))
         /\ \A i \in DOMAIN Append(s, e) : Append(s, e)[i] = e \/ \E j \in DOMAIN s : Append(s, e)[i] = s[j]
         /\ \A by : WaitsIn(Append(s, e), by) <=> WaitsIn(s, by) \/ by = e.by
<1> DEFINE t == Append(s, e)
<1>1. /\ Len(s) \in Nat /\ DOMAIN s = 1..Len(s)
      /\ t \in Seq(Lines) /\ DOMAIN t = 1..(Len(s) + 1) /\ t[Len(s) + 1] = e
      /\ \A i \in 1..Len(s) : t[i] = s[i]
  <2>1. Len(s) \in Nat /\ DOMAIN s = 1..Len(s)
    OBVIOUS
  <2>2. /\ t \in Seq(Lines) /\ Len(t) = Len(s) + 1 /\ t[Len(s) + 1] = e
        /\ \A i \in 1..Len(s) : t[i] = s[i]
    BY AppendProperties
  <2> QED  BY <2>1, <2>2
<1> HIDE DEF t
<1>2. \A i \in DOMAIN t : (i = Len(s) + 1 /\ t[i] = e) \/ (i \in DOMAIN s /\ t[i] = s[i])
  BY <1>1
<1>3. Once(t)
  <2>1. ASSUME NEW i \in DOMAIN t, NEW j \in DOMAIN t, t[i].by = t[j].by, t[i].by # "publish" PROVE i = j
    BY <1>2, <2>1 DEF Once, WaitsIn
  <2> QED  BY <2>1 DEF Once
<1>4. ASSUME NEW by PROVE WaitsIn(t, by) <=> WaitsIn(s, by) \/ by = e.by
  <2>1. ASSUME WaitsIn(t, by) PROVE WaitsIn(s, by) \/ by = e.by
    BY <1>2, <2>1 DEF WaitsIn
  <2>2. ASSUME WaitsIn(s, by) PROVE WaitsIn(t, by)
    <3>1. PICK i \in DOMAIN s : s[i].by = by
      BY <2>2 DEF WaitsIn
    <3>2. i \in DOMAIN t /\ t[i] = s[i]
      BY <1>1
    <3> QED  BY <3>1, <3>2 DEF WaitsIn
  <2>3. ASSUME by = e.by PROVE WaitsIn(t, by)
    <3>1. Len(s) + 1 \in DOMAIN t
      BY <1>1
    <3> QED  BY <1>1, <2>3, <3>1 DEF WaitsIn
  <2> QED  BY <2>1, <2>2, <2>3
<1> QED  BY <1>1, <1>2, <1>3, <1>4 DEF t

LEMMA WithoutLine ==
  ASSUME NEW s \in Seq(Lines), Once(s)
  PROVE  /\ Bridge!Without(s, "pump") \in Seq(Lines) /\ From(Bridge!Without(s, "pump"), s)
         /\ Once(Bridge!Without(s, "pump")) /\ ~WaitsIn(Bridge!Without(s, "pump"), "pump")
<1> DEFINE t == Bridge!Without(s, "pump")
           at == {i \in DOMAIN s : s[i].by = "pump"}
           p == CHOOSE i \in at : TRUE
<1>0. Len(s) \in Nat /\ DOMAIN s = 1..Len(s)
  OBVIOUS
<1>1. t = IF at = {} THEN s ELSE SubSeq(s, 1, p - 1) \o SubSeq(s, p + 1, Len(s))
  BY DEF Bridge!Without
<1>2. CASE at = {}
  <2>1. t = s
    BY <1>1, <1>2
  <2> HIDE DEF t
  <2> QED  BY <1>2, <2>1 DEF From, WaitsIn, t
<1>3. CASE at # {}
  <2>1. p \in 1..Len(s) /\ s[p].by = "pump"
    BY <1>0, <1>3
  <2> HIDE DEF p
  <2>2. t = SubSeq(s, 1, p - 1) \o SubSeq(s, p + 1, Len(s))
    BY <1>1, <1>3
  <2> HIDE DEF t, at
  <2>3. /\ t \in Seq(Lines) /\ Len(t) = Len(s) - 1
        /\ \A k \in 1..(Len(s) - 1) : t[k] = s[IF k < p THEN k ELSE k + 1]
    BY <2>1, <2>2, RemovalFacts
  <2>4. DOMAIN t = 1..(Len(s) - 1)
    BY <2>3
  <2> DEFINE f(k) == IF k < p THEN k ELSE k + 1
  <2>5. \A k \in DOMAIN t : f(k) \in DOMAIN s /\ f(k) # p /\ t[k] = s[f(k)]
    BY <1>0, <2>1, <2>3, <2>4
  <2>6. \A k, l \in DOMAIN t : f(k) = f(l) => k = l
    BY <1>0, <2>1, <2>4
  <2> HIDE DEF f
  <2>7. From(t, s)
    BY <2>5 DEF From
  <2>8. Once(t)
    <3>1. ASSUME NEW i \in DOMAIN t, NEW j \in DOMAIN t, t[i].by = t[j].by, t[i].by # "publish" PROVE i = j
      <4>1. f(i) = f(j)
        BY <2>5, <3>1 DEF Once
      <4> QED  BY <2>6, <4>1
    <3> QED  BY <3>1 DEF Once
  <2>9. ~WaitsIn(t, "pump")
    <3>1. ASSUME NEW k \in DOMAIN t, t[k].by = "pump" PROVE FALSE
      <4>1. f(k) \in DOMAIN s /\ f(k) # p /\ s[f(k)].by = "pump" /\ p \in DOMAIN s
        BY <1>0, <2>1, <2>5, <3>1
      <4> QED  BY <2>1, <4>1 DEF Once
    <3> QED  BY <3>1 DEF WaitsIn
  <2> QED  BY <2>3, <2>7, <2>8, <2>9 DEF t
<1> QED  BY <1>2, <1>3

-----------------------------------------------------------------------------
(* What a step leaves alone *)

LEMMA FeedKept ==
  ASSUME feed' = feed
  PROVE  /\ FeedIsSound => FeedIsSound'
         /\ \A k, n : IsNewest(k, n) => IsNewest(k, n)'
BY DEF FeedIsSound, IsNewest, Bridge!Current

LEMMA MessageKept ==
  ASSUME NEW m, Len(feed) \in Nat, Len(feed') \in Nat, directives \in Nat, directives' \in Nat,
         Len(feed) <= Len(feed'), directives <= directives', IsMessage(m)
  PROVE  IsMessage(m)'
<1>1. 1..Len(feed) \subseteq 1..Len(feed') /\ 1..directives \subseteq 1..directives'
  OBVIOUS
<1> QED  BY <1>1 DEF IsMessage, Bridge!Turn, Bridge!Avatar, Bridge!Status

\* The socket is as it was.
SameSocket(c) ==
  /\ replay'[c] = replay[c] /\ sending'[c] = sending[c] /\ endpoint'[c] = endpoint[c]
  /\ pump'[c] = pump[c] /\ pos'[c] = pos[c]
  /\ \A w \in Windows : conn'[w] = c => conn[w] = c
  /\ c \in sockets' => c \in sockets

LEMMA SocketKept ==
  ASSUME NEW c \in Sockets, SameSocket(c), SentWasPublished(c), AtWork(c),
         \A m : IsMessage(m) => IsMessage(m)'
  PROVE  SentWasPublished(c)' /\ AtWork(c)'
<1>1. SentWasPublished(c)'
  BY DEF SentWasPublished, SameSocket
<1>2. AtWork(c)'
  BY DEF AtWork, SameSocket, Occupied, Bridge!Turn
<1> QED  BY <1>1, <1>2

\* What the window's pump handed to it, and what the window shows of turns, are as they were.
SameView(w, c) ==
  /\ WaitsIn(sending'[c], "pump") <=> WaitsIn(sending[c], "pump")
  /\ pos'[c] = pos[c] /\ since'[c] = since[c]
  /\ view'[w].told = view[w].told /\ view'[w].turn = view[w].turn

LEMMA DeliveredKept ==
  ASSUME NEW c, pos'[c] = pos[c], WaitsIn(sending'[c], "pump") <=> WaitsIn(sending[c], "pump")
  PROVE  Delivered(c)' = Delivered(c)
BY DEF Delivered, Bridge!Waits, WaitsIn

LEMMA ViewKept ==
  ASSUME NEW w, NEW c, feed' = feed, SameView(w, c), Follows(w, c)
  PROVE  Follows(w, c)'
<1>1. Delivered(c)' = Delivered(c)
  BY DeliveredKept DEF SameView
<1> HIDE DEF Delivered
<1> QED  BY <1>1 DEF Follows, SameView, IsNewest, Bridge!Current

\* The steps that change no window, and add no pump to those that follow the bus.
LEMMA WindowsKept ==
  ASSUME WindowsFollow, feed' = feed,
         \A w \in Windows : \A c \in Sockets : conn'[w] = c /\ pump'[c] = "on" =>
           conn[w] = c /\ pump[c] = "on" /\ SameView(w, c)
  PROVE  WindowsFollow'
BY ViewKept DEF WindowsFollow

LEMMA SentFacts ==
  ASSUME BridgeTypes, NEW c \in Sockets
  PROVE  /\ sending[c] \in Seq(Lines) /\ replay[c] \in Seq(Bridge!Messages)
         /\ Len(feed) \in Nat /\ directives \in Nat
BY DEF BridgeTypes

-----------------------------------------------------------------------------
(* The steps of the bridge *)

LEMMA BridgeInit == PartsInit => BInv
<1> SUFFICES ASSUME PartsInit PROVE BInv
  OBVIOUS
<1> USE DEF PartsInit, Bridge!Init
<1>1. BridgeTypes
  BY SocketsAssumed DEF BridgeTypes, Bridge!NoRound, Bridge!NoView
<1>2. FeedIsSound
  BY DEF FeedIsSound, Bridge!Current
<1>3. SocketsAreRight
  <2>1. ASSUME NEW c \in Sockets PROVE SentWasPublished(c) /\ AtWork(c)
    BY SocketsAssumed DEF SentWasPublished, AtWork, Once
  <2> QED  BY <2>1 DEF SocketsAreRight, Bridge!NoRound
<1>4. WindowsFollow
  BY SocketsAssumed DEF WindowsFollow
<1> QED  BY <1>1, <1>2, <1>3, <1>4 DEF BInv

\* The newest state of a turn.
LEMMA NewestFacts ==
  ASSUME BridgeTypes, FeedIsSound
  PROVE  /\ Bridge!Current = {} => Bridge!Newest = 0
         /\ Bridge!Current # {} => IsNewest(Bridge!Newest, Len(feed) + 1) /\ Bridge!Newest \in 1..Len(feed)
         /\ \A k : IsNewest(k, Len(feed) + 1) => k = Bridge!Newest
<1>1. Len(feed) \in Nat /\ Bridge!Current \subseteq 1..Len(feed)
  BY DEF BridgeTypes, Bridge!Current
<1>2. ASSUME NEW k, IsNewest(k, Len(feed) + 1) PROVE k = Bridge!Newest
  <2>1. k \in Bridge!Current /\ \A m \in Bridge!Current : m <= k
    BY <1>1, <1>2 DEF IsNewest
  <2>2. Bridge!Newest \in Bridge!Current /\ \A m \in Bridge!Current : m <= Bridge!Newest
    BY <2>1 DEF Bridge!Newest
  <2> QED  BY <1>1, <2>1, <2>2
<1>3. Bridge!Current # {} => IsNewest(Bridge!Newest, Len(feed) + 1) /\ Bridge!Newest \in 1..Len(feed)
  BY <1>1, <1>2 DEF FeedIsSound
<1> QED  BY <1>2, <1>3 DEF Bridge!Newest

LEMMA PublishStateStep ==
  ASSUME BInv, NEW state \in Bridge!States, Bridge!PublishState(state)
  PROVE  BInv'
<1> USE DEF BInv
<1>0. PICK last : last = Len(feed) + 1
  OBVIOUS
<1> DEFINE e == feed'[last]
<1>1. /\ UNCHANGED <<directives, sockets, latest, endpoint, replay, pump, pos, since, sending, round>>
      /\ UNCHANGED <<conn, view, faults>> /\ Len(feed) < MaxStates
  BY DEF Bridge!PublishState, Bridge!server, Bridge!client
<1>2. feed \in Seq([state : Bridge!States, turn : Nat]) /\ Len(feed) \in Nat /\ MaxStates \in Nat
  BY SocketsAssumed DEF BridgeTypes
<1>3. Bridge!Number(Bridge!Newest) \in Nat
  <2>1. CASE Bridge!Current = {}
    BY <2>1, NewestFacts DEF Bridge!Number
  <2>2. CASE Bridge!Current # {}
    <3>1. Bridge!Newest \in 1..Len(feed)
      BY <2>2, NewestFacts
    <3>2. feed[Bridge!Newest] \in [state : Bridge!States, turn : Nat]
      BY <1>2, <3>1, ElementOfSeq
    <3> QED  BY <3>2 DEF Bridge!Number
  <2> QED  BY <2>1, <2>2
<1>4. /\ feed' \in Seq([state : Bridge!States, turn : Nat]) /\ Len(feed') = last
      /\ \A i \in 1..Len(feed) : feed'[i] = feed[i]
      /\ e.state = state /\ (state = "over" => e.turn = Bridge!Number(Bridge!Newest))
  <2> DEFINE number == CASE state = "thinking" -> Bridge!Number(Bridge!Newest) + 1
                         [] state = "over"     -> Bridge!Number(Bridge!Newest)
                         [] OTHER              -> 0
  <2>1. number \in Nat /\ (state = "over" => number = Bridge!Number(Bridge!Newest))
    BY <1>3
  <2>2. feed' = Append(feed, [state |-> state, turn |-> number])
    BY DEF Bridge!PublishState
  <2> HIDE DEF number
  <2> QED  BY <1>0, <1>2, <2>1, <2>2, AppendProperties
<1> HIDE DEF e
<1>5. Bridge!Current' = IF state # "rejected" THEN Bridge!Current \cup {last} ELSE Bridge!Current
  <2>1. DOMAIN feed = 1..Len(feed) /\ DOMAIN feed' = 1..last /\ 1..last = (1..Len(feed)) \cup {last}
    BY <1>0, <1>2, <1>4
  <2>2. ~(last \in 1..Len(feed))
    BY <1>0, <1>2
  <2>3. ASSUME NEW n PROVE n \in Bridge!Current' <=> n \in Bridge!Current \/ (n = last /\ state # "rejected")
    BY <1>4, <2>1, <2>2 DEF Bridge!Current, e
  <2> QED  BY <2>3
<1>6. Bridge!Current \subseteq 1..Len(feed)
  BY DEF Bridge!Current
<1>7. \A k : \A n \in 0..last : IsNewest(k, n)' <=> IsNewest(k, n)
  BY <1>0, <1>2, <1>5, <1>6 DEF IsNewest
<1>8. BridgeTypes'
  <2>1. 0..Len(feed) \subseteq 0..Len(feed')
    BY <1>0, <1>2, <1>4
  <2> QED  BY <1>0, <1>1, <1>2, <1>4, <2>1 DEF BridgeTypes
<1>9. FeedIsSound'
  <2>1. (Bridge!Current # {} => \E k \in 1..Len(feed) : IsNewest(k, Len(feed) + 1))'
    <3>1. CASE state # "rejected"
      <4>1. IsNewest(last, Len(feed) + 1)'
        BY <1>0, <1>2, <1>4, <1>5, <1>6, <3>1 DEF IsNewest
      <4> QED  BY <1>0, <1>2, <1>4, <4>1
    <3>2. CASE state = "rejected"
      <4>1. ASSUME NEW k \in 1..Len(feed), IsNewest(k, Len(feed) + 1) PROVE IsNewest(k, Len(feed) + 1)'
        BY <1>0, <1>2, <1>4, <1>5, <1>6, <3>2, <4>1 DEF IsNewest
      <4>2. 1..Len(feed) \subseteq 1..Len(feed')
        BY <1>0, <1>2, <1>4
      <4> QED  BY <1>0, <1>4, <1>5, <3>2, <4>1, <4>2 DEF FeedIsSound
    <3> QED  BY <3>1, <3>2
  <2>2. ASSUME NEW n \in 1..Len(feed'), feed'[n].state = "over",
               NEW k \in 1..Len(feed'), IsNewest(k, n)'
        PROVE  feed'[k].turn = feed'[n].turn
    <3>1. IsNewest(k, n) /\ k \in 1..Len(feed) /\ feed'[k] = feed[k]
      <4>1. n \in 0..last
        BY <1>0, <1>2, <1>4
      <4>2. IsNewest(k, n)
        BY <1>7, <2>2, <4>1
      <4> QED  BY <1>4, <1>6, <4>2 DEF IsNewest
    <3>2. CASE n = last
      <4>1. k = Bridge!Newest /\ k # 0
        BY <1>0, <1>2, <3>1, <3>2, NewestFacts
      <4> QED  BY <1>4, <2>2, <3>1, <3>2, <4>1 DEF Bridge!Number, e
    <3>3. CASE n # last
      <4>1. n \in 1..Len(feed)
        BY <1>0, <1>2, <1>4, <3>3
      <4> QED  BY <1>4, <2>2, <3>1, <4>1 DEF FeedIsSound
    <3> QED  BY <3>2, <3>3
  <2> QED  BY <2>1, <2>2 DEF FeedIsSound
<1>10. SocketsAreRight'
  <2>1. \A m : IsMessage(m) => IsMessage(m)'
    BY <1>0, <1>1, <1>2, <1>4, MessageKept DEF BridgeTypes
  <2>2. ASSUME NEW c \in Sockets PROVE SentWasPublished(c)' /\ AtWork(c)'
    BY <1>1, <2>1, SocketKept DEF SameSocket, SocketsAreRight
  <2> QED  BY <1>1, <2>2 DEF SocketsAreRight
<1>11. WindowsFollow'
  <2>1. ASSUME NEW w \in Windows, NEW c \in Sockets, Follows(w, c) PROVE Follows(w, c)'
    <3>1. Delivered(c)' = Delivered(c) /\ Delivered(c) \in Int /\ Delivered(c) <= Len(feed)
      <4>1. pos[c] \in 0..Len(feed)
        BY DEF BridgeTypes
      <4>2. Delivered(c)' = Delivered(c)
        BY <1>1, DeliveredKept
      <4> QED  BY <1>2, <4>1, <4>2 DEF Delivered
    <3> HIDE DEF Delivered
    <3>2. ASSUME NEW n \in Bridge!Current', since[c] < n, n <= Delivered(c), feed'[n].state = "thinking"
          PROVE  IsNewest(view[w].turn, Delivered(c) + 1)'
      <4>1. n \in Bridge!Current /\ feed[n].state = "thinking"
        BY <1>0, <1>2, <1>4, <1>5, <1>6, <3>1, <3>2
      <4>2. IsNewest(view[w].turn, Delivered(c) + 1)
        BY <2>1, <3>2, <4>1 DEF Follows
      <4>3. n \in 1..Len(feed)
        BY <1>6, <4>1
      <4>4. Delivered(c) + 1 \in 0..last
        BY <1>0, <1>2, <3>1, <3>2, <4>3
      <4>5. IsNewest(view[w].turn, Delivered(c) + 1)' <=> IsNewest(view'[w].turn, Delivered(c) + 1)
        BY <1>0, <1>1, <1>5, <1>6, <1>2, <3>1, <4>4 DEF IsNewest
      <4> QED  BY <1>1, <4>2, <4>5
    <3>3. view[w].told <= Delivered(c)
      BY <2>1 DEF Follows
    <3> QED  BY <1>1, <3>1, <3>2, <3>3 DEF Follows
  <2> QED  BY <1>1, <2>1 DEF WindowsFollow
<1> QED  BY <1>8, <1>9, <1>10, <1>11

\* The steps of the server and of the windows leave what was published alone.
LEMMA MessagesKept ==
  ASSUME BridgeTypes, UNCHANGED <<feed, directives>>
  PROVE  \A m : IsMessage(m) => IsMessage(m)'
BY MessageKept DEF BridgeTypes

LEMMA PublishStep ==
  ASSUME BInv, Bridge!Publish
  PROVE  BInv'
<1> USE DEF BInv
<1>1. /\ UNCHANGED <<feed, sockets, endpoint, replay, pump, pos, since, sending, conn, view, faults>>
      /\ directives' = directives + 1 /\ directives < MaxDirectives
      /\ latest' = [latest EXCEPT !.avatar = directives']
      /\ round' = [n |-> directives', left |-> sockets, dead |-> {}, busy |-> TRUE]
  BY DEF Bridge!Publish, Bridge!client
<1>2. BridgeTypes'
  <2>1. directives \in Nat /\ directives' \in 0..MaxDirectives /\ 0..directives \subseteq 0..directives'
    BY <1>1, SocketsAssumed DEF BridgeTypes
  <2>2. latest' \in [turn : 0..Len(feed'), avatar : 0..directives']
    <3>1. latest \in [turn : 0..Len(feed), avatar : 0..directives] /\ directives' \in 0..directives'
      BY <2>1 DEF BridgeTypes
    <3>2. latest' = [turn |-> latest.turn, avatar |-> directives']
      BY <1>1, <3>1
    <3> QED  BY <1>1, <3>1, <3>2
  <2>3. round' \in [n : 0..directives', left : SUBSET Sockets, dead : SUBSET Sockets, busy : BOOLEAN]
    BY <1>1, <2>1 DEF BridgeTypes
  <2>4. view' \in [Windows -> [turn : 0..Len(feed'), told : 0..Len(feed'), avatar : 0..directives']]
    BY <1>1, <2>1 DEF BridgeTypes
  <2> QED  BY <1>1, <2>1, <2>2, <2>3, <2>4 DEF BridgeTypes
<1>3. FeedIsSound'
  BY <1>1, FeedKept
<1>4. SocketsAreRight'
  <2>1. \A m : IsMessage(m) => IsMessage(m)'
    <3>1. Len(feed) \in Nat /\ directives \in Nat /\ directives' \in Nat /\ directives <= directives'
      BY <1>1 DEF BridgeTypes
    <3> QED  BY <1>1, <3>1, MessageKept
  <2>2. ASSUME NEW c \in Sockets PROVE SentWasPublished(c)' /\ AtWork(c)'
    BY <1>1, <2>1, SocketKept DEF SameSocket, SocketsAreRight
  <2> QED  BY <1>1, <2>2 DEF SocketsAreRight, BridgeTypes
<1>5. WindowsFollow'
  BY <1>1, WindowsKept DEF SameView
<1> QED  BY <1>2, <1>3, <1>4, <1>5

LEMMA ConnectStep ==
  ASSUME BInv, NEW w \in Windows, NEW c \in Sockets, Bridge!Connect(w, c)
  PROVE  BInv'
<1> USE DEF BInv
<1>1. /\ UNCHANGED <<feed, directives, latest, pump, pos, since, round, view, faults>>
      /\ conn[w] = NoSocket /\ endpoint[c] = "none"
      /\ conn' = [conn EXCEPT ![w] = c] /\ sockets' = sockets \cup {c}
      /\ endpoint' = [endpoint EXCEPT ![c] = "replaying"]
      /\ replay' = [replay EXCEPT ![c] = Tail(Append(Bridge!Remembered, Bridge!Status))]
      /\ Bridge!Send(c, "endpoint", Head(Append(Bridge!Remembered, Bridge!Status)))
  BY DEF Bridge!Connect, Bridge!source
<1>2. /\ replay'[c] \in Seq(Bridge!Messages) /\ \A i \in DOMAIN replay'[c] : IsMessage(replay'[c][i])
      /\ \E m \in Bridge!Messages : IsMessage(m) /\ Bridge!Send(c, "endpoint", m)
  <2> DEFINE M == {m \in Bridge!Messages : IsMessage(m)}
  <2>1. /\ Bridge!Status \in M
        /\ latest.turn # 0 => Bridge!Turn(latest.turn) \in M
        /\ latest.avatar # 0 => Bridge!Avatar(latest.avatar) \in M
    BY DEF IsMessage, Bridge!Status, Bridge!Turn, Bridge!Avatar, Bridge!Messages, BridgeTypes
  <2> HIDE DEF M
  <2>2. Bridge!Remembered \in Seq(M)
    BY <2>1 DEF Bridge!Remembered
  <2>3. Append(Bridge!Remembered, Bridge!Status) \in Seq(M) /\ Append(Bridge!Remembered, Bridge!Status) # <<>>
    BY <2>1, <2>2, AppendProperties
  <2> DEFINE queue == Append(Bridge!Remembered, Bridge!Status)
  <2> HIDE DEF queue
  <2>4. Head(queue) \in M /\ Tail(queue) \in Seq(M)
    BY <2>3, HeadTailProperties DEF queue
  <2>5. replay'[c] = Tail(queue)
    BY <1>1 DEF BridgeTypes, queue
  <2>6. \A i \in DOMAIN replay'[c] : replay'[c][i] \in M
    BY <2>4, <2>5, ElementOfSeq
  <2>7. replay'[c] \in Seq(Bridge!Messages)
    <3>1. M \subseteq Bridge!Messages
      BY DEF M
    <3> QED  BY <2>4, <2>5, <3>1
  <2>8. Bridge!Send(c, "endpoint", Head(queue))
    BY <1>1 DEF queue
  <2> QED  BY <2>4, <2>6, <2>7, <2>8 DEF M
<1>3. PICK m \in Bridge!Messages : IsMessage(m) /\ Bridge!Send(c, "endpoint", m)
  BY <1>2
<1> DEFINE e == [by |-> "endpoint", message |-> m]
<1>4. sending' = [sending EXCEPT ![c] = Append(@, e)] /\ e \in Lines
  BY <1>3 DEF Bridge!Send, Lines
<1>5. AtWork(c) /\ SentWasPublished(c) /\ sending[c] \in Seq(Lines) /\ sending'[c] = Append(sending[c], e)
  BY <1>4 DEF SocketsAreRight, BridgeTypes
<1>6. ~WaitsIn(sending[c], "endpoint")
  BY <1>1, <1>5 DEF AtWork, Occupied, WaitsIn
<1>7. e.by = "endpoint" /\ e.message = m
  OBVIOUS
<1> HIDE DEF e
<1>8. /\ sending'[c] \in Seq(Lines) /\ Once(sending'[c])
      /\ \A i \in DOMAIN sending'[c] : sending'[c][i] = e \/ \E j \in DOMAIN sending[c] : sending'[c][i] = sending[c][j]
      /\ \A by : WaitsIn(sending'[c], by) <=> WaitsIn(sending[c], by) \/ by = e.by
  BY <1>4, <1>5, <1>6, <1>7, AppendLine DEF AtWork
<1>9. BridgeTypes'
  <2>1. replay' \in [Sockets -> Seq(Bridge!Messages)] /\ sending' \in [Sockets -> Seq(Lines)]
    BY <1>1, <1>2, <1>4, <1>8 DEF BridgeTypes
  <2> QED  BY <1>1, <2>1 DEF BridgeTypes
<1>10. FeedIsSound'
  BY <1>1, FeedKept
<1>11. SocketsAreRight'
  <2>1. \A x : IsMessage(x) => IsMessage(x)'
    BY <1>1, MessagesKept
  <2>2. ASSUME NEW d \in Sockets, d # c PROVE SentWasPublished(d)' /\ AtWork(d)'
    <3>1. SameSocket(d)
      BY <1>1, <1>4, <2>2 DEF SameSocket, BridgeTypes
    <3> QED  BY <2>1, <3>1, SocketKept DEF SocketsAreRight
  <2>3. SentWasPublished(c)'
    BY <1>2, <1>3, <1>5, <1>7, <1>8, <2>1 DEF SentWasPublished
  <2>4. AtWork(c)'
    <3>1. endpoint'[c] = "replaying" /\ pump'[c] = pump[c] /\ pump[c] \notin {"created", "on"} /\ pos'[c] = pos[c]
      BY <1>1, <1>5 DEF BridgeTypes, AtWork
    <3>2. (\A i \in DOMAIN sending[c] : Occupied(c, sending[c][i]))'
      BY <1>1, <1>5, <1>7, <1>8, <3>1 DEF AtWork, Occupied
    <3> QED  BY <1>8, <3>1, <3>2 DEF AtWork
  <2> QED  BY <1>1, <2>2, <2>3, <2>4 DEF SocketsAreRight
<1>12. WindowsFollow'
  <2>1. ASSUME NEW v \in Windows, NEW d \in Sockets, conn'[v] = d, pump'[d] = "on"
        PROVE  conn[v] = d /\ pump[d] = "on" /\ SameView(v, d)
    <3>1. d # c
      BY <1>1, <1>5, <2>1 DEF AtWork
    <3> QED  BY <1>1, <1>4, <2>1, <3>1 DEF SameView, BridgeTypes
  <2> QED  BY <1>1, <2>1, WindowsKept
<1> QED  BY <1>9, <1>10, <1>11, <1>12

LEMMA DisconnectStep ==
  ASSUME BInv, NEW w \in Windows, Bridge!Disconnect(w)
  PROVE  BInv'
<1> USE DEF BInv
<1>1. /\ UNCHANGED <<feed, directives, sockets, latest, endpoint, replay, pump, pos, since, sending, round, view>>
      /\ conn' = [conn EXCEPT ![w] = NoSocket]
  BY DEF Bridge!Disconnect, Bridge!source, Bridge!server
<1>2. BridgeTypes'
  BY <1>1 DEF BridgeTypes
<1>3. FeedIsSound'
  BY <1>1, FeedKept
<1>4. \A v \in Windows : \A c \in Sockets : conn'[v] = c => conn[v] = c
  BY <1>1, SocketsAssumed DEF BridgeTypes
<1>5. SocketsAreRight'
  <2>1. \A m : IsMessage(m) => IsMessage(m)'
    BY <1>1, MessagesKept
  <2>2. ASSUME NEW c \in Sockets PROVE SentWasPublished(c)' /\ AtWork(c)'
    BY <1>1, <1>4, <2>1, SocketKept DEF SameSocket, SocketsAreRight
  <2> QED  BY <1>1, <2>2 DEF SocketsAreRight
<1>6. WindowsFollow'
  BY <1>1, <1>4, WindowsKept DEF SameView
<1> QED  BY <1>2, <1>3, <1>5, <1>6

LEMMA PumpStartsStep ==
  ASSUME BInv, NEW c \in Sockets, Bridge!PumpStarts(c)
  PROVE  BInv'
<1> USE DEF BInv
<1>1. /\ UNCHANGED <<feed, directives, sockets, latest, endpoint, replay, sending, round, conn, view>>
      /\ pump[c] = "created" /\ pump' = [pump EXCEPT ![c] = "on"]
      /\ pos' = [pos EXCEPT ![c] = Len(feed)] /\ since' = [since EXCEPT ![c] = Len(feed)]
  BY DEF Bridge!PumpStarts, Bridge!source, Bridge!client
<1>2. BridgeTypes'
  <2>1. Len(feed) \in 0..Len(feed)
    BY DEF BridgeTypes
  <2> QED  BY <1>1, <2>1 DEF BridgeTypes
<1>3. FeedIsSound'
  BY <1>1, FeedKept
<1>4. ~WaitsIn(sending[c], "pump")
  BY <1>1 DEF SocketsAreRight, AtWork, Occupied, WaitsIn
<1>5. SocketsAreRight'
  <2>1. \A m : IsMessage(m) => IsMessage(m)'
    BY <1>1, MessagesKept
  <2>2. ASSUME NEW d \in Sockets, d # c PROVE SentWasPublished(d)' /\ AtWork(d)'
    <3>1. SameSocket(d)
      BY <1>1, <2>2 DEF SameSocket, BridgeTypes
    <3> QED  BY <2>1, <3>1, SocketKept DEF SocketsAreRight
  <2>3. SentWasPublished(c)'
    BY <1>1, <2>1 DEF SentWasPublished, SocketsAreRight
  <2>4. AtWork(c)'
    <3>1. AtWork(c) /\ pump'[c] = "on"
      BY <1>1 DEF SocketsAreRight, BridgeTypes
    <3>2. (\A i \in DOMAIN sending[c] : Occupied(c, sending[c][i]))'
      BY <1>1, <1>4, <3>1 DEF AtWork, Occupied, WaitsIn
    <3> QED  BY <1>1, <3>1, <3>2 DEF AtWork
  <2> QED  BY <1>1, <2>2, <2>3, <2>4 DEF SocketsAreRight
<1>6. WindowsFollow'
  <2>1. ASSUME NEW w \in Windows, NEW d \in Sockets, conn'[w] = d, pump'[d] = "on"
        PROVE  Follows(w, d)'
    <3>1. CASE d # c
      <4>1. conn[w] = d /\ pump[d] = "on" /\ SameView(w, d)
        BY <1>1, <2>1, <3>1 DEF SameView, BridgeTypes
      <4> QED  BY <1>1, <4>1, ViewKept DEF WindowsFollow
    <3>2. CASE d = c
      <4>1. Delivered(d)' = Len(feed) /\ since'[d] = Len(feed)
        <5>1. pos'[d] = Len(feed) /\ since'[d] = Len(feed)
          BY <1>1, <3>2 DEF BridgeTypes
        <5>2. ~Bridge!Waits(d, "pump")'
          BY <1>1, <1>4, <3>2 DEF Bridge!Waits, WaitsIn
        <5> QED  BY <5>1, <5>2 DEF Delivered
      <4> HIDE DEF Delivered
      <4>2. view'[w].told <= Len(feed)
        BY <1>1 DEF BridgeTypes
      <4>3. Bridge!Current' \subseteq 1..Len(feed) /\ Len(feed) \in Nat
        BY <1>1 DEF Bridge!Current, BridgeTypes
      <4>4. view'[w].told <= Delivered(d)'
        BY <4>1, <4>2
      <4>5. ASSUME NEW n \in Bridge!Current', since'[d] < n, n <= Delivered(d)' PROVE FALSE
        BY <4>1, <4>3, <4>5
      <4> QED  BY <4>4, <4>5 DEF Follows
    <3> QED  BY <3>1, <3>2
  <2> QED  BY <2>1 DEF WindowsFollow
<1> QED  BY <1>2, <1>3, <1>5, <1>6

LEMMA PublishedStep ==
  ASSUME BInv, Bridge!Published
  PROVE  BInv'
<1> USE DEF BInv
<1>1. /\ UNCHANGED <<feed, directives, latest, endpoint, replay, pump, pos, since, sending, conn, view>>
      /\ sockets' = sockets \ round.dead /\ round' = Bridge!NoRound
  BY DEF Bridge!Published, Bridge!source, Bridge!client
<1>2. BridgeTypes'
  BY <1>1 DEF BridgeTypes, Bridge!NoRound
<1>3. FeedIsSound'
  BY <1>1, FeedKept
<1>4. SocketsAreRight'
  <2>1. \A m : IsMessage(m) => IsMessage(m)'
    BY <1>1, MessagesKept
  <2>2. ASSUME NEW c \in Sockets PROVE SentWasPublished(c)' /\ AtWork(c)'
    BY <1>1, <2>1, SocketKept DEF SameSocket, SocketsAreRight
  <2> QED  BY <1>1, <2>2 DEF SocketsAreRight, Bridge!NoRound
<1>5. WindowsFollow'
  BY <1>1, WindowsKept DEF SameView
<1> QED  BY <1>2, <1>3, <1>4, <1>5

LEMMA PublishToStep ==
  ASSUME BInv, NEW c \in Sockets, Bridge!PublishTo(c)
  PROVE  BInv'
<1> USE DEF BInv
<1>1. /\ UNCHANGED <<feed, directives, sockets, latest, endpoint, replay, pump, pos, since, conn, view>>
      /\ c \in round.left
      /\ \/ Bridge!Send(c, "publish", Bridge!Avatar(round.n)) /\ round' = [round EXCEPT !.left = @ \ {c}]
         \/ sending' = sending /\ round' = [round EXCEPT !.left = @ \ {c}, !.dead = @ \cup {c}]
  BY DEF Bridge!PublishTo, Bridge!source, Bridge!client
<1>2. /\ round' \in [n : 0..directives, left : SUBSET Sockets, dead : SUBSET Sockets, busy : BOOLEAN]
      /\ (round.left # {} => round.n # 0)'
  <2>1. round \in [n : 0..directives, left : SUBSET Sockets, dead : SUBSET Sockets, busy : BOOLEAN]
        /\ round.n # 0
    BY <1>1 DEF BridgeTypes, SocketsAreRight
  <2>2. \/ round' = [n |-> round.n, left |-> round.left \ {c}, dead |-> round.dead, busy |-> round.busy]
        \/ round' = [n |-> round.n, left |-> round.left \ {c}, dead |-> round.dead \cup {c}, busy |-> round.busy]
    BY <1>1, <2>1
  <2> QED  BY <2>1, <2>2
<1>3. FeedIsSound'
  BY <1>1, FeedKept
<1>4. /\ sending' \in [Sockets -> Seq(Lines)]
      /\ \A d \in Sockets : d # c => sending'[d] = sending[d]
      /\ Once(sending'[c])
      /\ \A i \in DOMAIN sending'[c] :
           \/ sending'[c][i] = [by |-> "publish", message |-> Bridge!Avatar(round.n)]
           \/ \E j \in DOMAIN sending[c] : sending'[c][i] = sending[c][j]
      /\ WaitsIn(sending'[c], "pump") <=> WaitsIn(sending[c], "pump")
  <2>0. Once(sending[c]) /\ sending \in [Sockets -> Seq(Lines)] /\ sending[c] \in Seq(Lines)
    BY DEF SocketsAreRight, AtWork, BridgeTypes
  <2> DEFINE e == [by |-> "publish", message |-> Bridge!Avatar(round.n)]
  <2>1. CASE Bridge!Send(c, "publish", Bridge!Avatar(round.n))
    <3>1. e \in Lines /\ e.by = "publish"
      BY DEF Lines, Bridge!Avatar, Bridge!Messages, BridgeTypes
    <3>2. sending' = [sending EXCEPT ![c] = Append(sending[c], e)]
      BY <2>1 DEF Bridge!Send
    <3> HIDE DEF e
    <3>3. /\ Append(sending[c], e) \in Seq(Lines) /\ Once(Append(sending[c], e))
          /\ \A i \in DOMAIN Append(sending[c], e) : Append(sending[c], e)[i] = e
               \/ \E j \in DOMAIN sending[c] : Append(sending[c], e)[i] = sending[c][j]
          /\ WaitsIn(Append(sending[c], e), "pump") <=> WaitsIn(sending[c], "pump")
      BY <2>0, <3>1, AppendLine
    <3>4. sending'[c] = Append(sending[c], e)
      BY <2>0, <3>2
    <3> QED  BY <2>0, <3>2, <3>3, <3>4 DEF e
  <2>2. CASE sending' = sending
    BY <2>0, <2>2
  <2> QED  BY <1>1, <2>1, <2>2
<1>5. BridgeTypes'
  BY <1>1, <1>2, <1>4 DEF BridgeTypes
<1>6. SocketsAreRight'
  <2>1. \A m : IsMessage(m) => IsMessage(m)'
    BY <1>1, MessagesKept
  <2>2. ASSUME NEW d \in Sockets, d # c PROVE SentWasPublished(d)' /\ AtWork(d)'
    <3>1. SameSocket(d)
      BY <1>1, <1>4, <2>2 DEF SameSocket
    <3> QED  BY <2>1, <3>1, SocketKept DEF SocketsAreRight
  <2>3. SentWasPublished(c) /\ AtWork(c)
    BY DEF SocketsAreRight
  <2>4. IsMessage(Bridge!Avatar(round.n))
    BY <1>1 DEF IsMessage, SocketsAreRight, BridgeTypes
  <2>5. SentWasPublished(c)'
    BY <1>1, <1>4, <2>1, <2>3, <2>4 DEF SentWasPublished
  <2>6. AtWork(c)'
    BY <1>1, <1>4, <2>3 DEF AtWork, Occupied, Bridge!Avatar
  <2> QED  BY <1>2, <2>2, <2>5, <2>6 DEF SocketsAreRight
<1>7. WindowsFollow'
  BY <1>1, <1>4, WindowsKept DEF SameView
<1> QED  BY <1>3, <1>5, <1>6, <1>7

LEMMA EndpointEndsStep ==
  ASSUME BInv, NEW c \in Sockets, Bridge!EndpointEnds(c)
  PROVE  BInv'
<1> USE DEF BInv
<1>1. /\ UNCHANGED <<feed, directives, latest, replay, pos, since, round, conn, view>>
      /\ endpoint[c] = "serving" /\ \A w \in Windows : conn[w] # c
      /\ endpoint' = [endpoint EXCEPT ![c] = "ended"] /\ pump' = [pump EXCEPT ![c] = "ended"]
      /\ sending' = [sending EXCEPT ![c] = Bridge!Without(sending[c], "pump")]
      /\ sockets' = sockets \ {c}
  BY DEF Bridge!EndpointEnds, Bridge!source, Bridge!client
<1> DEFINE t == Bridge!Without(sending[c], "pump")
<1>2. SentWasPublished(c) /\ AtWork(c) /\ sending[c] \in Seq(Lines)
  BY DEF SocketsAreRight, BridgeTypes
<1>3. t \in Seq(Lines) /\ From(t, sending[c]) /\ Once(t) /\ ~WaitsIn(t, "pump")
  BY <1>2, WithoutLine DEF AtWork
<1>4. sending' = [sending EXCEPT ![c] = t] /\ sending'[c] = t
  BY <1>1 DEF BridgeTypes
<1> HIDE DEF t
<1>5. BridgeTypes'
  BY <1>1, <1>3, <1>4 DEF BridgeTypes
<1>6. FeedIsSound'
  BY <1>1, FeedKept
<1>7. SocketsAreRight'
  <2>1. \A m : IsMessage(m) => IsMessage(m)'
    BY <1>1, MessagesKept
  <2>2. ASSUME NEW d \in Sockets, d # c PROVE SentWasPublished(d)' /\ AtWork(d)'
    <3>1. SameSocket(d)
      BY <1>1, <1>4, <2>2 DEF SameSocket, BridgeTypes
    <3> QED  BY <2>1, <3>1, SocketKept DEF SocketsAreRight
  <2>3. SentWasPublished(c)'
    BY <1>1, <1>2, <1>3, <1>4, <2>1 DEF SentWasPublished, From
  <2>4. AtWork(c)'
    <3>1. endpoint'[c] = "ended" /\ pump'[c] = "ended" /\ c \notin sockets'
      BY <1>1 DEF BridgeTypes
    <3>2. (\A i \in DOMAIN sending[c] : Occupied(c, sending[c][i]))'
      BY <1>1, <1>2, <1>3, <1>4, <3>1 DEF AtWork, Occupied, From, WaitsIn
    <3> QED  BY <1>3, <1>4, <3>1, <3>2 DEF AtWork
  <2> QED  BY <1>1, <2>2, <2>3, <2>4 DEF SocketsAreRight
<1>8. WindowsFollow'
  <2>1. ASSUME NEW v \in Windows, NEW d \in Sockets, conn'[v] = d, pump'[d] = "on"
        PROVE  conn[v] = d /\ pump[d] = "on" /\ SameView(v, d)
    <3>1. d # c
      BY <1>1, <2>1
    <3> QED  BY <1>1, <1>4, <2>1, <3>1 DEF SameView, BridgeTypes
  <2> QED  BY <1>1, <2>1, WindowsKept
<1> QED  BY <1>5, <1>6, <1>7, <1>8

\* Whoever holds the send lock of a socket, and the line behind it.
LEMMA HeadOfLine ==
  ASSUME BInv, NEW c \in Sockets, sending[c] # <<>>
  PROVE  /\ Tail(sending[c]) \in Seq(Lines) /\ From(Tail(sending[c]), sending[c]) /\ Once(Tail(sending[c]))
         /\ \A by \in {"endpoint", "pump"} :
              WaitsIn(Tail(sending[c]), by) <=> WaitsIn(sending[c], by) /\ by # Bridge!Writer(c)
         /\ Bridge!Writer(c) \in {"endpoint", "pump", "publish"} /\ WaitsIn(sending[c], Bridge!Writer(c))
         /\ Occupied(c, Head(sending[c])) /\ IsMessage(Head(sending[c]).message)
         /\ Head(sending[c]) \in Lines /\ Head(sending[c]).by = Bridge!Writer(c)
<1>1. SentWasPublished(c) /\ AtWork(c) /\ sending[c] \in Seq(Lines)
  BY DEF BInv, SocketsAreRight, BridgeTypes
<1> DEFINE s == sending[c]
<1>2. /\ Tail(s) \in Seq(Lines) /\ From(Tail(s), s) /\ Once(Tail(s))
      /\ Head(s) \in Lines /\ \E i \in DOMAIN s : s[i] = Head(s)
      /\ \A by \in {"endpoint", "pump"} : WaitsIn(Tail(s), by) <=> WaitsIn(s, by) /\ by # Head(s).by
  <2>1. s \in Seq(Lines) /\ s # <<>> /\ Once(s)
    BY <1>1 DEF AtWork
  <2> HIDE DEF s
  <2> QED  BY <2>1, TailLine
<1>3. PICK i \in DOMAIN s : s[i] = Head(s)
  BY <1>2
<1>4. Occupied(c, Head(s)) /\ IsMessage(Head(s).message) /\ WaitsIn(s, Head(s).by)
  BY <1>1, <1>3 DEF AtWork, SentWasPublished, WaitsIn
<1>5. Head(s).by \in {"endpoint", "pump", "publish"} /\ Head(s).by = Bridge!Writer(c)
  BY <1>2 DEF Lines, Bridge!Writer
<1> QED  BY <1>2, <1>4, <1>5

LEMMA WriteFailsStep ==
  ASSUME BInv, NEW c \in Sockets, Bridge!WriteFails(c)
  PROVE  BInv'
<1> USE DEF BInv
<1> DEFINE t == Tail(sending[c])
           by == Bridge!Writer(c)
<1>1. /\ UNCHANGED <<feed, directives, latest, replay, pos, since, conn, view>>
      /\ sending[c] # <<>> /\ \A w \in Windows : conn[w] # c
      /\ sending' = [sending EXCEPT ![c] = t]
      /\ sockets' = IF by = "publish" THEN sockets ELSE sockets \ {c}
      /\ endpoint' = IF by = "endpoint" THEN [endpoint EXCEPT ![c] = "ended"] ELSE endpoint
      /\ by # "endpoint" => pump' = IF by = "pump" THEN [pump EXCEPT ![c] = "ended"] ELSE pump
      /\ by = "endpoint" => pump' = pump
      /\ round' = round \/ round' = [round EXCEPT !.dead = @ \cup {c}]
  BY DEF Bridge!WriteFails, Bridge!source, Bridge!client
<1>2. SentWasPublished(c) /\ AtWork(c) /\ sending[c] \in Seq(Lines)
  BY DEF SocketsAreRight, BridgeTypes
<1>3. /\ t \in Seq(Lines) /\ From(t, sending[c]) /\ Once(t)
      /\ \A b \in {"endpoint", "pump"} : WaitsIn(t, b) <=> WaitsIn(sending[c], b) /\ b # by
      /\ by \in {"endpoint", "pump", "publish"} /\ WaitsIn(sending[c], by)
  BY <1>1, HeadOfLine
<1>4. sending'[c] = t
  BY <1>1 DEF BridgeTypes
<1> HIDE DEF t, by
<1>5. round' \in [n : 0..directives, left : SUBSET Sockets, dead : SUBSET Sockets, busy : BOOLEAN]
      /\ round'.n = round.n /\ round'.left = round.left
  <2>1. round \in [n : 0..directives, left : SUBSET Sockets, dead : SUBSET Sockets, busy : BOOLEAN]
    BY DEF BridgeTypes
  <2> QED  BY <1>1, <2>1
<1>6. BridgeTypes'
  <2>1. endpoint' \in [Sockets -> {"none", "replaying", "serving", "ended"}]
        /\ pump' \in [Sockets -> {"none", "created", "on", "ended"}]
    BY <1>1 DEF BridgeTypes
  <2>2. sending' \in [Sockets -> Seq(Lines)] /\ sockets' \subseteq Sockets
    BY <1>1, <1>3 DEF BridgeTypes
  <2> QED  BY <1>1, <1>5, <2>1, <2>2 DEF BridgeTypes
<1>7. FeedIsSound'
  BY <1>1, FeedKept
<1>8. \A d \in Sockets : d # c => sending'[d] = sending[d] /\ endpoint'[d] = endpoint[d] /\ pump'[d] = pump[d]
  BY <1>1, <1>3 DEF BridgeTypes
<1>9. SocketsAreRight'
  <2>1. \A m : IsMessage(m) => IsMessage(m)'
    BY <1>1, MessagesKept
  <2>2. ASSUME NEW d \in Sockets, d # c PROVE SentWasPublished(d)' /\ AtWork(d)'
    <3>1. SameSocket(d)
      BY <1>1, <1>8, <2>2 DEF SameSocket
    <3> QED  BY <2>1, <3>1, SocketKept DEF SocketsAreRight
  <2>3. SentWasPublished(c)'
    BY <1>1, <1>2, <1>3, <1>4, <2>1 DEF SentWasPublished, From
  <2>4. AtWork(c)'
    <3>1. /\ endpoint'[c] = IF by = "endpoint" THEN "ended" ELSE endpoint[c]
          /\ pump'[c] = IF by = "pump" THEN "ended" ELSE pump[c]
      BY <1>1, <1>3 DEF BridgeTypes
    <3>2. by = "endpoint" => endpoint[c] = "replaying" /\ pump[c] \notin {"created", "on"}
      BY <1>2, <1>3 DEF AtWork, Occupied, WaitsIn
    <3>3. (\A i \in DOMAIN sending[c] : Occupied(c, sending[c][i]))'
      BY <1>1, <1>2, <1>3, <1>4, <3>1 DEF AtWork, Occupied, From, WaitsIn
    <3>4. c \in sockets' => c \in sockets /\ by = "publish"
      BY <1>1
    <3> QED  BY <1>1, <1>2, <1>3, <1>4, <3>1, <3>2, <3>3, <3>4 DEF AtWork
  <2> QED  BY <1>5, <2>2, <2>3, <2>4 DEF SocketsAreRight
<1>10. WindowsFollow'
  <2>1. ASSUME NEW v \in Windows, NEW d \in Sockets, conn'[v] = d, pump'[d] = "on"
        PROVE  conn[v] = d /\ pump[d] = "on" /\ SameView(v, d)
    <3>1. d # c
      BY <1>1, <2>1
    <3> QED  BY <1>1, <1>8, <2>1, <3>1 DEF SameView
  <2> QED  BY <1>1, <2>1, WindowsKept
<1> QED  BY <1>6, <1>7, <1>9, <1>10

LEMMA PumpStep ==
  ASSUME BInv, NEW c \in Sockets, Bridge!Pump(c)
  PROVE  BInv'
<1> USE DEF BInv
<1> DEFINE n == pos[c] + 1
           e == [by |-> "pump", message |-> Bridge!Turn(n)]
<1>1. /\ UNCHANGED <<feed, directives, sockets, endpoint, replay, since, round, conn, view>>
      /\ pump[c] = "on" /\ ~Bridge!Waits(c, "pump") /\ pos[c] < Len(feed)
      /\ pos' = [pos EXCEPT ![c] = n]
      /\ latest' = latest \/ latest' = [latest EXCEPT !.turn = pos'[c]]
      /\ IF c \in sockets THEN Bridge!Send(c, "pump", Bridge!Turn(pos'[c])) /\ pump' = pump
                          ELSE pump' = [pump EXCEPT ![c] = "ended"] /\ sending' = sending
  BY DEF Bridge!Pump, Bridge!Remember, Bridge!source, Bridge!client
<1>2. pos[c] \in 0..Len(feed) /\ Len(feed) \in Nat /\ pos'[c] = n /\ n \in 1..Len(feed)
  BY <1>1 DEF BridgeTypes
<1>3. SentWasPublished(c) /\ AtWork(c) /\ sending \in [Sockets -> Seq(Lines)] /\ sending[c] \in Seq(Lines)
  BY DEF SocketsAreRight, BridgeTypes
<1>4. ~WaitsIn(sending[c], "pump")
  BY <1>1, WaitsFacts
<1>5. e \in Lines /\ IsMessage(e.message) /\ e.by = "pump" /\ e.message = Bridge!Turn(n)
  BY <1>2 DEF Lines, Bridge!Turn, Bridge!Messages, IsMessage
<1> HIDE DEF e
<1>6. /\ sending' \in [Sockets -> Seq(Lines)]
      /\ \A d \in Sockets : d # c => sending'[d] = sending[d] /\ pump'[d] = pump[d] /\ pos'[d] = pos[d]
      /\ pump' \in [Sockets -> {"none", "created", "on", "ended"}]
      /\ Once(sending'[c])
      /\ \A i \in DOMAIN sending'[c] :
           \/ sending'[c][i] = e /\ pump'[c] = "on"
           \/ \E j \in DOMAIN sending[c] : sending'[c][i] = sending[c][j]
      /\ pump'[c] = "on" => WaitsIn(sending'[c], "pump")
      /\ pump'[c] \in {"on", "ended"}
  <2>1. CASE c \in sockets
    <3>1. sending' = [sending EXCEPT ![c] = Append(sending[c], e)] /\ pump' = pump
      BY <1>1, <1>2, <2>1 DEF Bridge!Send, e
    <3>2. /\ Append(sending[c], e) \in Seq(Lines) /\ Once(Append(sending[c], e))
          /\ \A i \in DOMAIN Append(sending[c], e) : Append(sending[c], e)[i] = e
               \/ \E j \in DOMAIN sending[c] : Append(sending[c], e)[i] = sending[c][j]
          /\ WaitsIn(Append(sending[c], e), "pump")
      BY <1>3, <1>4, <1>5, AppendLine DEF AtWork
    <3>3. sending'[c] = Append(sending[c], e)
      BY <1>3, <3>1
    <3> QED  BY <1>1, <1>3, <3>1, <3>2, <3>3 DEF BridgeTypes
  <2>2. CASE c \notin sockets
    <3>1. pump' = [pump EXCEPT ![c] = "ended"] /\ sending' = sending
      BY <1>1, <2>2
    <3>2. /\ pump' \in [Sockets -> {"none", "created", "on", "ended"}] /\ pump'[c] = "ended"
          /\ \A d \in Sockets : d # c => sending'[d] = sending[d] /\ pump'[d] = pump[d]
      BY <3>1 DEF BridgeTypes
    <3>3. \A d \in Sockets : d # c => pos'[d] = pos[d]
      BY <1>1 DEF BridgeTypes
    <3>4. Once(sending[c])
      BY <1>3 DEF AtWork
    <3> QED  BY <1>3, <3>1, <3>2, <3>3, <3>4
  <2> QED  BY <2>1, <2>2
<1>7. BridgeTypes'
  <2>1. latest' \in [turn : 0..Len(feed), avatar : 0..directives]
    <3>1. latest \in [turn : 0..Len(feed), avatar : 0..directives]
      BY DEF BridgeTypes
    <3>2. latest' = latest \/ latest' = [turn |-> n, avatar |-> latest.avatar]
      BY <1>1, <1>2, <3>1
    <3> QED  BY <1>2, <3>1, <3>2
  <2>2. pos' \in [Sockets -> 0..Len(feed)]
    BY <1>1, <1>2 DEF BridgeTypes
  <2> QED  BY <1>1, <1>6, <2>1, <2>2 DEF BridgeTypes
<1>8. FeedIsSound'
  BY <1>1, FeedKept
<1>9. SocketsAreRight'
  <2>1. \A m : IsMessage(m) => IsMessage(m)'
    BY <1>1, MessagesKept
  <2>2. ASSUME NEW d \in Sockets, d # c PROVE SentWasPublished(d)' /\ AtWork(d)'
    <3>1. SameSocket(d)
      BY <1>1, <1>6, <2>2 DEF SameSocket
    <3> QED  BY <2>1, <3>1, SocketKept DEF SocketsAreRight
  <2>3. SentWasPublished(c)'
    BY <1>1, <1>3, <1>5, <1>6, <2>1 DEF SentWasPublished
  <2>4. AtWork(c)'
    <3>1. (\A i \in DOMAIN sending[c] : Occupied(c, sending[c][i]))'
      <4>1. ASSUME NEW i \in DOMAIN sending'[c] PROVE Occupied(c, sending[c][i])'
        <5>1. CASE sending'[c][i] = e /\ pump'[c] = "on"
          BY <1>2, <1>5, <5>1 DEF Occupied
        <5>2. CASE \E j \in DOMAIN sending[c] : sending'[c][i] = sending[c][j]
          BY <1>1, <1>3, <1>4, <5>2 DEF AtWork, Occupied, WaitsIn
        <5> QED  BY <1>6, <5>1, <5>2
      <4> QED  BY <4>1
    <3> QED  BY <1>1, <1>3, <1>6, <3>1 DEF AtWork
  <2> QED  BY <1>1, <2>2, <2>3, <2>4 DEF SocketsAreRight
<1>10. WindowsFollow'
  <2>1. ASSUME NEW w \in Windows, NEW d \in Sockets, conn'[w] = d, pump'[d] = "on"
        PROVE  Follows(w, d)'
    <3>1. Follows(w, d)
      <4>1. d # c => pump'[d] = pump[d]
        BY <1>6
      <4>2. conn[w] = d /\ pump[d] = "on"
        BY <1>1, <2>1, <4>1
      <4> QED  BY <4>2 DEF WindowsFollow
    <3>2. Delivered(d)' = Delivered(d)
      <4>1. CASE d # c
        BY <1>6, <4>1, DeliveredKept
      <4>2. CASE d = c
        <5>1. Bridge!Waits(d, "pump")'
          BY <1>6, <2>1, <4>2 DEF Bridge!Waits, WaitsIn
        <5>2. ~Bridge!Waits(d, "pump") /\ pos'[d] = pos[d] + 1 /\ pos[d] \in Nat
          BY <1>1, <1>2, <4>2
        <5>3. Delivered(d)' = pos'[d] - 1
          BY <5>1 DEF Delivered
        <5>4. Delivered(d) = pos[d]
          BY <5>2 DEF Delivered
        <5> QED  BY <5>2, <5>3, <5>4
      <4> QED  BY <4>1, <4>2
    <3> HIDE DEF Delivered
    <3> QED  BY <1>1, <3>1, <3>2 DEF Follows, IsNewest, Bridge!Current
  <2> QED  BY <2>1 DEF WindowsFollow
<1> QED  BY <1>7, <1>8, <1>9, <1>10

\* What a window shows once it was told of a turn's state.
LEMMA ToldOfTurn ==
  ASSUME BridgeTypes, FeedIsSound, NEW w \in Windows, NEW c \in Sockets, NEW n \in 1..Len(feed),
         Follows(w, c), Delivered(c) = n - 1
  PROVE  LET v == Bridge!Show(view[w], Bridge!Turn(n))
         IN /\ v.told = n
            /\ \A k \in Bridge!Current : since[c] < k /\ k <= n /\ feed[k].state = "thinking" =>
                 IsNewest(v.turn, n + 1)
<1> DEFINE v == Bridge!Show(view[w], Bridge!Turn(n))
           shows == \/ Bridge!Thinking(n)
                    \/ feed[n].state = "over" /\ (view[w].turn = 0 \/ Bridge!Number(view[w].turn) = Bridge!Number(n))
<1>1. view[w] \in [turn : 0..Len(feed), told : 0..Len(feed), avatar : 0..directives]
      /\ Len(feed) \in Nat /\ feed \in Seq([state : Bridge!States, turn : Nat])
  BY DEF BridgeTypes
<1>2. v.told = n /\ v.turn = IF shows THEN n ELSE view[w].turn
  BY <1>1 DEF Bridge!Show, Bridge!Turn
<1>3. Bridge!Current \subseteq 1..Len(feed) /\ feed[n] \in [state : Bridge!States, turn : Nat]
  <2>1. Bridge!Current \subseteq 1..Len(feed)
    BY <1>1 DEF Bridge!Current
  <2>2. feed[n] \in [state : Bridge!States, turn : Nat]
    BY <1>1, ElementOfSeq
  <2> QED  BY <2>1, <2>2
<1>4. feed[n].state \in {"thinking", "over", "rejected"} /\ (n \in Bridge!Current <=> feed[n].state # "rejected")
  BY <1>1, <1>3 DEF Bridge!States, Bridge!Current
<1> HIDE DEF v
<1>5. ASSUME NEW k \in Bridge!Current, since[c] < k, k <= n, feed[k].state = "thinking"
      PROVE  IsNewest(v.turn, n + 1)
  <2>1. CASE feed[n].state = "thinking"
    <3>1. v.turn = n
      BY <1>2, <2>1 DEF Bridge!Thinking
    <3> QED  BY <1>3, <1>4, <2>1, <3>1 DEF IsNewest
  <2>2. CASE feed[n].state # "thinking"
    <3>1. k <= n - 1 /\ n - 1 + 1 = n
      BY <1>3, <1>5, <2>2
    <3>2. IsNewest(view[w].turn, n)
      BY <1>5, <3>1 DEF Follows
    <3>3. CASE feed[n].state = "over"
      <4>1. view[w].turn \in 1..Len(feed)
        BY <1>3, <3>2 DEF IsNewest
      <4>2. feed[view[w].turn].turn = feed[n].turn
        BY <3>2, <3>3, <4>1 DEF FeedIsSound
      <4>3. v.turn = n
        BY <1>2, <3>3, <4>1, <4>2 DEF Bridge!Number
      <4> QED  BY <1>3, <1>4, <3>3, <4>3 DEF IsNewest
    <3>4. CASE feed[n].state = "rejected"
      <4>1. v.turn = view[w].turn
        BY <1>2, <3>4 DEF Bridge!Thinking
      <4>2. n \notin Bridge!Current
        BY <1>4, <3>4
      <4>3. \A j \in Bridge!Current : j < n + 1 => j < n
        BY <1>3, <4>2
      <4>4. view[w].turn \in Bridge!Current /\ view[w].turn < n + 1
        <5>1. view[w].turn \in Bridge!Current /\ view[w].turn < n
          BY <3>2 DEF IsNewest
        <5>2. view[w].turn \in Nat /\ n \in Nat
          BY <1>1, <1>3, <5>1
        <5> QED  BY <5>1, <5>2
      <4> QED  BY <3>2, <4>1, <4>3, <4>4 DEF IsNewest
    <3> QED  BY <1>4, <2>2, <3>3, <3>4
  <2> QED  BY <2>1, <2>2
<1> QED  BY <1>2, <1>5 DEF v

LEMMA TailFrom ==
  ASSUME NEW S, NEW s \in Seq(S), s # <<>>
  PROVE  /\ Tail(s) \in Seq(S) /\ From(Tail(s), s)
         /\ Head(s) \in S /\ \E i \in DOMAIN s : Head(s) = s[i]
<1>1. Len(s) \in Nat \ {0} /\ DOMAIN s = 1..Len(s) /\ Head(s) = s[1] /\ s[1] \in S
  OBVIOUS
<1>2. Tail(s) \in Seq(S) /\ Len(Tail(s)) = Len(s) - 1 /\ \A i \in 1..Len(Tail(s)) : Tail(s)[i] = s[i + 1]
  BY HeadTailProperties
<1>3. DOMAIN Tail(s) = 1..(Len(s) - 1)
  BY <1>2
<1>4. From(Tail(s), s)
  <2>1. ASSUME NEW i \in DOMAIN Tail(s) PROVE \E j \in DOMAIN s : Tail(s)[i] = s[j]
    <3>1. i + 1 \in DOMAIN s /\ Tail(s)[i] = s[i + 1]
      BY <1>1, <1>2, <1>3
    <3> QED  BY <3>1
  <2> QED  BY <2>1 DEF From
<1> QED  BY <1>1, <1>2, <1>4

LEMMA WrittenStep ==
  ASSUME BInv, NEW c \in Sockets, Bridge!Written(c)
  PROVE  BInv'
<1> USE DEF BInv
<1> DEFINE t == Tail(sending[c])
           m == Head(sending[c]).message
           by == Bridge!Writer(c)
<1>1. /\ UNCHANGED <<feed, directives, sockets, latest, pos, since, round, conn>>
      /\ sending[c] # <<>>
      /\ view' = [w \in Windows |-> IF conn[w] = c THEN Bridge!Show(view[w], m) ELSE view[w]]
      /\ by = "endpoint" => Bridge!NextReplay(c)
      /\ by # "endpoint" => sending' = [sending EXCEPT ![c] = t] /\ UNCHANGED <<endpoint, replay, pump>>
  BY DEF Bridge!Written, Bridge!source
<1>2. SentWasPublished(c) /\ AtWork(c) /\ sending \in [Sockets -> Seq(Lines)] /\ sending[c] \in Seq(Lines)
  BY DEF SocketsAreRight, BridgeTypes
<1>3. /\ t \in Seq(Lines) /\ From(t, sending[c]) /\ Once(t)
      /\ \A b \in {"endpoint", "pump"} : WaitsIn(t, b) <=> WaitsIn(sending[c], b) /\ b # by
      /\ by \in {"endpoint", "pump", "publish"} /\ WaitsIn(sending[c], by)
      /\ Occupied(c, Head(sending[c])) /\ Head(sending[c]).by = by
      /\ IsMessage(m)
  BY <1>1, HeadOfLine
<1>4. by = "endpoint" => endpoint[c] = "replaying" /\ pump[c] \notin {"created", "on"}
  BY <1>2, <1>3 DEF Occupied, AtWork
<1>5. by = "pump" => pump[c] = "on" /\ pos[c] # 0 /\ m = Bridge!Turn(pos[c])
  BY <1>3 DEF Occupied
<1>6. by = "publish" => m.type = "avatar"
  BY <1>3 DEF Occupied
<1> HIDE DEF t, m, by
\* What the step leaves of the socket.
<1>7. /\ endpoint' \in [Sockets -> {"none", "replaying", "serving", "ended"}]
      /\ pump' \in [Sockets -> {"none", "created", "on", "ended"}]
      /\ replay' \in [Sockets -> Seq(Bridge!Messages)] /\ sending' \in [Sockets -> Seq(Lines)]
      /\ \A d \in Sockets : d # c =>
           sending'[d] = sending[d] /\ endpoint'[d] = endpoint[d] /\ pump'[d] = pump[d] /\ replay'[d] = replay[d]
      /\ SentWasPublished(c)' /\ AtWork(c)'
      /\ pump'[c] = "on" => by # "endpoint" /\ pump[c] = "on"
      /\ by # "endpoint" => sending'[c] = t
  <2>0. \A x : IsMessage(x) => IsMessage(x)'
    BY <1>1, MessagesKept
  <2>1. CASE by # "endpoint"
    <3>1. UNCHANGED <<endpoint, replay, pump>> /\ sending' = [sending EXCEPT ![c] = t]
      BY <1>1, <2>1
    <3>2. sending'[c] = t /\ \A d \in Sockets : d # c => sending'[d] = sending[d]
      BY <1>2, <3>1
    <3>3. SentWasPublished(c)'
      BY <1>2, <1>3, <2>0, <3>1, <3>2 DEF SentWasPublished, From
    <3>4. AtWork(c)'
      BY <1>1, <1>2, <1>3, <3>1, <3>2 DEF AtWork, Occupied, From
    <3> QED  BY <1>2, <1>3, <2>1, <3>1, <3>2, <3>3, <3>4 DEF BridgeTypes
  <2>2. CASE by = "endpoint" /\ replay[c] = <<>>
    <3>1. /\ replay' = replay /\ sending' = [sending EXCEPT ![c] = t]
          /\ endpoint' = [endpoint EXCEPT ![c] = "serving"] /\ pump' = [pump EXCEPT ![c] = "created"]
      BY <1>1, <2>2 DEF Bridge!NextReplay, t
    <3>2. sending'[c] = t /\ endpoint'[c] = "serving" /\ pump'[c] = "created"
      BY <1>2, <3>1 DEF BridgeTypes
    <3>3. SentWasPublished(c)'
      BY <1>2, <1>3, <2>0, <3>1, <3>2 DEF SentWasPublished, From
    <3>4. AtWork(c)'
      <4>1. (\A i \in DOMAIN sending[c] : Occupied(c, sending[c][i]))'
        BY <1>1, <1>2, <1>3, <1>4, <2>2, <3>2 DEF AtWork, Occupied, From, WaitsIn
      <4> QED  BY <1>3, <3>2, <4>1 DEF AtWork
    <3> QED  BY <1>2, <1>3, <2>2, <3>1, <3>2, <3>3, <3>4 DEF BridgeTypes
  <2>3. CASE by = "endpoint" /\ replay[c] # <<>> /\ c \notin sockets
    <3>1. /\ replay' = [replay EXCEPT ![c] = Tail(@)] /\ sending' = [sending EXCEPT ![c] = t]
          /\ endpoint' = [endpoint EXCEPT ![c] = "ended"] /\ pump' = pump
      BY <1>1, <2>3 DEF Bridge!NextReplay, t
    <3>2. /\ replay[c] \in Seq(Bridge!Messages) /\ replay'[c] = Tail(replay[c])
          /\ sending'[c] = t /\ endpoint'[c] = "ended" /\ pump'[c] = pump[c]
      BY <1>2, <3>1 DEF BridgeTypes
    <3>3. Tail(replay[c]) \in Seq(Bridge!Messages) /\ From(Tail(replay[c]), replay[c])
      BY <2>3, <3>2, TailFrom
    <3>4. SentWasPublished(c)'
      BY <1>2, <1>3, <2>0, <3>2, <3>3 DEF SentWasPublished, From
    <3>5. AtWork(c)'
      <4>1. (\A i \in DOMAIN sending[c] : Occupied(c, sending[c][i]))'
        BY <1>1, <1>2, <1>3, <1>4, <2>3, <3>2 DEF AtWork, Occupied, From, WaitsIn
      <4> QED  BY <1>1, <1>3, <1>4, <2>3, <3>2, <4>1 DEF AtWork
    <3> QED  BY <1>2, <1>3, <1>4, <2>3, <3>1, <3>2, <3>3, <3>4, <3>5 DEF BridgeTypes
  <2>4. CASE by = "endpoint" /\ replay[c] # <<>> /\ c \in sockets
    <3> DEFINE e == [by |-> "endpoint", message |-> Head(replay[c])]
    <3>1. /\ replay' = [replay EXCEPT ![c] = Tail(@)] /\ sending' = [sending EXCEPT ![c] = Append(t, e)]
          /\ endpoint' = endpoint /\ pump' = pump
      BY <1>1, <2>4 DEF Bridge!NextReplay, t
    <3>2. /\ replay[c] \in Seq(Bridge!Messages) /\ replay'[c] = Tail(replay[c])
          /\ sending'[c] = Append(t, e)
      BY <1>2, <3>1 DEF BridgeTypes
    <3>3. /\ Tail(replay[c]) \in Seq(Bridge!Messages) /\ From(Tail(replay[c]), replay[c])
          /\ Head(replay[c]) \in Bridge!Messages /\ \E i \in DOMAIN replay[c] : Head(replay[c]) = replay[c][i]
      BY <2>4, <3>2, TailFrom
    <3>4. e \in Lines /\ e.by = "endpoint" /\ IsMessage(e.message)
      BY <1>2, <3>3 DEF Lines, SentWasPublished
    <3> HIDE DEF e
    <3>5. ~WaitsIn(t, "endpoint")
      BY <1>3, <2>4
    <3>6. /\ Append(t, e) \in Seq(Lines) /\ Once(Append(t, e))
          /\ \A i \in DOMAIN Append(t, e) : Append(t, e)[i] = e \/ \E j \in DOMAIN t : Append(t, e)[i] = t[j]
      BY <1>3, <3>4, <3>5, AppendLine
    <3>7. \A i \in DOMAIN sending'[c] : sending'[c][i] = e \/ \E j \in DOMAIN sending[c] : sending'[c][i] = sending[c][j]
      BY <1>3, <3>2, <3>6 DEF From
    <3>8. SentWasPublished(c)'
      BY <1>2, <2>0, <3>2, <3>3, <3>4, <3>7 DEF SentWasPublished, From
    <3>9. AtWork(c)'
      <4>1. (\A i \in DOMAIN sending[c] : Occupied(c, sending[c][i]))'
        BY <1>1, <1>2, <1>4, <2>4, <3>1, <3>4, <3>7 DEF AtWork, Occupied
      <4> QED  BY <1>1, <1>2, <3>1, <3>2, <3>6, <4>1 DEF AtWork
    <3> QED  BY <1>2, <1>4, <2>4, <3>1, <3>2, <3>3, <3>6, <3>8, <3>9 DEF BridgeTypes
  <2> QED  BY <2>1, <2>2, <2>3, <2>4
<1>8. ASSUME NEW w \in Windows
      PROVE  /\ view'[w] \in [turn : 0..Len(feed), told : 0..Len(feed), avatar : 0..directives]
             /\ conn[w] # c => view'[w] = view[w]
             /\ conn[w] = c => view'[w] = Bridge!Show(view[w], m)
  <2>1. view[w] \in [turn : 0..Len(feed), told : 0..Len(feed), avatar : 0..directives]
    BY DEF BridgeTypes
  <2>2. Bridge!Show(view[w], m) \in [turn : 0..Len(feed), told : 0..Len(feed), avatar : 0..directives]
    <3>1. CASE \E n \in 1..Len(feed) : m = Bridge!Turn(n)
      <4>1. m.type = "turn" /\ m.n \in 0..Len(feed)
        BY <3>1 DEF Bridge!Turn, BridgeTypes
      <4>2. Bridge!Show(view[w], m) = [view[w] EXCEPT !.told = m.n, !.turn = Bridge!Show(view[w], m).turn]
            /\ Bridge!Show(view[w], m).turn \in {m.n, view[w].turn}
        BY <2>1, <4>1 DEF Bridge!Show
      <4> QED  BY <2>1, <4>1, <4>2
    <3>2. CASE \E n \in 1..directives : m = Bridge!Avatar(n)
      <4>1. m.type = "avatar" /\ m.n \in 0..directives
        BY <3>2 DEF Bridge!Avatar, BridgeTypes
      <4>2. Bridge!Show(view[w], m) = [view[w] EXCEPT !.avatar = m.n]
        BY <4>1 DEF Bridge!Show
      <4> QED  BY <2>1, <4>1, <4>2
    <3>3. CASE m = Bridge!Status
      BY <2>1, <3>3 DEF Bridge!Show, Bridge!Status
    <3> QED  BY <1>3, <3>1, <3>2, <3>3 DEF IsMessage
  <2> QED  BY <1>1, <2>1, <2>2
<1>9. BridgeTypes'
  <2>1. view' \in [Windows -> [turn : 0..Len(feed), told : 0..Len(feed), avatar : 0..directives]]
    BY <1>1, <1>8
  <2> QED  BY <1>1, <1>7, <2>1 DEF BridgeTypes
<1>10. FeedIsSound'
  BY <1>1, FeedKept
<1>11. SocketsAreRight'
  <2>1. \A x : IsMessage(x) => IsMessage(x)'
    BY <1>1, MessagesKept
  <2>2. ASSUME NEW d \in Sockets, d # c PROVE SentWasPublished(d)' /\ AtWork(d)'
    <3>1. SameSocket(d)
      BY <1>1, <1>7, <2>2 DEF SameSocket
    <3> QED  BY <2>1, <3>1, SocketKept DEF SocketsAreRight
  <2> QED  BY <1>1, <1>7, <2>2 DEF SocketsAreRight
<1>12. WindowsFollow'
  <2>1. ASSUME NEW w \in Windows, NEW d \in Sockets, conn'[w] = d, pump'[d] = "on"
        PROVE  Follows(w, d)'
    <3>1. CASE d # c
      <4>1. sending'[d] = sending[d] /\ pump'[d] = pump[d] /\ view'[w] = view[w] /\ conn[w] = d
        BY <1>1, <1>7, <1>8, <2>1, <3>1
      <4>2. SameView(w, d)
        BY <1>1, <4>1 DEF SameView
      <4> QED  BY <1>1, <2>1, <4>1, <4>2, ViewKept DEF WindowsFollow
    <3>2. CASE d = c
      <4>1. /\ by # "endpoint" /\ sending'[d] = t /\ conn[w] = d /\ Follows(w, d)
            /\ view'[w] = Bridge!Show(view[w], m)
        BY <1>1, <1>7, <1>8, <2>1, <3>2 DEF WindowsFollow
      <4>2. CASE by = "publish"
        <5>1. view'[w].told = view[w].told /\ view'[w].turn = view[w].turn
          BY <1>6, <4>1, <4>2 DEF Bridge!Show, BridgeTypes
        <5>2. WaitsIn(sending'[d], "pump") <=> WaitsIn(sending[d], "pump")
          BY <1>3, <3>2, <4>1, <4>2
        <5>3. SameView(w, d)
          BY <1>1, <5>1, <5>2 DEF SameView
        <5> QED  BY <1>1, <4>1, <5>3, ViewKept
      <4>3. CASE by = "pump"
        <5>1. pos[d] \in 1..Len(feed) /\ Len(feed) \in Nat /\ m = Bridge!Turn(pos[d])
          BY <1>5, <3>2, <4>3 DEF BridgeTypes
        <5>2. Delivered(d) = pos[d] - 1
          BY <1>3, <3>2, <4>3, WaitsFacts DEF Delivered
        <5>3. Delivered(d)' = pos[d]
          <6>1. ~Bridge!Waits(d, "pump")'
            BY <1>3, <4>1, <4>3 DEF Bridge!Waits, WaitsIn
          <6> QED  BY <1>1, <6>1 DEF Delivered
        <5> HIDE DEF Delivered
        <5>4. /\ view'[w].told = pos[d]
              /\ \A k \in Bridge!Current : since[d] < k /\ k <= pos[d] /\ feed[k].state = "thinking" =>
                   IsNewest(view'[w].turn, pos[d] + 1)
          BY <4>1, <5>1, <5>2, ToldOfTurn
        <5>5. pos[d] <= pos[d]
          BY <5>1
        <5> QED  BY <1>1, <5>3, <5>4, <5>5 DEF Follows, IsNewest, Bridge!Current
      <4> QED  BY <1>3, <4>1, <4>2, <4>3
    <3> QED  BY <3>1, <3>2
  <2> QED  BY <2>1 DEF WindowsFollow
<1> QED  BY <1>9, <1>10, <1>11, <1>12

-----------------------------------------------------------------------------
(* What the bridge promises *)

LEMMA WindowsKeptAlone ==
  ASSUME BInv, UNCHANGED windowVars
  PROVE  BInv'
<1>1. UNCHANGED <<feed, directives, sockets, latest, endpoint, replay, pump, pos, since, sending, round, conn, view>>
  BY DEF windowVars
<1> USE DEF BInv
<1>2. BridgeTypes'
  BY <1>1 DEF BridgeTypes
<1>3. FeedIsSound'
  BY <1>1, FeedKept
<1>4. SocketsAreRight'
  <2>1. \A m : IsMessage(m) => IsMessage(m)'
    BY <1>1, MessagesKept
  <2>2. ASSUME NEW c \in Sockets PROVE SentWasPublished(c)' /\ AtWork(c)'
    BY <1>1, <2>1, SocketKept DEF SameSocket, SocketsAreRight
  <2> QED  BY <1>1, <2>2 DEF SocketsAreRight
<1>5. WindowsFollow'
  BY <1>1, WindowsKept DEF SameView
<1> QED  BY <1>2, <1>3, <1>4, <1>5

LEMMA BridgeStep ==
  ASSUME BInv, Bridge!Next
  PROVE  BInv'
<1>1. ASSUME NEW state \in Bridge!States, Bridge!PublishState(state) PROVE BInv'
  BY <1>1, PublishStateStep
<1>2. CASE Bridge!Publish
  BY <1>2, PublishStep
<1>3. ASSUME NEW w \in Windows, Bridge!Disconnect(w) PROVE BInv'
  BY <1>3, DisconnectStep
<1>4. ASSUME NEW w \in Windows, NEW c \in Sockets, Bridge!Connect(w, c) PROVE BInv'
  BY <1>4, ConnectStep
<1>5. CASE Bridge!Writing
  BY <1>5, WrittenStep, WriteFailsStep DEF Bridge!Writing
<1>6. CASE Bridge!Pumping
  BY <1>6, PumpStartsStep, PumpStep DEF Bridge!Pumping
<1>7. CASE Bridge!Publishing
  BY <1>7, PublishedStep, PublishToStep DEF Bridge!Publishing
<1>8. CASE Bridge!Ending
  BY <1>8, EndpointEndsStep DEF Bridge!Ending
<1> QED  BY <1>1, <1>2, <1>3, <1>4, <1>5, <1>6, <1>7, <1>8 DEF Bridge!Next

LEMMA PartsKeepWindows ==
  ASSUME BInv, [PartsNext]_<<all, part, windowVars>>
  PROVE  BInv'
BY BridgeStep, WindowsKeptAlone DEF PartsNext

LEMMA SocketsServed == BInv => Bridge!SocketsAreServed
BY DEF BInv, SocketsAreRight, BridgeTypes, AtWork, Bridge!SocketsAreServed

\* A step tells a window of a turn's state only through the pump of its socket.
LEMMA ToldInOrder ==
  ASSUME BInv, [PartsNext]_<<all, part, windowVars>>,
         NEW w \in Windows, conn[w] # NoSocket, conn'[w] = conn[w], endpoint[conn[w]] = "serving"
  PROVE  view'[w].told >= view[w].told
<1>1. view[w].told \in Nat
  BY DEF BInv, BridgeTypes
<1>2. CASE view' = view
  BY <1>1, <1>2
<1>3. ASSUME NEW c \in Sockets, Bridge!Written(c) PROVE view'[w].told >= view[w].told
  <2> DEFINE m == Head(sending[c]).message
             by == Bridge!Writer(c)
  <2>1. sending[c] # <<>> /\ view'[w] = IF conn[w] = c THEN Bridge!Show(view[w], m) ELSE view[w]
    BY <1>3 DEF Bridge!Written
  <2>2. /\ by \in {"endpoint", "pump", "publish"} /\ WaitsIn(sending[c], by)
        /\ by = "endpoint" => endpoint[c] = "replaying"
        /\ by = "pump" => pump[c] = "on" /\ m = Bridge!Turn(pos[c])
        /\ by = "publish" => m.type = "avatar"
    BY <2>1, HeadOfLine DEF Occupied
  <2> HIDE DEF m, by
  <2>3. CASE conn[w] # c
    BY <1>1, <2>1, <2>3
  <2>4. CASE conn[w] = c /\ by = "publish"
    BY <1>1, <2>1, <2>2, <2>4 DEF Bridge!Show, BInv, BridgeTypes
  <2>5. CASE conn[w] = c /\ by = "pump"
    <3>1. view[w].told <= pos[c] - 1
      BY <2>2, <2>5, WaitsFacts DEF BInv, WindowsFollow, Follows, Delivered
    <3>2. view'[w].told = pos[c]
      BY <2>1, <2>2, <2>5 DEF Bridge!Show, Bridge!Turn, BInv, BridgeTypes
    <3>3. pos[c] \in Nat
      BY DEF BInv, BridgeTypes
    <3> QED  BY <1>1, <3>1, <3>2, <3>3
  <2> QED  BY <2>2, <2>3, <2>4, <2>5
<1>4. Bridge!Next => view' = view \/ \E c \in Sockets : Bridge!Written(c)
  <2> USE DEF Bridge!server, Bridge!client
  <2>1. ASSUME NEW state \in Bridge!States PROVE Bridge!PublishState(state) => view' = view
    BY DEF Bridge!PublishState
  <2>2. Bridge!Publish => view' = view
    BY DEF Bridge!Publish
  <2>3. \A v \in Windows : Bridge!Disconnect(v) => view' = view
    BY DEF Bridge!Disconnect
  <2>4. \A v \in Windows : \A c \in Sockets : Bridge!Connect(v, c) => view' = view
    BY DEF Bridge!Connect
  <2>5. \A c \in Sockets : Bridge!WriteFails(c) => view' = view
    BY DEF Bridge!WriteFails
  <2>6. Bridge!Pumping => view' = view
    BY DEF Bridge!Pumping, Bridge!PumpStarts, Bridge!Pump
  <2>7. Bridge!Publishing => view' = view
    BY DEF Bridge!Publishing, Bridge!Published, Bridge!PublishTo
  <2>8. Bridge!Ending => view' = view
    BY DEF Bridge!Ending, Bridge!EndpointEnds
  <2> QED  BY <2>1, <2>2, <2>3, <2>4, <2>5, <2>6, <2>7, <2>8 DEF Bridge!Next, Bridge!Writing
<1>5. CASE Bridge!Next
  BY <1>2, <1>3, <1>4, <1>5
<1> QED  BY <1>2, <1>5 DEF PartsNext, windowVars

LEMMA LockedRight == BInv => Bridge!LockedWhileThinking
<1> SUFFICES ASSUME BInv, NEW w \in Windows, Bridge!Idle, conn[w] # NoSocket, Bridge!Settled(conn[w]),
                    NEW n \in Bridge!Current, n > since[conn[w]], feed[n].state = "thinking"
             PROVE  view[w].turn = Bridge!Newest
  BY DEF Bridge!LockedWhileThinking, Bridge!At
<1> DEFINE c == conn[w]
<1>1. c \in Sockets /\ pump[c] = "on" /\ pos[c] = Len(feed) /\ Len(feed) \in Nat /\ since[c] \in Nat
  BY DEF BInv, BridgeTypes, Bridge!Settled
<1>2. Delivered(c) = Len(feed)
  BY <1>1 DEF Delivered, Bridge!Idle, Bridge!Waits
<1> HIDE DEF Delivered
<1>3. n \in 1..Len(feed)
  BY DEF Bridge!Current
<1>4. IsNewest(view[w].turn, Len(feed) + 1)
  <2>1. Follows(w, c)
    BY <1>1 DEF BInv, WindowsFollow
  <2> QED  BY <1>1, <1>2, <1>3, <2>1 DEF Follows
<1> QED  BY <1>4, NewestFacts DEF BInv

LEMMA BridgeTyped == BInv => Bridge!TypeOK
BY DEF BInv, BridgeTypes, Lines, Bridge!TypeOK

-----------------------------------------------------------------------------
(* What the user is shown *)

LEMMA DirectorFollows == IInv => DirectorIsFollowed
<1> SUFFICES ASSUME IInv, life = "on", ~lost PROVE Coming = director
  BY DEF DirectorIsFollowed
<1>1. CASE Pending = {}
  BY <1>1 DEF IInv, Followed, Coming
<1>2. CASE Pending # {}
  <2>1. PICK i \in DOMAIN line : IsLast(i) /\ line[i].directive.state = director
    BY <1>2 DEF IInv, Followed
  <2> DEFINE c == CHOOSE k \in Pending : \A j \in Pending : j <= k
  <2>2. c \in Pending /\ \A j \in Pending : j <= c
    BY <2>1 DEF IsLast
  <2>3. Coming = line[c].directive.state
    BY <1>2 DEF Coming
  <2> HIDE DEF c
  <2>4. Pending \subseteq Nat
    BY LineFacts DEF IInv, Pending
  <2>5. c = i
    BY <2>1, <2>2, <2>4 DEF IsLast
  <2> QED  BY <2>1, <2>3, <2>5
<1> QED  BY <1>1, <1>2

LEMMA DisplayFollows == IInv => DisplayIsRight
BY DEF IInv, DisplayIsRight, DisplayIsCurrent, TargetIsLoaded, Displayed, Locked, Shapes

LEMMA Partwise == PartsSpec => [](CInv /\ BInv)
<1>1. PartsInit => CInv /\ BInv
  BY ConversationStarts, BridgeInit
<1>2. CInv /\ BInv /\ [PartsNext]_<<all, part, windowVars>> => CInv' /\ BInv'
  <2> SUFFICES ASSUME CInv, BInv, [PartsNext]_<<all, part, windowVars>> PROVE CInv' /\ BInv'
    OBVIOUS
  <2>1. CInv'
    BY PartsKeepAvatar
  <2>2. BInv'
    BY PartsKeepWindows
  <2> QED  BY <2>1, <2>2
<1> QED  BY <1>1, <1>2, PTL DEF PartsSpec

\* The variables of the director, the orchestrator and the windows keep their types.
THEOREM AvatarTyped == PartsSpec => []AvatarTypes
<1>1. CInv /\ BInv => AvatarTypes
  BY BridgeTyped DEF CInv, IInv, AvatarTypes
<1> QED  BY <1>1, Partwise, PTL

\* What will be displayed when everybody in line is through is what the director decided
\* last, however its consumer, its timers and the requests interleave.
THEOREM DirectorFollowed == PartsSpec => []DirectorIsFollowed
<1>1. CInv => DirectorIsFollowed
  BY DirectorFollows DEF CInv
<1> QED  BY <1>1, Partwise, PTL

\* Outside the lock the renderer in use displays the current directive, also one that was swapped
\* in or loads another pack, unless that mirrors a directive which is no longer current; and no directive reaches a renderer that is not loaded or is shut down.
THEOREM DisplayRight == PartsSpec => []DisplayIsRight
<1>1. CInv => DisplayIsRight
  BY DisplayFollows DEF CInv
<1> QED  BY <1>1, Partwise, PTL

\* Once everything is digested the avatar thinks while the model does, also where an older voice ends
\* only then, speaks while a neutral turn's utterance plays, and never speaks when nothing is heard,
\* however the voice, the user who speaks over it and the dispatcher interleave; and a window whose pump has caught up
\* shows the newest state, with its controls locked exactly while a turn is active.
THEOREM TurnsShown == PartsSpec => []TurnsAreShown
<1>1. CInv /\ BInv => TurnsAreShown
  <2> SUFFICES ASSUME CInv, BInv PROVE TurnsAreShown
    OBVIOUS
  <2>1. part = "conversation" => TurnIsShown
    BY DigestedShows DEF CInv
  <2>2. Bridge!LockedWhileThinking
    BY LockedRight
  <2> QED  BY <2>1, <2>2 DEF TurnsAreShown
<1> QED  BY <1>1, Partwise, PTL

\* The windows, whatever connects, breaks and is published meanwhile: whoever is registered is served,
\* and a window is told of turn states in the order of their publication.
THEOREM WindowsServed == PartsSpec => WindowsAreServed
<1>1. BInv => Bridge!SocketsAreServed
  BY SocketsServed
<1> DEFINE Order == \A w \in Windows :
                      /\ conn[w] # NoSocket /\ conn'[w] = conn[w] /\ endpoint[conn[w]] = "serving"
                      => view'[w].told >= view[w].told
<1>2. BInv /\ [PartsNext]_<<all, part, windowVars>> => [Order]_(Bridge!vars)
  <2> SUFFICES ASSUME BInv, [PartsNext]_<<all, part, windowVars>> PROVE Order
    OBVIOUS
  <2> QED  BY ToldInOrder
<1> HIDE DEF Order
<1>3. PartsSpec => []Bridge!SocketsAreServed
  BY <1>1, Partwise, PTL
<1>4. PartsSpec => [][Order]_(Bridge!vars)
  BY <1>2, Partwise, PTL DEF PartsSpec
<1> QED  BY <1>3, <1>4 DEF WindowsAreServed, Bridge!StatesInOrder, Order
=============================================================================
