---------------------------- MODULE PortsProofs ----------------------------
(***************************************************************************)
(* The parts of MCPorts: a reply is one answer of one model; the settings  *)
(* are those the user was told; a frame is lost for a stated reason only;  *)
(* the outcome of a task is the last that is told of it; and every         *)
(* variable keeps its type.  The playback lane is in PlaybackLaneProofs.   *)
(*                                                                         *)
(* A generation: its chunks are those of the attempt it is at, and it has  *)
(* none while it may still go on to another (Single); what it has asked    *)
(* for follows failures only (Ordered).                                    *)
(*                                                                         *)
(* The settings: requests at work on the same ones have marked each other  *)
(* (Contested), so that each knows of the rest how far it has come with    *)
(* them and what they were before (Midway).                                *)
(*                                                                         *)
(* The link: while the queue is full, the frame in hand is not the newest  *)
(* (LInv).  The task: its outcome is decided once, and how far it has been *)
(* told follows from what waits to be told (Telling).                      *)
(***************************************************************************)
EXTENDS MCPorts, PlaybackLaneProofs, SequenceTheorems, TLAPS

-----------------------------------------------------------------------------
(* The language models *)

\* What a chunk tells of where it came from.
Chunks == [attempt : Nat, adapter : Backends, model : Model!Models]

\* The variables that no attempt changes, and those that an attempt does.
Wired ==
  /\ wiring \in {"switchboard", "router"} /\ active \in Backends
  /\ settings \in [Backends -> Model!Settings] /\ closed \in BOOLEAN
  /\ user \in [Model!Generations -> {"turn", "memory"}]
  /\ chosen \in [Model!Generations -> Backends]
  /\ changes \in 0..MaxChanges

Attempted ==
  /\ generation \in [Model!Generations -> Model!Stages]
  /\ attempt \in [Model!Generations -> 0..Model!Last]
  /\ model \in [Model!Generations -> Model!Models]
  /\ why \in [Model!Generations -> [Model!Numbers -> {"none"} \cup Model!Errors]]
  /\ called \in [Model!Generations -> SUBSET (1..Model!Last)]
  /\ out \in [Model!Generations -> Seq(Chunks)]
  /\ \A g \in Model!Generations : Len(out[g]) <= MaxChunks

\* A chunk of the attempt that generation g is at.
Latest(g) ==
  [attempt |-> attempt[g], adapter |-> Model!Adapter(chosen[g], attempt[g]), model |-> model[g]]

\* The consumer has chunks of the present attempt only, and none before that one was answered.
Single ==
  \A g \in Model!Generations :
    /\ \A i \in DOMAIN out[g] : out[g][i] = Latest(g)
    /\ generation[g] \in {"idle", "opening", "pausing"} => out[g] = <<>>

\* An attempt that has been begun, and one that a pause leads to, follow failures on the way.
Ordered ==
  \A g \in Model!Generations :
    /\ called[g] \subseteq 1..attempt[g]
    /\ \A k \in called[g] : \A j \in 1..(k - 1) : why[g][j] = "transport"
    /\ generation[g] # "idle" => attempt[g] \in 1..Model!Last
    /\ generation[g] \in {"opening", "streaming"} =>
         \A j \in 1..(attempt[g] - 1) : why[g][j] = "transport"
    /\ generation[g] = "pausing" =>
         attempt[g] < Model!Last /\ \A j \in 1..attempt[g] : why[g][j] = "transport"
    /\ generation[g] = "idle" => called[g] = {} /\ attempt[g] = 0

MInv == Wired /\ Attempted /\ Single /\ Ordered

-----------------------------------------------------------------------------
\* What the assumptions on the constants say of the attempts and the backends.
LEMMA Counting ==
  /\ Attempts \in Nat \ {0} /\ Model!Numbers = 1..(2 * Attempts)
  /\ Primary \in Backends /\ Fallback \in Backends /\ MemoryBackend \in Backends
  /\ MaxChunks \in Nat /\ MaxChanges \in Nat /\ MaxGenerations \in Nat
BY PortsAssumption DEF Model!BoundsAssumption, Model!Numbers

\* The attempts are counted up to the last, and the fallback is one of them.
LEMMA Limits ==
  ASSUME wiring \in {"switchboard", "router"}
  PROVE  /\ Model!Last \in Nat \ {0} /\ 1..Model!Last \subseteq Model!Numbers
         /\ \A k \in 1..Model!Last : Model!HandsOver(k) => k + 1 \in 1..Model!Last
BY Counting DEF Model!Last, Model!HandsOver

\* Where an attempt that is begun gets to: no further than the last one, with every attempt it
\* passes over failed on the way.
LEMMA Reaching ==
  ASSUME Wired, NEW b \in Backends, NEW k \in 1..Model!Last
  PROVE  \E n \in k..Model!Last, s \in {"opening", "auth", "pausing", "transport"} :
           /\ Model!Reached(b, k) = [attempt |-> n, stage |-> s]
           /\ s = "pausing" => n < Model!Last
<1> DEFINE Ends(r) == \E n \in k..Model!Last, s \in {"opening", "auth", "pausing", "transport"} :
                        r = [attempt |-> n, stage |-> s] /\ (s = "pausing" => n < Model!Last)
<1>1. ASSUME NEW j \in k..Model!Last
      PROVE  Ends(Model!Comes(b, j))
  <2>1. Model!Last \in Nat /\ k \in Nat /\ j \in Nat /\ j <= Model!Last
    BY Limits DEF Wired
  <2>2. CASE Model!Refusal(Model!Adapter(b, j)) = "none"
    <3>1. Model!Comes(b, j) = [attempt |-> j, stage |-> "opening"]
      BY <2>2 DEF Model!Comes
    <3> QED  BY <3>1
  <2>3. CASE Model!Refusal(Model!Adapter(b, j)) = "auth"
    <3>1. Model!Comes(b, j) = [attempt |-> j, stage |-> "auth"]
      BY <2>3 DEF Model!Comes
    <3> QED  BY <3>1
  <2>4. CASE Model!Refusal(Model!Adapter(b, j)) \notin {"none", "auth"}
    <3>1. Model!Comes(b, j) = [attempt |-> j, stage |-> IF j = Model!Last THEN "transport" ELSE "pausing"]
      BY <2>4 DEF Model!Comes, Model!Failed
    <3> QED  BY <3>1, <2>1
  <2> QED  BY <2>2, <2>3, <2>4
<1>2. k \in k..Model!Last /\ (Model!HandsOver(k) => k + 1 \in k..Model!Last)
  BY Limits DEF Wired
<1>3. Ends(Model!Reached(b, k))
  BY <1>1, <1>2 DEF Model!Reached
<1> QED  BY <1>3

\* A generation goes on to an attempt that follows failures only, and has no chunk yet.
LEMMA GoesOn ==
  ASSUME MInv, NEW g \in Model!Generations, NEW b \in Backends,
         NEW n \in 1..Model!Last, NEW s \in {"opening", "auth", "pausing", "transport"},
         NEW k \in 1..(n + 1), NEW w \in [Model!Numbers -> {"none"} \cup Model!Errors],
         Model!Goes(g, b, [attempt |-> n, stage |-> s], k, w),
         s = "pausing" => n < Model!Last, attempt[g] <= n, out[g] = <<>>,
         \A j \in 1..(k - 1) : w[j] = "transport",
         UNCHANGED <<wiring, settings, out>>,
         \A h \in Model!Generations : h # g => chosen'[h] = chosen[h]
  PROVE  Attempted' /\ Single' /\ Ordered'
<1> DEFINE r == [attempt |-> n, stage |-> s]
           y == [j \in Model!Numbers |->
                   IF j < k \/ j > n THEN w[j]
                   ELSE IF j < n \/ s \in {"pausing", "transport"} THEN "transport"
                   ELSE IF s = "auth" THEN "auth" ELSE "none"]
<1>0. Model!Last' = Model!Last /\ Model!Last \in Nat \ {0} /\ 1..Model!Last \subseteq Model!Numbers
  BY Limits DEF MInv, Wired, Model!Last
<1>1. /\ generation' = [generation EXCEPT ![g] = s]
      /\ attempt' = [attempt EXCEPT ![g] = n]
      /\ \E m \in Model!Models : model' = [model EXCEPT ![g] = m]
      /\ called' = [called EXCEPT ![g] = IF s = "opening" THEN @ \cup {n} ELSE @]
      /\ why' = [why EXCEPT ![g] = y]
  <2>1. Model!Adapter(b, n) \in Backends
    BY Counting DEF Model!Adapter
  <2>2. settings[Model!Adapter(b, n)].model \in Model!Models
    BY <2>1 DEF MInv, Wired, Model!Settings
  <2>3. model[g] \in Model!Models /\ model = [model EXCEPT ![g] = model[g]]
    BY DEF MInv, Attempted
  <2>4. called = [called EXCEPT ![g] = called[g]]
    BY DEF MInv, Attempted
  <2>5. \E m \in Model!Models : model' = [model EXCEPT ![g] = m]
    BY <2>2, <2>3 DEF Model!Goes
  <2> QED  BY <2>5, <2>4 DEF Model!Goes
<1>2. PICK m \in Model!Models : model' = [model EXCEPT ![g] = m]
  BY <1>1
<1>3. /\ y \in [Model!Numbers -> {"none"} \cup Model!Errors]
      /\ \A j \in 1..(n - 1) : y[j] = "transport"
      /\ s = "pausing" => \A j \in 1..n : y[j] = "transport"
  BY <1>0, Counting DEF Model!Errors
<1> HIDE DEF y
<1>5. called[g] \subseteq 1..attempt[g] /\ attempt[g] \in Nat
  BY <1>0 DEF MInv, Attempted, Ordered
<1>6. called'[g] \subseteq 1..n
  BY <1>1, <1>5 DEF MInv, Attempted
<1>7. Attempted'
  <2>1. called'[g] \in SUBSET (1..Model!Last)
    BY <1>6, <1>0
  <2> QED  BY <1>0, <1>1, <1>2, <1>3, <2>1 DEF MInv, Attempted, Model!Numbers, Model!Stages, Model!Errors
<1>8. Single'
  <2>1. \A h \in Model!Generations : h # g => generation'[h] = generation[h] /\ Latest(h)' = Latest(h)
    BY <1>1, <1>2 DEF MInv, Attempted, Latest, Model!Adapter
  <2> QED  BY <2>1 DEF MInv, Single
<1>9. Ordered'
  <2>1. \A h \in Model!Generations : h # g =>
          /\ generation'[h] = generation[h] /\ attempt'[h] = attempt[h]
          /\ called'[h] = called[h] /\ why'[h] = why[h]
    BY <1>1 DEF MInv, Attempted
  <2>2. generation'[g] = s /\ attempt'[g] = n /\ why'[g] = y
    BY <1>1 DEF MInv, Attempted
  <2>3. \A x \in called'[g] : \A j \in 1..(x - 1) : j \in 1..(n - 1)
    BY <1>6
  <2> QED  BY <1>0, <1>3, <1>6, <2>1, <2>2, <2>3 DEF MInv, Ordered
<1> QED  BY <1>7, <1>8, <1>9

\* An attempt that fails for good leaves the generation where it is.
LEMMA GivesUp ==
  ASSUME MInv, NEW g \in Model!Generations, NEW e \in Model!Errors,
         generation[g] \in {"opening", "streaming"},
         Model!Goes(g, chosen[g], [attempt |-> attempt[g], stage |-> e], attempt[g] + 1,
                    [why[g] EXCEPT ![attempt[g]] = e]),
         UNCHANGED <<wiring, chosen, out>>
  PROVE  Attempted' /\ Single' /\ Ordered'
<1> DEFINE n == attempt[g]
           y == [why[g] EXCEPT ![n] = e]
<1>0. Model!Last' = Model!Last /\ Model!Last \in Nat \ {0} /\ 1..Model!Last \subseteq Model!Numbers
  BY Limits DEF MInv, Wired, Model!Last
<1>1. n \in 1..Model!Last /\ n \in Nat
  BY <1>0 DEF MInv, Ordered
<1>2. y \in [Model!Numbers -> {"none"} \cup Model!Errors] /\ \A j \in 1..(n - 1) : y[j] = why[g][j]
  BY <1>0, <1>1 DEF MInv, Attempted
<1>3. y = [j \in Model!Numbers |->
             IF j < n + 1 \/ j > n THEN y[j]
             ELSE IF j < n \/ e \in {"pausing", "transport"} THEN "transport"
             ELSE IF e = "auth" THEN "auth" ELSE "none"]
  <2>1. \A j \in Model!Numbers : j < n + 1 \/ j > n
    BY <1>1, Counting
  <2> QED  BY <1>2, <2>1
<1>4. e \in {"auth", "transport"}
  BY DEF Model!Errors
<1> HIDE DEF y
<1>5. /\ generation' = [generation EXCEPT ![g] = e] /\ attempt' = [attempt EXCEPT ![g] = n]
      /\ model' = model /\ called' = called /\ why' = [why EXCEPT ![g] = y]
  BY <1>3, <1>4 DEF Model!Goes, y
<1>6. attempt' = attempt
  BY <1>5 DEF MInv, Attempted
<1>7. Attempted'
  BY <1>0, <1>2, <1>5, <1>6, <1>4 DEF MInv, Attempted, Model!Numbers, Model!Stages, Model!Errors
<1>8. Single'
  BY <1>4, <1>5, <1>6 DEF MInv, Attempted, Single, Latest, Model!Adapter
<1>9. Ordered'
  <2>1. \A h \in Model!Generations : h # g => generation'[h] = generation[h] /\ why'[h] = why[h]
    BY <1>5 DEF MInv, Attempted
  <2>2. generation'[g] = e /\ why'[g] = y
    BY <1>5 DEF MInv, Attempted
  <2>3. \A x \in called[g] : \A j \in 1..(x - 1) : j \in 1..(n - 1)
    BY <1>1 DEF MInv, Ordered
  <2> QED  BY <1>0, <1>1, <1>2, <1>4, <1>5, <1>6, <2>1, <2>2, <2>3 DEF MInv, Ordered
<1> QED  BY <1>7, <1>8, <1>9

\* Every step of the language models keeps the invariant.
LEMMA ModelStep ==
  ASSUME MInv, [Model!Next]_modelVars
  PROVE  MInv'
<1>0. Model!Last \in Nat \ {0} /\ 1..Model!Last \subseteq Model!Numbers
  BY Limits DEF MInv, Wired
<1>1. ASSUME NEW g \in Model!Generations, NEW u \in {"turn", "memory"}, Model!Begin(g, u)
      PROVE  MInv'
  <2> DEFINE b == IF u = "turn" THEN active ELSE MemoryBackend
  <2>1. b \in Backends
    BY Counting DEF MInv, Wired
  <2> HIDE DEF b
  <2>2. /\ Model!Goes(g, b, Model!Reached(b, 1), 1, why[g])
        /\ generation[g] = "idle" /\ user' = [user EXCEPT ![g] = u]
        /\ chosen' = [chosen EXCEPT ![g] = b]
        /\ UNCHANGED <<wiring, active, settings, closed, out, changes>>
    BY <1>1 DEF Model!Begin, Model!Try, b
  <2>3. PICK n \in 1..Model!Last, s \in {"opening", "auth", "pausing", "transport"} :
          /\ Model!Reached(b, 1) = [attempt |-> n, stage |-> s]
          /\ s = "pausing" => n < Model!Last
    BY <2>1, <1>0, Reaching DEF MInv
  <2>4. Attempted' /\ Single' /\ Ordered'
    <3>1. attempt[g] <= n /\ out[g] = <<>> /\ 1 \in 1..(n + 1)
      BY <2>2, <1>0 DEF MInv, Single, Ordered
    <3>2. why[g] \in [Model!Numbers -> {"none"} \cup Model!Errors] /\ \A j \in 1..(1 - 1) : why[g][j] = "transport"
      BY DEF MInv, Attempted
    <3>3. \A h \in Model!Generations : h # g => chosen'[h] = chosen[h]
      BY <2>2 DEF MInv, Wired
    <3>4. Model!Goes(g, b, [attempt |-> n, stage |-> s], 1, why[g])
      BY <2>2, <2>3
    <3> QED  BY <2>1, <2>2, <2>3, <3>1, <3>2, <3>3, <3>4, GoesOn
  <2>5. Wired'
    BY <2>1, <2>2 DEF MInv, Wired
  <2> QED  BY <2>4, <2>5 DEF MInv
<1>2. ASSUME NEW g \in Model!Generations, Model!Retry(g)
      PROVE  MInv'
  <2>1. /\ Model!Goes(g, chosen[g], Model!Reached(chosen[g], attempt[g] + 1), attempt[g] + 1, why[g])
        /\ generation[g] = "pausing"
        /\ UNCHANGED <<wiring, active, settings, closed, user, chosen, out, changes>>
    BY <1>2 DEF Model!Retry, Model!Try
  <2>2. chosen[g] \in Backends /\ attempt[g] + 1 \in 1..Model!Last /\ attempt[g] \in Nat
    BY <2>1, <1>0 DEF MInv, Wired, Ordered
  <2>3. PICK n \in (attempt[g] + 1)..Model!Last, s \in {"opening", "auth", "pausing", "transport"} :
          /\ Model!Reached(chosen[g], attempt[g] + 1) = [attempt |-> n, stage |-> s]
          /\ s = "pausing" => n < Model!Last
    BY <2>2, Reaching DEF MInv
  <2>4. Attempted' /\ Single' /\ Ordered'
    <3>1. /\ attempt[g] <= n /\ out[g] = <<>> /\ attempt[g] + 1 \in 1..(n + 1)
          /\ n \in 1..Model!Last
      BY <2>1, <2>2, <1>0 DEF MInv, Single
    <3>2. /\ why[g] \in [Model!Numbers -> {"none"} \cup Model!Errors]
          /\ \A j \in 1..((attempt[g] + 1) - 1) : why[g][j] = "transport"
      BY <2>1, <2>2 DEF MInv, Attempted, Ordered
    <3>4. Model!Goes(g, chosen[g], [attempt |-> n, stage |-> s], attempt[g] + 1, why[g])
      BY <2>1, <2>3
    <3> QED  BY <2>1, <2>2, <2>3, <3>1, <3>2, <3>4, GoesOn
  <2>5. Wired'
    BY <2>1 DEF MInv, Wired
  <2> QED  BY <2>4, <2>5 DEF MInv
<1>3. ASSUME NEW g \in Model!Generations, NEW e \in Model!Errors, Model!Fails(g, e)
      PROVE  MInv'
  <2> DEFINE n == attempt[g]
             w == [why[g] EXCEPT ![n] = e]
  <2>1. /\ generation[g] \in {"opening", "streaming"}
        /\ UNCHANGED <<wiring, active, settings, closed, user, chosen, out, changes>>
    BY <1>3 DEF Model!Fails
  <2>2. Wired' /\ chosen[g] \in Backends
    BY <2>1 DEF MInv, Wired
  <2>3. n \in 1..Model!Last /\ n \in Nat /\ \A j \in 1..(n - 1) : why[g][j] = "transport"
    BY <2>1, <1>0 DEF MInv, Ordered
  <2>4. CASE Model!Fatal(g, e)
    <3>1. Model!Goes(g, chosen[g], [attempt |-> n, stage |-> e], n + 1, w)
      BY <1>3, <2>4 DEF Model!Fails
    <3> QED  BY <2>1, <2>2, <3>1, GivesUp DEF MInv
  <2>5. CASE ~Model!Fatal(g, e)
    <3>1. e = "transport" /\ out[g] = <<>>
      <4>1. e = "transport" /\ \A i \in DOMAIN out[g] : out[g][i].attempt # n
        BY <2>5 DEF Model!Fatal, Model!Emitted, Model!Errors
      <4>2. \A i \in DOMAIN out[g] : out[g][i] = Latest(g)
        BY DEF MInv, Single
      <4>3. Latest(g).attempt = n
        BY DEF Latest
      <4>4. DOMAIN out[g] = {}
        BY <4>1, <4>2, <4>3
      <4>5. Len(out[g]) \in Nat /\ DOMAIN out[g] = 1..Len(out[g]) /\ out[g] \in Seq(Chunks)
        BY DEF MInv, Attempted
      <4>6. Len(out[g]) = 0
        <5>1. Len(out[g]) >= 1 => 1 \in DOMAIN out[g]
          BY <4>5
        <5> QED  BY <4>4, <4>5, <5>1
      <4> QED  BY <4>1, <4>5, <4>6, EmptySeq
    <3>2. w \in [Model!Numbers -> {"none"} \cup Model!Errors] /\ \A j \in 1..n : w[j] = "transport"
      BY <2>3, <1>0, <3>1 DEF MInv, Attempted
    <3>3. ASSUME NEW r, Model!Goes(g, chosen[g], r, n + 1, w),
                 NEW m \in n..Model!Last, NEW s \in {"opening", "auth", "pausing", "transport"},
                 r = [attempt |-> m, stage |-> s], s = "pausing" => m < Model!Last
          PROVE  MInv'
      <4>1. m \in 1..Model!Last /\ n + 1 \in 1..(m + 1) /\ n <= m
        BY <2>3, <1>0
      <4>2. \A j \in 1..((n + 1) - 1) : w[j] = "transport"
        BY <2>3, <3>2
      <4>3. Attempted' /\ Single' /\ Ordered'
        <5> HIDE DEF w
        <5> QED  BY <2>1, <2>2, <3>1, <3>2, <3>3, <4>1, <4>2, GoesOn
      <4> QED  BY <2>2, <4>3 DEF MInv
    <3>4. CASE Model!HandsOver(n)
      <4>1. n + 1 \in 1..Model!Last
        BY <2>3, <3>4, Limits DEF MInv, Wired
      <4>2. PICK m \in (n + 1)..Model!Last, s \in {"opening", "auth", "pausing", "transport"} :
              /\ Model!Reached(chosen[g], n + 1) = [attempt |-> m, stage |-> s]
              /\ s = "pausing" => m < Model!Last
        BY <2>2, <4>1, Reaching DEF MInv
      <4>3. m \in n..Model!Last
        BY <2>3, <1>0
      <4>4. Model!Goes(g, chosen[g], Model!Reached(chosen[g], n + 1), n + 1, w)
        BY <1>3, <2>5, <3>4 DEF Model!Fails
      <4> QED  BY <3>3, <4>2, <4>3, <4>4
    <3>5. CASE ~Model!HandsOver(n)
      <4>1. Model!Goes(g, chosen[g], Model!Failed(n), n + 1, w)
        BY <1>3, <2>5, <3>5 DEF Model!Fails
      <4>2. n = Model!Last \/ n < Model!Last
        BY <2>3, <1>0
      <4>3. n \in n..Model!Last
        BY <2>3, <1>0
      <4>4. CASE n = Model!Last
        <5>1. Model!Failed(n) = [attempt |-> n, stage |-> "transport"]
          BY <4>4 DEF Model!Failed
        <5> QED  BY <3>3, <4>1, <4>3, <5>1
      <4>5. CASE n < Model!Last
        <5>1. Model!Failed(n) = [attempt |-> n, stage |-> "pausing"]
          BY <4>5, <2>3, <1>0 DEF Model!Failed
        <5> QED  BY <3>3, <4>1, <4>3, <4>5, <5>1
      <4> QED  BY <4>2, <4>4, <4>5
    <3> QED  BY <3>4, <3>5
  <2> QED  BY <2>4, <2>5
<1>4. ASSUME NEW g \in Model!Generations,
             \/ Model!Cancel(g)
             \/ Model!Opened(g)
             \/ Model!Finish(g)
      PROVE  MInv'
  <2>1. PICK s \in {"cancelled", "streaming", "done"} :
          /\ generation' = [generation EXCEPT ![g] = s]
          /\ s = "streaming" => generation[g] = "opening"
          /\ generation[g] # "idle"
    BY <1>4 DEF Model!Cancel, Model!Opened, Model!Finish, Model!Suspended
  <2>2. UNCHANGED <<wiring, active, settings, closed, user, chosen, attempt, model, why, called, out, changes>>
    BY <1>4 DEF Model!Cancel, Model!Opened, Model!Finish
  <2>3. Wired' /\ Attempted' /\ Model!Last' = Model!Last
    BY <2>1, <2>2 DEF MInv, Wired, Attempted, Model!Last, Model!Stages
  <2>4. Single'
    BY <2>1, <2>2 DEF MInv, Attempted, Single, Latest, Model!Adapter
  <2>5. Ordered'
    <3>1. \A h \in Model!Generations : generation'[h] = IF h = g THEN s ELSE generation[h]
      BY <2>1 DEF MInv, Attempted
    <3> QED  BY <2>1, <2>2, <2>3, <3>1 DEF MInv, Ordered
  <2> QED  BY <2>3, <2>4, <2>5 DEF MInv
<1>5. ASSUME NEW g \in Model!Generations, Model!Chunk(g)
      PROVE  MInv'
  <2>1. /\ generation[g] = "streaming" /\ Len(out[g]) < MaxChunks
        /\ out' = [out EXCEPT ![g] = Append(@, Latest(g))]
        /\ UNCHANGED <<wiring, active, settings, closed, generation, user, chosen, attempt, model,
                       why, called, changes>>
    BY <1>5 DEF Model!Chunk, Latest
  <2>2. out[g] \in Seq(Chunks) /\ Latest(g) \in Chunks
    <3>1. Model!Adapter(chosen[g], attempt[g]) \in Backends
      BY Counting DEF MInv, Wired, Model!Adapter
    <3>2. attempt[g] \in Nat /\ model[g] \in Model!Models
      BY <1>0 DEF MInv, Attempted
    <3> QED  BY <3>1, <3>2 DEF MInv, Attempted, Latest, Chunks
  <2> DEFINE q == Append(out[g], Latest(g))
  <2>3. /\ q \in Seq(Chunks) /\ Len(q) <= MaxChunks
        /\ \A i \in DOMAIN q : q[i] = Latest(g)
    <3>1. /\ q \in Seq(Chunks) /\ Len(q) = Len(out[g]) + 1 /\ q[Len(out[g]) + 1] = Latest(g)
          /\ \A i \in 1..Len(out[g]) : q[i] = out[g][i]
      BY <2>2
    <3>2. DOMAIN q = 1..(Len(out[g]) + 1) /\ Len(out[g]) \in Nat /\ DOMAIN out[g] = 1..Len(out[g])
      BY <3>1, <2>2
    <3> QED  BY <2>1, <3>1, <3>2, Counting DEF MInv, Single
  <2> HIDE DEF q
  <2>4. out' = [out EXCEPT ![g] = q]
    BY <2>1 DEF q
  <2>5. Wired' /\ Attempted' /\ Model!Last' = Model!Last
    BY <2>1, <2>3, <2>4 DEF MInv, Wired, Attempted, Model!Last
  <2>6. Single'
    <3>1. \A h \in Model!Generations : Latest(h)' = Latest(h) /\ out'[h] = IF h = g THEN q ELSE out[h]
      BY <2>1, <2>4 DEF MInv, Attempted, Latest, Model!Adapter
    <3> QED  BY <2>1, <2>3, <3>1 DEF MInv, Single
  <2>7. Ordered'
    BY <2>1, <2>5 DEF MInv, Ordered
  <2> QED  BY <2>5, <2>6, <2>7 DEF MInv
<1>6. ASSUME active' \in Backends, settings' \in [Backends -> Model!Settings], closed' \in BOOLEAN,
             changes' \in 0..MaxChanges,
             UNCHANGED <<wiring, generation, user, chosen, attempt, model, why, called, out>>
      PROVE  MInv'
  <2>1. Wired' /\ Attempted' /\ Model!Last' = Model!Last
    BY <1>6 DEF MInv, Wired, Attempted, Model!Last
  <2>2. Single'
    BY <1>6 DEF MInv, Single, Latest, Model!Adapter
  <2>3. Ordered'
    BY <1>6, <2>1 DEF MInv, Ordered
  <2> QED  BY <2>1, <2>2, <2>3 DEF MInv
<1>7. ASSUME NEW b \in Backends, NEW s \in Model!Settings, Model!SetAdapter(b, s)
      PROVE  MInv'
  BY <1>6, <1>7, Counting DEF Model!SetAdapter, Model!Changed, MInv, Wired
<1>8. ASSUME NEW b \in Backends,
             \/ Model!Select(b) \/ Model!SetKey(b) \/ Model!ClearKey(b)
             \/ \E m \in Model!Models : Model!SelectModel(b, m)
             \/ \E on \in BOOLEAN : Model!SetWebSearch(b, on)
      PROVE  MInv'
  <2>1. settings[b] \in Model!Settings
    BY DEF MInv, Wired
  <2>2. CASE Model!Select(b)
    BY <2>2, <1>6, Counting DEF Model!Select, Model!Changed, MInv, Wired
  <2>3. CASE Model!SetKey(b)
    <3>1. [settings[b] EXCEPT !.key = "session"] \in Model!Settings
      BY <2>1 DEF Model!Settings, Model!Keys
    <3> QED  BY <3>1, <2>3, <1>7 DEF Model!SetKey
  <2>4. CASE Model!ClearKey(b)
    <3>1. [settings[b] EXCEPT !.key = IF settings[b].environment THEN "environment" ELSE "missing"]
            \in Model!Settings
      BY <2>1 DEF Model!Settings, Model!Keys
    <3> QED  BY <3>1, <2>4, <1>7 DEF Model!ClearKey
  <2>5. ASSUME NEW m \in Model!Models, Model!SelectModel(b, m)
        PROVE  MInv'
    <3>1. [settings[b] EXCEPT !.model = m] \in Model!Settings
      BY <2>1 DEF Model!Settings
    <3> QED  BY <3>1, <2>5, <1>7 DEF Model!SelectModel
  <2>6. ASSUME NEW on \in BOOLEAN, Model!SetWebSearch(b, on)
        PROVE  MInv'
    <3>1. [settings[b] EXCEPT !.web = on] \in Model!Settings
      BY <2>1 DEF Model!Settings
    <3> QED  BY <3>1, <2>6, <1>7 DEF Model!SetWebSearch
  <2> QED  BY <1>8, <2>2, <2>3, <2>4, <2>5, <2>6
<1>9. CASE Model!Close
  BY <1>9, <1>6 DEF Model!Close, MInv, Wired
<1>10. CASE UNCHANGED modelVars
  BY <1>10, <1>6 DEF modelVars, MInv, Wired
<1> QED  BY <1>1, <1>2, <1>3, <1>4, <1>5, <1>8, <1>9, <1>10 DEF Model!Next, Model!Answer

\* Nothing has been asked for when the language models are put together.
LEMMA ModelStarts == Model!Init => MInv
<1> SUFFICES ASSUME Model!Init PROVE MInv
  OBVIOUS
<1>1. Model!Last \in Nat
  BY Limits DEF Model!Init
<1>2. <<>> \in Seq(Chunks) /\ Len(<<>>) = 0 /\ DOMAIN <<>> = {}
  OBVIOUS
<1>3. Wired
  <2>1. settings \in [Backends -> Model!Settings]
    BY DEF Model!Init
  <2>2. changes \in 0..MaxChanges
    BY Counting DEF Model!Init
  <2> QED  BY <2>1, <2>2, Counting DEF Wired, Model!Init
<1>4. Attempted
  BY <1>1, <1>2, Counting DEF Attempted, Model!Init, Model!Stages, Model!Models
<1>5. Single /\ Ordered
  BY <1>2 DEF Single, Ordered, Model!Init
<1> QED  BY <1>3, <1>4, <1>5 DEF MInv

\* At any moment what a consumer has is of one attempt, with the adapter and the model of that
\* attempt, and a further attempt has been made for a reason only.
THEOREM AnswersAreOne == PortsSpec => []OneAnswer
<1>1. PortsInit => MInv
  BY ModelStarts DEF PortsInit
<1>2. MInv /\ [PortsNext]_portVars => MInv'
  BY ModelStep DEF PortsNext, portVars
<1>3. MInv => OneAnswer
  <2> SUFFICES ASSUME MInv PROVE Model!OneAnswer /\ Model!AskedAgainForAReason
    BY DEF OneAnswer
  <2>1. ASSUME NEW g \in Model!Generations, NEW i \in DOMAIN out[g]
        PROVE  /\ out[g][i] = out[g][1] /\ out[g][i].attempt = attempt[g]
               /\ out[g][i].model = model[g]
               /\ wiring = "switchboard" => out[g][i].adapter = chosen[g]
    <3>1. 1 \in DOMAIN out[g]
      BY <2>1 DEF MInv, Attempted
    <3>2. out[g][i] = Latest(g) /\ out[g][1] = Latest(g)
      BY <2>1, <3>1 DEF MInv, Single
    <3> QED  BY <3>2 DEF Latest, Model!Adapter
  <2>2. Model!OneAnswer
    BY <2>1 DEF Model!OneAnswer
  <2>3. Model!AskedAgainForAReason
    <3> SUFFICES ASSUME NEW g \in Model!Generations, NEW k \in called[g], NEW j \in 1..(k - 1)
                 PROVE  why[g][j] = "transport" /\ \A i \in DOMAIN out[g] : out[g][i].attempt # j
      BY DEF Model!AskedAgainForAReason
    <3>1. k \in 1..attempt[g] /\ attempt[g] \in Nat
      BY Limits DEF MInv, Wired, Attempted, Ordered
    <3>2. j < attempt[g]
      BY <3>1
    <3> QED  BY <2>1, <3>1, <3>2 DEF MInv, Ordered
  <2> QED  BY <2>2, <2>3
<1> QED  BY <1>1, <1>2, <1>3, PTL DEF PortsSpec

-----------------------------------------------------------------------------
(* The saved settings *)

\* The values of the settings.
Some == {"profile", "chosen", "remote", "reference", "bare", "local", "hindsight"}

\* The settings that a request puts in force before it answers.
Shared == Saved!Voice \cup {"pack"}

VoiceStages == {"setting", "set", "undoing", "undone"}

Companions == {{"pack", "personality", "appearance"}, {"pack", "personality", "appearance", "clone"}}

Asked == [stage : VoiceStages \cup {"none", "loading", "showing", "over"},
          wants : SUBSET Saved!Keys, value : {"profile", "chosen"},
          old : UNION {[w -> Some] : w \in SUBSET Saved!Keys}, at : Saved!Keys \cup {"none"},
          fought : SUBSET Saved!Keys]

Stored ==
  /\ overlay \in [Saved!Keys -> Some \cup {"unset"}]
  /\ force \in [Saved!Keys -> Some] /\ told \in [Saved!Keys -> Some]
  /\ astray \subseteq Saved!Keys
  /\ request \in [Saved!Requests -> Asked]
  /\ \A r \in Saved!Requests : request[r].fought \subseteq request[r].wants

\* A setting that nobody is excused for is what the user was told, where it is saved and, but for
\* what a request has in hand, where it is used.
InHand(k) == k \in Shared /\ \E r \in Saved!Requests : Saved!Busy(r) /\ k \in request[r].wants

Agreed ==
  \A k \in Saved!Keys \ astray :
    /\ Saved!Merged(overlay)[k] = told[k]
    /\ Saved!Up /\ k \in Saved!Live => force[k] = told[k] \/ InHand(k)

\* What two requests want at the same time is contested for both.
Contested ==
  \A r, q \in Saved!Requests :
    r # q /\ Saved!Busy(r) /\ Saved!Busy(q) =>
      request[r].wants \cap request[q].wants \subseteq request[r].fought

\* The settings that a request has set, or put back.
Past(q, k) == k \notin Saved!After(q.at) /\ (k = q.at => q.stage \in {"set", "undone"})

\* How far request q has come with what is its own alone, when the program uses the settings
\* used, the user was told those of said, and excused are the settings nobody answers for.
Midway(q, used, said, excused) ==
  /\ q.fought \cap Shared \subseteq excused
  /\ q.stage \in VoiceStages =>
       /\ q.wants \subseteq Saved!Voice /\ q.at \in q.wants /\ DOMAIN q.old = q.wants
       /\ \A k \in q.wants \ q.fought :
            /\ k \notin excused => q.old[k] = said[k]
            /\ Past(q, k) => IF q.stage \in {"setting", "set"} THEN used[k] = q.value
                             ELSE used[k] = q.old[k] \/ k \in excused
  /\ q.stage = "loading" =>
       /\ q.wants \in {{"pack"}} \cup Companions
       /\ "pack" \notin q.fought \cup excused => used["pack"] = said["pack"]
  /\ q.stage = "showing" =>
       q.wants = {"pack"} /\ ("pack" \notin q.fought => used["pack"] = q.value)

SInv ==
  /\ Stored /\ Agreed /\ Contested
  /\ \A r \in Saved!Requests : Saved!Busy(r) => Saved!Up /\ Midway(request[r], force, told, astray)

-----------------------------------------------------------------------------
\* Which settings take effect when; their sets do not overlap.
LEMMA KeySets ==
  /\ Saved!Voice = {"wake", "stt", "pause"} /\ Shared = {"wake", "stt", "pause", "pack"}
  /\ Saved!Chosen = {"backend", "model", "web_search", "presentation"}
  /\ Saved!Live = {"backend", "model", "web_search", "presentation", "wake", "stt", "pause",
                   "pack", "personality", "appearance"}
  /\ Saved!AtStart = {"memory", "clone"}
  /\ Saved!Keys = Saved!Live \cup {"memory", "clone"}
BY DEF Saved!Voice, Shared, Saved!Chosen, Saved!Live, Saved!AtStart, Saved!Keys

\* What is in the hands of one request is left to it.
LEMMA Undisturbed ==
  ASSUME NEW q \in Asked, q.fought \subseteq q.wants,
         NEW used, NEW said, NEW excused, NEW used2, NEW said2, NEW excused2,
         Midway(q, used, said, excused),
         \A k \in q.wants \ q.fought : k \in Shared =>
           used2[k] = used[k] /\ said2[k] = said[k] /\ (k \in excused2 <=> k \in excused),
         q.fought \cap Shared \subseteq excused2
  PROVE  Midway(q, used2, said2, excused2)
<1>1. Saved!Voice \subseteq Shared /\ "pack" \in Shared
  BY KeySets
<1>2. \A w \in Companions : "pack" \in w
  BY DEF Companions
<1>3. CASE q.stage \in VoiceStages
  <2>1. q.stage \notin {"loading", "showing"}
    BY <1>3 DEF VoiceStages
  <2>2. /\ q.wants \subseteq Saved!Voice /\ q.at \in q.wants /\ DOMAIN q.old = q.wants
        /\ \A k \in q.wants \ q.fought :
             /\ k \notin excused => q.old[k] = said[k]
             /\ Past(q, k) => IF q.stage \in {"setting", "set"} THEN used[k] = q.value
                              ELSE used[k] = q.old[k] \/ k \in excused
    BY <1>3 DEF Midway
  <2>3. \A k \in q.wants \ q.fought : k \in Shared
    BY <1>1, <2>2
  <2> QED  BY <2>1, <2>2, <2>3 DEF Midway
<1>4. CASE q.stage \notin VoiceStages
  BY <1>1, <1>2, <1>4 DEF Midway
<1> QED  BY <1>3, <1>4

\* A step of a request that is at work keeps the invariant if it leaves the settings of others
\* alone, stays excused for what it shares, and has told the user of what it leaves behind.
LEMMA Works ==
  ASSUME SInv, NEW r \in Saved!Requests, Saved!Busy(r), NEW x \in Asked,
         request' = [request EXCEPT ![r] = x],
         x.fought \subseteq x.wants,
         x.stage = "over" \/ (x.stage # "none" /\ x.wants = request[r].wants
                              /\ x.fought = request[r].fought),
         x.stage # "over" => Midway(x, force', told', astray'),
         UNCHANGED running,
         overlay' \in [Saved!Keys -> Some \cup {"unset"}],
         force' \in [Saved!Keys -> Some], told' \in [Saved!Keys -> Some], astray' \subseteq Saved!Keys,
         \A k \in Saved!Keys \ request[r].wants :
           /\ overlay'[k] = overlay[k] /\ force'[k] = force[k] /\ told'[k] = told[k]
           /\ k \in astray' <=> k \in astray,
         request[r].fought \cap Shared \subseteq astray',
         \A k \in request[r].wants \ astray' :
           /\ Saved!Merged(overlay')[k] = told'[k]
           /\ k \in Saved!Live => force'[k] = told'[k] \/ (k \in Shared /\ x.stage # "over")
  PROVE  SInv'
<1>1. /\ request'[r] = x
      /\ \A q \in Saved!Requests : q # r => request'[q] = request[q]
      /\ \A q \in Saved!Requests : q # r => (Saved!Busy(q)' <=> Saved!Busy(q))
      /\ Saved!Busy(r)' <=> x.stage # "over"
  BY DEF SInv, Stored, Saved!Busy
<1>2. Stored'
  BY <1>1 DEF SInv, Stored
<1>3. Contested'
  <2> SUFFICES ASSUME NEW p \in Saved!Requests, NEW q \in Saved!Requests, p # q,
                      Saved!Busy(p)', Saved!Busy(q)'
               PROVE  request'[p].wants \cap request'[q].wants \subseteq request'[p].fought
    BY DEF Contested
  <2>1. Saved!Busy(p) /\ Saved!Busy(q)
    BY <1>1
  <2>2. /\ request'[p].wants = request[p].wants /\ request'[p].fought = request[p].fought
        /\ request'[q].wants = request[q].wants
    BY <1>1
  <2> QED  BY <2>1, <2>2 DEF SInv, Contested
<1>4. Saved!Up'
  BY DEF SInv, Saved!Up
<1>5. ASSUME NEW q \in Saved!Requests, Saved!Busy(q)'
      PROVE  Midway(request[q], force, told, astray)' 
  <2>1. CASE q = r
    BY <1>1, <1>5, <2>1
  <2>2. CASE q # r
    <3>1. request'[q] = request[q] /\ Saved!Busy(q)
      BY <1>1, <1>5, <2>2
    <3>2. /\ request[q] \in Asked /\ request[q].fought \subseteq request[q].wants
          /\ request[q].wants \subseteq Saved!Keys
          /\ Midway(request[q], force, told, astray)
      BY <3>1 DEF SInv, Stored, Asked
    <3>3. request[q].wants \cap request[r].wants \subseteq request[q].fought \cap request[r].fought
      BY <3>1, <2>2 DEF SInv, Contested
    <3>4. \A k \in request[q].wants \ request[q].fought :
            force'[k] = force[k] /\ told'[k] = told[k] /\ (k \in astray' <=> k \in astray)
      BY <3>2, <3>3
    <3>5. request[q].fought \cap Shared \subseteq astray'
      <4> SUFFICES ASSUME NEW k \in request[q].fought, k \in Shared PROVE k \in astray'
        OBVIOUS
      <4>1. CASE k \in request[r].wants
        BY <3>2, <3>3, <4>1
      <4>2. CASE k \notin request[r].wants
        <5>1. k \in astray
          BY <3>2 DEF Midway
        <5> QED  BY <3>2, <4>2, <5>1
      <4> QED  BY <4>1, <4>2
    <3>6. Midway(request[q], force', told', astray')
      BY <3>2, <3>4, <3>5, Undisturbed
    <3> QED  BY <3>1, <3>6
  <2> QED  BY <2>1, <2>2
<1>6. Agreed'
  <2> SUFFICES ASSUME NEW k \in Saved!Keys, k \notin astray'
               PROVE  /\ Saved!Merged(overlay')[k] = told'[k]
                      /\ k \in Saved!Live => force'[k] = told'[k] \/ InHand(k)'
    BY DEF Agreed, Saved!Merged
  <2>1. CASE k \in request[r].wants
    BY <1>1, <2>1 DEF InHand
  <2>2. CASE k \notin request[r].wants
    <3>1. InHand(k) => InHand(k)'
      BY <1>1, <2>2 DEF InHand
    <3>2. Saved!Merged(overlay')[k] = Saved!Merged(overlay)[k]
      BY <2>2 DEF Saved!Merged
    <3> QED  BY <2>2, <3>1, <3>2 DEF SInv, Agreed
  <2> QED  BY <2>1, <2>2
<1> QED  BY <1>2, <1>3, <1>4, <1>5, <1>6 DEF SInv

\* A request that arrives keeps the invariant if it moves at most what it shares.
LEMMA Arrives ==
  ASSUME SInv, NEW r \in Saved!Requests, NEW wants \in SUBSET Saved!Keys, NEW v \in {"profile", "chosen"},
         NEW phase \in VoiceStages \cup {"loading"}, NEW at \in Saved!Keys,
         Saved!Asks(r, wants, v, phase, at),
         UNCHANGED <<overlay, told, running>>,
         force' \in [Saved!Keys -> Some],
         \A k \in Saved!Keys \ (wants \cap Shared) : force'[k] = force[k],
         LET fought == request'[r].fought
             old == [k \in wants |-> force[k]]
         IN  Midway([stage |-> phase, wants |-> wants, value |-> v, at |-> at, old |-> old,
                     fought |-> fought], force', told, astray \cup fought)
  PROVE  SInv'
<1> DEFINE rivals == Saved!Rivals(r, wants)
           fought == wants \cap UNION {request[q].wants : q \in rivals}
           x == [stage |-> phase, wants |-> wants, value |-> v, at |-> at,
                 old |-> [k \in wants |-> force[k]], fought |-> fought]
<1>1. /\ Saved!Up /\ ~Saved!Busy(r)
      /\ request' = [q \in Saved!Requests |->
           IF q = r THEN x
           ELSE IF q \in rivals THEN [request[q] EXCEPT !.fought = @ \cup (request[q].wants \cap wants)]
           ELSE request[q]]
      /\ astray' = astray \cup fought
  BY DEF Saved!Asks, Saved!IsNext, Saved!Busy
<1>2. rivals = {q \in Saved!Requests \ {r} : Saved!Busy(q) /\ request[q].wants \cap wants # {}}
  BY DEF Saved!Rivals
<1>3. x \in Asked /\ fought \subseteq wants /\ x.fought = fought /\ x.wants = wants /\ x.stage = phase
  <2>1. [k \in wants |-> force[k]] \in [wants -> Some]
    BY DEF SInv, Stored
  <2> QED  BY <2>1 DEF Asked, VoiceStages
<1>4. \A q \in Saved!Requests : q # r /\ Saved!Busy(q) =>
        request[q].wants \cap wants \subseteq fought
  BY <1>2
<1> HIDE DEF fought, x
<1>5. /\ request'[r] = x
      /\ \A q \in Saved!Requests : q # r =>
           /\ request'[q] \in Asked
           /\ request'[q].wants = request[q].wants /\ request'[q].stage = request[q].stage
           /\ request'[q].value = request[q].value /\ request'[q].at = request[q].at
           /\ request'[q].old = request[q].old
           /\ request'[q].fought \subseteq request'[q].wants
           /\ Saved!Busy(q) => request'[q].fought = request[q].fought \cup (request[q].wants \cap wants)
  <2>1. \A q \in Saved!Requests : request[q] \in Asked /\ request[q].fought \subseteq request[q].wants
    BY DEF SInv, Stored
  <2>2. \A q \in Saved!Requests \ {r} : Saved!Busy(q) /\ q \notin rivals =>
          request[q].fought = request[q].fought \cup (request[q].wants \cap wants)
    BY <1>2
  <2> HIDE DEF rivals
  <2>3. ASSUME NEW q \in Saved!Requests, q # r
        PROVE  /\ request'[q] \in Asked
               /\ request'[q].wants = request[q].wants /\ request'[q].stage = request[q].stage
               /\ request'[q].value = request[q].value /\ request'[q].at = request[q].at
               /\ request'[q].old = request[q].old
               /\ request'[q].fought \subseteq request'[q].wants
               /\ Saved!Busy(q) => request'[q].fought = request[q].fought \cup (request[q].wants \cap wants)
    <3>1. CASE q \in rivals
      <4>1. request'[q] = [request[q] EXCEPT !.fought = @ \cup (request[q].wants \cap wants)]
        BY <1>1, <2>3, <3>1
      <4>2. request[q] \in Asked
        BY <2>1
      <4> QED  BY <2>1, <4>1, <4>2 DEF Asked
    <3>2. CASE q \notin rivals
      <4>1. request'[q] = request[q]
        BY <1>1, <2>3, <3>2
      <4> QED  BY <2>1, <2>2, <2>3, <3>2, <4>1
    <3> QED  BY <3>1, <3>2
  <2> QED  BY <1>1, <2>3
<1>6. /\ Saved!Busy(r)'
      /\ \A q \in Saved!Requests : q # r => (Saved!Busy(q)' <=> Saved!Busy(q))
  BY <1>3, <1>5 DEF Saved!Busy, VoiceStages
<1>7. Stored'
  BY <1>1, <1>3, <1>5 DEF SInv, Stored
<1>8. Saved!Up'
  BY <1>1 DEF Saved!Up
<1>9. Contested'
  <2> SUFFICES ASSUME NEW p \in Saved!Requests, NEW q \in Saved!Requests, p # q,
                      Saved!Busy(p)', Saved!Busy(q)'
               PROVE  request'[p].wants \cap request'[q].wants \subseteq request'[p].fought
    BY DEF Contested
  <2>1. CASE p = r
    BY <1>3, <1>4, <1>5, <1>6, <2>1
  <2>2. CASE q = r
    BY <1>3, <1>5, <1>6, <2>2
  <2>3. CASE p # r /\ q # r
    BY <1>5, <1>6, <2>3 DEF SInv, Contested
  <2> QED  BY <2>1, <2>2, <2>3
<1>10. ASSUME NEW q \in Saved!Requests, Saved!Busy(q)'
       PROVE  Midway(request'[q], force', told', astray')
  <2>1. CASE q = r
    <3>1. Midway(x, force', told, astray \cup fought)
      BY <1>3, <1>5 DEF x
    <3> QED  BY <1>1, <1>5, <2>1, <3>1
  <2>2. CASE q # r
    <3> DEFINE y == request'[q]
    <3>1. Saved!Busy(q) /\ Midway(request[q], force, told, astray)
      BY <1>6, <1>10, <2>2 DEF SInv
    <3>2. /\ y \in Asked /\ y.fought \subseteq y.wants
          /\ y.wants = request[q].wants /\ y.stage = request[q].stage
          /\ y.value = request[q].value /\ y.at = request[q].at /\ y.old = request[q].old
          /\ y.fought = request[q].fought \cup (request[q].wants \cap wants)
      BY <1>5, <2>2, <3>1
    <3> HIDE DEF y
    <3>3. request[q].wants \subseteq Saved!Keys /\ request[q].wants \cap wants \subseteq fought
      BY <1>4, <2>2, <3>1 DEF SInv, Stored, Asked
    <3>4. Midway(y, force, told, astray \cup fought)
      <4>1. y.fought \cap Shared \subseteq astray \cup fought
        BY <3>1, <3>2, <3>3 DEF Midway
      <4>2. \A k : Past(y, k) <=> Past(request[q], k)
        BY <3>2 DEF Past
      <4>3. CASE y.stage \in VoiceStages
        <5>1. y.stage \notin {"loading", "showing"}
          BY <4>3 DEF VoiceStages
        <5> QED  BY <3>1, <3>2, <4>1, <4>2, <4>3, <5>1 DEF Midway
      <4>4. CASE y.stage \notin VoiceStages
        BY <3>1, <3>2, <4>1, <4>4 DEF Midway
      <4> QED  BY <4>3, <4>4
    <3>5. \A k \in y.wants \ y.fought : force'[k] = force[k] /\ (k \in astray' <=> k \in astray \cup fought)
      BY <1>1, <3>2, <3>3
    <3>6. y.fought \cap Shared \subseteq astray'
      BY <1>1, <3>4 DEF Midway
    <3>7. Midway(y, force', told', astray')
      BY <3>2, <3>4, <3>5, <3>6, Undisturbed
    <3> QED  BY <3>7 DEF y
  <2> QED  BY <2>1, <2>2
<1>11. Agreed'
  <2> SUFFICES ASSUME NEW k \in Saved!Keys, k \notin astray'
               PROVE  /\ Saved!Merged(overlay)[k] = told[k]
                      /\ k \in Saved!Live => force'[k] = told[k] \/ InHand(k)'
    BY DEF Agreed, Saved!Merged
  <2>1. Saved!Merged(overlay)[k] = told[k] /\ (k \in Saved!Live => force[k] = told[k] \/ InHand(k))
    BY <1>1 DEF SInv, Agreed
  <2>2. InHand(k) => InHand(k)'
    BY <1>1, <1>5, <1>6 DEF InHand
  <2>3. k \in wants \cap Shared => InHand(k)'
    BY <1>3, <1>5, <1>6 DEF InHand
  <2> QED  BY <2>1, <2>2, <2>3
<1> QED  BY <1>7, <1>8, <1>9, <1>10, <1>11 DEF SInv

\* A request that is answered at once chooses a setting that no other request has in hand.
LEMMA AtOnce ==
  ASSUME SInv, NEW r \in Saved!Requests, NEW k \in Saved!Keys \ Shared, NEW v \in Some,
         Saved!Immediate(r), UNCHANGED running,
         force' = IF k \in Saved!Live THEN [force EXCEPT ![k] = v] ELSE force,
         \/ /\ overlay' = [overlay EXCEPT ![k] = v] /\ told' = [told EXCEPT ![k] = v]
            /\ astray' = astray \ {k}
         \/ UNCHANGED <<overlay, told>> /\ astray' = astray \cup {k}
  PROVE  SInv'
<1>1. Saved!Up /\ ~Saved!Busy(r) /\ request' = [request EXCEPT ![r] = Saved!Over]
  BY DEF Saved!Immediate, Saved!IsNext, Saved!Busy
<1>2. Saved!Over \in Asked /\ Saved!Over.stage = "over" /\ Saved!Over.fought = {}
  <2>1. <<>> \in [{} -> Some]
    OBVIOUS
  <2>2. <<>> \in UNION {[w -> Some] : w \in SUBSET Saved!Keys}
    BY <2>1
  <2> QED  BY <2>2 DEF Saved!Over, Saved!None, Asked
<1>3. /\ \A q \in Saved!Requests : q # r => request'[q] = request[q]
      /\ \A q \in Saved!Requests : Saved!Busy(q)' <=> (Saved!Busy(q) /\ q # r)
  BY <1>1, <1>2 DEF SInv, Stored, Saved!Busy
<1>4. \A q \in Saved!Requests : Saved!Busy(q) => q # r
  BY <1>1
<1>5. Stored'
  <2>1. request' \in [Saved!Requests -> Asked]
        /\ \A q \in Saved!Requests : request'[q].fought \subseteq request'[q].wants
    BY <1>1, <1>2 DEF SInv, Stored
  <2>2. /\ overlay' \in [Saved!Keys -> Some \cup {"unset"}]
        /\ force' \in [Saved!Keys -> Some] /\ told' \in [Saved!Keys -> Some]
        /\ astray' \subseteq Saved!Keys
    BY DEF SInv, Stored
  <2> QED  BY <2>1, <2>2 DEF Stored
<1>6. Contested'
  BY <1>3 DEF SInv, Contested
<1>7. \A j \in Saved!Keys : j # k =>
        /\ overlay'[j] = overlay[j] /\ force'[j] = force[j] /\ told'[j] = told[j]
        /\ (j \in astray' <=> j \in astray)
  BY DEF SInv, Stored
<1>8. ASSUME NEW q \in Saved!Requests, Saved!Busy(q)'
      PROVE  Saved!Up' /\ Midway(request'[q], force', told', astray')
  <2>1. Saved!Busy(q) /\ request'[q] = request[q] /\ Saved!Up'
    BY <1>1, <1>3, <1>8 DEF Saved!Up
  <2>2. /\ request[q] \in Asked /\ request[q].fought \subseteq request[q].wants
        /\ request[q].wants \subseteq Saved!Keys /\ Midway(request[q], force, told, astray)
    BY <2>1 DEF SInv, Stored, Asked
  <2>3. request[q].fought \cap Shared \subseteq astray'
    BY <2>2, <1>7 DEF Midway
  <2>4. \A j \in request[q].wants \ request[q].fought : j \in Shared =>
          force'[j] = force[j] /\ told'[j] = told[j] /\ (j \in astray' <=> j \in astray)
    BY <1>7, <2>2
  <2>5. Midway(request[q], force', told', astray')
    BY <2>2, <2>3, <2>4, Undisturbed
  <2> QED  BY <2>1, <2>5
<1>9. Agreed'
  <2> SUFFICES ASSUME NEW j \in Saved!Keys, j \notin astray'
               PROVE  /\ Saved!Merged(overlay')[j] = told'[j]
                      /\ j \in Saved!Live => force'[j] = told'[j] \/ InHand(j)'
    BY DEF Agreed, Saved!Merged
  <2>1. CASE j = k
    <3>1. v # "unset" /\ overlay'[k] = v /\ told'[k] = v /\ (k \in Saved!Live => force'[k] = v)
      BY <2>1 DEF SInv, Stored, Some
    <3> QED  BY <2>1, <3>1 DEF Saved!Merged
  <2>2. CASE j # k
    <3>1. InHand(j) => InHand(j)'
      BY <1>3, <1>4 DEF InHand
    <3>2. Saved!Merged(overlay')[j] = Saved!Merged(overlay)[j]
      BY <1>7, <2>2 DEF Saved!Merged
    <3> QED  BY <1>1, <1>7, <2>2, <3>1, <3>2 DEF SInv, Agreed
  <2> QED  BY <2>1, <2>2
<1> QED  BY <1>5, <1>6, <1>8, <1>9 DEF SInv

-----------------------------------------------------------------------------
\* POST /voice/settings arrives: the wake names are in force before it suspends.
LEMMA AsksVoice ==
  ASSUME SInv, NEW r \in Saved!Requests, NEW wants \in SUBSET Saved!Voice,
         NEW v \in {"profile", "chosen"}, Saved!AskVoice(r, wants, v)
  PROVE  SInv'
<1> DEFINE k == Saved!First(wants)
           phase == IF k = "wake" THEN "set" ELSE "setting"
           fought == request'[r].fought
           old == [j \in wants |-> force[j]]
           x == [stage |-> phase, wants |-> wants, value |-> v, at |-> k, old |-> old, fought |-> fought]
<1>1. /\ wants # {} /\ Saved!Asks(r, wants, v, phase, k)
      /\ force' = IF k = "wake" THEN [force EXCEPT ![k] = v] ELSE force
      /\ UNCHANGED <<overlay, told, running>>
  BY DEF Saved!AskVoice, Saved!Asks
<1>2. k \in wants /\ (k = "wake" <=> "wake" \in wants) /\ phase \in VoiceStages \cup {"loading"}
      /\ (k = "stt" => "wake" \notin wants) /\ (k = "pause" => wants = {"pause"})
  BY <1>1, KeySets DEF Saved!First, VoiceStages
<1>3. /\ wants \in SUBSET Saved!Keys /\ k \in Saved!Keys /\ wants \subseteq Shared
      /\ v \in Some
  BY <1>2, KeySets DEF Some
<1>4. /\ force' \in [Saved!Keys -> Some]
      /\ \A j \in Saved!Keys \ (wants \cap Shared) : force'[j] = force[j]
      /\ k = "wake" => force'[k] = v
  BY <1>1, <1>2, <1>3 DEF SInv, Stored
<1>5. Midway(x, force', told, astray \cup fought)
  <2>1. fought = wants \cap UNION {request[q].wants : q \in Saved!Rivals(r, wants)}
    BY <1>1 DEF Saved!Asks
  <2>2. ASSUME NEW j \in wants \ fought, j \notin astray
        PROVE  old[j] = told[j]
    <3>1. ~InHand(j)
      <4> SUFFICES ASSUME NEW q \in Saved!Requests, Saved!Busy(q), j \in request[q].wants PROVE FALSE
        BY DEF InHand
      <4>1. q # r
        BY <1>1 DEF Saved!Asks, Saved!IsNext, Saved!Busy
      <4>2. q \in Saved!Rivals(r, wants)
        BY <2>2, <4>1 DEF Saved!Rivals
      <4> QED  BY <2>1, <2>2, <4>2
    <3>2. j \in Saved!Live /\ j \in Saved!Keys /\ Saved!Up
      BY <1>1, <1>3, KeySets DEF Saved!Asks
    <3> QED  BY <2>2, <3>1, <3>2 DEF SInv, Agreed
  <2>3. ASSUME NEW j \in wants \ fought, Past(x, j)
        PROVE  force'[j] = v
    <3>1. x.at = k /\ x.stage = phase
      OBVIOUS
    <3>2. j = "wake"
      BY <1>2, <2>3, <3>1, KeySets DEF Past, Saved!After
    <3> QED  BY <1>2, <1>4, <3>2
  <2>4. x.stage \in {"setting", "set"} /\ x.fought = fought /\ x.wants = wants /\ x.at = k /\ x.value = v
        /\ x.old = old /\ DOMAIN old = wants
    OBVIOUS
  <2> HIDE DEF x, phase, k, old, fought
  <2>5. x.stage \notin {"loading", "showing"} /\ x.stage \in VoiceStages
    BY <2>4 DEF VoiceStages
  <2> QED  BY <1>2, <2>2, <2>3, <2>4, <2>5 DEF Midway
<1>6. phase \in VoiceStages \cup {"loading"}
  BY <1>2
<1> QED
  <2> HIDE DEF k, phase
  <2> QED  BY <1>1, <1>3, <1>4, <1>5, <1>6, Arrives

\* A swap of the pack, alone or with a companion, arrives and moves nothing yet.
LEMMA AsksPack ==
  ASSUME SInv, NEW r \in Saved!Requests, NEW wants \in {{"pack"}} \cup Companions,
         NEW v \in {"profile", "chosen"}, Saved!Asks(r, wants, v, "loading", "pack"),
         UNCHANGED <<overlay, force, told, running>>
  PROVE  SInv'
<1> DEFINE fought == request'[r].fought
           old == [j \in wants |-> force[j]]
           x == [stage |-> "loading", wants |-> wants, value |-> v, at |-> "pack", old |-> old, fought |-> fought]
<1>1. "pack" \in wants /\ "pack" \in Shared /\ "pack" \in Saved!Live /\ "pack" \in Saved!Keys
      /\ wants \in SUBSET Saved!Keys
  BY KeySets DEF Companions
<1>2. fought = wants \cap UNION {request[q].wants : q \in Saved!Rivals(r, wants)}
  BY DEF Saved!Asks
<1>3. "pack" \notin fought \cup astray => force["pack"] = told["pack"]
  <2> SUFFICES ASSUME "pack" \notin fought, "pack" \notin astray PROVE force["pack"] = told["pack"]
    OBVIOUS
  <2>1. ~InHand("pack")
    <3> SUFFICES ASSUME NEW q \in Saved!Requests, Saved!Busy(q), "pack" \in request[q].wants PROVE FALSE
      BY DEF InHand
    <3>1. q # r
      BY DEF Saved!Asks, Saved!IsNext, Saved!Busy
    <3>2. q \in Saved!Rivals(r, wants)
      BY <1>1, <3>1 DEF Saved!Rivals
    <3> QED  BY <1>1, <1>2, <3>2
  <2>2. Saved!Up
    BY DEF Saved!Asks
  <2> QED  BY <1>1, <2>1, <2>2 DEF SInv, Agreed
<1>4. Midway(x, force, told, astray \cup fought)
  BY <1>3 DEF Midway, VoiceStages
<1>5. force' \in [Saved!Keys -> Some] /\ "loading" \in VoiceStages \cup {"loading"}
  BY DEF SInv, Stored
<1> QED  BY <1>1, <1>4, <1>5, Arrives

-----------------------------------------------------------------------------
\* What is known of a request that is at work.
LEMMA AtWork ==
  ASSUME SInv, NEW r \in Saved!Requests, Saved!Busy(r)
  PROVE  /\ Saved!Up /\ request[r] \in Asked /\ Midway(request[r], force, told, astray)
         /\ request[r].fought \subseteq request[r].wants /\ request[r].wants \subseteq Saved!Keys
         /\ request[r].fought \cap Shared \subseteq astray
         /\ overlay \in [Saved!Keys -> Some \cup {"unset"}]
         /\ force \in [Saved!Keys -> Some] /\ told \in [Saved!Keys -> Some] /\ astray \subseteq Saved!Keys
         /\ \A k \in Saved!Keys \ astray : Saved!Merged(overlay)[k] = told[k]
         /\ request[r].value \in Some
BY DEF SInv, Stored, Asked, Midway, Agreed, Some

\* A request that was answered wants nothing.
LEMMA OverIsOver ==
  /\ Saved!Over \in Asked /\ Saved!Over.stage = "over"
  /\ Saved!Over.fought = {} /\ Saved!Over.wants = {}
<1>1. <<>> \in [{} -> Some]
  OBVIOUS
<1>2. <<>> \in UNION {[w -> Some] : w \in SUBSET Saved!Keys}
  BY <1>1
<1> QED  BY <1>2 DEF Saved!Over, Saved!None, Asked

\* A voice setting is put in force or put back, or the request goes on to the next.
LEMMA Moves ==
  ASSUME SInv, NEW r \in Saved!Requests, request[r].stage \in VoiceStages,
         NEW phase \in VoiceStages, NEW at \in request[r].wants,
         request' = [request EXCEPT ![r].stage = phase, ![r].at = at],
         UNCHANGED <<overlay, told, running>>, astray \subseteq astray', astray' \subseteq Saved!Keys,
         \A k \in Saved!Keys \ request[r].wants : k \in astray' => k \in astray,
         force' \in [Saved!Keys -> Some],
         \A k \in Saved!Keys \ request[r].wants : force'[k] = force[k],
         LET x == [request[r] EXCEPT !.stage = phase, !.at = at]
         IN  \A k \in x.wants \ x.fought :
               Past(x, k) => IF phase \in {"setting", "set"} THEN force'[k] = x.value
                             ELSE force'[k] = x.old[k] \/ k \in astray'
  PROVE  SInv'
<1> DEFINE q == request[r]
           x == [q EXCEPT !.stage = phase, !.at = at]
<1>1. Saved!Busy(r)
  BY DEF Saved!Busy, VoiceStages
<1>2. /\ q \in Asked /\ Midway(q, force, told, astray) /\ q.fought \subseteq q.wants
      /\ q.wants \subseteq Saved!Keys /\ q.fought \cap Shared \subseteq astray
  BY <1>1, AtWork
<1>3. /\ x \in Asked /\ x.stage = phase /\ x.at = at /\ x.wants = q.wants /\ x.fought = q.fought
      /\ x.old = q.old /\ x.value = q.value
  BY <1>2 DEF Asked
<1>4. q.wants \subseteq Saved!Voice /\ DOMAIN q.old = q.wants
      /\ \A k \in q.wants \ q.fought : k \notin astray => q.old[k] = told[k]
  BY <1>2 DEF Midway
<1>5. request' = [request EXCEPT ![r] = x]
  BY DEF SInv, Stored
<1>6. Midway(x, force', told', astray')
  <2>1. phase \notin {"loading", "showing"}
    BY DEF VoiceStages
  <2>2. \A k \in x.wants \ x.fought :
          Past(x, k) => IF phase \in {"setting", "set"} THEN force'[k] = x.value
                        ELSE force'[k] = x.old[k] \/ k \in astray'
    OBVIOUS
  <2> HIDE DEF x
  <2> QED  BY <1>2, <1>3, <1>4, <2>1, <2>2 DEF Midway
<1>7. x.stage # "none" /\ x.stage # "over"
  BY <1>3 DEF VoiceStages
<1>8. \A k \in q.wants \ astray' : Saved!Merged(overlay')[k] = told'[k] /\ k \in Shared
  <2>1. \A k \in q.wants : k \in Shared
    BY <1>4, KeySets
  <2>2. Saved!Merged(overlay') = Saved!Merged(overlay)
    BY DEF Saved!Merged
  <2> QED  BY <1>1, <1>2, <2>1, <2>2, AtWork
<1>9. /\ overlay' \in [Saved!Keys -> Some \cup {"unset"}] /\ told' \in [Saved!Keys -> Some]
      /\ q.fought \cap Shared \subseteq astray' /\ x.fought \subseteq x.wants
      /\ \A k \in Saved!Keys \ q.wants :
           /\ overlay'[k] = overlay[k] /\ force'[k] = force[k] /\ told'[k] = told[k]
           /\ k \in astray' <=> k \in astray
  BY <1>1, <1>2, <1>3, AtWork
<1> HIDE DEF x
<1> QED  BY <1>1, <1>3, <1>5, <1>6, <1>7, <1>8, <1>9, Works

\* The controller has stopped listening and the setting is assigned.
LEMMA AssignStep ==
  ASSUME SInv, NEW r \in Saved!Requests, Saved!Assign(r)
  PROVE  SInv'
<1> DEFINE q == request[r]
           x == [q EXCEPT !.stage = "set", !.at = q.at]
<1>1. /\ q.stage = "setting" /\ q.stage \in VoiceStages
      /\ force' = [force EXCEPT ![q.at] = q.value]
      /\ request' = [request EXCEPT ![r].stage = "set"]
      /\ UNCHANGED <<overlay, told, astray, running>>
  BY DEF Saved!Assign, VoiceStages
<1>2. Saved!Busy(r)
  BY <1>1 DEF Saved!Busy
<1>3. /\ q \in Asked /\ Midway(q, force, told, astray) /\ q.wants \subseteq Saved!Keys /\ q.value \in Some
      /\ force \in [Saved!Keys -> Some] /\ astray \subseteq Saved!Keys
  BY <1>2, AtWork
<1>4. q.at \in q.wants /\ \A k \in q.wants \ q.fought : Past(q, k) => force[k] = q.value
  BY <1>1, <1>3 DEF Midway
<1>5. request' = [request EXCEPT ![r].stage = "set", ![r].at = q.at]
  BY <1>1, <1>3 DEF SInv, Stored, Asked
<1>6. x.wants = q.wants /\ x.fought = q.fought /\ x.value = q.value /\ x.at = q.at /\ x.stage = "set"
  BY <1>3 DEF Asked
<1>7. \A k \in x.wants \ x.fought : Past(x, k) => force'[k] = x.value
  <2> HIDE DEF x
  <2> QED  BY <1>1, <1>3, <1>4, <1>6 DEF Past
<1>8. force' \in [Saved!Keys -> Some] /\ \A k \in Saved!Keys \ q.wants : force'[k] = force[k]
  BY <1>1, <1>3, <1>4
<1> QED  BY <1>1, <1>3, <1>4, <1>5, <1>7, <1>8, Moves DEF VoiceStages

\* A setter failed, or the file: what was wanted is put back, from the first setting on.
LEMMA UndoStep ==
  ASSUME SInv, NEW r \in Saved!Requests, request[r].stage \in {"setting", "set"}, Saved!Undo(r)
  PROVE  SInv'
<1> DEFINE q == request[r]
           k == Saved!First(q.wants)
           phase == IF k = "wake" THEN "undone" ELSE "undoing"
           x == [q EXCEPT !.stage = phase, !.at = k]
<1>1. /\ request' = [request EXCEPT ![r].stage = phase, ![r].at = k]
      /\ force' = IF k = "wake" THEN [force EXCEPT ![k] = q.old[k]] ELSE force
      /\ UNCHANGED <<overlay, told, astray, running>>
      /\ q.stage \in VoiceStages
  BY DEF Saved!Undo, VoiceStages
<1>2. Saved!Busy(r)
  BY DEF Saved!Busy
<1>3. /\ q \in Asked /\ Midway(q, force, told, astray) /\ q.wants \subseteq Saved!Keys
      /\ force \in [Saved!Keys -> Some] /\ astray \subseteq Saved!Keys
  BY <1>2, AtWork
<1>4. q.wants \subseteq Saved!Voice /\ q.at \in q.wants /\ DOMAIN q.old = q.wants
  BY <1>1, <1>3 DEF Midway
<1>5. k \in q.wants /\ (k = "wake" <=> "wake" \in q.wants) /\ phase \in VoiceStages
      /\ (k = "stt" => "wake" \notin q.wants) /\ (k = "pause" => q.wants = {"pause"})
  BY <1>4, KeySets DEF Saved!First, VoiceStages
<1>6. \A j \in q.wants : q.old[j] \in Some
  BY <1>3, <1>4 DEF Asked
<1>7. /\ x.wants = q.wants /\ x.fought = q.fought /\ x.old = q.old /\ x.at = k /\ x.stage = phase
  BY <1>3 DEF Asked
<1>8. \A j \in q.wants : Past(x, j) => force'[j] = q.old[j]
  <2> SUFFICES ASSUME NEW j \in q.wants, Past(x, j) PROVE force'[j] = q.old[j]
    OBVIOUS
  <2>1. j = "wake"
    BY <1>4, <1>5, <1>7, KeySets DEF Past, Saved!After
  <2> QED  BY <1>1, <1>3, <1>5, <2>1
<1>9. force' \in [Saved!Keys -> Some] /\ \A j \in Saved!Keys \ q.wants : force'[j] = force[j]
  BY <1>1, <1>3, <1>5, <1>6
<1>10. \A j \in x.wants \ x.fought :
         Past(x, j) => IF phase \in {"setting", "set"} THEN force'[j] = x.value
                       ELSE force'[j] = x.old[j] \/ j \in astray'
  <2>1. phase \notin {"setting", "set"}
    OBVIOUS
  <2> HIDE DEF x, phase
  <2> QED  BY <1>7, <1>8, <2>1
<1> QED
  <2> HIDE DEF k, phase
  <2> QED  BY <1>1, <1>3, <1>5, <1>9, <1>10, Moves

\* The next setting, or the file and the answer to the user.
LEMMA TakenStep ==
  ASSUME SInv, NEW r \in Saved!Requests, NEW written \in BOOLEAN, Saved!Taken(r, written)
  PROVE  SInv'
<1> DEFINE q == request[r]
           rest == q.wants \cap Saved!After(q.at)
<1>1. q.stage = "set" /\ q.stage \in VoiceStages /\ Saved!Busy(r)
  BY DEF Saved!Taken, Saved!Busy, VoiceStages
<1>2. /\ q \in Asked /\ Midway(q, force, told, astray) /\ q.wants \subseteq Saved!Keys
      /\ overlay \in [Saved!Keys -> Some \cup {"unset"}] /\ told \in [Saved!Keys -> Some]
      /\ force \in [Saved!Keys -> Some] /\ astray \subseteq Saved!Keys /\ q.value \in Some
      /\ q.fought \subseteq q.wants
  BY <1>1, AtWork
<1>3. /\ q.wants \subseteq Saved!Voice /\ q.at \in q.wants
      /\ \A k \in q.wants \ q.fought : Past(q, k) => force[k] = q.value
  BY <1>1, <1>2 DEF Midway
<1>4. CASE rest # {} /\ request' = [request EXCEPT ![r].stage = "setting", ![r].at = Saved!First(rest)]
           /\ UNCHANGED <<overlay, force, told, astray, running>>
  <2> DEFINE k == Saved!First(rest)
             x == [q EXCEPT !.stage = "setting", !.at = k]
  <2>1. k \in q.wants
    BY <1>3, <1>4, KeySets DEF Saved!First, Saved!After
  <2>2. \A j \in q.wants : j \in Saved!After(q.at) => j = k \/ j \in Saved!After(k)
    BY <1>3, <1>4, KeySets DEF Saved!First, Saved!After
  <2>3. x.wants = q.wants /\ x.fought = q.fought /\ x.value = q.value /\ x.at = k /\ x.stage = "setting"
    BY <1>2 DEF Asked
  <2>4. \A j \in x.wants \ x.fought : Past(x, j) => force'[j] = x.value
    <3> HIDE DEF x, k, rest
    <3> QED  BY <1>1, <1>3, <1>4, <2>2, <2>3 DEF Past
  <2> HIDE DEF k, rest
  <2>5. "setting" \in VoiceStages
    BY DEF VoiceStages
  <2>6. request' = [request EXCEPT ![r].stage = "setting", ![r].at = k]
    BY <1>4 DEF k
  <2> QED  BY <1>1, <1>2, <1>4, <2>1, <2>4, <2>5, <2>6, Moves
<1>5. CASE rest = {} /\ Saved!Write(r, q.wants) /\ Saved!Answers(r, q.wants) /\ UNCHANGED <<force, running>>
  <2>1. /\ overlay' = [k \in Saved!Keys |-> IF k \in q.wants THEN Saved!Wanted(r, k) ELSE overlay[k]]
        /\ told' = [k \in Saved!Keys |-> IF k \in q.wants THEN Saved!Wanted(r, k) ELSE told[k]]
        /\ astray' = (astray \ q.wants) \cup q.fought
        /\ request' = [request EXCEPT ![r] = Saved!Over]
    BY <1>5 DEF Saved!Write, Saved!Answers
  <2>2. \A k \in q.wants : Saved!Wanted(r, k) = q.value
    BY <1>3, KeySets DEF Saved!Wanted
  <2>3. /\ overlay' \in [Saved!Keys -> Some \cup {"unset"}] /\ told' \in [Saved!Keys -> Some]
        /\ astray' \subseteq Saved!Keys
    BY <1>2, <2>1, <2>2
  <2>4. \A k \in Saved!Keys \ q.wants :
          /\ overlay'[k] = overlay[k] /\ force'[k] = force[k] /\ told'[k] = told[k]
          /\ k \in astray' <=> k \in astray
    BY <1>2, <1>5, <2>1
  <2>5. ASSUME NEW k \in q.wants \ astray'
        PROVE  Saved!Merged(overlay')[k] = told'[k] /\ force'[k] = told'[k]
    <3>1. overlay'[k] = q.value /\ told'[k] = q.value /\ q.value # "unset" /\ k \in Saved!Keys
      BY <1>2, <2>1, <2>2 DEF Some
    <3>2. Past(q, k) /\ k \notin q.fought
      BY <1>1, <1>5, <2>1 DEF Past
    <3> QED  BY <1>3, <1>5, <3>1, <3>2 DEF Saved!Merged
  <2> QED  BY <1>1, <1>2, <1>5, <2>1, <2>3, <2>4, <2>5, OverIsOver, Works
<1>6. CASE Saved!Undo(r)
  BY <1>1, <1>6, UndoStep
<1> QED  BY <1>4, <1>5, <1>6 DEF Saved!Taken

\* A setting was put back or could not be; what is left of them has its old value or is excused.
LEMMA PutBackStep ==
  ASSUME SInv, NEW r \in Saved!Requests, NEW assigned \in BOOLEAN, Saved!PutBack(r, assigned)
  PROVE  SInv'
<1> DEFINE q == request[r]
           rest == q.wants \cap Saved!After(q.at)
           back == assigned \/ q.stage = "undone"
<1>1. /\ q.stage \in {"undoing", "undone"} /\ q.stage \in VoiceStages /\ Saved!Busy(r)
      /\ force' = IF assigned /\ q.stage = "undoing" THEN [force EXCEPT ![q.at] = q.old[q.at]] ELSE force
      /\ astray' = IF back THEN astray ELSE astray \cup {q.at}
      /\ request' = IF rest = {} THEN [request EXCEPT ![r] = Saved!Over]
                    ELSE [request EXCEPT ![r].stage = "undoing", ![r].at = Saved!First(rest)]
      /\ UNCHANGED <<overlay, told, running>>
  BY DEF Saved!PutBack, Saved!Busy, VoiceStages
<1>2. /\ q \in Asked /\ Midway(q, force, told, astray) /\ q.wants \subseteq Saved!Keys
      /\ overlay \in [Saved!Keys -> Some \cup {"unset"}] /\ told \in [Saved!Keys -> Some]
      /\ force \in [Saved!Keys -> Some] /\ astray \subseteq Saved!Keys
      /\ q.fought \subseteq q.wants /\ q.fought \cap Shared \subseteq astray
  BY <1>1, AtWork
<1>3. /\ q.wants \subseteq Saved!Voice /\ q.at \in q.wants /\ DOMAIN q.old = q.wants
      /\ \A k \in q.wants \ q.fought :
           /\ k \notin astray => q.old[k] = told[k]
           /\ Past(q, k) => force[k] = q.old[k] \/ k \in astray
  BY <1>1, <1>2 DEF Midway
<1>4. \A j \in q.wants : q.old[j] \in Some
  BY <1>2, <1>3 DEF Asked
<1>5. /\ force' \in [Saved!Keys -> Some] /\ \A k \in Saved!Keys \ q.wants : force'[k] = force[k]
      /\ astray \subseteq astray' /\ astray' \subseteq Saved!Keys
      /\ \A k \in Saved!Keys \ q.wants : k \in astray' => k \in astray
  BY <1>1, <1>2, <1>3, <1>4
<1>6. \A k \in q.wants \ q.fought : k \notin Saved!After(q.at) => force'[k] = q.old[k] \/ k \in astray'
  <2> SUFFICES ASSUME NEW k \in q.wants \ q.fought, k \notin Saved!After(q.at)
               PROVE  force'[k] = q.old[k] \/ k \in astray'
    OBVIOUS
  <2>1. CASE k = q.at
    <3>1. CASE q.stage = "undone"
      BY <1>1, <1>3, <2>1, <3>1 DEF Past
    <3>2. CASE q.stage = "undoing"
      BY <1>1, <1>2, <2>1, <3>2
    <3> QED  BY <1>1, <3>1, <3>2
  <2>2. CASE k # q.at
    <3>1. force'[k] = force[k]
      BY <1>1, <1>2, <2>2
    <3>2. Past(q, k)
      BY <2>2 DEF Past
    <3> QED  BY <1>3, <1>5, <3>1, <3>2
  <2> QED  BY <2>1, <2>2
<1>7. CASE rest # {}
  <2> DEFINE k == Saved!First(rest)
             x == [q EXCEPT !.stage = "undoing", !.at = k]
  <2>1. k \in q.wants
    BY <1>3, <1>7, KeySets DEF Saved!First, Saved!After
  <2>2. \A j \in q.wants : j \in Saved!After(q.at) => j = k \/ j \in Saved!After(k)
    BY <1>3, <1>7, KeySets DEF Saved!First, Saved!After
  <2>3. x.wants = q.wants /\ x.fought = q.fought /\ x.old = q.old /\ x.at = k /\ x.stage = "undoing"
    BY <1>2 DEF Asked
  <2>4. \A j \in x.wants \ x.fought : Past(x, j) => force'[j] = x.old[j] \/ j \in astray'
    <3> HIDE DEF x, k, rest
    <3> QED  BY <1>6, <2>2, <2>3 DEF Past
  <2>5. request' = [request EXCEPT ![r].stage = "undoing", ![r].at = k]
    BY <1>1, <1>7
  <2>6. "undoing" \in VoiceStages /\ "undoing" \notin {"setting", "set"}
    BY DEF VoiceStages
  <2> HIDE DEF k, rest, back
  <2> QED  BY <1>1, <1>5, <2>1, <2>4, <2>5, <2>6, Moves
<1>8. CASE rest = {}
  <2>1. request' = [request EXCEPT ![r] = Saved!Over]
    BY <1>1, <1>8
  <2>2. ASSUME NEW k \in q.wants \ astray'
        PROVE  Saved!Merged(overlay')[k] = told'[k] /\ force'[k] = told'[k]
    <3>1. k \in Shared /\ k \notin astray /\ k \in Saved!Keys
      BY <1>2, <1>3, <1>5, KeySets
    <3>2. k \notin q.fought /\ k \notin Saved!After(q.at)
      BY <1>2, <1>8, <3>1
    <3>3. force'[k] = told[k]
      BY <1>3, <1>6, <2>2, <3>1, <3>2
    <3>4. Saved!Merged(overlay)[k] = told[k]
      BY <1>1, <3>1, AtWork
    <3>5. Saved!Merged(overlay') = Saved!Merged(overlay)
      BY <1>1 DEF Saved!Merged
    <3> QED  BY <1>1, <3>3, <3>4, <3>5
  <2>3. \A k \in Saved!Keys \ q.wants : k \in astray' <=> k \in astray
    BY <1>5
  <2>4. q.fought \cap Shared \subseteq astray'
    BY <1>2, <1>5
  <2>5. UNCHANGED <<overlay, told, running>>
    BY <1>1
  <2>6. \A k \in Saved!Keys \ q.wants :
          /\ overlay'[k] = overlay[k] /\ force'[k] = force[k] /\ told'[k] = told[k]
          /\ k \in astray' <=> k \in astray
    BY <1>5, <2>3, <2>5
  <2>7. overlay' \in [Saved!Keys -> Some \cup {"unset"}] /\ told' \in [Saved!Keys -> Some]
    BY <1>2, <2>5
  <2>8. Saved!Busy(r) /\ running' = running
    BY <1>1
  <2>9. force' \in [Saved!Keys -> Some] /\ astray' \subseteq Saved!Keys
    BY <1>5
  <2> HIDE DEF rest, back
  <2> QED  BY <2>1, <2>2, <2>4, <2>5, <2>6, <2>7, <2>8, <2>9, OverIsOver, Works
<1> QED  BY <1>7, <1>8

\* The pack is loaded and shown, and the choice is written unless something failed.
LEMMA PackSteps ==
  ASSUME SInv, NEW r \in Saved!Requests,
         \/ Saved!PackLoaded(r) \/ Saved!LoadFails(r)
         \/ \E written \in BOOLEAN : Saved!PackShown(r, written)
  PROVE  SInv'
<1> DEFINE q == request[r]
<1>1. q.stage \in {"loading", "showing"} /\ Saved!Busy(r) /\ q.stage \notin VoiceStages /\ running' = running
  BY DEF Saved!PackLoaded, Saved!LoadFails, Saved!PackShown, Saved!Busy, VoiceStages
<1>2. /\ q \in Asked /\ Midway(q, force, told, astray) /\ q.wants \subseteq Saved!Keys
      /\ overlay \in [Saved!Keys -> Some \cup {"unset"}] /\ told \in [Saved!Keys -> Some]
      /\ force \in [Saved!Keys -> Some] /\ astray \subseteq Saved!Keys /\ q.value \in Some
      /\ q.fought \subseteq q.wants /\ q.fought \cap Shared \subseteq astray
      /\ \A k \in Saved!Keys \ astray : Saved!Merged(overlay)[k] = told[k]
  BY <1>1, AtWork
<1>3. "pack" \in Shared /\ "pack" \in Saved!Live /\ "pack" \in Saved!Keys
  BY KeySets
<1>4. CASE Saved!PackLoaded(r)
  <2> DEFINE x == [q EXCEPT !.stage = "showing"]
  <2>1. /\ q.wants = {"pack"} /\ force' = [force EXCEPT !["pack"] = q.value]
        /\ request' = [request EXCEPT ![r] = x] /\ UNCHANGED <<overlay, told, astray>>
    BY <1>4 DEF Saved!PackLoaded, SInv, Stored
  <2>2. /\ x \in Asked /\ x.stage = "showing" /\ x.wants = q.wants /\ x.fought = q.fought /\ x.value = q.value
    BY <1>2 DEF Asked
  <2>3. Midway(x, force', told', astray')
    <3> HIDE DEF x
    <3>1. x.stage \notin VoiceStages /\ x.stage # "loading" /\ force'["pack"] = q.value
      BY <1>2, <1>3, <2>1, <2>2 DEF VoiceStages
    <3> QED  BY <1>2, <2>1, <2>2, <3>1 DEF Midway
  <2> HIDE DEF x
  <2>4. force' \in [Saved!Keys -> Some] /\ \A k \in Saved!Keys \ q.wants : force'[k] = force[k]
    BY <1>2, <1>3, <2>1
  <2>5. \A k \in q.wants \ astray' : Saved!Merged(overlay')[k] = told'[k] /\ k \in Shared
    BY <1>2, <1>3, <2>1 DEF Saved!Merged
  <2> QED  BY <1>1, <1>2, <2>1, <2>2, <2>3, <2>4, <2>5, Works
<1>5. CASE Saved!LoadFails(r)
  <2>1. /\ q.stage = "loading" /\ request' = [request EXCEPT ![r] = Saved!Over]
        /\ UNCHANGED <<overlay, force, told, astray>>
    BY <1>5 DEF Saved!LoadFails
  <2>2. ASSUME NEW k \in q.wants \ astray'
        PROVE  Saved!Merged(overlay')[k] = told'[k] /\ (k \in Saved!Live => force'[k] = told'[k])
    <3>1. k \in Saved!Keys /\ k \notin astray /\ Saved!Merged(overlay')[k] = told'[k]
      BY <1>2, <2>1 DEF Saved!Merged
    <3>2. q.wants \in {{"pack"}} \cup Companions
      BY <1>2, <2>1 DEF Midway
    <3>3. k = "pack" => force[k] = told[k]
      BY <1>2, <1>3, <2>1, <3>1 DEF Midway
    <3>4. k # "pack" /\ k \in Saved!Live => force[k] = told[k]
      <4>1. k # "pack" => k \notin Shared
        BY <3>2, KeySets DEF Companions
      <4> QED  BY <1>1, <3>1, <4>1, AtWork DEF SInv, Agreed, InHand
    <3> QED  BY <2>1, <3>1, <3>3, <3>4
  <2> QED  BY <1>1, <1>2, <2>1, <2>2, OverIsOver, Works
<1>6. ASSUME NEW written \in BOOLEAN, Saved!PackShown(r, written)
      PROVE  SInv'
  <2>1. /\ q.stage = "showing" /\ force' = force
        /\ \/ /\ Saved!Write(r, {"pack"}) /\ Saved!Answers(r, {"pack"})
           \/ /\ request' = [request EXCEPT ![r] = Saved!Over]
              /\ astray' = astray \cup {"pack"} /\ UNCHANGED <<overlay, told>>
    BY <1>6 DEF Saved!PackShown
  <2>2. q.wants = {"pack"} /\ ("pack" \notin q.fought => force["pack"] = q.value)
    BY <1>2, <2>1 DEF Midway
  <2>3. CASE Saved!Write(r, {"pack"}) /\ Saved!Answers(r, {"pack"})
    <3>1. Saved!Wanted(r, "pack") = q.value
      BY DEF Saved!Wanted
    <3>2. /\ overlay' = [k \in Saved!Keys |-> IF k = "pack" THEN q.value ELSE overlay[k]]
          /\ told' = [k \in Saved!Keys |-> IF k = "pack" THEN q.value ELSE told[k]]
          /\ astray' = (astray \ {"pack"}) \cup q.fought
          /\ request' = [request EXCEPT ![r] = Saved!Over]
      BY <2>3, <3>1 DEF Saved!Write, Saved!Answers
    <3>3. /\ overlay' \in [Saved!Keys -> Some \cup {"unset"}] /\ told' \in [Saved!Keys -> Some]
          /\ astray' \subseteq Saved!Keys
      BY <1>2, <3>2
    <3>4. \A k \in Saved!Keys \ q.wants :
            /\ overlay'[k] = overlay[k] /\ force'[k] = force[k] /\ told'[k] = told[k]
            /\ k \in astray' <=> k \in astray
      BY <1>2, <2>1, <2>2, <3>2
    <3>5. \A k \in q.wants \ astray' : Saved!Merged(overlay')[k] = told'[k] /\ force'[k] = told'[k]
      <4>1. overlay'["pack"] = q.value /\ told'["pack"] = q.value /\ q.value # "unset"
        BY <1>2, <1>3, <3>2 DEF Some
      <4> QED  BY <1>3, <2>1, <2>2, <3>2, <4>1 DEF Saved!Merged
    <3> QED  BY <1>1, <1>2, <2>1, <3>2, <3>3, <3>4, <3>5, OverIsOver, Works
  <2>4. CASE /\ request' = [request EXCEPT ![r] = Saved!Over]
             /\ astray' = astray \cup {"pack"} /\ UNCHANGED <<overlay, told>>
    <3>1. astray' \subseteq Saved!Keys /\ q.fought \cap Shared \subseteq astray'
      BY <1>2, <1>3, <2>4
    <3>2. \A k \in Saved!Keys \ q.wants :
            /\ overlay'[k] = overlay[k] /\ force'[k] = force[k] /\ told'[k] = told[k]
            /\ k \in astray' <=> k \in astray
      BY <2>1, <2>2, <2>4
    <3>3. \A k \in q.wants \ astray' : FALSE
      BY <2>2, <2>4
    <3> QED  BY <1>1, <1>2, <2>1, <2>4, <3>1, <3>2, <3>3, OverIsOver, Works
  <2> QED  BY <2>1, <2>3, <2>4
<1> QED  BY <1>4, <1>5, <1>6

\* A companion is put on as far as its steps got.
LEMMA CompanionStep ==
  ASSUME SInv, NEW r \in Saved!Requests, NEW n \in 0..4, NEW half \in BOOLEAN,
         Saved!CompanionLoaded(r, n, half)
  PROVE  SInv'
<1> DEFINE q == request[r]
           done == {Saved!Steps[i] : i \in 1..n}
           moved == done \cup {"pack"} \cup (IF half /\ n = 2 THEN {"appearance"} ELSE {})
<1>1. /\ q.stage = "loading" /\ Saved!Busy(r) /\ running' = running
      /\ "personality" \in q.wants /\ done \subseteq q.wants
      /\ force' = [k \in Saved!Keys |-> IF k \in moved \cap Saved!Live THEN Saved!Wanted(r, k) ELSE force[k]]
      /\ overlay' = [k \in Saved!Keys |-> IF k \in done THEN Saved!Wanted(r, k) ELSE overlay[k]]
      /\ \/ done = q.wants /\ Saved!Answers(r, q.wants)
         \/ /\ request' = [request EXCEPT ![r] = Saved!Over]
            /\ astray' = astray \cup moved /\ told' = told
  <2>1. q.stage = "loading" /\ Saved!Busy(r) /\ running' = running
    BY DEF Saved!CompanionLoaded, Saved!Busy
  <2>2. "personality" \in q.wants /\ done \subseteq q.wants
    BY DEF Saved!CompanionLoaded
  <2>3. force' = [k \in Saved!Keys |-> IF k \in moved \cap Saved!Live THEN Saved!Wanted(r, k) ELSE force[k]]
    BY DEF Saved!CompanionLoaded
  <2>4. overlay' = [k \in Saved!Keys |-> IF k \in done THEN Saved!Wanted(r, k) ELSE overlay[k]]
    BY DEF Saved!CompanionLoaded, Saved!Write
  <2>5. IF done = q.wants THEN Saved!Answers(r, q.wants)
        ELSE /\ request' = [request EXCEPT ![r] = Saved!Over]
             /\ astray' = astray \cup moved /\ UNCHANGED told
    BY DEF Saved!CompanionLoaded
  <2> QED  BY <2>1, <2>2, <2>3, <2>4, <2>5
<1>2. /\ q \in Asked /\ Midway(q, force, told, astray) /\ q.wants \subseteq Saved!Keys
      /\ overlay \in [Saved!Keys -> Some \cup {"unset"}] /\ told \in [Saved!Keys -> Some]
      /\ force \in [Saved!Keys -> Some] /\ astray \subseteq Saved!Keys /\ q.value \in Some
      /\ q.fought \subseteq q.wants /\ q.fought \cap Shared \subseteq astray
      /\ \A k \in Saved!Keys \ astray : Saved!Merged(overlay)[k] = told[k]
  BY <1>1, AtWork
<1>3. q.wants \in Companions
  BY <1>1, <1>2 DEF Midway
<1>4. done \subseteq q.wants /\ moved \subseteq q.wants /\ done \subseteq moved /\ "pack" \in moved
  BY <1>1, <1>3 DEF Companions
<1> HIDE DEF done, moved
<1>5. \A k \in Saved!Keys : Saved!Wanted(r, k) \in Some /\ Saved!Wanted(r, k) # "unset"
  BY <1>2 DEF Saved!Wanted, Some
<1>6. overlay' \in [Saved!Keys -> Some \cup {"unset"}] /\ force' \in [Saved!Keys -> Some]
  BY <1>1, <1>2, <1>5
<1>7. \A k \in Saved!Keys \ q.wants : overlay'[k] = overlay[k] /\ force'[k] = force[k]
  BY <1>1, <1>4
<1>8. CASE done = q.wants /\ Saved!Answers(r, q.wants)
  <2>1. /\ told' = [k \in Saved!Keys |-> IF k \in q.wants THEN Saved!Wanted(r, k) ELSE told[k]]
        /\ astray' = (astray \ q.wants) \cup q.fought
        /\ request' = [request EXCEPT ![r] = Saved!Over]
    BY <1>8 DEF Saved!Answers
  <2>2. told' \in [Saved!Keys -> Some] /\ astray' \subseteq Saved!Keys /\ q.fought \cap Shared \subseteq astray'
    BY <1>2, <1>5, <2>1
  <2>3. \A k \in Saved!Keys \ q.wants : told'[k] = told[k] /\ (k \in astray' <=> k \in astray)
    BY <1>2, <2>1
  <2>4. \A k \in q.wants \ astray' :
          Saved!Merged(overlay')[k] = told'[k] /\ (k \in Saved!Live => force'[k] = told'[k])
    BY <1>1, <1>2, <1>4, <1>5, <1>8, <2>1 DEF Saved!Merged
  <2> QED  BY <1>1, <1>6, <1>7, <2>1, <2>2, <2>3, <2>4, OverIsOver, Works
<1>9. CASE request' = [request EXCEPT ![r] = Saved!Over] /\ astray' = astray \cup moved /\ told' = told
  <2>1. told' \in [Saved!Keys -> Some] /\ astray' \subseteq Saved!Keys /\ q.fought \cap Shared \subseteq astray'
    BY <1>2, <1>4, <1>9
  <2>2. \A k \in Saved!Keys \ q.wants : told'[k] = told[k] /\ (k \in astray' <=> k \in astray)
    BY <1>4, <1>9
  <2>3. ASSUME NEW k \in q.wants \ astray'
        PROVE  Saved!Merged(overlay')[k] = told'[k] /\ (k \in Saved!Live => force'[k] = told'[k])
    <3>1. k \in Saved!Keys /\ k \notin astray /\ k \notin moved /\ k \notin done /\ k # "pack"
      BY <1>2, <1>4, <1>9
    <3>2. k \notin Shared
      BY <1>3, <3>1, KeySets DEF Companions
    <3>3. Saved!Merged(overlay)[k] = told[k] /\ (k \in Saved!Live => force[k] = told[k])
      BY <1>1, <3>1, <3>2, AtWork DEF SInv, Agreed, InHand
    <3>4. overlay'[k] = overlay[k] /\ force'[k] = force[k]
      BY <1>1, <3>1
    <3> QED  BY <1>9, <3>1, <3>3, <3>4 DEF Saved!Merged
  <2> QED  BY <1>1, <1>6, <1>7, <1>9, <2>1, <2>2, <2>3, OverIsOver, Works
<1> QED  BY <1>1, <1>8, <1>9

\* The next start finds the file, and no request.
LEMMA RestartStep ==
  ASSUME SInv, Saved!Restart
  PROVE  SInv'
<1>1. /\ force' = Saved!Merged(overlay)
      /\ request' = [r \in Saved!Requests |-> IF Saved!Busy(r) THEN Saved!Over ELSE request[r]]
      /\ astray' = {k \in Saved!Keys : Saved!Merged(overlay)[k] # told[k]}
      /\ UNCHANGED <<overlay, told>>
  BY DEF Saved!Restart
<1>2. \A r \in Saved!Requests : ~Saved!Busy(r)'
  BY <1>1, OverIsOver DEF Saved!Busy
<1>3. Saved!Merged(overlay) \in [Saved!Keys -> Some]
  BY DEF SInv, Stored, Saved!Merged, Some
<1>4. Stored'
  <2>1. request' \in [Saved!Requests -> Asked]
        /\ \A r \in Saved!Requests : request'[r].fought \subseteq request'[r].wants
    BY <1>1, OverIsOver DEF SInv, Stored
  <2> QED  BY <1>1, <1>3, <2>1 DEF SInv, Stored
<1>5. Agreed'
  <2>1. Saved!Merged(overlay') = Saved!Merged(overlay)
    BY <1>1 DEF Saved!Merged
  <2> QED  BY <1>1, <2>1 DEF Agreed, Saved!Merged
<1> QED  BY <1>2, <1>4, <1>5 DEF SInv, Contested

\* Every step of the program's settings keeps the invariant.
LEMMA SettingsStep ==
  ASSUME SInv, [Saved!Next]_savedVars
  PROVE  SInv'
<1>1. ASSUME NEW r \in Saved!Requests, NEW v \in {"profile", "chosen"}, NEW k \in Saved!Chosen,
             NEW written \in BOOLEAN, Saved!Choose(r, k, v, written)
      PROVE  SInv'
  <2>1. k \in Saved!Keys \ Shared /\ k \in Saved!Live /\ v \in Some
    BY KeySets DEF Some
  <2>2. Saved!Immediate(r) /\ running' = running /\ force' = [force EXCEPT ![k] = v]
        /\ \/ /\ overlay' = [overlay EXCEPT ![k] = v] /\ told' = [told EXCEPT ![k] = v]
              /\ astray' = astray \ {k}
           \/ UNCHANGED <<overlay, told>> /\ astray' = astray \cup {k}
    BY <1>1 DEF Saved!Choose
  <2> QED  BY <2>1, <2>2, AtOnce
<1>2. ASSUME NEW r \in Saved!Requests, NEW k \in Saved!AtStart \cup {"personality"}, NEW v \in Some,
             Saved!Save(r, k, v)
      PROVE  SInv'
  <2>1. k \in Saved!Keys \ Shared
    BY KeySets
  <2> QED  BY <1>2, <2>1, AtOnce DEF Saved!Save
<1>3. ASSUME NEW r \in Saved!Requests, NEW v \in {"profile", "chosen"},
             Saved!AskPack(r, v) \/ \E voiced \in BOOLEAN : Saved!AskCompanion(r, v, voiced)
      PROVE  SInv'
  <2>1. CASE Saved!AskPack(r, v)
    BY <2>1, AsksPack DEF Saved!AskPack
  <2>2. ASSUME NEW voiced \in BOOLEAN, Saved!AskCompanion(r, v, voiced)
        PROVE  SInv'
    <3> DEFINE wants == {Saved!Steps[i] : i \in 1..(IF voiced THEN 4 ELSE 3)}
    <3>1. wants \in Companions
      <4>1. 1..4 = {1, 2, 3, 4} /\ 1..3 = {1, 2, 3}
        OBVIOUS
      <4> QED  BY <4>1 DEF Companions, Saved!Steps
    <3>2. Saved!Asks(r, wants, v, "loading", "pack") /\ UNCHANGED <<overlay, force, told, running>>
      BY <2>2 DEF Saved!AskCompanion
    <3> HIDE DEF wants
    <3> QED  BY <3>1, <3>2, AsksPack
  <2> QED  BY <1>3, <2>1, <2>2
<1>4. CASE UNCHANGED savedVars
  <2>1. UNCHANGED <<overlay, force, told, astray, running, request>>
    BY <1>4 DEF savedVars
  <2>2. Stored' /\ Contested'
    BY <2>1 DEF SInv, Stored, Contested, Saved!Busy
  <2>3. Agreed'
    BY <2>1 DEF SInv, Agreed, InHand, Saved!Busy, Saved!Merged, Saved!Up
  <2> QED  BY <2>1, <2>2, <2>3 DEF SInv, Saved!Busy, Saved!Up
<1>5. \A k \in Saved!AtStart : \A v \in Saved!Values(k) : v \in Some
  BY KeySets DEF Saved!Values, Some
<1>6. {"profile", "chosen"} \subseteq Some
  BY DEF Some
<1>7. ASSUME NEW r \in Saved!Requests, Saved!SetterFails(r)
      PROVE  SInv'
  BY <1>7, UndoStep DEF Saved!SetterFails
<1>8. CASE \E r \in Saved!Requests : \E v \in {"profile", "chosen"} :
             \/ \E k \in Saved!Chosen : \E written \in BOOLEAN : Saved!Choose(r, k, v, written)
             \/ Saved!Save(r, "personality", v)
             \/ \E wants \in SUBSET Saved!Voice : Saved!AskVoice(r, wants, v)
             \/ Saved!AskPack(r, v)
             \/ \E voiced \in BOOLEAN : Saved!AskCompanion(r, v, voiced)
  BY <1>1, <1>2, <1>3, <1>6, <1>8, AsksVoice
<1>9. CASE \E r \in Saved!Requests :
             \/ Saved!Assign(r) \/ Saved!SetterFails(r) \/ Saved!PackLoaded(r) \/ Saved!LoadFails(r)
             \/ \E ok \in BOOLEAN : Saved!Taken(r, ok) \/ Saved!PutBack(r, ok) \/ Saved!PackShown(r, ok)
             \/ \E n \in 0..4 : \E half \in BOOLEAN : Saved!CompanionLoaded(r, n, half)
  BY <1>7, <1>9, AssignStep, PackSteps, TakenStep, PutBackStep, CompanionStep
<1>10. CASE \E r \in Saved!Requests : \E k \in Saved!AtStart :
              \E v \in Saved!Values(k) \ {"profile"} : Saved!Save(r, k, v)
  BY <1>2, <1>5, <1>10
<1> QED  BY <1>4, <1>8, <1>9, <1>10, RestartStep DEF Saved!Next

\* The first start has the checked-in configuration in force.
LEMMA SettingsStart == Saved!Init => SInv
<1> SUFFICES ASSUME Saved!Init PROVE SInv
  OBVIOUS
<1>1. Saved!None \in Asked /\ Saved!None.stage = "none" /\ Saved!None.fought = {} /\ Saved!None.wants = {}
  <2>1. <<>> \in [{} -> Some]
    OBVIOUS
  <2>2. <<>> \in UNION {[w -> Some] : w \in SUBSET Saved!Keys}
    BY <2>1
  <2> QED  BY <2>2 DEF Saved!None, Asked
<1>2. \A r \in Saved!Requests : request[r] = Saved!None /\ ~Saved!Busy(r)
  BY <1>1 DEF Saved!Init, Saved!Busy
<1>3. Stored
  BY <1>1 DEF Stored, Saved!Init, Saved!Merged, Some
<1>4. Agreed
  BY DEF Agreed, Saved!Init
<1> QED  BY <1>2, <1>3, <1>4 DEF SInv, Contested

\* What the user was told is saved and, unless it is for the next start, in use, but for what the
\* history excuses.
THEOREM ToldIsKept == PortsSpec => []SettingsAreKept
<1>1. PortsInit => SInv
  BY SettingsStart DEF PortsInit
<1>2. SInv /\ [PortsNext]_portVars => SInv'
  BY SettingsStep DEF PortsNext, portVars
<1>3. SInv => SettingsAreKept
  BY DEF SInv, Agreed, InHand, SettingsAreKept, Saved!SettingsAreKept
<1> QED  BY <1>1, <1>2, <1>3, PTL DEF PortsSpec

-----------------------------------------------------------------------------
(* The link to a renderer *)

\* What the assumptions say of the bounds of the link.
LEMMA LinkBounds == QueueMax \in Nat \ {0} /\ MaxFrames \in Nat /\ MaxFaults \in Nat
BY PortsAssumption DEF Link!BoundsAssumption

\* A link that was shut down is quiet; and when the queue is full, the frame in hand is older than
\* some that came to the queue while it was in hand.
LInv ==
  /\ Link!TypeOK
  /\ linkStage \in {"closing", "closed"} => sender = "off" /\ reader = "off"
  /\ linkStage = "closed" => client # "open" /\ ~alive
  /\ flight # 0 /\ Len(linkQueue) = QueueMax => flight # frames

\* The frames of a sequence with one less or one more.
LEMMA FramesOf ==
  ASSUME NEW n \in Nat, NEW s \in Seq(1..n)
  PROVE  /\ \A f \in 1..n : Append(s, f) \in Seq(1..n) /\ Len(Append(s, f)) = Len(s) + 1
              /\ Link!In(Append(s, f)) = Link!In(s) \cup {f}
         /\ s # <<>> => /\ Head(s) \in 1..n /\ Tail(s) \in Seq(1..n)
                        /\ Len(Tail(s)) = Len(s) - 1 /\ Len(s) > 0
                        /\ Link!In(s) = Link!In(Tail(s)) \cup {Head(s)}
         /\ s \in Seq(1..(n + 1)) /\ Len(s) \in Nat /\ Link!In(s) \subseteq 1..n
<1>1. ASSUME NEW f \in 1..n
      PROVE  /\ Append(s, f) \in Seq(1..n) /\ Len(Append(s, f)) = Len(s) + 1
             /\ Link!In(Append(s, f)) = Link!In(s) \cup {f}
  <2> DEFINE q == Append(s, f)
  <2>1. q \in Seq(1..n) /\ Len(q) = Len(s) + 1 /\ Len(s) \in Nat /\ DOMAIN s = 1..Len(s)
        /\ DOMAIN q = 1..Len(q) /\ q[Len(s) + 1] = f /\ \A i \in 1..Len(s) : q[i] = s[i]
    OBVIOUS
  <2> HIDE DEF q
  <2>2. DOMAIN q = DOMAIN s \cup {Len(s) + 1}
    BY <2>1
  <2> QED  BY <2>1, <2>2 DEF Link!In, q
<1>2. ASSUME s # <<>>
      PROVE  /\ Head(s) \in 1..n /\ Tail(s) \in Seq(1..n)
             /\ Len(Tail(s)) = Len(s) - 1 /\ Len(s) > 0
             /\ Link!In(s) = Link!In(Tail(s)) \cup {Head(s)}
  <2> DEFINE t == Tail(s)
  <2>1. Head(s) \in 1..n /\ Head(s) = s[1] /\ t \in Seq(1..n) /\ Len(t) = Len(s) - 1
        /\ Len(s) \in Nat /\ Len(s) > 0 /\ DOMAIN s = 1..Len(s)
        /\ DOMAIN t = 1..Len(t) /\ \A i \in 1..Len(t) : t[i] = s[i + 1]
    BY <1>2
  <2> HIDE DEF t
  <2>2. ASSUME NEW i \in DOMAIN s
        PROVE  s[i] \in Link!In(t) \cup {Head(s)}
    <3>1. CASE i = 1
      BY <2>1, <3>1
    <3>2. CASE i # 1
      <4>1. i - 1 \in DOMAIN t /\ (i - 1) + 1 = i
        BY <2>1, <3>2
      <4>2. t[i - 1] = s[i]
        BY <2>1, <4>1
      <4> QED  BY <4>1, <4>2 DEF Link!In
    <3> QED  BY <3>1, <3>2
  <2>3. ASSUME NEW i \in DOMAIN t PROVE i + 1 \in DOMAIN s /\ t[i] = s[i + 1]
    <3>1. i \in 1..Len(t) /\ Len(t) = Len(s) - 1 /\ Len(s) \in Nat
      BY <2>1
    <3>2. i + 1 \in 1..Len(s)
      BY <3>1
    <3> QED  BY <2>1, <3>1, <3>2
  <2>4. 1 \in DOMAIN s
    BY <2>1
  <2>5. Link!In(s) \subseteq Link!In(t) \cup {Head(s)}
    BY <2>2 DEF Link!In
  <2>6. Link!In(t) \cup {Head(s)} \subseteq Link!In(s)
    <3>1. \A i \in DOMAIN t : t[i] \in Link!In(s)
      <4> TAKE i \in DOMAIN t
      <4>1. i + 1 \in DOMAIN s /\ t[i] = s[i + 1]
        BY <2>3
      <4> QED  BY <4>1 DEF Link!In
    <3>2. Head(s) \in Link!In(s)
      BY <2>1, <2>4 DEF Link!In
    <3> QED  BY <3>1, <3>2 DEF Link!In
  <2> QED  BY <2>1, <2>5, <2>6 DEF t
<1>3. s \in Seq(1..(n + 1)) /\ Len(s) \in Nat /\ Link!In(s) \subseteq 1..n
  <2>1. 1..n \subseteq 1..(n + 1)
    OBVIOUS
  <2> QED  BY <2>1 DEF Link!In
<1> QED  BY <1>1, <1>2, <1>3

\* Every step of the link keeps the invariant, and loses a frame for a stated reason only.
LEMMA LinkStep ==
  ASSUME LInv, [Link!Next]_linkVars
  PROVE  /\ LInv'
         /\ \A frame \in Link!Held \ Link!Held' :
              \/ frame \in Link!In(got')
              \/ Len(linkQueue) = QueueMax /\ frame # frames'
              \/ ~alive /\ sender' = "waiting"
              \/ linkStage' = "closing"
<1> DEFINE Excused == \A frame \in Link!Held \ Link!Held' :
              \/ frame \in Link!In(got')
              \/ Len(linkQueue) = QueueMax /\ frame # frames'
              \/ ~alive /\ sender' = "waiting"
              \/ linkStage' = "closing"
<1>0. /\ frames \in Nat /\ linkQueue \in Seq(1..frames) /\ got \in Seq(1..frames)
      /\ flight \in Nat /\ Len(linkQueue) \in Nat
  BY LinkBounds DEF LInv, Link!TypeOK
<1> USE DEF Link!link, Link!outside
<1>1. CASE Link!Call
  <2> DEFINE q == IF Len(linkQueue) < QueueMax THEN linkQueue ELSE Tail(linkQueue)
  <2>1. frames' = frames + 1 /\ linkQueue' = Append(q, frames')
    BY <1>1 DEF Link!Call, Link!Enqueue
  <2>2. /\ q \in Seq(1..frames) /\ Len(q) < QueueMax /\ Len(q) \in Nat
        /\ \A f \in Link!In(linkQueue) \ Link!In(q) : Len(linkQueue) = QueueMax /\ f \in 1..frames
    <3>1. CASE Len(linkQueue) < QueueMax
      BY <1>0, <3>1
    <3>2. CASE ~(Len(linkQueue) < QueueMax)
      <4>1. Len(linkQueue) = QueueMax /\ linkQueue # <<>>
        BY <1>0, <3>2, LinkBounds DEF LInv, Link!TypeOK
      <4> QED  BY <1>0, <3>2, <4>1, FramesOf, LinkBounds
    <3> QED  BY <3>1, <3>2
  <2> HIDE DEF q
  <2>3. q \in Seq(1..(frames + 1)) /\ got \in Seq(1..(frames + 1))
    BY <1>0, <2>2, FramesOf
  <2>4. /\ linkQueue' \in Seq(1..frames') /\ Len(linkQueue') <= QueueMax
        /\ Link!In(linkQueue') = Link!In(q) \cup {frames'}
    <3>1. frames + 1 \in Nat /\ frames + 1 \in 1..(frames + 1)
      BY <1>0
    <3>2. Append(q, frames + 1) \in Seq(1..(frames + 1)) /\ Len(Append(q, frames + 1)) = Len(q) + 1
          /\ Link!In(Append(q, frames + 1)) = Link!In(q) \cup {frames + 1}
      BY <2>3, <3>1, FramesOf
    <3> QED  BY <2>1, <2>2, <3>2, LinkBounds
  <2>5. Link!TypeOK'
    BY <1>0, <1>1, <2>1, <2>3, <2>4, LinkBounds DEF Link!Call, LInv, Link!TypeOK
  <2>6. LInv'
    BY <1>0, <1>1, <2>1, <2>5 DEF Link!Call, LInv, Link!TypeOK
  <2>7. Excused
    BY <1>0, <1>1, <2>1, <2>2, <2>4 DEF Link!Held, Link!Call
  <2> QED  BY <2>6, <2>7
<1>2. CASE Link!Take
  <2>1. /\ linkQueue # <<>> /\ flight' = Head(linkQueue) /\ linkQueue' = Tail(linkQueue) /\ flight = 0
        /\ sender' = "sending" /\ linkStage \notin {"closing", "closed"}
        /\ UNCHANGED <<installed, linkStage, frames, client, alive, reader, up, got, faults>>
    BY <1>2 DEF Link!Take, LInv, Link!TypeOK
  <2>2. /\ Head(linkQueue) \in 1..frames /\ Tail(linkQueue) \in Seq(1..frames)
        /\ Len(Tail(linkQueue)) = Len(linkQueue) - 1 /\ Len(linkQueue) > 0
        /\ Link!In(linkQueue) = Link!In(Tail(linkQueue)) \cup {Head(linkQueue)}
    BY <1>0, <2>1, FramesOf
  <2>3. Len(linkQueue') \in Nat /\ Len(linkQueue') < QueueMax /\ flight' # 0
    BY <1>0, <2>1, <2>2, LinkBounds DEF LInv, Link!TypeOK
  <2>4. Link!TypeOK'
    BY <1>0, <2>1, <2>2, <2>3, LinkBounds DEF LInv, Link!TypeOK
  <2>5. ~(Len(linkQueue') = QueueMax)
    BY <2>3, LinkBounds
  <2>6. LInv'
    BY <2>1, <2>4, <2>5 DEF LInv
  <2> QED  BY <2>1, <2>2, <2>3, <2>6 DEF Link!Held
<1>3. CASE Link!Sent
  <2>1. /\ got' = (IF alive THEN Append(got, flight) ELSE got) /\ flight' = 0 /\ flight \in 1..frames
        /\ sender' = "waiting" /\ linkStage \notin {"closing", "closed"}
        /\ UNCHANGED <<installed, linkStage, linkQueue, frames, client, alive, reader, up, faults>>
    BY <1>3, <1>0 DEF Link!Sent, LInv, Link!TypeOK
  <2>2. got' \in Seq(1..frames) /\ (alive => flight \in Link!In(got'))
    <3>1. Append(got, flight) \in Seq(1..frames)
          /\ Link!In(Append(got, flight)) = Link!In(got) \cup {flight}
      BY <1>0, <2>1, FramesOf
    <3> QED  BY <1>0, <2>1, <3>1
  <2>3. LInv'
    BY <2>1, <2>2 DEF LInv, Link!TypeOK
  <2> QED  BY <2>1, <2>2, <2>3 DEF Link!Held
<1>4. CASE Link!SendFails \/ Link!SendTimesOut
  <2>1. /\ linkQueue' = (IF Len(linkQueue) < QueueMax THEN Append(linkQueue, flight) ELSE linkQueue)
        /\ flight' = 0 /\ client' = "closed" /\ sender = "sending" /\ sender' = "closing"
        /\ flight \in 1..frames /\ flight # 0
        /\ linkStage \notin {"closing", "closed"} /\ faults' \in 0..MaxFaults
        /\ got' \in {got, Append(got, flight)}
        /\ UNCHANGED <<installed, linkStage, frames, alive, reader, up>>
    BY <1>4, <1>0, LinkBounds
    DEF Link!SendFails, Link!SendTimesOut, Link!Failed, Link!Requeue, LInv, Link!TypeOK
  <2>2. /\ linkQueue' \in Seq(1..frames) /\ Len(linkQueue') <= QueueMax
        /\ Link!In(linkQueue) \subseteq Link!In(linkQueue')
        /\ flight \in Link!In(linkQueue') \/ Len(linkQueue) = QueueMax
    <3>1. /\ Append(linkQueue, flight) \in Seq(1..frames)
          /\ Len(Append(linkQueue, flight)) = Len(linkQueue) + 1
          /\ Link!In(Append(linkQueue, flight)) = Link!In(linkQueue) \cup {flight}
      BY <1>0, <2>1, FramesOf
    <3>2. Len(linkQueue) <= QueueMax
      BY DEF LInv, Link!TypeOK
    <3>3. CASE Len(linkQueue) < QueueMax
      BY <1>0, <2>1, <3>1, <3>3, LinkBounds
    <3>4. CASE ~(Len(linkQueue) < QueueMax)
      <4>1. linkQueue' = linkQueue /\ Len(linkQueue) = QueueMax
        BY <1>0, <2>1, <3>2, <3>4, LinkBounds
      <4> QED  BY <1>0, <3>2, <4>1
    <3> QED  BY <3>3, <3>4
  <2>3. got' \in Seq(1..frames)
    <3>1. Append(got, flight) \in Seq(1..frames)
      BY <1>0, <2>1, FramesOf
    <3> QED  BY <1>0, <2>1, <3>1
  <2>4. LInv'
    BY <2>1, <2>2, <2>3 DEF LInv, Link!TypeOK
  <2> QED  BY <2>1, <2>2, <2>4 DEF Link!Held, LInv
<1>5. ASSUME UNCHANGED <<linkQueue, frames, flight, got>>,
             Link!TypeOK',
             linkStage' \in {"closing", "closed"} => sender' = "off" /\ reader' = "off",
             linkStage' = "closed" => client' # "open" /\ ~alive'
      PROVE  LInv' /\ Excused
  <2>1. LInv'
    BY <1>5 DEF LInv
  <2>2. Link!Held' = Link!Held
    BY <1>5 DEF Link!Held
  <2> QED  BY <2>1, <2>2
<1>6. CASE Link!Connecting \/ Link!ClientDropped \/ Link!Listening
  BY <1>5, <1>6 DEF Link!Connecting, Link!Connected, Link!ConnectFails, Link!BackoffEnds,
       Link!ClientDropped, Link!Listening, Link!Listen, Link!ListenEnds, LInv, Link!TypeOK
<1>7. CASE Link!Shutdown \/ Link!Closed
  BY <1>5, <1>7 DEF Link!Shutdown, Link!Closed, LInv, Link!TypeOK
<1>10. CASE Link!Goes \/ Link!Comes
  <2>1. faults' \in 0..MaxFaults
    BY <1>10, LinkBounds DEF Link!Goes, Link!Comes, LInv, Link!TypeOK
  <2> QED  BY <1>5, <1>10, <2>1 DEF Link!Goes, Link!Comes, LInv, Link!TypeOK
<1>8. CASE Link!Closing
  BY <1>8, <1>0 DEF Link!Closing, LInv, Link!TypeOK
<1>9. CASE UNCHANGED linkVars
  BY <1>5, <1>9 DEF linkVars, LInv, Link!TypeOK
<1> QED  BY <1>1, <1>2, <1>3, <1>4, <1>6, <1>7, <1>8, <1>9, <1>10 DEF Link!Next, Link!Sending, Link!Stopping

\* The link starts empty.
LEMMA LinkStarts == Link!Init => LInv
<1> SUFFICES ASSUME Link!Init PROVE LInv
  OBVIOUS
<1>1. /\ frames = 0 /\ linkQueue \in Seq(1..frames) /\ Len(linkQueue) = 0 /\ got \in Seq(1..frames)
      /\ linkStage = "open" /\ client = "none" /\ sender = "off" /\ flight = 0 /\ reader = "off"
      /\ installed \in BOOLEAN /\ alive = FALSE /\ up = TRUE /\ faults = 0
  BY DEF Link!Init
<1>2. Link!TypeOK
  <2>1. /\ frames \in 0..MaxFrames /\ faults \in 0..MaxFaults /\ flight \in 0..frames
        /\ Len(linkQueue) <= QueueMax
    BY <1>1, LinkBounds
  <2>2. flight = 0 /\ sender # "sending" /\ {installed, alive, up} \subseteq BOOLEAN
    BY <1>1
  <2> QED  BY <1>1, <2>1, <2>2 DEF Link!TypeOK
<1> QED  BY <1>2 DEF Link!Init, LInv

\* A frame that leaves the link without having reached the renderer does so because the queue was
\* full, and then it is not the newest; because a dead connection took it; or because the link is
\* shut down; and once it is, nothing of it runs and no connection is open.
THEOREM LinkKeepsFrames == PortsSpec => FramesAreKept
<1>1. PortsInit => LInv
  BY LinkStarts DEF PortsInit
<1>2. LInv /\ [PortsNext]_portVars => [Link!Next]_linkVars
  BY DEF PortsNext, portVars
<1>3. LInv /\ [PortsNext]_portVars => LInv'
  BY <1>2, LinkStep
<1>4. LInv => Link!ClosedIsQuiet
  BY DEF LInv, Link!ClosedIsQuiet
<1>5. LInv /\ [PortsNext]_portVars =>
        [\A frame \in Link!Held \ Link!Held' :
           \/ frame \in Link!In(got')
           \/ Len(linkQueue) = QueueMax /\ frame # frames'
           \/ ~alive /\ sender' = "waiting"
           \/ linkStage' = "closing"]_Link!vars
  BY <1>2, LinkStep
<1> QED  BY <1>1, <1>3, <1>4, <1>5, PTL DEF PortsSpec, FramesAreKept, Link!LossIsExcused

-----------------------------------------------------------------------------
(* A delegated task *)

\* What can be told of a task: progress, its outcome, and that there is nothing more.
Items == Task!Terminal \cup {"running", "end"}

\* What the assumptions say of the runtimes and the bounds of a task.
LEMMA TaskBounds ==
  /\ QueueMax \in Nat /\ QueueMax > 1 /\ PipeMax \in Nat /\ PipeMax > 0
  /\ MaxLines \in Nat /\ MaxCancels \in Nat
  /\ \A p \in Task!Preferred : Task!Route(p) \in Registered
BY PortsAssumption DEF Task!BoundsAssumption, Task!RuntimesAssumption, Task!Route

\* Nothing but progress was told.
Progress(q) == \A i \in 1..Len(q) : q[i] = "running"

\* Which parts of the task are there, by where its runner stands.
Parts ==
  /\ (runner = "none") <=> (turn = "idle")
  /\ runner \in {"none", "created"} => process = "none"
  /\ runner \in {"spawning", "feeding", "waiting"} => Task!Spawns
  /\ runner \in {"none", "created", "spawning", "feeding", "running"} => pump = "off"
  /\ runner = "done" => pump # "on"
  /\ taskCancelled \/ doomed \/ canceller # "idle" => cancels # 0

\* How far outcome r has been told, when q waits to be told, h was told last, and the turn is at t.
Telling(r, q, h, t) ==
  \/ /\ t # "over" /\ h \in {"none", "running"}
     /\ Len(q) > 1 /\ q[Len(q)] = "end" /\ q[Len(q) - 1] = r
     /\ \A i \in 1..(Len(q) - 2) : q[i] = "running"
  \/ t # "over" /\ h = r /\ Len(q) = 1 /\ q[1] = "end"
  \/ t = "over" /\ h = r /\ Len(q) = 0

\* The outcome is decided once, when the runner is done, and told from there on.
Decided ==
  /\ runner # "done" => turn # "over" /\ heard \in {"none", "running"} /\ Progress(taskQueue)
  /\ runner = "done" =>
       \E r \in Task!Terminal :
         /\ Telling(r, taskQueue, heard, turn)
         /\ cancels = 0 => (r = status /\ r \in {"succeeded", "failed"})
         /\ turn = "over" /\ cancels = 0 => completed = r

TInv == Task!TypeOK /\ Parts /\ Decided

\* An update that is offered is the last one, and makes room at the front.
LEMMA Offered ==
  ASSUME NEW q \in Seq(Items), Len(q) <= QueueMax, NEW item \in Items
  PROVE  /\ Task!Offer(q, item) \in Seq(Items)
         /\ Len(Task!Offer(q, item)) \in 1..QueueMax
         /\ Len(Task!Offer(q, item)) > 1 \/ Len(q) = 0
         /\ Task!Offer(q, item)[Len(Task!Offer(q, item))] = item
         /\ \E d \in {0, 1} :
              /\ Len(Task!Offer(q, item)) = Len(q) + 1 - d
              /\ \A i \in 1..(Len(Task!Offer(q, item)) - 1) : Task!Offer(q, item)[i] = q[i + d] /\ i + d \in 1..Len(q)
<1> DEFINE k == IF Len(q) < QueueMax THEN q ELSE Tail(q)
           o == Append(k, item)
<1>1. o = Task!Offer(q, item)
  BY DEF Task!Offer
<1>2. PICK d \in {0, 1} : /\ k \in Seq(Items) /\ Len(k) = Len(q) - d /\ Len(k) < QueueMax
                          /\ \A i \in 1..Len(k) : k[i] = q[i + d] /\ i + d \in 1..Len(q)
                          /\ Len(k) > 0 \/ Len(q) = 0
  <2>1. CASE Len(q) < QueueMax
    <3>1. k = q /\ \A i \in 1..Len(k) : i + 0 = i
      BY <2>1
    <3> QED  BY <2>1, <3>1
  <2>2. CASE ~(Len(q) < QueueMax)
    <3>1. k = Tail(q) /\ Len(q) = QueueMax /\ Len(q) \in Nat /\ Len(q) > 1 /\ q # <<>>
      BY <2>2, TaskBounds
    <3>2. Tail(q) \in Seq(Items) /\ Len(Tail(q)) = Len(q) - 1
          /\ \A i \in 1..Len(Tail(q)) : Tail(q)[i] = q[i + 1]
      BY <3>1
    <3> QED  BY <3>1, <3>2
  <2> QED  BY <2>1, <2>2
<1> HIDE DEF k
<1>3. /\ o \in Seq(Items) /\ Len(o) = Len(k) + 1 /\ o[Len(k) + 1] = item /\ Len(k) \in Nat
      /\ \A i \in 1..Len(k) : o[i] = k[i]
  BY <1>2
<1> HIDE DEF o
<1>4. /\ Len(o) \in 1..QueueMax /\ (Len(o) > 1 \/ Len(q) = 0)
      /\ Len(o) = Len(q) + 1 - d /\ Len(o) - 1 = Len(k)
  BY <1>2, <1>3, TaskBounds
<1>5. \A i \in 1..(Len(o) - 1) : o[i] = q[i + d] /\ i + d \in 1..Len(q)
  BY <1>2, <1>3, <1>4
<1>6. Len(o) \in 1..QueueMax
  BY <1>2, <1>3, TaskBounds
<1> QED  BY <1>1, <1>3, <1>4, <1>5, <1>6

\* Progress that is told leaves nothing but progress to tell.
LEMMA OfferedProgress ==
  ASSUME NEW q \in Seq(Items), Len(q) <= QueueMax, Progress(q)
  PROVE  /\ Task!Offer(q, "running") \in Seq(Items) /\ Len(Task!Offer(q, "running")) <= QueueMax
         /\ Progress(Task!Offer(q, "running"))
<1> DEFINE o == Task!Offer(q, "running")
<1>1. /\ o \in Seq(Items) /\ Len(o) \in 1..QueueMax /\ o[Len(o)] = "running"
      /\ \E d \in {0, 1} : \A i \in 1..(Len(o) - 1) : o[i] = q[i + d] /\ i + d \in 1..Len(q)
  BY Offered DEF Items
<1> HIDE DEF o
<1>2. \A i \in 1..(Len(o) - 1) : o[i] = "running"
  BY <1>1 DEF Progress
<1>3. Progress(o)
  <2> SUFFICES ASSUME NEW i \in 1..Len(o) PROVE o[i] = "running"
    BY DEF Progress
  <2>1. i = Len(o) \/ i \in 1..(Len(o) - 1)
    BY <1>1
  <2> QED  BY <1>1, <1>2, <2>1
<1>4. Len(o) <= QueueMax
  BY <1>1, TaskBounds
<1> QED  BY <1>1, <1>3, <1>4 DEF o

\* An outcome that is told is followed by the end, and by nothing else.
LEMMA OfferedOutcome ==
  ASSUME NEW q \in Seq(Items), Len(q) <= QueueMax, Progress(q), NEW r \in Task!Terminal,
         NEW h \in {"none", "running"}, NEW t, t # "over"
  PROVE  LET o == Task!Offer(Task!Offer(q, r), "end")
         IN  o \in Seq(Items) /\ Len(o) <= QueueMax /\ Telling(r, o, h, t)
<1> DEFINE p == Task!Offer(q, r)
           o == Task!Offer(p, "end")
<1>1. /\ p \in Seq(Items) /\ Len(p) \in 1..QueueMax /\ p[Len(p)] = r
      /\ \E d \in {0, 1} : \A i \in 1..(Len(p) - 1) : p[i] = q[i + d] /\ i + d \in 1..Len(q)
  BY Offered DEF Items
<1> HIDE DEF p
<1>2. \A i \in 1..(Len(p) - 1) : p[i] = "running"
  BY <1>1 DEF Progress
<1>3. Len(p) <= QueueMax /\ Len(p) \in Nat /\ Len(p) > 0
  BY <1>1, TaskBounds
<1>4. /\ o \in Seq(Items) /\ Len(o) \in 1..QueueMax /\ o[Len(o)] = "end" /\ (Len(o) > 1 \/ Len(p) = 0)
      /\ \E d \in {0, 1} : /\ Len(o) = Len(p) + 1 - d
                           /\ \A i \in 1..(Len(o) - 1) : o[i] = p[i + d] /\ i + d \in 1..Len(p)
  BY <1>1, <1>3, Offered DEF Items
<1>5. o \in Seq(Items) /\ Len(o) \in 1..QueueMax /\ o[Len(o)] = "end" /\ Len(o) > 1
  BY <1>1, <1>3, Offered DEF Items
<1> HIDE DEF o
<1>6. PICK d \in {0, 1} : /\ Len(o) = Len(p) + 1 - d
                          /\ \A i \in 1..(Len(o) - 1) : o[i] = p[i + d] /\ i + d \in 1..Len(p)
  BY <1>4
<1>7. o[Len(o) - 1] = r
  <2>1. Len(o) - 1 \in 1..(Len(o) - 1) /\ (Len(o) - 1) + d = Len(p)
    BY <1>3, <1>5, <1>6, TaskBounds
  <2> QED  BY <1>1, <1>6, <2>1
<1>8. ASSUME NEW i \in 1..(Len(o) - 2)
      PROVE  o[i] = "running"
  <2>1. i \in 1..(Len(o) - 1) /\ i + d \in 1..(Len(p) - 1)
    BY <1>3, <1>5, <1>6, TaskBounds
  <2> QED  BY <1>2, <1>6, <2>1
<1>9. Len(o) <= QueueMax
  BY <1>5, TaskBounds
<1> QED  BY <1>5, <1>7, <1>8, <1>9 DEF Telling, p, o

\* The runner decides outcome r.
LEMMA Decides ==
  ASSUME TInv, NEW r \in Task!Terminal, runner # "done", runner' = "done",
         taskQueue' = Task!Offer(Task!Offer(taskQueue, r), "end"),
         status' \in Task!Terminal \cup {"queued", "running"},
         cancels # 0 \/ (r = status' /\ r # "cancelled"),
         turn' \in {"updates", "abandoned"}, owner' \in Registered \cup {"none"},
         pump # "on", owner' = owner \/ process = "none",
         UNCHANGED <<process, signal, lines, pipe, pump, taskCancelled, doomed, heard, completed,
                     canceller, cancels>>
  PROVE  TInv' /\ heard' = heard
<1>1. taskQueue \in Seq(Items) /\ Len(taskQueue) <= QueueMax /\ Progress(taskQueue)
      /\ heard \in {"none", "running"}
  BY DEF TInv, Task!TypeOK, Decided, Items
<1>2. taskQueue' \in Seq(Items) /\ Len(taskQueue') <= QueueMax /\ Telling(r, taskQueue', heard, turn')
  BY <1>1, OfferedOutcome
<1>3. Task!TypeOK'
  BY <1>2 DEF TInv, Task!TypeOK, Items, Task!Spawns
<1>4. Parts'
  BY DEF TInv, Parts, Task!Spawns
<1>5. Decided'
  BY <1>2 DEF TInv, Decided, Task!Terminal
<1> QED  BY <1>3, <1>4, <1>5 DEF TInv

\* The runner goes on without an outcome, and may tell of it.
LEMMA StillOpen ==
  ASSUME TInv, runner # "done", runner' # "done",
         taskQueue' \in {taskQueue, Task!Offer(taskQueue, "running")},
         heard' = heard, turn' # "over"
  PROVE  /\ Decided' /\ taskQueue' \in Seq(Items) /\ Len(taskQueue') <= QueueMax
<1>1. taskQueue \in Seq(Items) /\ Len(taskQueue) <= QueueMax /\ Progress(taskQueue)
      /\ heard \in {"none", "running"}
  BY DEF TInv, Task!TypeOK, Decided, Items
<1>2. taskQueue' \in Seq(Items) /\ Len(taskQueue') <= QueueMax /\ Progress(taskQueue')
  BY <1>1, OfferedProgress
<1> QED  BY <1>1, <1>2 DEF Decided

\* What has no part in the telling changes nothing of it.
LEMMA ToldAsBefore ==
  ASSUME TInv, UNCHANGED <<runner, taskQueue, heard, completed>>, cancels = 0 => status' = status,
         turn' = turn \/ (turn = "updates" /\ turn' = "abandoned"),
         cancels' = cancels \/ cancels' # 0
  PROVE  Decided'
<1>1. runner # "done" => Decided'
  BY DEF TInv, Decided, Progress
<1>2. ASSUME runner = "done"
      PROVE  Decided'
  <2>1. PICK r \in Task!Terminal :
          /\ Telling(r, taskQueue, heard, turn)
          /\ cancels = 0 => (r = status /\ r \in {"succeeded", "failed"})
          /\ turn = "over" /\ cancels = 0 => completed = r
    BY <1>2 DEF TInv, Decided
  <2>2. Telling(r, taskQueue', heard', turn')
    BY <2>1 DEF Telling
  <2>3. cancels' = 0 => cancels = 0
    OBVIOUS
  <2>4. turn' = "over" => turn = "over"
    OBVIOUS
  <2> QED  BY <1>2, <2>1, <2>2, <2>3, <2>4 DEF Decided
<1> QED  BY <1>1, <1>2

\* What the turn hears of a task that is over.
LEMMA HearStep ==
  ASSUME TInv, Task!Hear
  PROVE  TInv' /\ (heard \in Task!Terminal => heard' = heard)
<1>1. /\ turn = "updates" /\ taskQueue # <<>> /\ taskQueue' = Tail(taskQueue)
      /\ IF Head(taskQueue) = "end" THEN turn' = "over" /\ completed' = Task!Result /\ heard' = heard
         ELSE heard' = Head(taskQueue) /\ turn' = turn /\ completed' = completed
      /\ UNCHANGED <<owner, runner, status, process, signal, lines, pipe, pump, taskCancelled, doomed,
                     canceller, cancels>>
  BY DEF Task!Hear, Task!external, Task!user
<1>2. /\ taskQueue \in Seq(Items) /\ Len(taskQueue) <= QueueMax /\ Len(taskQueue) \in Nat
      /\ Len(taskQueue) > 0 /\ Head(taskQueue) = taskQueue[1] /\ Head(taskQueue) \in Items
      /\ taskQueue' \in Seq(Items) /\ Len(taskQueue') = Len(taskQueue) - 1
      /\ \A i \in 1..Len(taskQueue') : taskQueue'[i] = taskQueue[i + 1]
  BY <1>1 DEF TInv, Task!TypeOK, Items
<1>3. Len(taskQueue') <= QueueMax
  BY <1>2, TaskBounds
<1>4. Parts'
  BY <1>1 DEF TInv, Parts, Task!Spawns
<1>5. heard' \in Task!Terminal \cup {"none", "running"} /\ completed' \in Task!Terminal \cup {"none"}
      /\ turn' \in {"updates", "over"}
  BY <1>1, <1>2 DEF TInv, Task!TypeOK, Items, Task!Result, Task!Terminal
<1>6. Task!TypeOK'
  BY <1>1, <1>2, <1>3, <1>5 DEF TInv, Task!TypeOK, Items, Task!Spawns
<1>7. ASSUME runner # "done"
      PROVE  Decided' /\ heard \notin Task!Terminal
  <2>1. Head(taskQueue) = "running" /\ Progress(taskQueue')
    BY <1>2, <1>7 DEF TInv, Decided, Progress
  <2> QED  BY <1>1, <1>7, <2>1 DEF TInv, Decided, Task!Terminal
<1>8. ASSUME runner = "done"
      PROVE  Decided' /\ (heard \in Task!Terminal => heard' = heard)
  <2>1. PICK r \in Task!Terminal :
          /\ Telling(r, taskQueue, heard, turn)
          /\ cancels = 0 => (r = status /\ r \in {"succeeded", "failed"})
    BY <1>8 DEF TInv, Decided
  <2>2. cancels = 0 => Task!Result = r
    BY <2>1 DEF TInv, Parts, Task!Result
  <2>3. CASE heard = r /\ Len(taskQueue) = 1 /\ taskQueue[1] = "end"
    <3>1. turn' = "over" /\ completed' = Task!Result /\ heard' = r /\ Len(taskQueue') = 0
      BY <1>1, <1>2, <2>3
    <3>2. Telling(r, taskQueue', heard', turn')
      BY <3>1 DEF Telling
    <3> QED  BY <1>1, <1>8, <2>1, <2>2, <2>3, <3>1, <3>2 DEF Decided
  <2>4. CASE /\ heard \in {"none", "running"}
             /\ Len(taskQueue) > 1 /\ taskQueue[Len(taskQueue)] = "end"
             /\ taskQueue[Len(taskQueue) - 1] = r
             /\ \A i \in 1..(Len(taskQueue) - 2) : taskQueue[i] = "running"
    <3>1. CASE Len(taskQueue) = 2
      <4>1. Head(taskQueue) = r /\ r # "end" /\ Len(taskQueue') = 1 /\ 1 + 1 = 2
        BY <1>2, <2>4, <3>1 DEF Task!Terminal
      <4>2. taskQueue'[1] = "end"
        BY <1>2, <2>4, <3>1, <4>1
      <4>3. Telling(r, taskQueue', heard', turn')
        BY <1>1, <4>1, <4>2 DEF Telling
      <4> QED  BY <1>1, <1>8, <2>1, <2>4, <4>1, <4>3 DEF Decided, Task!Terminal
    <3>2. CASE Len(taskQueue) # 2
      <4>1. 1 \in 1..(Len(taskQueue) - 2) /\ Len(taskQueue') > 1
        BY <1>2, <2>4, <3>2
      <4>2. Head(taskQueue) = "running"
        BY <1>2, <2>4, <4>1
      <4>3. /\ taskQueue'[Len(taskQueue')] = taskQueue[Len(taskQueue)]
            /\ taskQueue'[Len(taskQueue') - 1] = taskQueue[Len(taskQueue) - 1]
        <5>1. /\ Len(taskQueue') \in 1..Len(taskQueue') /\ Len(taskQueue') + 1 = Len(taskQueue)
              /\ Len(taskQueue') - 1 \in 1..Len(taskQueue')
              /\ (Len(taskQueue') - 1) + 1 = Len(taskQueue) - 1
          BY <1>2, <4>1
        <5> QED  BY <1>2, <5>1
      <4>4. ASSUME NEW i \in 1..(Len(taskQueue') - 2)
            PROVE  taskQueue'[i] = "running"
        <5>1. i \in 1..Len(taskQueue') /\ i + 1 \in 1..(Len(taskQueue) - 2)
          BY <1>2
        <5> QED  BY <1>2, <2>4, <5>1
      <4>5. heard' = "running" /\ turn' = "updates"
        BY <1>1, <4>2
      <4>6. Telling(r, taskQueue', heard', turn')
        BY <2>4, <4>1, <4>3, <4>4, <4>5 DEF Telling
      <4> QED  BY <1>1, <1>8, <2>1, <2>4, <4>5, <4>6 DEF Decided, Task!Terminal
    <3> QED  BY <3>1, <3>2
  <2> QED  BY <1>1, <2>1, <2>3, <2>4 DEF Telling
<1> QED  BY <1>4, <1>6, <1>7, <1>8 DEF TInv

\* Every step of a task keeps the invariant, and what was heard of its outcome.
LEMMA TaskMoves ==
  ASSUME TInv, [Task!Next]_taskVars
  PROVE  TInv' /\ (heard \in Task!Terminal => heard' = heard)
<1> USE DEF Task!adapter, Task!external, Task!user, Task!told
<1>1. ASSUME Task!Submit
      PROVE  TInv' /\ heard' = heard
  <2>1. /\ turn = "idle" /\ turn' = "updates" /\ owner' \in Registered
        /\ runner = "none" /\ process = "none" /\ pump = "off"
        /\ UNCHANGED <<process, signal, lines, pipe, pump, taskCancelled, doomed, heard, completed,
                       canceller, cancels>>
    BY <1>1, TaskBounds DEF Task!Submit, TInv, Parts
  <2>2. CASE Task!Outcome("failed")
    BY <2>1, <2>2, Decides DEF Task!Outcome, Task!Terminal
  <2>3. CASE runner' = "created" /\ UNCHANGED <<status, taskQueue>>
    <3>1. Task!TypeOK'
      BY <2>1, <2>3 DEF TInv, Task!TypeOK, Task!Spawns
    <3>2. Parts'
      BY <2>1, <2>3 DEF TInv, Parts, Task!Spawns
    <3>3. Decided'
      BY <2>1, <2>3, StillOpen
    <3> QED  BY <2>1, <3>1, <3>2, <3>3 DEF TInv
  <2> QED  BY <1>1, <2>2, <2>3 DEF Task!Submit
<1>2. ASSUME NEW r \in Task!Terminal, Task!Outcome(r), runner \notin {"none", "done"}, pump # "on",
             cancels # 0 \/ r # "cancelled",
             UNCHANGED <<owner, process, signal, lines, pipe, pump, taskCancelled, doomed, turn, heard,
                         completed, canceller, cancels>>
      PROVE  TInv' /\ heard' = heard
  <2>1. turn \in {"updates", "abandoned"} /\ owner \in Registered \cup {"none"}
    BY <1>2 DEF TInv, Task!TypeOK, Parts, Decided
  <2> QED  BY <1>2, <2>1, Decides DEF Task!Outcome
<1>3. CASE \/ Task!Start /\ Task!Outcome("failed")
           \/ Task!SpawnFails
           \/ Task!AgentStarts /\ Task!Outcome("failed")
  BY <1>2, <1>3 DEF Task!Start, Task!SpawnFails, Task!AgentStarts, TInv, Parts, Task!Terminal
<1>4. CASE Task!Finish \/ Task!AgentEnds
  BY <1>2, <1>4 DEF Task!Finish, Task!AgentEnds, Task!Exited, TInv, Parts, Task!Terminal
<1>5. CASE Task!AgentCancelled
  <2>1. turn \in {"updates", "abandoned"} /\ owner \in Registered \cup {"none"} /\ cancels # 0
        /\ status \in Task!Terminal \cup {"queued", "running"} /\ runner = "running" /\ pump # "on"
    BY <1>5 DEF TInv, Task!TypeOK, Parts, Decided, Task!AgentCancelled
  <2> QED  BY <1>5, <2>1, Decides DEF Task!AgentCancelled, Task!Terminal
<1>6. ASSUME runner \notin {"none", "done"}, runner' \in {"spawning", "feeding", "waiting", "running"},
             status' \in {status, "running"},
             taskQueue' \in {taskQueue, Task!Offer(taskQueue, "running")},
             process' \in {process, "running"}, process' = process \/ Task!Spawns,
             lines' \in 0..MaxLines, pipe' \in 0..PipeMax, pump' \in {"off", "on"},
             runner' # "waiting" => pump' = "off",
             runner' \in {"spawning", "feeding", "waiting"} => Task!Spawns,
             UNCHANGED <<owner, signal, taskCancelled, doomed, turn, heard, completed, canceller, cancels>>
      PROVE  TInv' /\ heard' = heard
  <2>1. Decided' /\ taskQueue' \in Seq(Items) /\ Len(taskQueue') <= QueueMax
    BY <1>6, StillOpen DEF TInv, Decided
  <2>2. Task!TypeOK'
    BY <1>6, <2>1 DEF TInv, Task!TypeOK, Items, Task!Spawns, Parts
  <2>3. Parts'
    BY <1>6 DEF TInv, Parts, Task!Spawns
  <2> QED  BY <1>6, <2>1, <2>2, <2>3 DEF TInv
<1>7. lines \in 0..MaxLines /\ pipe \in 0..PipeMax
  BY DEF TInv, Task!TypeOK
<1>8. CASE Task!Start /\ ~Task!Outcome("failed")
  BY <1>6, <1>7, <1>8 DEF Task!Start, TInv, Parts
<1>9. CASE Task!Spawned
  BY <1>6, <1>7, <1>9 DEF Task!Spawned, TInv, Parts
<1>10. CASE Task!Fed
  BY <1>6, <1>7, <1>10 DEF Task!Fed, TInv, Parts
<1>11. CASE Task!PumpReads
  <2>1. pipe' \in 0..PipeMax
    BY <1>7, <1>11, TaskBounds DEF Task!PumpReads
  <2>2. runner = "waiting"
    BY <1>11 DEF Task!PumpReads, TInv, Parts, Task!TypeOK
  <2> QED  BY <1>6, <1>7, <1>11, <2>1, <2>2 DEF Task!PumpReads, TInv, Parts
<1>12. CASE Task!AgentStarts /\ ~Task!Outcome("failed")
  BY <1>6, <1>7, <1>12 DEF Task!AgentStarts, TInv, Parts
<1>13. CASE Task!AgentReports
  <2>1. lines' \in 0..MaxLines
    BY <1>7, <1>13, TaskBounds DEF Task!AgentReports
  <2> QED  BY <1>6, <1>7, <1>13, <2>1 DEF Task!AgentReports, TInv, Parts
<1>14. ASSUME UNCHANGED <<owner, runner, status, taskQueue, heard, completed>>,
              turn' = turn \/ (turn = "updates" /\ turn' = "abandoned"),
              cancels' = cancels \/ cancels' # 0, Task!TypeOK', Parts'
       PROVE  TInv' /\ heard' = heard
  <2>1. Decided'
    BY <1>14, ToldAsBefore
  <2> QED  BY <1>14, <2>1 DEF TInv
<1>15. CASE Task!PumpGivesUp \/ Task!PumpEnds
  <2>1. Task!TypeOK'
    BY <1>15 DEF Task!PumpGivesUp, Task!PumpEnds, TInv, Task!TypeOK, Task!Spawns
  <2>2. Parts'
    BY <1>15 DEF Task!PumpGivesUp, Task!PumpEnds, TInv, Parts, Task!Spawns
  <2> QED  BY <1>14, <1>15, <2>1, <2>2 DEF Task!PumpGivesUp, Task!PumpEnds
<1>16. CASE Task!Write \/ Task!Exit \/ Task!Signalled
  <2>1. lines' \in 0..MaxLines /\ pipe' \in 0..PipeMax
    BY <1>7, <1>16, TaskBounds DEF Task!Write, Task!Exit, Task!Signalled, Task!Unstuck
  <2>2. process = "running" /\ process' \in {"running", "ok", "bad"} /\ signal' \in {signal, "none"}
        /\ UNCHANGED <<owner, runner, status, taskQueue, pump, taskCancelled, doomed, turn, heard,
                       completed, canceller, cancels>>
    BY <1>16 DEF Task!Write, Task!Exit, Task!Signalled, Task!Unstuck
  <2>3. Task!TypeOK'
    BY <2>1, <2>2 DEF TInv, Task!TypeOK, Task!Spawns
  <2>4. Parts'
    BY <2>2 DEF TInv, Parts, Task!Spawns
  <2> QED  BY <1>14, <2>2, <2>3, <2>4
<1>17. CASE Task!Cancel
  <2>1. cancels' \in 0..MaxCancels /\ cancels' # 0
    BY <1>17, TaskBounds DEF Task!Cancel, TInv, Task!TypeOK
  <2>2. Task!TypeOK'
    BY <1>17, <2>1 DEF Task!Cancel, TInv, Task!TypeOK, Task!Spawns
  <2>3. Parts'
    BY <1>17, <2>1 DEF Task!Cancel, TInv, Parts, Task!Spawns
  <2> QED  BY <1>14, <1>17, <2>1, <2>2, <2>3 DEF Task!Cancel
<1>18. CASE Task!GraceEnds \/ Task!AgentTold
  <2>1. Task!TypeOK'
    BY <1>18 DEF Task!GraceEnds, Task!AgentTold, TInv, Task!TypeOK, Task!Spawns
  <2>2. Parts'
    BY <1>18 DEF Task!GraceEnds, Task!AgentTold, TInv, Parts, Task!Spawns
  <2> QED  BY <1>14, <1>18, <2>1, <2>2 DEF Task!GraceEnds, Task!AgentTold
<1>19. CASE Task!Abandon
  <2>1. Task!TypeOK'
    BY <1>19 DEF Task!Abandon, TInv, Task!TypeOK, Task!Spawns
  <2>2. Parts'
    BY <1>19 DEF Task!Abandon, TInv, Parts, Task!Spawns
  <2> QED  BY <1>14, <1>19, <2>1, <2>2 DEF Task!Abandon
<1>20. CASE UNCHANGED taskVars
  <2>1. Task!TypeOK'
    BY <1>20 DEF taskVars, TInv, Task!TypeOK, Task!Spawns
  <2>2. Parts'
    BY <1>20 DEF taskVars, TInv, Parts, Task!Spawns
  <2> QED  BY <1>14, <1>20, <2>1, <2>2 DEF taskVars
<1>21. CASE Task!Running
  BY <1>3, <1>4, <1>5, <1>8, <1>9, <1>10, <1>12, <1>21 DEF Task!Running
<1>22. CASE Task!Pumping \/ Task!PumpGivesUp
  BY <1>11, <1>15, <1>22 DEF Task!Pumping
<1> QED  BY <1>1, <1>13, <1>16, <1>17, <1>18, <1>19, <1>20, <1>21, <1>22, HearStep
         DEF Task!Next, Task!Cancelling

\* Nothing has been told of a task that was not submitted.
LEMMA TaskStarts == Task!Init => TInv
<1> SUFFICES ASSUME Task!Init PROVE TInv
  OBVIOUS
<1>1. taskQueue = <<>> /\ <<>> \in Seq(Items) /\ Len(<<>>) = 0
  BY DEF Task!Init
<1>2. Task!TypeOK
  <2>1. cancels \in 0..MaxCancels /\ pipe \in 0..PipeMax /\ lines \in 0..MaxLines
        /\ Len(taskQueue) <= QueueMax
    BY <1>1, TaskBounds DEF Task!Init
  <2> QED  BY <1>1, <2>1 DEF Task!Init, Task!TypeOK, Items, Task!Terminal
<1>3. Parts /\ Decided
  BY <1>1 DEF Task!Init, Parts, Decided, Progress
<1> QED  BY <1>2, <1>3 DEF TInv

\* However many updates were dropped on the way, the card of a task that is over shows its outcome,
\* and hears nothing after it; and unless somebody cancelled, it is the result of the conversation.
THEOREM OutcomeTold == PortsSpec => OutcomeIsTold
<1>1. PortsInit => TInv
  BY TaskStarts DEF PortsInit
<1>2. TInv /\ [PortsNext]_portVars => [Task!Next]_taskVars
  BY DEF PortsNext, portVars
<1>3. TInv /\ [PortsNext]_portVars => TInv'
  BY <1>2, TaskMoves
<1>4. TInv => (turn = "over" => heard \in Task!Terminal /\ (cancels = 0 => completed = heard))
  <2> SUFFICES ASSUME TInv, turn = "over"
               PROVE  heard \in Task!Terminal /\ (cancels = 0 => completed = heard)
    OBVIOUS
  <2>1. PICK r \in Task!Terminal : Telling(r, taskQueue, heard, turn) /\ (cancels = 0 => completed = r)
    BY DEF TInv, Decided
  <2> QED  BY <2>1 DEF Telling
<1>5. TInv /\ [PortsNext]_portVars => [(heard \in Task!Terminal) => UNCHANGED heard]_Task!vars
  BY <1>2, TaskMoves
<1> QED  BY <1>1, <1>3, <1>4, <1>5, PTL DEF PortsSpec, OutcomeIsTold, Task!OutcomeIsTold

-----------------------------------------------------------------------------
(* The types of all parts *)

\* Every value is one that its setting can have: in the file, in force, told, and kept for a
\* request that may have to put it back.
Valued ==
  /\ \A k \in Saved!Keys : /\ overlay[k] \in Saved!Values(k) \cup {"unset"}
                           /\ force[k] \in Saved!Values(k) /\ told[k] \in Saved!Values(k)
  /\ \A r \in Saved!Requests : \A k \in DOMAIN request[r].old : request[r].old[k] \in Saved!Values(k)
  /\ running \in {"up", "down"} /\ restarts \in 0..MaxRestarts

\* Only the memory and the voice have values of their own.
LEMMA ValueSets ==
  /\ \A k \in Saved!Keys \ Saved!AtStart : Saved!Values(k) = {"profile", "chosen"}
  /\ "reference" \in Saved!Values("clone")
  /\ \A k \in Saved!Keys : "profile" \in Saved!Values(k)
  /\ MaxRestarts \in Nat
BY KeySets, PortsAssumption DEF Saved!Values, Saved!SettingsBounds

\* A companion wants nothing of the memory, and its voice has a reference.
LEMMA WantedValues ==
  ASSUME SInv, NEW r \in Saved!Requests, Saved!Busy(r)
  PROVE  /\ \A k \in request[r].wants : Saved!Wanted(r, k) \in Saved!Values(k)
         /\ request[r].wants \subseteq Saved!Keys
<1>1. /\ request[r] \in Asked /\ Midway(request[r], force, told, astray)
      /\ request[r].wants \subseteq Saved!Keys
  BY AtWork
<1>2. request[r].value \in {"profile", "chosen"}
      /\ request[r].stage \in VoiceStages \cup {"loading", "showing"}
  BY <1>1 DEF Asked, Saved!Busy
<1>3. "memory" \notin request[r].wants
  BY <1>1, <1>2, KeySets DEF Midway, Companions
<1>4. \A k \in request[r].wants : k = "clone" \/ k \in Saved!Keys \ Saved!AtStart
  BY <1>1, <1>3, KeySets
<1> QED  BY <1>1, <1>2, <1>4, ValueSets DEF Saved!Wanted

\* A step keeps the values if it writes and tells what its request wants, or nothing.
LEMMA ValuesKept ==
  ASSUME SInv, Valued,
         \A k \in Saved!Keys : /\ overlay'[k] \in Saved!Values(k) \cup {"unset"}
                               /\ force'[k] \in Saved!Values(k) /\ told'[k] \in Saved!Values(k),
         \A r \in Saved!Requests :
           \/ request'[r].old = request[r].old \/ DOMAIN request'[r].old = {}
           \/ \E w \in SUBSET Saved!Keys : request'[r].old = [k \in w |-> force[k]],
         running' \in {"up", "down"}, restarts' \in 0..MaxRestarts
  PROVE  Valued'
<1>1. ASSUME NEW r \in Saved!Requests, NEW k \in DOMAIN request'[r].old
      PROVE  request'[r].old[k] \in Saved!Values(k)
  <2>1. CASE request'[r].old = request[r].old
    BY <1>1, <2>1 DEF Valued
  <2>2. ASSUME NEW w \in SUBSET Saved!Keys, request'[r].old = [j \in w |-> force[j]]
        PROVE  request'[r].old[k] \in Saved!Values(k)
    <3>1. k \in w /\ k \in Saved!Keys /\ request'[r].old[k] = force[k]
      BY <1>1, <2>2
    <3> QED  BY <3>1 DEF Valued
  <2> QED  BY <1>1, <2>1, <2>2
<1> QED  BY <1>1 DEF Valued

\* Every step of the settings keeps their values.
LEMMA ValuesStep ==
  ASSUME SInv, Valued, [Saved!Next]_savedVars
  PROVE  Valued'
<1>0. /\ request \in [Saved!Requests -> Asked]
      /\ overlay \in [Saved!Keys -> Some \cup {"unset"}]
      /\ force \in [Saved!Keys -> Some] /\ told \in [Saved!Keys -> Some]
      /\ Saved!Over.old = <<>> /\ DOMAIN Saved!Over.old = {}
  BY DEF SInv, Stored, Saved!Over, Saved!None
<1>1. ASSUME NEW r \in Saved!Requests, NEW k \in Saved!Keys, NEW v \in Saved!Values(k),
             request' = [request EXCEPT ![r] = Saved!Over],
             overlay' \in {overlay, [overlay EXCEPT ![k] = v]},
             told' \in {told, [told EXCEPT ![k] = v]},
             force' \in {force, [force EXCEPT ![k] = v]}, UNCHANGED <<running, restarts>>
      PROVE  Valued'
  <2>1. \A j \in Saved!Keys : /\ overlay'[j] \in Saved!Values(j) \cup {"unset"}
                              /\ force'[j] \in Saved!Values(j) /\ told'[j] \in Saved!Values(j)
    BY <1>0, <1>1 DEF Valued
  <2>2. \A q \in Saved!Requests : request'[q].old = request[q].old \/ DOMAIN request'[q].old = {}
    BY <1>0, <1>1
  <2>3. running' \in {"up", "down"} /\ restarts' \in 0..MaxRestarts
    BY <1>1 DEF Valued
  <2> QED  BY <2>1, <2>2, <2>3, ValuesKept
<1>2. ASSUME NEW r \in Saved!Requests, NEW v \in {"profile", "chosen"}, NEW k \in Saved!Chosen,
             NEW written \in BOOLEAN, Saved!Choose(r, k, v, written)
      PROVE  Valued'
  <2>1. k \in Saved!Keys /\ v \in Saved!Values(k)
    BY KeySets, ValueSets
  <2> QED  BY <1>1, <1>2, <2>1 DEF Saved!Choose, Saved!Immediate
<1>3. ASSUME NEW r \in Saved!Requests, NEW k \in Saved!Keys, NEW v \in Saved!Values(k), Saved!Save(r, k, v)
      PROVE  Valued'
  BY <1>1, <1>3 DEF Saved!Save, Saved!Immediate
<1>4. ASSUME NEW r \in Saved!Requests, NEW v \in {"profile", "chosen"}, NEW wants \in SUBSET Saved!Keys,
             NEW phase, NEW at, Saved!Asks(r, wants, v, phase, at), UNCHANGED <<overlay, told, running, restarts>>,
             \A k \in Saved!Keys : force'[k] \in Saved!Values(k)
      PROVE  Valued'
  <2>1. ASSUME NEW q \in Saved!Requests
        PROVE  \/ request'[q].old = request[q].old
               \/ \E w \in SUBSET Saved!Keys : request'[q].old = [k \in w |-> force[k]]
    <3>1. CASE q = r
      <4>1. request'[q].old = [k \in wants |-> force[k]]
        BY <1>0, <1>4, <3>1 DEF Saved!Asks
      <4> QED  BY <4>1
    <3>2. CASE q # r
      <4>1. request[q] \in Asked
        BY <1>0
      <4>2. \A x : [request[q] EXCEPT !.fought = x].old = request[q].old
        BY <4>1 DEF Asked
      <4> QED  BY <1>4, <3>2, <4>2 DEF Saved!Asks
    <3> QED  BY <3>1, <3>2
  <2>2. running' \in {"up", "down"} /\ restarts' \in 0..MaxRestarts
    BY <1>4 DEF Valued
  <2>3. \A k \in Saved!Keys : /\ overlay'[k] \in Saved!Values(k) \cup {"unset"}
                              /\ force'[k] \in Saved!Values(k) /\ told'[k] \in Saved!Values(k)
    BY <1>4 DEF Valued
  <2> QED  BY <2>1, <2>2, <2>3, ValuesKept
<1>5. ASSUME NEW r \in Saved!Requests, NEW v \in {"profile", "chosen"}, NEW wants \in SUBSET Saved!Voice,
             Saved!AskVoice(r, wants, v)
      PROVE  Valued'
  <2>1. wants \in SUBSET Saved!Keys /\ "wake" \in Saved!Keys /\ v \in Saved!Values("wake")
    BY KeySets, ValueSets
  <2>2. force' \in {force, [force EXCEPT !["wake"] = v]} /\ UNCHANGED <<overlay, told, running, restarts>>
    BY <1>5 DEF Saved!AskVoice
  <2>3. \A k \in Saved!Keys : force'[k] \in Saved!Values(k)
    BY <1>0, <2>1, <2>2 DEF Valued
  <2> QED  BY <1>4, <1>5, <2>1, <2>2, <2>3 DEF Saved!AskVoice
<1>6. ASSUME NEW r \in Saved!Requests, NEW v \in {"profile", "chosen"},
             Saved!AskPack(r, v) \/ \E voiced \in BOOLEAN : Saved!AskCompanion(r, v, voiced)
      PROVE  Valued'
  <2>1. {"pack"} \in SUBSET Saved!Keys
    BY KeySets
  <2>2. ASSUME NEW voiced \in BOOLEAN
        PROVE  {Saved!Steps[i] : i \in 1..(IF voiced THEN 4 ELSE 3)} \in SUBSET Saved!Keys
    <3>1. 1..4 = {1, 2, 3, 4} /\ 1..3 = {1, 2, 3}
      OBVIOUS
    <3> QED  BY <3>1, KeySets DEF Saved!Steps
  <2>3. force' = force /\ UNCHANGED <<overlay, told, running, restarts>>
    BY <1>6 DEF Saved!AskPack, Saved!AskCompanion
  <2>4. \A k \in Saved!Keys : force'[k] \in Saved!Values(k)
    BY <2>3 DEF Valued
  <2> QED  BY <1>4, <1>6, <2>1, <2>2, <2>3, <2>4 DEF Saved!AskPack, Saved!AskCompanion
<1>7. ASSUME UNCHANGED <<running, restarts>>,
             \A q \in Saved!Requests : request'[q].old = request[q].old \/ DOMAIN request'[q].old = {},
             \A k \in Saved!Keys : /\ overlay'[k] \in Saved!Values(k) \cup {"unset"}
                                   /\ force'[k] \in Saved!Values(k) /\ told'[k] \in Saved!Values(k)
      PROVE  Valued'
  <2>1. running' \in {"up", "down"} /\ restarts' \in 0..MaxRestarts
    BY <1>7 DEF Valued
  <2> QED  BY <1>7, <2>1, ValuesKept
<1>8. ASSUME NEW r \in Saved!Requests, NEW a, NEW b,
             request' \in {[request EXCEPT ![r].stage = a, ![r].at = b], [request EXCEPT ![r].stage = a],
                           [request EXCEPT ![r] = Saved!Over]}
      PROVE  \A q \in Saved!Requests : request'[q].old = request[q].old \/ DOMAIN request'[q].old = {}
  <2>1. request[r] \in Asked
    BY <1>0
  <2>2. /\ [request[r] EXCEPT !.stage = a, !.at = b].old = request[r].old
        /\ [request[r] EXCEPT !.stage = a].old = request[r].old
    BY <2>1 DEF Asked
  <2>3. request'[r].old \in {request[r].old, Saved!Over.old}
    BY <1>0, <1>8, <2>2
  <2>4. \A q \in Saved!Requests \ {r} : request'[q] = request[q]
    BY <1>0, <1>8
  <2> QED  BY <1>0, <2>3, <2>4
<1>9. ASSUME NEW r \in Saved!Requests, request[r].stage \in {"setting", "set"}, Saved!Undo(r)
      PROVE  Valued'
  <2> DEFINE q == request[r]
             k == Saved!First(q.wants)
             phase == IF k = "wake" THEN "undone" ELSE "undoing"
  <2>1. /\ request' = [request EXCEPT ![r].stage = phase, ![r].at = k]
        /\ force' = IF k = "wake" THEN [force EXCEPT ![k] = q.old[k]] ELSE force
        /\ UNCHANGED <<overlay, told, running, restarts>>
    BY <1>9 DEF Saved!Undo
  <2>2. Midway(q, force, told, astray) /\ q.stage \in VoiceStages
    BY <1>9, AtWork DEF Saved!Busy, VoiceStages
  <2>3. k = "wake" => k \in DOMAIN q.old
    BY <2>2, KeySets DEF Midway, Saved!First
  <2>4. \A j \in Saved!Keys : force'[j] \in Saved!Values(j)
    BY <1>0, <2>1, <2>3 DEF Valued
  <2>5. \A p \in Saved!Requests : request'[p].old = request[p].old \/ DOMAIN request'[p].old = {}
    <3> HIDE DEF phase, k
    <3>1. request' \in {[request EXCEPT ![r].stage = phase, ![r].at = k], [request EXCEPT ![r].stage = phase],
                       [request EXCEPT ![r] = Saved!Over]}
      BY <2>1
    <3> QED  BY <3>1, <1>8
  <2> QED  BY <1>7, <2>1, <2>4, <2>5 DEF Valued
<1>10. ASSUME NEW r \in Saved!Requests, Saved!Assign(r)
       PROVE  Valued'
  <2>1. /\ Saved!Busy(r) /\ request[r].stage \in VoiceStages
        /\ force' = [force EXCEPT ![request[r].at] = request[r].value]
        /\ request' = [request EXCEPT ![r].stage = "set"]
        /\ UNCHANGED <<overlay, told, running, restarts>>
    BY <1>10 DEF Saved!Assign, Saved!Busy, VoiceStages
  <2>2. request[r].at \in Saved!Voice /\ request[r].value \in {"profile", "chosen"}
    BY <2>1, AtWork DEF Midway, Asked
  <2>3. \A j \in Saved!Keys : force'[j] \in Saved!Values(j)
    <3>1. request[r].value \in Saved!Values(request[r].at)
      BY <2>2, KeySets, ValueSets
    <3> QED  BY <1>0, <2>1, <3>1 DEF Valued
  <2> QED  BY <1>7, <1>8, <2>1, <2>3 DEF Valued
<1>11. ASSUME NEW r \in Saved!Requests, NEW wants, wants \subseteq request[r].wants, Saved!Busy(r),
              Saved!Write(r, wants),
              \/ Saved!Answers(r, wants)
              \/ told' = told /\ request' = [request EXCEPT ![r] = Saved!Over],
              \A j \in Saved!Keys : force'[j] \in Saved!Values(j), UNCHANGED <<running, restarts>>
       PROVE  Valued'
  <2>1. /\ overlay' = [k \in Saved!Keys |-> IF k \in wants THEN Saved!Wanted(r, k) ELSE overlay[k]]
        /\ request' = [request EXCEPT ![r] = Saved!Over]
        /\ \/ told' = [k \in Saved!Keys |-> IF k \in wants THEN Saved!Wanted(r, k) ELSE told[k]]
           \/ told' = told
    BY <1>11 DEF Saved!Write, Saved!Answers
  <2>2. \A k \in wants : Saved!Wanted(r, k) \in Saved!Values(k)
    BY <1>11, WantedValues
  <2>3. \A k \in Saved!Keys : overlay'[k] \in Saved!Values(k) \cup {"unset"} /\ told'[k] \in Saved!Values(k)
    BY <2>1, <2>2 DEF Valued
  <2> QED  BY <1>7, <1>8, <1>11, <2>1, <2>3
<1>12. ASSUME NEW r \in Saved!Requests, NEW written \in BOOLEAN, Saved!Taken(r, written)
       PROVE  Valued'
  <2>1. request[r].stage = "set" /\ Saved!Busy(r)
    BY <1>12 DEF Saved!Taken, Saved!Busy
  <2> DEFINE rest == request[r].wants \cap Saved!After(request[r].at)
  <2>2. CASE /\ request' = [request EXCEPT ![r].stage = "setting", ![r].at = Saved!First(rest)]
             /\ UNCHANGED <<overlay, force, told, running, restarts>>
    <3>1. \A k \in Saved!Keys : /\ overlay'[k] \in Saved!Values(k) \cup {"unset"}
                                /\ force'[k] \in Saved!Values(k) /\ told'[k] \in Saved!Values(k)
      BY <2>2 DEF Valued
    <3> DEFINE k == Saved!First(rest)
    <3> HIDE DEF rest, k
    <3>2. request' \in {[request EXCEPT ![r].stage = "setting", ![r].at = k],
                       [request EXCEPT ![r].stage = "setting"], [request EXCEPT ![r] = Saved!Over]}
      BY <2>2 DEF k
    <3>3. \A q \in Saved!Requests : request'[q].old = request[q].old \/ DOMAIN request'[q].old = {}
      BY <3>2, <1>8
    <3> QED  BY <1>7, <2>2, <3>1, <3>3
  <2>3. CASE /\ Saved!Write(r, request[r].wants) /\ Saved!Answers(r, request[r].wants)
             /\ UNCHANGED <<force, running, restarts>>
    <3>1. \A k \in Saved!Keys : force'[k] \in Saved!Values(k)
      BY <2>3 DEF Valued
    <3> QED  BY <1>11, <2>1, <2>3, <3>1
  <2>4. CASE Saved!Undo(r)
    BY <1>9, <2>1, <2>4
  <2> QED  BY <1>12, <2>2, <2>3, <2>4 DEF Saved!Taken
<1>13. ASSUME NEW r \in Saved!Requests, NEW ok \in BOOLEAN, Saved!PutBack(r, ok)
       PROVE  Valued'
  <2> DEFINE q == request[r]
             rest == q.wants \cap Saved!After(q.at)
  <2>1. /\ q.stage \in VoiceStages /\ Saved!Busy(r)
        /\ force' \in {force, [force EXCEPT ![q.at] = q.old[q.at]]}
        /\ request' \in {[request EXCEPT ![r] = Saved!Over],
                         [request EXCEPT ![r].stage = "undoing", ![r].at = Saved!First(rest)]}
        /\ UNCHANGED <<overlay, told, running, restarts>>
    BY <1>13 DEF Saved!PutBack, Saved!Busy, VoiceStages
  <2>2. Midway(q, force, told, astray)
    BY <2>1, AtWork
  <2>3. q.at \in DOMAIN q.old
    BY <2>1, <2>2 DEF Midway
  <2>4. \A k \in Saved!Keys : force'[k] \in Saved!Values(k)
    BY <1>0, <2>1, <2>3 DEF Valued
  <2>5. \A p \in Saved!Requests : request'[p].old = request[p].old \/ DOMAIN request'[p].old = {}
    <3> HIDE DEF rest
    <3> QED  BY <2>1, <1>8
  <2> QED  BY <1>7, <2>1, <2>4, <2>5 DEF Valued
<1>14. ASSUME NEW r \in Saved!Requests,
              Saved!PackLoaded(r) \/ Saved!LoadFails(r) \/ \E ok \in BOOLEAN : Saved!PackShown(r, ok)
       PROVE  Valued'
  <2>1. request[r] \in Asked /\ Saved!Busy(r) /\ request[r].value \in {"profile", "chosen"}
        /\ Midway(request[r], force, told, astray)
    <3>1. Saved!Busy(r)
      BY <1>14 DEF Saved!PackLoaded, Saved!LoadFails, Saved!PackShown, Saved!Busy
    <3> QED  BY <3>1, AtWork DEF Asked
  <2>2. \A v \in {"profile", "chosen"} : v \in Saved!Values("pack")
    BY KeySets, ValueSets
  <2>3. CASE \/ Saved!LoadFails(r) \/ Saved!PackLoaded(r)
             \/ \E ok \in BOOLEAN : Saved!PackShown(r, ok) /\ ~ok
    <3>1. /\ force' \in {force, [force EXCEPT !["pack"] = request[r].value]}
          /\ \/ request' = [request EXCEPT ![r] = Saved!Over]
             \/ request' = [request EXCEPT ![r].stage = "showing"]
          /\ UNCHANGED <<overlay, told, running, restarts>>
      BY <2>3 DEF Saved!PackLoaded, Saved!LoadFails, Saved!PackShown
    <3>2. \A k \in Saved!Keys : force'[k] \in Saved!Values(k)
      BY <1>0, <2>1, <2>2, <3>1 DEF Valued
    <3> QED  BY <1>7, <1>8, <3>1, <3>2 DEF Valued
  <2>4. CASE Saved!PackShown(r, TRUE)
    <3>1. {"pack"} \subseteq request[r].wants
      BY <2>1, <2>4 DEF Midway, Saved!PackShown
    <3>2. \A k \in Saved!Keys : force'[k] \in Saved!Values(k)
      BY <2>4 DEF Saved!PackShown, Valued
    <3> QED  BY <1>11, <2>1, <2>4, <3>1, <3>2 DEF Saved!PackShown
  <2> QED  BY <1>14, <2>3, <2>4
<1>15. ASSUME NEW r \in Saved!Requests, NEW n \in 0..4, NEW half \in BOOLEAN, Saved!CompanionLoaded(r, n, half)
       PROVE  Valued'
  <2> DEFINE done == {Saved!Steps[i] : i \in 1..n}
             moved == done \cup {"pack"} \cup (IF half /\ n = 2 THEN {"appearance"} ELSE {})
  <2>1. /\ Saved!Busy(r) /\ request[r].stage = "loading" /\ "personality" \in request[r].wants
        /\ done \subseteq request[r].wants /\ Saved!Write(r, done)
        /\ force' = [k \in Saved!Keys |-> IF k \in moved \cap Saved!Live THEN Saved!Wanted(r, k) ELSE force[k]]
        /\ IF done = request[r].wants THEN Saved!Answers(r, request[r].wants)
           ELSE request' = [request EXCEPT ![r] = Saved!Over] /\ told' = told
        /\ UNCHANGED <<running, restarts>>
    BY <1>15 DEF Saved!CompanionLoaded, Saved!Busy
  <2>2. request[r].wants \in Companions
    BY <2>1, AtWork DEF Midway
  <2>3. moved \subseteq request[r].wants
    <3> HIDE DEF done
    <3> QED  BY <2>1, <2>2 DEF Companions
  <2> HIDE DEF done, moved
  <2>4. \A k \in Saved!Keys : force'[k] \in Saved!Values(k)
    BY <2>1, <2>3, WantedValues DEF Valued
  <2> QED  BY <1>11, <2>1, <2>4
<1>16. CASE Saved!Restart
  <2>1. /\ restarts' = restarts + 1 /\ restarts < MaxRestarts
        /\ force' = Saved!Merged(overlay) /\ running' \in {"up", "down"}
        /\ request' = [r \in Saved!Requests |-> IF Saved!Busy(r) THEN Saved!Over ELSE request[r]]
        /\ UNCHANGED <<overlay, told>>
    BY <1>16 DEF Saved!Restart
  <2>2. \A k \in Saved!Keys : force'[k] \in Saved!Values(k)
    BY <2>1, ValueSets DEF Valued, Saved!Merged
  <2>3. \A q \in Saved!Requests : request'[q].old = request[q].old \/ DOMAIN request'[q].old = {}
    BY <1>0, <2>1
  <2>4. restarts' \in 0..MaxRestarts
    BY <2>1, ValueSets DEF Valued
  <2>5. \A k \in Saved!Keys : /\ overlay'[k] \in Saved!Values(k) \cup {"unset"}
                              /\ force'[k] \in Saved!Values(k) /\ told'[k] \in Saved!Values(k)
    BY <2>1, <2>2 DEF Valued
  <2> QED  BY <2>1, <2>3, <2>4, <2>5, ValuesKept
<1>17. CASE UNCHANGED savedVars
  BY <1>17 DEF savedVars, Valued
<1>18. CASE \E r \in Saved!Requests : \E v \in {"profile", "chosen"} :
              \/ \E k \in Saved!Chosen : \E written \in BOOLEAN : Saved!Choose(r, k, v, written)
              \/ Saved!Save(r, "personality", v)
              \/ \E wants \in SUBSET Saved!Voice : Saved!AskVoice(r, wants, v)
              \/ Saved!AskPack(r, v)
              \/ \E voiced \in BOOLEAN : Saved!AskCompanion(r, v, voiced)
  <2>1. "personality" \in Saved!Keys /\ \A v \in {"profile", "chosen"} : v \in Saved!Values("personality")
    BY KeySets, ValueSets
  <2> QED  BY <1>2, <1>3, <1>5, <1>6, <1>18, <2>1
<1>19. CASE \E r \in Saved!Requests : \E k \in Saved!AtStart :
              \E v \in Saved!Values(k) \ {"profile"} : Saved!Save(r, k, v)
  BY <1>3, <1>19, KeySets
<1>20. CASE \E r \in Saved!Requests :
              \/ Saved!Assign(r) \/ Saved!SetterFails(r) \/ Saved!PackLoaded(r) \/ Saved!LoadFails(r)
              \/ \E ok \in BOOLEAN : Saved!Taken(r, ok) \/ Saved!PutBack(r, ok) \/ Saved!PackShown(r, ok)
              \/ \E n \in 0..4 : \E half \in BOOLEAN : Saved!CompanionLoaded(r, n, half)
  <2>1. \A r \in Saved!Requests : Saved!SetterFails(r) => request[r].stage \in {"setting", "set"} /\ Saved!Undo(r)
    BY DEF Saved!SetterFails
  <2> QED  BY <1>9, <1>10, <1>12, <1>13, <1>14, <1>15, <1>20, <2>1
<1> QED  BY <1>16, <1>17, <1>18, <1>19, <1>20 DEF Saved!Next

\* The first start has the values of the configuration.
LEMMA ValuesStart == Saved!Init => Valued
<1> SUFFICES ASSUME Saved!Init PROVE Valued
  OBVIOUS
<1>1. \A k \in Saved!Keys : overlay[k] = "unset" /\ force[k] = "profile" /\ told[k] = "profile"
  BY DEF Saved!Init, Saved!Merged
<1>2. \A r \in Saved!Requests : DOMAIN request[r].old = {}
  BY DEF Saved!Init, Saved!None
<1>3. running = "up" /\ restarts \in 0..MaxRestarts
  BY ValueSets DEF Saved!Init
<1> QED  BY <1>1, <1>2, <1>3, ValueSets DEF Valued

\* Whatever is done behind the ports, the variables of each part keep their types.
THEOREM PortsTyped == PortsSpec => []PortTypes
<1> DEFINE Inv == /\ part \in {"lane", "link", "task", "model", "saved"}
                  /\ IInv /\ LInv /\ TInv /\ MInv /\ SInv /\ Valued
<1>1. PortsInit => Inv
  BY Initially, LinkStarts, TaskStarts, ModelStarts, SettingsStart, ValuesStart DEF PortsInit
<1>2. Inv /\ [PortsNext]_portVars => Inv'
  <2> SUFFICES ASSUME Inv, [PortsNext]_portVars PROVE Inv'
    OBVIOUS
  <2>1. /\ part' = part /\ [Next]_vars /\ [Link!Next]_linkVars /\ [Task!Next]_taskVars
        /\ [Model!Next]_modelVars /\ [Saved!Next]_savedVars
    BY DEF PortsNext, portVars
  <2> QED  BY <2>1, Stepwise, LinkStep, TaskMoves, ModelStep, SettingsStep, ValuesStep
<1>3. Inv => PortTypes
  <2> SUFFICES ASSUME Inv PROVE PortTypes
    OBVIOUS
  <2>1. TypeOK /\ Link!TypeOK /\ Task!TypeOK
    BY DEF IInv, LInv, TInv
  <2>2. Model!TypeOK
    BY DEF MInv, Wired, Attempted, Model!TypeOK
  <2>3. Saved!TypeOK
    BY DEF SInv, Stored, Asked, VoiceStages, Valued, Saved!TypeOK
  <2> QED  BY <2>1, <2>2, <2>3 DEF PortTypes
<1> QED  BY <1>1, <1>2, <1>3, PTL DEF PortsSpec
=============================================================================
