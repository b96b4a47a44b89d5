----------------------------- MODULE VoiceProofs -----------------------------
(***************************************************************************)
(* The processes of the voice, for any number of replies, calls, faults    *)
(* and sayings: those that play a reply (ReplyProcess) and the one that    *)
(* listens (IsolatedWhisper), proved about as the parts of                 *)
(* MCSpeechController that they are.                                       *)
(*                                                                         *)
(* A reply whose process sounds has a job that plays, or that waits for    *)
(* that process to end.  With Chatterbox it also takes that whoever else   *)
(* stops the adapter stops this process: one reply at most is neither      *)
(* cancelled nor at its end (Sequel), and what sounds is what the adapter  *)
(* holds (Aimed).                                                          *)
(*                                                                         *)
(* The recogniser hears for its session alone because of what waits in its *)
(* inbox: the commands of the calls that are awaited, in the order of      *)
(* their numbers, and behind the controller's nothing but the shutdown     *)
(* (Inboxes).  How far a start, a session or a stop has come then says     *)
(* what the microphone and the queue of transcripts can hold (Sessions).   *)
(* The worker that lives is the one that is known and read, because only   *)
(* the first in line for the lock begins or ends one (Standing,            *)
(* OneProcess).                                                            *)
(*                                                                         *)
(* The types of all three parts need two things more: nothing is of a      *)
(* command that was not given yet (HearerBounds), and a reply is in line   *)
(* once, while its job waits for the lock or holds it (InLineOnce).        *)
(***************************************************************************)
EXTENDS MCSpeechController, SpeechControllerProofs, SequenceTheorems, TLAPS

-----------------------------------------------------------------------------
(* The replies *)

SpeakerTyping ==
  /\ task \in [Speaker!Replies -> Speaker!TaskStates] /\ job \in [Speaker!Replies -> Speaker!JobStates]
  /\ target \in [Speaker!Stopper -> 0..MaxReplies]
  /\ playing \in 0..MaxReplies
  /\ sound \in [Speaker!Replies -> {"none", "on", "dying", "off"}]

\* The job of a reply is through, or about to be.
Retired(k) == job[k] \in {"aborting", "over"} \/ k \in jobsCancelled

\* A reply is begun when those before it are retired, and ends after its job.
Sequel ==
  \A j \in Speaker!Replies :
    /\ task[j] = "none" <=> job[j] = "none"
    /\ task[j] \in {"stopping", "over"} => job[j] = "over"
    /\ task[j] \in {"unwinding", "settling"} => Retired(j)
    /\ task[j] # "none" => \A k \in 1..(j - 1) : task[k] # "none" /\ Retired(k)

\* Whoever is to be silent before a step has the process that sounds as his target.
Aimed ==
  adapter = "chatterbox" =>
    \A p \in Speaker!Replies : Speaker!Sounding(p) =>
      /\ playing = p
      /\ \A j \in Speaker!Replies :
           /\ job[j] = "aborting" => target[Speaker!JobOf(j)] = p
           /\ job[j] = "clearing" /\ j \notin jobsCancelled => target[Speaker!JobOf(j)] = p
           /\ job[j] \in {"queued", "making"} => j \in jobsCancelled
           /\ job[j] = "playing" => j = p \/ j \in jobsCancelled

Covered ==
  adapter \in Speaker!Locked =>
    \A p \in Speaker!Replies : Speaker!Sounding(p) =>
      job[p] = "playing" \/ (job[p] = "aborting" /\ target[Speaker!JobOf(p)] = p)

SInv == SpeakerTyping /\ Sequel /\ Aimed /\ Covered
LEMMA ReplyFacts ==
  /\ MaxReplies \in Nat /\ Speaker!Replies = 1..MaxReplies
  /\ \A j \in Speaker!Replies : j \in 1..MaxReplies /\ j # 0
  /\ \A j \in Speaker!Replies : Speaker!TaskOf(j) \in Speaker!Stopper /\ Speaker!JobOf(j) \in Speaker!Stopper
  /\ \A j, k \in Speaker!Replies : /\ Speaker!TaskOf(j) # Speaker!JobOf(k)
                                  /\ Speaker!JobOf(j) = Speaker!JobOf(k) => j = k
<1>1. MaxReplies \in Nat /\ Speaker!Replies = 1..MaxReplies
  BY PartsAssumption DEF Speaker!ReplyBounds, Speaker!Replies
<1>2. \A j \in Speaker!Replies : j \in 1..MaxReplies /\ j # 0
  BY <1>1
<1>3. \A j \in Speaker!Replies : Speaker!TaskOf(j) \in Speaker!Stopper /\ Speaker!JobOf(j) \in Speaker!Stopper
  BY DEF Speaker!TaskOf, Speaker!JobOf, Speaker!Stopper
<1>4. \A j, k \in Speaker!Replies : /\ Speaker!TaskOf(j) # Speaker!JobOf(k)
                                   /\ Speaker!JobOf(j) = Speaker!JobOf(k) => j = k
  BY DEF Speaker!TaskOf, Speaker!JobOf
<1> QED  BY <1>1, <1>2, <1>3, <1>4

\* One reply at most is neither cancelled nor through.
LEMMA Sole ==
  ASSUME Sequel, NEW j \in Speaker!Replies, NEW k \in Speaker!Replies,
         job[j] # "none", job[k] # "none", ~Retired(j), ~Retired(k)
  PROVE  j = k
<1>1. task[j] # "none" /\ task[k] # "none" /\ j \in 1..MaxReplies /\ k \in 1..MaxReplies /\ MaxReplies \in Nat
  BY ReplyFacts DEF Sequel
<1>2. ~(k \in 1..(j - 1)) /\ ~(j \in 1..(k - 1))
  BY <1>1 DEF Sequel
<1> QED  BY <1>1, <1>2

\* stop() terminates what sounds, which sounds until it ends.
LEMMA StopCallFacts ==
  ASSUME SpeakerTyping, NEW s \in Speaker!Stopper, NEW p \in 0..MaxReplies, Speaker!StopCall(s, p)
  PROVE  /\ target' \in [Speaker!Stopper -> 0..MaxReplies]
         /\ target'[s] = IF Speaker!Sounding(p) THEN p ELSE 0
         /\ \A t \in Speaker!Stopper \ {s} : target'[t] = target[t]
         /\ sound' \in [Speaker!Replies -> {"none", "on", "dying", "off"}]
         /\ \A q \in Speaker!Replies : Speaker!Sounding(q)' <=> Speaker!Sounding(q)
<1>1. MaxReplies \in Nat /\ Speaker!Replies = 1..MaxReplies
  BY ReplyFacts
<1>2. /\ target' = [target EXCEPT ![s] = IF Speaker!Sounding(p) THEN p ELSE 0]
      /\ sound' = IF Speaker!Sounding(p) THEN [sound EXCEPT ![p] = "dying"] ELSE sound
  BY DEF Speaker!StopCall
<1>3. (IF Speaker!Sounding(p) THEN p ELSE 0) \in 0..MaxReplies
  BY <1>1
<1>4. /\ target' \in [Speaker!Stopper -> 0..MaxReplies]
      /\ target'[s] = IF Speaker!Sounding(p) THEN p ELSE 0
      /\ \A t \in Speaker!Stopper \ {s} : target'[t] = target[t]
  BY <1>2, <1>3 DEF SpeakerTyping
<1>5. /\ sound' \in [Speaker!Replies -> {"none", "on", "dying", "off"}]
      /\ \A q \in Speaker!Replies : Speaker!Sounding(q)' <=> Speaker!Sounding(q)
  <2>1. CASE Speaker!Sounding(p)
    <3>1. p \in Speaker!Replies /\ sound[p] \in {"on", "dying"} /\ sound' = [sound EXCEPT ![p] = "dying"]
      BY <1>1, <1>2, <2>1 DEF Speaker!Sounding
    <3> QED  BY <3>1 DEF SpeakerTyping, Speaker!Sounding
  <2>2. CASE ~Speaker!Sounding(p)
    BY <1>2, <2>2 DEF SpeakerTyping, Speaker!Sounding
  <2> QED  BY <2>1, <2>2
<1> QED  BY <1>4, <1>5

\* What a step of the tasks leaves alone.
JobsStay ==
  /\ UNCHANGED <<adapter, job, playing>> /\ jobsCancelled \subseteq jobsCancelled'
  /\ target' \in [Speaker!Stopper -> 0..MaxReplies]
  /\ \A k \in Speaker!Replies : target'[Speaker!JobOf(k)] = target[Speaker!JobOf(k)]
  /\ sound' \in [Speaker!Replies -> {"none", "on", "dying", "off"}]
  /\ \A p \in Speaker!Replies : Speaker!Sounding(p)' => Speaker!Sounding(p)

LEMMA TaskEffect ==
  ASSUME SInv, JobsStay,
         \/ task' = task
         \/ \E j \in Speaker!Replies, s \in Speaker!TaskStates \ {"none"} :
              /\ task[j] # "none" /\ task' = [task EXCEPT ![j] = s]
              /\ s \in {"stopping", "over"} => job[j] = "over"
              /\ s \in {"unwinding", "settling"} => Retired(j)'
  PROVE  SInv'
<1>0. SpeakerTyping /\ Sequel /\ Aimed /\ Covered
  BY DEF SInv
<1>1. task' \in [Speaker!Replies -> Speaker!TaskStates]
  BY <1>0 DEF SpeakerTyping
<1>2. SpeakerTyping'
  BY <1>0, <1>1 DEF SpeakerTyping, JobsStay
<1>3. ASSUME NEW j \in Speaker!Replies
      PROVE  /\ task'[j] = "none" <=> task[j] = "none"
             /\ task'[j] = task[j] \/ /\ task'[j] \in {"stopping", "over"} => job[j] = "over"
                                      /\ task'[j] \in {"unwinding", "settling"} => Retired(j)'
             /\ Retired(j) => Retired(j)'
  <2>1. Retired(j) => Retired(j)'
    BY DEF JobsStay, Retired
  <2>2. CASE task' = task
    BY <2>1, <2>2
  <2>3. ASSUME NEW i \in Speaker!Replies, NEW s \in Speaker!TaskStates \ {"none"},
               task[i] # "none", task' = [task EXCEPT ![i] = s],
               s \in {"stopping", "over"} => job[i] = "over",
               s \in {"unwinding", "settling"} => Retired(i)'
        PROVE  /\ task'[j] = "none" <=> task[j] = "none"
               /\ task'[j] = task[j] \/ /\ task'[j] \in {"stopping", "over"} => job[j] = "over"
                                        /\ task'[j] \in {"unwinding", "settling"} => Retired(j)'
    BY <1>0, <2>3 DEF SpeakerTyping
  <2> QED  BY <2>1, <2>2, <2>3
<1>4. Sequel'
  <2> SUFFICES ASSUME NEW j \in Speaker!Replies
               PROVE  /\ task'[j] = "none" <=> job'[j] = "none"
                      /\ task'[j] \in {"stopping", "over"} => job'[j] = "over"
                      /\ task'[j] \in {"unwinding", "settling"} => Retired(j)'
                      /\ task'[j] # "none" => \A k \in 1..(j - 1) : task'[k] # "none" /\ Retired(k)'
    BY DEF Sequel
  <2>1. job' = job
    BY DEF JobsStay
  <2>2. \A k \in 1..(j - 1) : k \in Speaker!Replies
    BY ReplyFacts
  <2> QED  BY <1>0, <1>3, <2>1, <2>2 DEF Sequel
<1>5. Aimed' /\ Covered'
  BY <1>0 DEF Aimed, Covered, JobsStay
<1> QED  BY <1>2, <1>4, <1>5 DEF SInv

LEMMA TaskSteps ==
  ASSUME SInv, NEW j \in Speaker!Replies, Speaker!Interrupt(j) \/ Speaker!TaskStep(j)
  PROVE  SInv'
<1>0. SpeakerTyping /\ Sequel /\ j \in 1..MaxReplies
  BY ReplyFacts DEF SInv
<1> DEFINE t == Speaker!TaskOf(j)
<1>1. /\ t \in Speaker!Stopper /\ MaxReplies \in Nat
      /\ \A k \in Speaker!Replies : Speaker!JobOf(k) \in Speaker!Stopper \ {t}
  <2>1. \A k \in Speaker!Replies : Speaker!JobOf(k) \in Speaker!Stopper /\ Speaker!JobOf(k) # t
    BY DEF Speaker!TaskOf, Speaker!JobOf, Speaker!Stopper
  <2> QED  BY <2>1, ReplyFacts
<1> HIDE DEF t
<1>2. ASSUME UNCHANGED <<adapter, job, playing>>, jobsCancelled \subseteq jobsCancelled',
             UNCHANGED sound,
             target' = target \/ target' = [target EXCEPT ![t] = 0]
      PROVE  JobsStay
  <2>1. target' \in [Speaker!Stopper -> 0..MaxReplies]
        /\ \A k \in Speaker!Replies : target'[Speaker!JobOf(k)] = target[Speaker!JobOf(k)]
    BY <1>0, <1>1, <1>2 DEF SpeakerTyping
  <2> QED  BY <1>0, <1>2, <2>1 DEF JobsStay, SpeakerTyping, Speaker!Sounding
<1>3. ASSUME UNCHANGED <<adapter, job, playing>>, jobsCancelled \subseteq jobsCancelled',
             Speaker!StopCall(t, playing)
      PROVE  JobsStay
  <2>1. playing \in 0..MaxReplies
    BY <1>0 DEF SpeakerTyping
  <2> QED  BY <1>0, <1>1, <1>3, <2>1, StopCallFacts DEF JobsStay
<1>4. Speaker!CancelJob(j) => /\ jobsCancelled \subseteq jobsCancelled'
                              /\ job[j] \notin {"none", "over"} => j \in jobsCancelled'
  BY DEF Speaker!CancelJob, Speaker!Live
<1>5. CASE Speaker!Interrupt(j)
  <2>1. UNCHANGED <<adapter, task, job, playing, target, sound>> /\ jobsCancelled \subseteq jobsCancelled'
    BY <1>4, <1>5 DEF Speaker!Interrupt
  <2> QED  BY <1>2, <2>1, TaskEffect
<1>6. CASE Speaker!Ready(j)
  <2>1. /\ UNCHANGED <<adapter, job, playing, target, sound, jobsCancelled>>
        /\ task[j] = "readying" /\ task' = [task EXCEPT ![j] = "waiting"]
    BY <1>6 DEF Speaker!Ready, Speaker!jobVars
  <2>2. JobsStay
    BY <1>2, <2>1
  <2>3. "waiting" \in Speaker!TaskStates \ {"none"} /\ task[j] # "none"
    BY <2>1 DEF Speaker!TaskStates
  <2> QED  BY <2>1, <2>2, <2>3, TaskEffect
<1>7. CASE Speaker!Unwind(j)
  <2>1. /\ UNCHANGED <<adapter, job, playing>> /\ jobsCancelled \subseteq jobsCancelled'
        /\ task[j] # "none" /\ task' = [task EXCEPT ![j] = "unwinding"]
        /\ job[j] \notin {"none", "over"} => j \in jobsCancelled'
        /\ Speaker!StopCall(t, playing)
    BY <1>4, <1>7 DEF Speaker!Unwind, t
  <2>2. Retired(j)'
    BY <1>0, <2>1 DEF Retired, Sequel
  <2> QED  BY <1>3, <2>1, <2>2, TaskEffect DEF Speaker!TaskStates
<1>8. CASE Speaker!Unwound(j)
  <2>1. /\ UNCHANGED <<adapter, job, playing, sound, jobsCancelled>> /\ target' = [target EXCEPT ![t] = 0]
        /\ task[j] = "unwinding" /\ task' = [task EXCEPT ![j] = "settling"]
    BY <1>8 DEF Speaker!Unwound, Speaker!jobVars, t
  <2>2. Retired(j)'
    BY <1>0, <2>1 DEF Retired, Sequel
  <2> QED  BY <1>2, <2>1, <2>2, TaskEffect DEF Speaker!TaskStates
<1>9. CASE Speaker!Settle(j)
  <2>1. /\ UNCHANGED <<adapter, job, playing, target, sound, jobsCancelled>>
        /\ task[j] = "settling" /\ job[j] = "over" /\ task' = [task EXCEPT ![j] = "over"]
    BY <1>9 DEF Speaker!Settle, Speaker!jobVars
  <2>2. JobsStay
    BY <1>2, <2>1
  <2> QED  BY <2>1, <2>2, TaskEffect DEF Speaker!TaskStates
<1>10. CASE Speaker!Finish(j)
  <2>1. /\ UNCHANGED <<adapter, job, playing, jobsCancelled>> /\ task[j] = "waiting" /\ job[j] = "over"
        /\ \/ task' = [task EXCEPT ![j] = "stopping"] /\ Speaker!StopCall(t, playing)
           \/ task' = [task EXCEPT ![j] = "over"] /\ UNCHANGED <<target, sound>>
    BY <1>10 DEF Speaker!Finish, Speaker!jobVars, t
  <2>2. JobsStay
    BY <1>2, <1>3, <2>1
  <2> QED  BY <2>1, <2>2, TaskEffect DEF Speaker!TaskStates
<1>11. CASE Speaker!Finished(j)
  <2>1. /\ UNCHANGED <<adapter, job, playing, sound, jobsCancelled>> /\ target' = [target EXCEPT ![t] = 0]
        /\ task[j] = "stopping" /\ task' = [task EXCEPT ![j] = "over"]
    BY <1>11 DEF Speaker!Finished, Speaker!jobVars, t
  <2>2. job[j] = "over"
    BY <1>0, <2>1 DEF Sequel
  <2> QED  BY <1>2, <2>1, <2>2, TaskEffect DEF Speaker!TaskStates
<1> QED  BY <1>5, <1>6, <1>7, <1>8, <1>9, <1>10, <1>11 DEF Speaker!TaskStep

\* What a step of the job of j leaves alone, and what it makes of it.
JobGoes(j, s) ==
  /\ UNCHANGED <<adapter, task>>
  /\ job[j] \notin {"none", "over"} /\ s \in Speaker!JobStates \ {"none"}
  /\ job' = [job EXCEPT ![j] = s]
  /\ \A k \in Speaker!Replies \ {j} : k \in jobsCancelled' <=> k \in jobsCancelled
  /\ Retired(j) => Retired(j)'

Targets(j) ==
  /\ target' \in [Speaker!Stopper -> 0..MaxReplies]
  /\ \A k \in Speaker!Replies \ {j} : target'[Speaker!JobOf(k)] = target[Speaker!JobOf(k)]

LEMMA JobEffect ==
  ASSUME SInv, NEW j \in Speaker!Replies, NEW s, JobGoes(j, s), Targets(j),
         playing' \in 0..MaxReplies, sound' \in [Speaker!Replies -> {"none", "on", "dying", "off"}]
  PROVE  /\ SpeakerTyping' /\ Sequel' /\ job'[j] = s
         /\ \A k \in Speaker!Replies \ {j} : job'[k] = job[k]
<1>0. SpeakerTyping /\ Sequel
  BY DEF SInv
<1>1. /\ job' \in [Speaker!Replies -> Speaker!JobStates] /\ job'[j] = s
      /\ \A k \in Speaker!Replies \ {j} : job'[k] = job[k]
  BY <1>0 DEF SpeakerTyping, JobGoes
<1>2. SpeakerTyping'
  BY <1>0, <1>1 DEF SpeakerTyping, JobGoes, Targets
<1>3. \A k \in Speaker!Replies : Retired(k) => Retired(k)'
  BY <1>1 DEF Retired, JobGoes
<1>4. Sequel'
  <2> SUFFICES ASSUME NEW i \in Speaker!Replies
               PROVE  /\ task'[i] = "none" <=> job'[i] = "none"
                      /\ task'[i] \in {"stopping", "over"} => job'[i] = "over"
                      /\ task'[i] \in {"unwinding", "settling"} => Retired(i)'
                      /\ task'[i] # "none" => \A k \in 1..(i - 1) : task'[k] # "none" /\ Retired(k)'
    BY DEF Sequel
  <2>1. task' = task /\ job[j] \notin {"none", "over"} /\ s # "none"
    BY DEF JobGoes
  <2>2. /\ task'[i] = "none" <=> job'[i] = "none"
        /\ task'[i] \in {"stopping", "over"} => job'[i] = "over"
    BY <1>0, <1>1, <2>1 DEF Sequel
  <2>3. \A k \in 1..(i - 1) : k \in Speaker!Replies
    BY ReplyFacts
  <2> QED  BY <1>0, <1>3, <2>1, <2>2, <2>3 DEF Sequel
<1> QED  BY <1>1, <1>2, <1>4

\* A step of a job that lets nothing sound.
LEMMA QuietJob ==
  ASSUME SInv, NEW j \in Speaker!Replies, NEW s, JobGoes(j, s), Targets(j),
         playing' \in 0..MaxReplies, sound' \in [Speaker!Replies -> {"none", "on", "dying", "off"}],
         \A p \in Speaker!Replies : Speaker!Sounding(p)' => Speaker!Sounding(p),
         adapter = "chatterbox" => \A p \in Speaker!Replies : Speaker!Sounding(p)' =>
           /\ playing' = playing
           /\ s = "aborting" => target'[Speaker!JobOf(j)] = p
           /\ s = "clearing" /\ j \notin jobsCancelled' => target'[Speaker!JobOf(j)] = p
           /\ s \in {"queued", "making"} => j \in jobsCancelled'
           /\ s = "playing" => j = p \/ j \in jobsCancelled',
         adapter \in Speaker!Locked /\ Speaker!Sounding(j)' =>
           s = "aborting" /\ target'[Speaker!JobOf(j)] = j
  PROVE  SInv'
<1>0. SpeakerTyping /\ Sequel /\ Aimed /\ Covered
  BY DEF SInv
<1>1. /\ SpeakerTyping' /\ Sequel' /\ job'[j] = s
      /\ \A k \in Speaker!Replies \ {j} : job'[k] = job[k]
  BY JobEffect
<1>2. adapter' = adapter /\ \A k \in Speaker!Replies \ {j} :
        /\ job'[k] = job[k] /\ target'[Speaker!JobOf(k)] = target[Speaker!JobOf(k)]
        /\ k \in jobsCancelled' <=> k \in jobsCancelled
  BY <1>1 DEF JobGoes, Targets
<1>3. Aimed'
  <2> SUFFICES ASSUME adapter = "chatterbox", NEW p \in Speaker!Replies, Speaker!Sounding(p)',
                      NEW i \in Speaker!Replies
               PROVE  /\ playing' = p
                      /\ job'[i] = "aborting" => target'[Speaker!JobOf(i)] = p
                      /\ job'[i] = "clearing" /\ i \notin jobsCancelled' => target'[Speaker!JobOf(i)] = p
                      /\ job'[i] \in {"queued", "making"} => i \in jobsCancelled'
                      /\ job'[i] = "playing" => i = p \/ i \in jobsCancelled'
    BY <1>2 DEF Aimed
  <2>1. CASE i = j
    BY <1>0, <1>1, <2>1 DEF Aimed
  <2>2. CASE i # j
    BY <1>0, <1>2, <2>2 DEF Aimed
  <2> QED  BY <2>1, <2>2
<1>4. Covered'
  <2> SUFFICES ASSUME adapter \in Speaker!Locked, NEW p \in Speaker!Replies, Speaker!Sounding(p)'
               PROVE  job'[p] = "playing" \/ (job'[p] = "aborting" /\ target'[Speaker!JobOf(p)] = p)
    BY <1>2 DEF Covered
  <2>1. CASE p = j
    BY <1>1, <2>1
  <2>2. CASE p # j
    BY <1>0, <1>2, <2>2 DEF Covered
  <2> QED  BY <2>1, <2>2
<1> QED  BY <1>1, <1>3, <1>4 DEF SInv

\* The end of speak(), when nothing sounds that the adapter would lose.
LEMMA OverStep ==
  ASSUME SInv, NEW j \in Speaker!Replies, NEW raised, Speaker!Over(j, raised), Targets(j),
         UNCHANGED <<adapter, task, sound>>, job[j] \notin {"none", "over"},
         adapter \in Speaker!Locked => ~Speaker!Sounding(j),
         adapter = "chatterbox" => \/ job[j] \in {"created", "clearing"}
                                   \/ \A p \in Speaker!Replies : ~Speaker!Sounding(p)
  PROVE  SInv'
<1>0. SpeakerTyping /\ 0 \in 0..MaxReplies
  BY ReplyFacts DEF SInv
<1>1. /\ job' = [job EXCEPT ![j] = "over"] /\ jobsCancelled' = jobsCancelled \ {j}
      /\ playing' = IF job[j] \in {"created", "clearing"} \/ (adapter = "piper" /\ playing # j)
                      THEN playing ELSE 0
  BY DEF Speaker!Over
<1>2. JobGoes(j, "over")
  BY <1>0, <1>1 DEF JobGoes, Retired, Speaker!JobStates, SpeakerTyping
<1>3. /\ playing' \in 0..MaxReplies /\ sound' \in [Speaker!Replies -> {"none", "on", "dying", "off"}]
      /\ \A p \in Speaker!Replies : Speaker!Sounding(p)' => Speaker!Sounding(p)
  BY <1>0, <1>1 DEF SpeakerTyping, Speaker!Sounding
<1>4. adapter = "chatterbox" => \A p \in Speaker!Replies : Speaker!Sounding(p)' => playing' = playing
  BY <1>1, <1>3
<1> QED  BY <1>2, <1>3, <1>4, QuietJob

\* The process of j begins to sound.
LEMMA PlayStep ==
  ASSUME SInv, NEW j \in Speaker!Replies, j \notin jobsCancelled, job[j] \in {"queued", "making"},
         job' = [job EXCEPT ![j] = "playing"], playing' = j, sound' = [sound EXCEPT ![j] = "on"],
         UNCHANGED <<adapter, task, jobsCancelled, target>>,
         adapter = "chatterbox" => Speaker!Settled
  PROVE  SInv'
<1>0. SpeakerTyping /\ Sequel /\ Aimed /\ Covered /\ j \in 1..MaxReplies /\ MaxReplies \in Nat /\ j # 0
  BY ReplyFacts DEF SInv
<1>1. /\ playing' \in 0..MaxReplies /\ sound' \in [Speaker!Replies -> {"none", "on", "dying", "off"}]
      /\ \A p \in Speaker!Replies \ {j} : Speaker!Sounding(p)' <=> Speaker!Sounding(p)
  BY <1>0 DEF SpeakerTyping, Speaker!Sounding
<1>2. JobGoes(j, "playing") /\ Targets(j)
  BY <1>0 DEF JobGoes, Targets, Retired, Speaker!JobStates, SpeakerTyping
<1>3. /\ SpeakerTyping' /\ Sequel' /\ job'[j] = "playing"
      /\ \A k \in Speaker!Replies \ {j} : job'[k] = job[k]
  BY <1>1, <1>2, JobEffect
<1>4. Covered'
  BY <1>0, <1>1, <1>3 DEF Covered
<1>5. Aimed'
  <2> SUFFICES ASSUME adapter = "chatterbox", NEW p \in Speaker!Replies, Speaker!Sounding(p)',
                      NEW i \in Speaker!Replies
               PROVE  /\ playing' = p
                      /\ job'[i] = "aborting" => target'[Speaker!JobOf(i)] = p
                      /\ job'[i] = "clearing" /\ i \notin jobsCancelled' => target'[Speaker!JobOf(i)] = p
                      /\ job'[i] \in {"queued", "making"} => i \in jobsCancelled'
                      /\ job'[i] = "playing" => i = p \/ i \in jobsCancelled'
    BY DEF Aimed
  <2>1. \A q \in Speaker!Replies : ~Speaker!Sounding(q)
    BY <1>0 DEF Aimed
  <2>2. p = j
    BY <1>1, <2>1
  <2>3. CASE i = j
    BY <1>3, <2>2, <2>3
  <2>4. CASE i # j
    <3>1. job[i] # "aborting"
      <4>1. job[i] = "aborting" => Speaker!Sounding(target[Speaker!JobOf(i)])
        BY DEF Speaker!Settled, Speaker!Stopped
      <4>2. target[Speaker!JobOf(i)] \in 0..MaxReplies
        BY <1>0, ReplyFacts DEF SpeakerTyping
      <4>3. ~Speaker!Sounding(target[Speaker!JobOf(i)])
        BY <2>1, <4>2, ReplyFacts DEF Speaker!Sounding
      <4> QED  BY <4>1, <4>3
    <3>2. ~Retired(j) /\ job[j] # "none"
      BY DEF Retired
    <3>3. job[i] \in {"none", "aborting", "over"} \/ i \in jobsCancelled
      BY <1>0, <2>4, <3>2, Sole DEF Retired
    <3> QED  BY <1>3, <2>2, <2>4, <3>1, <3>3
  <2> QED  BY <2>3, <2>4
<1> QED  BY <1>3, <1>4, <1>5 DEF SInv

LEMMA JobSteps ==
  ASSUME SInv, NEW j \in Speaker!Replies, Speaker!JobStep(j)
  PROVE  SInv'
<1>0. /\ SpeakerTyping /\ Sequel /\ Aimed /\ Covered
      /\ j \in 1..MaxReplies /\ MaxReplies \in Nat /\ j # 0 /\ playing \in 0..MaxReplies
  BY ReplyFacts DEF SInv, SpeakerTyping
<1> DEFINE s == Speaker!JobOf(j)
<1>1. /\ s \in Speaker!Stopper
      /\ \A k \in Speaker!Replies \ {j} : Speaker!JobOf(k) \in Speaker!Stopper \ {s}
  <2>1. \A k \in Speaker!Replies \ {j} : Speaker!JobOf(k) \in Speaker!Stopper /\ Speaker!JobOf(k) # s
    BY DEF Speaker!JobOf, Speaker!Stopper
  <2> QED  BY <2>1, ReplyFacts
<1> HIDE DEF s
\* Three ways to deal with the processes.
<1>2. ASSUME UNCHANGED sound, target' = target \/ target' = [target EXCEPT ![s] = 0]
      PROVE  /\ Targets(j) /\ sound' \in [Speaker!Replies -> {"none", "on", "dying", "off"}]
             /\ \A p \in Speaker!Replies : Speaker!Sounding(p)' <=> Speaker!Sounding(p)
  <2>1. Targets(j)
    BY <1>0, <1>1, <1>2 DEF SpeakerTyping, Targets
  <2> QED  BY <1>0, <1>2, <2>1 DEF SpeakerTyping, Speaker!Sounding
<1>3. ASSUME NEW p \in 0..MaxReplies, Speaker!StopCall(s, p)
      PROVE  /\ Targets(j) /\ sound' \in [Speaker!Replies -> {"none", "on", "dying", "off"}]
             /\ \A q \in Speaker!Replies : Speaker!Sounding(q)' <=> Speaker!Sounding(q)
             /\ target'[s] = IF Speaker!Sounding(p) THEN p ELSE 0
  BY <1>0, <1>1, <1>3, StopCallFacts DEF Targets
<1>4. \A p \in Speaker!Replies : adapter \in Speaker!Locked /\ Speaker!Sounding(p) =>
        job[p] = "playing" \/ (job[p] = "aborting" /\ target[Speaker!JobOf(p)] = p)
  BY <1>0 DEF Covered
<1>5. CASE Speaker!Begin(j)
  <2>1. /\ UNCHANGED <<adapter, task, jobsCancelled, playing>> /\ job[j] = "created" /\ j \notin jobsCancelled
        /\ \/ adapter = "piper" /\ job' = [job EXCEPT ![j] = "queued"] /\ UNCHANGED <<target, sound>>
           \/ /\ adapter # "piper" /\ job' = [job EXCEPT ![j] = "clearing"]
              /\ Speaker!StopCall(s, playing)
    BY <1>5 DEF Speaker!Begin, Speaker!callVars, s
  <2>2. adapter \in Speaker!Locked => ~Speaker!Sounding(j)
    BY <1>4, <2>1
  <2>3. CASE adapter = "piper"
    <3>1. /\ Targets(j) /\ sound' \in [Speaker!Replies -> {"none", "on", "dying", "off"}]
          /\ \A p \in Speaker!Replies : Speaker!Sounding(p)' <=> Speaker!Sounding(p)
      BY <1>2, <2>1, <2>3
    <3>2. JobGoes(j, "queued")
      BY <2>1, <2>3 DEF JobGoes, Retired, Speaker!JobStates
    <3> QED  BY <1>0, <2>1, <2>2, <2>3, <3>1, <3>2, QuietJob
  <2>4. CASE adapter # "piper"
    <3>1. /\ Targets(j) /\ sound' \in [Speaker!Replies -> {"none", "on", "dying", "off"}]
          /\ \A p \in Speaker!Replies : Speaker!Sounding(p)' <=> Speaker!Sounding(p)
          /\ target'[s] = IF Speaker!Sounding(playing) THEN playing ELSE 0
      BY <1>0, <1>3, <2>1, <2>4
    <3>2. JobGoes(j, "clearing")
      BY <2>1, <2>4 DEF JobGoes, Retired, Speaker!JobStates
    <3>3. adapter = "chatterbox" => \A p \in Speaker!Replies : Speaker!Sounding(p)' => target'[s] = p
      BY <1>0, <3>1 DEF Aimed
    <3> QED  BY <1>0, <2>1, <2>2, <3>1, <3>2, <3>3, QuietJob DEF s
  <2> QED  BY <2>3, <2>4
<1>6. CASE Speaker!Clear(j)
  <2>1. /\ UNCHANGED <<adapter, task, jobsCancelled, playing, sound>> /\ job[j] = "clearing"
        /\ j \notin jobsCancelled /\ ~Speaker!Sounding(target[s])
        /\ target' = [target EXCEPT ![s] = 0]
        /\ job' = [job EXCEPT ![j] = "queued"] \/ job' = [job EXCEPT ![j] = "making"]
    BY <1>6 DEF Speaker!Clear, Speaker!callVars, Speaker!Stopped, s
  <2>2. adapter \in Speaker!Locked => ~Speaker!Sounding(j)
    BY <1>4, <2>1
  <2>3. adapter = "chatterbox" => \A p \in Speaker!Replies : ~Speaker!Sounding(p)
    BY <1>0, <2>1 DEF Aimed, s
  <2>4. /\ Targets(j) /\ sound' \in [Speaker!Replies -> {"none", "on", "dying", "off"}]
        /\ \A p \in Speaker!Replies : Speaker!Sounding(p)' <=> Speaker!Sounding(p)
    BY <1>2, <2>1
  <2>5. PICK state \in {"queued", "making"} : job' = [job EXCEPT ![j] = state]
    BY <2>1
  <2>6. JobGoes(j, state)
    BY <2>1, <2>5 DEF JobGoes, Retired, Speaker!JobStates
  <2> QED  BY <1>0, <2>1, <2>2, <2>3, <2>4, <2>6, QuietJob
<1>7. ASSUME job[j] \in {"queued", "making"}, j \notin jobsCancelled
      PROVE  /\ adapter \in Speaker!Locked => ~Speaker!Sounding(j)
             /\ adapter = "chatterbox" => \A p \in Speaker!Replies : ~Speaker!Sounding(p)
  BY <1>0, <1>4, <1>7 DEF Aimed
<1>8. CASE Speaker!Enter(j)
  <2>1. /\ UNCHANGED <<adapter, task, target>> /\ job[j] = "queued" /\ j \notin jobsCancelled
        /\ \/ /\ adapter = "piper" /\ job' = [job EXCEPT ![j] = "playing"] /\ playing' = j
              /\ sound' = [sound EXCEPT ![j] = "on"] /\ jobsCancelled' = jobsCancelled
           \/ /\ job' = [job EXCEPT ![j] = "making"]
              /\ UNCHANGED <<jobsCancelled, playing, sound>>
           \/ Speaker!Over(j, TRUE) /\ UNCHANGED sound
    BY <1>8 DEF Speaker!Enter, Speaker!callVars
  <2>2. CASE adapter = "piper" /\ job' = [job EXCEPT ![j] = "playing"] /\ playing' = j
             /\ sound' = [sound EXCEPT ![j] = "on"] /\ jobsCancelled' = jobsCancelled
    BY <2>1, <2>2, PlayStep
  <2>3. CASE job' = [job EXCEPT ![j] = "making"] /\ UNCHANGED <<jobsCancelled, playing, sound>>
    <3>1. /\ Targets(j) /\ sound' \in [Speaker!Replies -> {"none", "on", "dying", "off"}]
          /\ \A p \in Speaker!Replies : Speaker!Sounding(p)' <=> Speaker!Sounding(p)
      BY <1>2, <2>1, <2>3
    <3>2. JobGoes(j, "making")
      BY <2>1, <2>3 DEF JobGoes, Retired, Speaker!JobStates
    <3> QED  BY <1>0, <1>7, <2>1, <2>3, <3>1, <3>2, QuietJob
  <2>4. CASE Speaker!Over(j, TRUE) /\ UNCHANGED sound
    <3>1. Targets(j)
      BY <1>2, <2>1, <2>4
    <3> QED  BY <1>7, <2>1, <2>4, <3>1, OverStep
  <2> QED  BY <2>1, <2>2, <2>3, <2>4
<1>9. CASE Speaker!Made(j)
  <2>1. /\ UNCHANGED <<adapter, task, target>> /\ job[j] = "making" /\ j \notin jobsCancelled
        /\ Speaker!Settled
        /\ \/ /\ job' = [job EXCEPT ![j] = "playing"] /\ playing' = j
              /\ sound' = [sound EXCEPT ![j] = "on"] /\ jobsCancelled' = jobsCancelled
           \/ Speaker!Over(j, TRUE) /\ UNCHANGED sound
    BY <1>9 DEF Speaker!Made, Speaker!Play, Speaker!callVars
  <2>2. CASE job' = [job EXCEPT ![j] = "playing"] /\ playing' = j
             /\ sound' = [sound EXCEPT ![j] = "on"] /\ jobsCancelled' = jobsCancelled
    BY <2>1, <2>2, PlayStep
  <2>3. CASE Speaker!Over(j, TRUE) /\ UNCHANGED sound
    <3>1. Targets(j)
      BY <1>2, <2>1, <2>3
    <3> QED  BY <1>7, <2>1, <2>3, <3>1, OverStep
  <2> QED  BY <2>1, <2>2, <2>3
<1>10. CASE Speaker!Played(j)
  <2>1. PICK raised \in BOOLEAN : Speaker!Over(j, raised)
    BY <1>10 DEF Speaker!Played
  <2>2. /\ UNCHANGED <<adapter, task, target, sound>> /\ job[j] = "playing" /\ j \notin jobsCancelled
        /\ ~Speaker!Sounding(j)
    BY <1>10 DEF Speaker!Played, Speaker!callVars
  <2>3. adapter = "chatterbox" => \A p \in Speaker!Replies : ~Speaker!Sounding(p)
    BY <1>0, <2>2 DEF Aimed
  <2>4. Targets(j)
    BY <1>2, <2>2
  <2> QED  BY <2>1, <2>2, <2>3, <2>4, OverStep
<1>11. CASE Speaker!Quit(j)
  <2>1. /\ UNCHANGED <<adapter, task>> /\ j \in jobsCancelled
        /\ job[j] \in {"created", "clearing", "queued", "making", "playing"}
    BY <1>11 DEF Speaker!Quit, Speaker!callVars
  <2>2. CASE (adapter = "piper" /\ job[j] = "playing")
             \/ (adapter = "chatterbox" /\ job[j] \in {"queued", "making", "playing"})
    <3> DEFINE p == IF adapter = "piper" THEN j ELSE playing
    <3>1. /\ job' = [job EXCEPT ![j] = "aborting"] /\ jobsCancelled' = jobsCancelled \ {j}
          /\ Speaker!StopCall(s, p) /\ UNCHANGED playing
      BY <1>11, <2>2 DEF Speaker!Quit, s
    <3>2. p \in 0..MaxReplies
      BY <1>0
    <3>3. /\ Targets(j) /\ sound' \in [Speaker!Replies -> {"none", "on", "dying", "off"}]
          /\ \A q \in Speaker!Replies : Speaker!Sounding(q)' <=> Speaker!Sounding(q)
          /\ target'[s] = IF Speaker!Sounding(p) THEN p ELSE 0
      BY <1>3, <3>1, <3>2
    <3>4. JobGoes(j, "aborting")
      BY <1>0, <2>1, <3>1 DEF JobGoes, Retired, Speaker!JobStates, SpeakerTyping
    <3>5. adapter = "chatterbox" => \A q \in Speaker!Replies : Speaker!Sounding(q)' => target'[s] = q
      BY <1>0, <3>3 DEF Aimed
    <3>6. Speaker!Sounding(j)' => target'[s] = j
      BY <2>2, <3>3, <3>5
    <3> HIDE DEF p
    <3> QED  BY <1>0, <3>1, <3>3, <3>4, <3>5, <3>6, QuietJob DEF s
  <2>3. CASE ~((adapter = "piper" /\ job[j] = "playing")
               \/ (adapter = "chatterbox" /\ job[j] \in {"queued", "making", "playing"}))
    <3>1. Speaker!Over(j, FALSE) /\ UNCHANGED <<target, sound>>
      BY <1>11, <2>3 DEF Speaker!Quit
    <3>2. Targets(j)
      BY <1>2, <3>1
    <3>3. adapter \in Speaker!Locked => ~Speaker!Sounding(j)
      BY <1>4, <2>1, <2>3 DEF Speaker!Locked
    <3> QED  BY <2>1, <2>3, <3>1, <3>2, <3>3, OverStep
  <2> QED  BY <2>2, <2>3
<1>12. CASE Speaker!Aborted(j)
  <2>1. /\ UNCHANGED <<adapter, task, sound>> /\ job[j] = "aborting" /\ ~Speaker!Sounding(target[s])
        /\ target' = [target EXCEPT ![s] = 0] /\ Speaker!Over(j, FALSE)
    BY <1>12 DEF Speaker!Aborted, Speaker!callVars, Speaker!Stopped, s
  <2>2. Targets(j)
    BY <1>2, <2>1
  <2>3. adapter \in Speaker!Locked => ~Speaker!Sounding(j)
    BY <1>4, <2>1 DEF s
  <2>4. adapter = "chatterbox" => \A p \in Speaker!Replies : ~Speaker!Sounding(p)
    BY <1>0, <2>1 DEF Aimed, s
  <2> QED  BY <2>1, <2>2, <2>3, <2>4, OverStep
<1> QED  BY <1>5, <1>6, <1>8, <1>9, <1>10, <1>11, <1>12 DEF Speaker!JobStep

\* The controller says the next reply.
LEMMA SayStep ==
  ASSUME SInv, NEW j \in Speaker!Replies, Speaker!Say(j)
  PROVE  SInv'
<1>0. /\ SpeakerTyping /\ Sequel /\ Aimed /\ Covered
      /\ task[j] = "none" /\ job[j] = "none"
      /\ task' = [task EXCEPT ![j] = "readying"] /\ job' = [job EXCEPT ![j] = "created"]
      /\ UNCHANGED <<adapter, jobsCancelled, playing, target, sound>>
  BY DEF SInv, Speaker!Say, Sequel
<1>1. /\ task'[j] = "readying" /\ \A k \in Speaker!Replies \ {j} : task'[k] = task[k]
      /\ job'[j] = "created" /\ \A k \in Speaker!Replies \ {j} : job'[k] = job[k]
  BY <1>0 DEF SpeakerTyping
<1>2. SpeakerTyping'
  BY <1>0 DEF SpeakerTyping, Speaker!TaskStates, Speaker!JobStates
<1>3. ASSUME NEW k \in 1..(j - 1) PROVE k \in Speaker!Replies \ {j} /\ task[k] # "none" /\ Retired(k)
  <2>1. k \in Speaker!Replies /\ k # j
    BY ReplyFacts
  <2>2. \/ task[k] \in {"over", "unwinding", "stopping"}
        \/ job[k] = "aborting"
    BY DEF Speaker!Say, Speaker!Lingers
  <2> QED  BY <1>0, <2>1, <2>2 DEF Sequel, Retired
<1>4. Sequel'
  <2> SUFFICES ASSUME NEW i \in Speaker!Replies
               PROVE  /\ task'[i] = "none" <=> job'[i] = "none"
                      /\ task'[i] \in {"stopping", "over"} => job'[i] = "over"
                      /\ task'[i] \in {"unwinding", "settling"} => Retired(i)'
                      /\ task'[i] # "none" => \A k \in 1..(i - 1) : task'[k] # "none" /\ Retired(k)'
    BY DEF Sequel
  <2>1. CASE i = j
    BY <1>0, <1>1, <1>3, <2>1 DEF Retired
  <2>2. CASE i # j
    <3>1. \A k \in 1..(i - 1) : k \in Speaker!Replies
      BY ReplyFacts
    <3>2. task[i] # "none" => \A k \in 1..(i - 1) : k # j /\ task[k] # "none" /\ Retired(k)
      BY <1>0 DEF Sequel
    <3> QED  BY <1>0, <1>1, <2>2, <3>1, <3>2 DEF Sequel, Retired
  <2> QED  BY <2>1, <2>2
<1>5. \A p \in Speaker!Replies : Speaker!Sounding(p)' <=> Speaker!Sounding(p)
  BY <1>0 DEF Speaker!Sounding
<1>6. Aimed' /\ Covered'
  BY <1>0, <1>1, <1>5 DEF Aimed, Covered
<1> QED  BY <1>2, <1>4, <1>6 DEF SInv

\* A process ends, or the worker of Chatterbox answers.
LEMMA SpeakerQuiet ==
  ASSUME SInv, (\E j \in Speaker!Replies : Speaker!Ends(j)) \/ Speaker!Answer \/ UNCHANGED speakerVars
  PROVE  SInv'
<1>0. SpeakerTyping /\ Sequel /\ Aimed /\ Covered
  BY DEF SInv
<1>1. /\ UNCHANGED <<adapter, task, job, jobsCancelled, playing, target>>
      /\ sound' = sound \/ \E j \in Speaker!Replies : sound' = [sound EXCEPT ![j] = "off"]
  BY DEF Speaker!Ends, Speaker!Answer, speakerVars, Speaker!callVars, Speaker!jobVars
<1>2. /\ sound' \in [Speaker!Replies -> {"none", "on", "dying", "off"}]
      /\ \A p \in Speaker!Replies : Speaker!Sounding(p)' => Speaker!Sounding(p)
  BY <1>0, <1>1 DEF SpeakerTyping, Speaker!Sounding
<1>3. SpeakerTyping' /\ Sequel'
  BY <1>0, <1>1, <1>2 DEF SpeakerTyping, Sequel, Retired
<1>4. Aimed' /\ Covered'
  BY <1>0, <1>1, <1>2 DEF Aimed, Covered
<1> QED  BY <1>3, <1>4 DEF SInv

LEMMA SInitially == VoiceInit => SInv
<1> SUFFICES ASSUME Speaker!Init PROVE SInv
  BY DEF VoiceInit, VoiceParts
<1>1. /\ task = [j \in Speaker!Replies |-> "none"] /\ job = [j \in Speaker!Replies |-> "none"]
      /\ target = [t \in Speaker!Stopper |-> 0] /\ playing = 0
      /\ sound = [j \in Speaker!Replies |-> "none"] /\ 0 \in 0..MaxReplies
  BY ReplyFacts DEF Speaker!Init
<1>2. SpeakerTyping
  BY <1>1 DEF SpeakerTyping, Speaker!TaskStates, Speaker!JobStates
<1>3. Sequel
  BY <1>1 DEF Sequel
<1>4. Aimed /\ Covered
  BY <1>1 DEF Aimed, Covered, Speaker!Sounding
<1> QED  BY <1>2, <1>3, <1>4 DEF SInv

LEMMA SStepwise == SInv /\ [VoiceNext]_<<part, vars, whisperVars, speakerVars>> => SInv'
<1> SUFFICES ASSUME SInv, [VoiceNext]_<<part, vars, whisperVars, speakerVars>> PROVE SInv'
  OBVIOUS
<1>1. CASE UNCHANGED speakerVars
  BY <1>1, SpeakerQuiet
<1>2. CASE Speaker!Next
  BY <1>2, SayStep, TaskSteps, JobSteps, SpeakerQuiet DEF Speaker!Next
<1> QED  BY <1>1, <1>2 DEF VoiceNext

\* With Piper and Chatterbox the process of a reply never outlives the reply: whatever was
\* interrupted, and whoever the adapter was stopped for, it is silent before the controller is
\* through with it (isolated_piper.py, chatterbox.py; SpeechController._speak_once).
THEOREM ReplySilenced == VoiceSpec => []FallsSilent
<1>1. VoiceInit => SInv
  BY SInitially
<1>2. SInv /\ [VoiceNext]_<<part, vars, whisperVars, speakerVars>> => SInv'
  BY SStepwise
<1>3. SInv => FallsSilent
  <2> SUFFICES ASSUME SInv, adapter \in Speaker!Locked, NEW j \in Speaker!Replies,
                      task[j] = "over", Speaker!Sounding(j)
               PROVE  FALSE
    BY DEF FallsSilent, Speaker!FallsSilent, Speaker!Outlives
  <2>1. job[j] = "over"
    BY DEF SInv, Sequel
  <2> QED  BY <2>1 DEF SInv, Covered
<1> QED  BY <1>1, <1>2, <1>3, PTL DEF VoiceSpec

-----------------------------------------------------------------------------
(* The recogniser *)

Lines == {<<>>, <<"controller">>, <<"shutdown">>, <<"controller", "shutdown">>,
          <<"shutdown", "controller">>}
CommandNames == {"start", "finish", "stop", "shutdown"}
Commands == [name : CommandNames, id : Nat]
WorkerStates == [life : {"unborn", "loading", "serving", "dead"}, inbox : Seq(Commands), stream : Nat,
                 busy : BOOLEAN]
CallStates == [op : Whisper!Operations, at : Whisper!Places, config : Configs \cup {"none"}, id : Nat,
               reply : Whisper!Replies]

HearerTyping ==
  /\ sessionOn \in BOOLEAN /\ closed \in BOOLEAN /\ astray \in BOOLEAN
  /\ process \in 0..MaxCalls /\ reading \in 0..MaxCalls
  /\ worker \in [Whisper!Workers -> WorkerStates] /\ call \in [Whisper!Callers -> CallStates]
  /\ transcripts \in Seq(Nat) /\ lifecycle \in Lines
  /\ sequence \in Nat /\ session \in Nat /\ heard \in Nat

InLine(L, c) == \E i \in DOMAIN L : L[i] = c
First(L, c) == L # <<>> /\ Head(L) = c
Queued(c) == InLine(lifecycle, c)

\* The place and the operation of a call, and whether it is in line for the lock or holds it.
Fits(c, k, queued, first) ==
  /\ k.op \in IF c = "shutdown" THEN {"none", "close"} ELSE {"none", "prepare", "start", "finish", "stop"}
  /\ k.at = "idle" <=> k.op = "none"
  /\ k.at = "idle" => k = Whisper!Idle
  /\ k.at \in {"spawning", "loading", "failing"} => k.op \in {"prepare", "start"}
  /\ k.op = "prepare" => k.at # "waiting"
  /\ k.op = "finish" => k.at = "waiting"
  /\ k.reply = "awaited" => k.at = "waiting"
  /\ k.at = "waiting" => k.reply # "none"
  /\ queued <=> k.at # "idle" /\ (k.at = "waiting" => k.op = "close")
  /\ queued /\ k.at # "lock" => first

Standing ==
  /\ \A c \in Whisper!Callers : Fits(c, call[c], Queued(c), First(lifecycle, c))
  /\ ~closed => call["shutdown"] = Whisper!Idle
  /\ Queued("controller") /\ First(lifecycle, "shutdown") => call["controller"].op = "stop"
  /\ sessionOn => call["controller"].op \in {"none", "finish"}
  /\ call["controller"].op = "finish" => sessionOn \/ closed

\* The worker that lives is the one that is known and read; there is none where one is to be begun,
\* and none after close(), which nobody is behind who would begin one.
OneProcess ==
  /\ \A p \in Whisper!Workers : Whisper!Alive(p) => p = process /\ p = reading
  /\ \A c \in Whisper!Callers : call[c].at \in {"closing", "failing", "spawning"} => process = 0
  /\ process # 0 /\ reading # 0 => reading = process
  /\ closed /\ call["shutdown"] = Whisper!Idle =>
       /\ process = 0
       /\ call["controller"].op \in {"prepare", "start"} => call["controller"].at = "waiting"

\* The commands that wait in the worker p, oldest first, and whose they are.
Inbox(p) == worker[p].inbox
Only(p, names) == \A i \in DOMAIN Inbox(p) : Inbox(p)[i].name \in names

CommandOf(op) == IF op = "close" THEN "shutdown" ELSE op

Inboxes ==
  /\ \A c \in Whisper!Callers : call[c].at = "waiting" => call[c].id \in 1..sequence
  /\ \A p \in Whisper!Workers : Whisper!Alive(p) =>
       /\ worker[p].busy => worker[p].stream # 0
       /\ \A i \in DOMAIN Inbox(p) :
            /\ Inbox(p)[i].id \in 1..sequence
            /\ \A j \in DOMAIN Inbox(p) : i < j => Inbox(p)[i].id < Inbox(p)[j].id
            /\ \A c \in Whisper!Callers :
                 call[c].at = "waiting" /\ Inbox(p)[i].id = call[c].id => Inbox(p)[i].name = CommandOf(call[c].op)
            /\ call["controller"].at = "waiting" /\ Inbox(p)[i].id > call["controller"].id =>
                 Inbox(p)[i].name = "shutdown"
       /\ call["controller"].op = "stop" /\ call["controller"].reply = "ok" =>
            worker[p].stream = 0 /\ Only(p, {"shutdown"})

\* How far a start has come.
Starting(replies) ==
  call["controller"].op = "start" /\ call["controller"].at = "waiting" /\ call["controller"].reply \in replies

\* No session is on, and none is being started.
AtRest ==
  \/ call["controller"].op \in {"prepare", "start"} /\ call["controller"].at # "waiting"
  \/ call["controller"].op = "none" /\ ~sessionOn /\ ~closed

\* The session whose transcripts are to come.
Expected == IF Starting(Whisper!Replies) THEN call["controller"].id ELSE session

HeardInTime ==
  /\ call["controller"].op = "stop" => heard = Whisper!End
  /\ ~astray => heard \in {Whisper!End, session} /\ (sessionOn => session # 0)

ToCome ==
  ~astray /\ (sessionOn \/ Starting(Whisper!Replies)) =>
    \A i \in DOMAIN transcripts : transcripts[i] \in {Whisper!End, Expected}

Attuned ==
  ~astray => \A p \in Whisper!Workers : Whisper!Alive(p) =>
    /\ sessionOn => /\ worker[p].stream \in {0, session} /\ Only(p, {"finish", "shutdown"})
                    /\ reader = "reads"
    /\ (sessionOn \/ Starting(Whisper!Replies)) =>
         \A i \in DOMAIN transcripts : transcripts[i] # Whisper!End
    /\ Starting({"awaited"}) =>
         /\ worker[p].stream = 0 /\ Only(p, {"start", "shutdown"})
         /\ \A i \in DOMAIN Inbox(p) :
              Inbox(p)[i].name = "start" => Inbox(p)[i].id = call["controller"].id
    /\ Starting({"ok"}) => worker[p].stream = call["controller"].id /\ Only(p, {"shutdown"})
    /\ AtRest \/ Starting({"failed"}) => worker[p].stream = 0 /\ Only(p, {"shutdown"})

Sessions == HeardInTime /\ ToCome /\ Attuned

HInv == HearerTyping /\ Standing /\ OneProcess /\ Inboxes /\ Sessions


\* The line of two callers: its first leaves, another joins it, somebody gives up.
LEMMA LineFacts ==
  ASSUME NEW L \in Lines, NEW c \in Whisper!Callers, NEW d \in Whisper!Callers
  PROVE  /\ First(L, c) => InLine(L, c)
         /\ First(L, c) /\ First(L, d) => c = d
         /\ L = <<>> \/ \E e \in Whisper!Callers : First(L, e)
         /\ First(L, c) => /\ Tail(L) \in Lines
                           /\ InLine(Tail(L), d) <=> InLine(L, d) /\ d # c
                           /\ First(Tail(L), d) <=> InLine(L, d) /\ d # c
         /\ ~InLine(L, c) => /\ Append(L, c) \in Lines
                             /\ InLine(Append(L, c), d) <=> InLine(L, d) \/ d = c
                             /\ First(Append(L, c), d) <=> First(L, d) \/ (d = c /\ L = <<>>)
<1> DEFINE G ==
               /\ First(L, c) => InLine(L, c)
               /\ First(L, c) /\ First(L, d) => c = d
               /\ L = <<>> \/ \E e \in Whisper!Callers : First(L, e)
               /\ First(L, c) => /\ Tail(L) \in Lines
                                 /\ InLine(Tail(L), d) <=> InLine(L, d) /\ d # c
                                 /\ First(Tail(L), d) <=> InLine(L, d) /\ d # c
               /\ ~InLine(L, c) => /\ Append(L, c) \in Lines
                                   /\ InLine(Append(L, c), d) <=> InLine(L, d) \/ d = c
                                   /\ First(Append(L, c), d) <=> First(L, d) \/ (d = c /\ L = <<>>)
<1> SUFFICES G
  OBVIOUS
<1>1. c \in {"controller", "shutdown"} /\ d \in {"controller", "shutdown"}
  BY DEF Whisper!Callers
<1>3. \A e : /\ Tail(<<e>>) = <<>> /\ Head(<<e>>) = e /\ <<e>> # <<>>
              /\ \A x : InLine(<<e>>, x) <=> x = e
  <2>1. \A e : Tail(<<e>>) = <<>> /\ Head(<<e>>) = e /\ <<e>> # <<>>
    OBVIOUS
  <2>2. \A e, x : InLine(<<e>>, x) <=> x = e
    BY DEF InLine
  <2> QED  BY <2>1, <2>2
<1>4. \A e, f : /\ Tail(<<e, f>>) = <<f>> /\ Head(<<e, f>>) = e /\ <<e, f>> # <<>>
                 /\ \A x : InLine(<<e, f>>, x) <=> x = e \/ x = f
  BY DEF InLine
<1>5. ASSUME NEW e, NEW f PROVE Append(<<e>>, f) = <<e, f>> /\ Append(<<>>, f) = <<f>>
  <2>1. <<e>> \in Seq({e, f}) /\ <<e, f>> \in Seq({e, f}) /\ Len(<<e>>) = 1 /\ Len(<<e, f>>) = 2
    OBVIOUS
  <2> DEFINE A == Append(<<e>>, f)
  <2>2. A \in Seq({e, f}) /\ Len(A) = 2 /\ A[1] = e /\ A[2] = f
    BY <2>1
  <2> HIDE DEF A
  <2>3. \A i \in 1..2 : A[i] = <<e, f>>[i]
    BY <2>2
  <2>4. A = <<e, f>>
    BY <2>1, <2>2, <2>3, SeqEqual
  <2>5. Append(<<>>, f) = <<f>>
    OBVIOUS
  <2> QED  BY <2>4, <2>5 DEF A
<1>6. ASSUME NEW e \in {"controller", "shutdown"}, L = <<e>>
      PROVE  /\ First(L, c) <=> c = e
             /\ First(L, d) <=> d = e
             /\ InLine(L, c) <=> c = e
             /\ InLine(L, d) <=> d = e
             /\ Tail(L) = <<>> /\ Append(L, c) = <<e, c>> /\ L # <<>> /\ First(L, e)
  BY <1>3, <1>5, <1>6 DEF First
<1>7. ASSUME NEW e \in {"controller", "shutdown"}, NEW f \in {"controller", "shutdown"}, L = <<e, f>>
      PROVE  /\ First(L, c) <=> c = e
             /\ First(L, d) <=> d = e
             /\ InLine(L, c) <=> c = e \/ c = f
             /\ InLine(L, d) <=> d = e \/ d = f
             /\ Tail(L) = <<f>> /\ L # <<>> /\ First(L, e)
             /\ First(Tail(L), d) <=> d = f
             /\ InLine(Tail(L), d) <=> d = f
  BY <1>3, <1>4, <1>7 DEF First
<1>8. /\ ~InLine(<<>>, c) /\ ~InLine(<<>>, d) /\ ~First(<<>>, c) /\ ~First(<<>>, d)
      /\ First(<<c>>, d) <=> d = c
      /\ InLine(<<c>>, d) <=> d = c
      /\ Append(<<>>, c) = <<c>>
  BY <1>3, <1>5 DEF First, InLine
<1>9. \A e : /\ First(<<e, c>>, d) <=> d = e
             /\ InLine(<<e, c>>, d) <=> d = e \/ d = c
  BY <1>4 DEF First
<1>10. ASSUME NEW e \in {"controller", "shutdown"}, L = <<e>>
       PROVE  G
  BY <1>1, <1>6, <1>8, <1>9, <1>10 DEF Lines, Whisper!Callers
<1>11. ASSUME NEW e \in {"controller", "shutdown"}, NEW f \in {"controller", "shutdown"}, e # f, L = <<e, f>>
       PROVE  G
  BY <1>1, <1>7, <1>11 DEF Lines, Whisper!Callers
<1>12. L = <<>> \/ (\E e \in {"controller", "shutdown"} : L = <<e>>)
                \/ (\E e, f \in {"controller", "shutdown"} : e # f /\ L = <<e, f>>)
  BY DEF Lines
<1>13. CASE L = <<>>
  BY <1>1, <1>8, <1>13 DEF Lines
<1> HIDE DEF G
<1> QED  BY <1>10, <1>11, <1>12, <1>13

LEMMA HearerFacts ==
  /\ MaxCalls \in Nat /\ Whisper!Workers = 1..MaxCalls
  /\ Whisper!Callers = {"controller", "shutdown"}
  /\ Whisper!Idle \in CallStates /\ Whisper!Idle.op = "none" /\ Whisper!Idle.at = "idle"
  /\ Whisper!Idle.reply = "none"
  /\ \A c : Whisper!Holds(c) <=> First(lifecycle, c)
<1>1. MaxCalls \in Nat
  BY PartsAssumption DEF Whisper!WhisperBounds
<1>2. Whisper!Idle \in CallStates /\ Whisper!Idle.op = "none" /\ Whisper!Idle.at = "idle"
      /\ Whisper!Idle.reply = "none"
  BY DEF Whisper!Idle, CallStates, Whisper!Operations, Whisper!Places, Whisper!Replies
<1> QED  BY <1>1, <1>2 DEF Whisper!Workers, Whisper!Callers, Whisper!Holds, First

\* What a step of one caller does to the line, for the other.
OtherWaits(c) ==
  /\ lifecycle' \in Lines
  /\ \A d \in Whisper!Callers \ {c} :
       /\ Queued(d)' <=> Queued(d)
       /\ First(lifecycle, d) => First(lifecycle, d)'
       /\ First(lifecycle, d)' => Queued(d)

LEMMA Staying ==
  ASSUME lifecycle \in Lines, NEW c \in Whisper!Callers, lifecycle' = lifecycle
  PROVE  /\ OtherWaits(c)
         /\ Queued(c)' <=> Queued(c)
         /\ First(lifecycle, c)' <=> First(lifecycle, c)
<1>1. \A d \in Whisper!Callers : First(lifecycle, d) => Queued(d)
  BY LineFacts DEF Queued
<1> QED  BY <1>1 DEF OtherWaits, Queued

LEMMA Joining ==
  ASSUME lifecycle \in Lines, NEW c \in Whisper!Callers, ~Queued(c), lifecycle' = Append(lifecycle, c)
  PROVE  /\ OtherWaits(c) /\ Queued(c)'
         /\ First(lifecycle, c)' => \A d \in Whisper!Callers : ~Queued(d)
<1>1. ~InLine(lifecycle, c)
  BY DEF Queued
<1>2. \A d \in Whisper!Callers : /\ Append(lifecycle, c) \in Lines
                                 /\ InLine(Append(lifecycle, c), d) <=> InLine(lifecycle, d) \/ d = c
                                 /\ First(Append(lifecycle, c), d) <=>
                                      First(lifecycle, d) \/ (d = c /\ lifecycle = <<>>)
                                 /\ First(lifecycle, d) => InLine(lifecycle, d)
  BY <1>1, LineFacts
<1>3. lifecycle = <<>> => \A d \in Whisper!Callers : ~Queued(d)
  BY DEF Queued, InLine
<1> QED  BY <1>1, <1>2, <1>3 DEF OtherWaits, Queued

Leaves(c) ==
  lifecycle' = IF First(lifecycle, c) THEN Tail(lifecycle)
               ELSE IF lifecycle # <<>> THEN <<Head(lifecycle)>> ELSE <<>>

LEMMA Leaving ==
  ASSUME lifecycle \in Lines, NEW c \in Whisper!Callers, Leaves(c)
  PROVE  OtherWaits(c) /\ ~Queued(c)'
<1>1. CASE First(lifecycle, c)
  <2>1. lifecycle' = Tail(lifecycle)
    BY <1>1 DEF Leaves
  <2>2. \A d \in Whisper!Callers : /\ Tail(lifecycle) \in Lines
                                   /\ InLine(Tail(lifecycle), d) <=> InLine(lifecycle, d) /\ d # c
                                   /\ First(Tail(lifecycle), d) <=> InLine(lifecycle, d) /\ d # c
                                   /\ First(lifecycle, d) => d = c
    BY <1>1, LineFacts
  <2> QED  BY <2>1, <2>2 DEF OtherWaits, Queued
<1>2. CASE ~First(lifecycle, c) /\ lifecycle # <<>>
  <2>1. PICK d \in Whisper!Callers : First(lifecycle, d)
    BY <1>2, LineFacts
  <2>2. lifecycle' = <<d>> /\ d # c
    BY <1>2, <2>1 DEF Leaves, First
  <2>3. ~InLine(<<d>>, c) /\ InLine(<<d>>, d) /\ First(<<d>>, d)
    BY <2>2 DEF First, InLine
  <2>4. Whisper!Callers = {c, d} /\ InLine(lifecycle, d) /\ <<d>> \in Lines
    BY <2>1, <2>2, LineFacts DEF Whisper!Callers, Lines
  <2>5. ~Queued(c)' /\ Queued(d)' /\ Queued(d) /\ First(lifecycle, d)'
    <3>1. ~InLine(lifecycle', c) /\ InLine(lifecycle', d) /\ First(lifecycle', d)
      BY <2>2, <2>3
    <3> QED  BY <2>4, <3>1 DEF Queued
  <2>6. lifecycle' \in Lines /\ \A e \in Whisper!Callers \ {c} : e = d
    BY <2>2, <2>4
  <2> QED  BY <2>5, <2>6 DEF OtherWaits
<1>3. CASE lifecycle = <<>>
  <2>1. lifecycle' = <<>>
    BY <1>3 DEF Leaves, First
  <2> QED  BY <1>3, <2>1 DEF OtherWaits, Queued, InLine, First, Lines
<1> QED  BY <1>1, <1>2, <1>3

\* One call goes on; another, which awaited an answer, may be told that there is none.
Failed(d) == call[d].reply = "awaited" /\ call'[d] = [call[d] EXCEPT !.reply = "failed"]

Goes(c, k) ==
  /\ call' \in [Whisper!Callers -> CallStates] /\ call'[c] = k
  /\ \A d \in Whisper!Callers \ {c} : call'[d] = call[d] \/ Failed(d)

LEMMA Fitting ==
  ASSUME HearerTyping, Standing, NEW c \in Whisper!Callers, NEW k, Goes(c, k), OtherWaits(c),
         Fits(c, k, Queued(c)', First(lifecycle, c)')
  PROVE  \A d \in Whisper!Callers : Fits(d, call'[d], Queued(d)', First(lifecycle, d)')
<1> SUFFICES ASSUME NEW d \in Whisper!Callers PROVE Fits(d, call'[d], Queued(d)', First(lifecycle, d)')
  OBVIOUS
<1>1. CASE d = c
  BY <1>1 DEF Goes
<1>2. CASE d # c
  <2>1. Fits(d, call[d], Queued(d), First(lifecycle, d))
    BY DEF Standing
  <2>2. Fits(d, call[d], Queued(d)', First(lifecycle, d)')
    BY <1>2, <2>1 DEF Fits, OtherWaits
  <2>3. CASE call'[d] = call[d]
    BY <2>2, <2>3
  <2>4. CASE Failed(d)
    <3>1. /\ call'[d].op = call[d].op /\ call'[d].at = call[d].at /\ call'[d].reply = "failed"
          /\ call[d].at = "waiting"
      BY <2>1, <2>4 DEF Failed, Fits, HearerTyping, CallStates
    <3> QED  BY <2>2, <3>1 DEF Fits
  <2> QED  BY <1>2, <2>3, <2>4 DEF Goes
<1> QED  BY <1>1, <1>2

\* Steps that leave what the worker has before it, or begin a worker.
Calm ==
  /\ sequence' = sequence
  /\ \A p \in Whisper!Workers : Whisper!Alive(p)' =>
       \/ /\ Whisper!Alive(p) /\ worker'[p].inbox = worker[p].inbox
          /\ worker'[p].stream = worker[p].stream /\ (worker'[p].busy => worker[p].stream # 0)
       \/ ~Whisper!Alive(p) /\ worker'[p].inbox = <<>> /\ worker'[p].stream = 0 /\ ~worker'[p].busy

\* Nobody begins to await an answer.
NobodyAsks ==
  /\ \A c \in Whisper!Callers : call'[c].at = "waiting" =>
       call[c].at = "waiting" /\ call'[c].id = call[c].id /\ call'[c].op = call[c].op
  /\ call'["controller"].op = "stop" /\ call'["controller"].reply = "ok" =>
       call["controller"].op = "stop" /\ call["controller"].reply = "ok"

LEMMA InboxesCalm ==
  ASSUME Inboxes, Calm, NobodyAsks
  PROVE  Inboxes'
<1>1. \A c \in Whisper!Callers : call'[c].at = "waiting" => call'[c].id \in 1..sequence'
  BY DEF Inboxes, Calm, NobodyAsks
<1>2. SUFFICES ASSUME NEW p \in Whisper!Workers, Whisper!Alive(p)'
      PROVE  /\ worker'[p].busy => worker'[p].stream # 0
             /\ \A i \in DOMAIN Inbox(p)' :
                  /\ Inbox(p)'[i].id \in 1..sequence'
                  /\ \A j \in DOMAIN Inbox(p)' : i < j => Inbox(p)'[i].id < Inbox(p)'[j].id
                  /\ \A c \in Whisper!Callers :
                       call'[c].at = "waiting" /\ Inbox(p)'[i].id = call'[c].id =>
                         Inbox(p)'[i].name = CommandOf(call'[c].op)
                  /\ call'["controller"].at = "waiting" /\ Inbox(p)'[i].id > call'["controller"].id =>
                       Inbox(p)'[i].name = "shutdown"
             /\ call'["controller"].op = "stop" /\ call'["controller"].reply = "ok" =>
                  worker'[p].stream = 0 /\ Only(p, {"shutdown"})'
  BY <1>1 DEF Inboxes
<1>3. CASE /\ Whisper!Alive(p) /\ worker'[p].inbox = worker[p].inbox
           /\ worker'[p].stream = worker[p].stream /\ (worker'[p].busy => worker[p].stream # 0)
  <2>1. Inbox(p)' = Inbox(p) /\ sequence' = sequence /\ "controller" \in Whisper!Callers
    BY <1>3, HearerFacts DEF Inbox, Calm
  <2>2. Only(p, {"shutdown"}) => Only(p, {"shutdown"})'
    BY <2>1 DEF Only
  <2> QED  BY <1>3, <2>1, <2>2 DEF Inboxes, NobodyAsks
<1>4. CASE worker'[p].inbox = <<>> /\ worker'[p].stream = 0 /\ ~worker'[p].busy
  BY <1>4 DEF Inbox, Only
<1> QED  BY <1>2, <1>3, <1>4 DEF Calm

NobodyAlive == \A p \in Whisper!Workers : ~Whisper!Alive(p)

\* No session begins, and what is heard is of the session there is.
Quieter ==
  /\ session' = session /\ (sessionOn' => sessionOn)
  /\ sessionOn' \/ Starting(Whisper!Replies)' =>
       \A p \in Whisper!Workers : Whisper!Alive(p)' => Whisper!Alive(p)
  /\ call'["controller"].op = "stop" => heard' = Whisper!End
  /\ Starting(Whisper!Replies)' =>
       /\ Starting(Whisper!Replies) /\ call'["controller"].id = call["controller"].id
       /\ \/ call'["controller"].reply = call["controller"].reply
          \/ call'["controller"].reply = "failed" /\ (astray' \/ NobodyAlive')
  /\ ~astray' =>
       /\ ~astray /\ heard' \in {Whisper!End, session}
       /\ AtRest' => AtRest \/ Starting({"failed"}) \/ NobodyAlive'
       /\ reader' = reader \/ NobodyAlive' \/ ~sessionOn'
       /\ sessionOn' \/ Starting(Whisper!Replies)' =>
            \A i \in DOMAIN transcripts' :
              \/ \E j \in DOMAIN transcripts : transcripts'[i] = transcripts[j]
              \/ transcripts'[i] = Expected /\ Expected # Whisper!End
              \/ transcripts'[i] = Whisper!End /\ NobodyAlive'

LEMMA SessionsCalm ==
  ASSUME HearerTyping, Standing, Standing', Sessions, Calm, Quieter
  PROVE  Sessions'
<1>0. HeardInTime /\ ToCome /\ Attuned
  BY DEF Sessions
<1>1. HeardInTime'
  BY <1>0 DEF HeardInTime, Quieter
<1>2. ASSUME sessionOn' \/ Starting(Whisper!Replies)'
      PROVE  (sessionOn \/ Starting(Whisper!Replies)) /\ Expected' = Expected
  <2>1. sessionOn => ~Starting(Whisper!Replies)
    BY DEF Standing, Starting
  <2>2. sessionOn' => ~Starting(Whisper!Replies)'
    BY DEF Standing, Starting
  <2> QED  BY <1>2, <2>1, <2>2 DEF Expected, Quieter
<1>3. ToCome'
  BY <1>0, <1>2 DEF ToCome, Quieter
<1>4. Attuned'
  <2> SUFFICES ASSUME ~astray', NEW p \in Whisper!Workers, Whisper!Alive(p)'
      PROVE
        /\ sessionOn' => /\ worker'[p].stream \in {0, session'} /\ Only(p, {"finish", "shutdown"})'
                         /\ reader' = "reads"
        /\ (sessionOn' \/ Starting(Whisper!Replies)') =>
             \A i \in DOMAIN transcripts' : transcripts'[i] # Whisper!End
        /\ Starting({"awaited"})' =>
             /\ worker'[p].stream = 0 /\ Only(p, {"start", "shutdown"})'
             /\ \A i \in DOMAIN Inbox(p)' :
                  Inbox(p)'[i].name = "start" => Inbox(p)'[i].id = call'["controller"].id
        /\ Starting({"ok"})' => worker'[p].stream = call'["controller"].id /\ Only(p, {"shutdown"})'
        /\ AtRest' \/ Starting({"failed"})' => worker'[p].stream = 0 /\ Only(p, {"shutdown"})'
    BY DEF Attuned
  <2>1. ~astray /\ ~NobodyAlive'
    BY DEF Quieter, NobodyAlive
  <2>2. CASE ~Whisper!Alive(p)
    <3>1. /\ worker'[p].inbox = <<>> /\ worker'[p].stream = 0
          /\ ~sessionOn' /\ ~Starting(Whisper!Replies)'
      BY <2>2 DEF Calm, Quieter
    <3>2. Only(p, {"shutdown"})'
      BY <3>1 DEF Only, Inbox
    <3> QED  BY <3>1, <3>2 DEF Starting, Whisper!Replies
  <2>3. CASE Whisper!Alive(p)
    <3>1. worker'[p].inbox = worker[p].inbox /\ worker'[p].stream = worker[p].stream
      BY <2>3 DEF Calm
    <3>2. Inbox(p)' = Inbox(p) /\ \A names : Only(p, names)' <=> Only(p, names)
      BY <3>1 DEF Inbox, Only
    <3>3. ASSUME sessionOn'
          PROVE  /\ worker'[p].stream \in {0, session'} /\ Only(p, {"finish", "shutdown"})'
                 /\ reader' = "reads"
      BY <1>0, <2>1, <2>3, <3>1, <3>2, <3>3 DEF Attuned, Quieter
    <3>4. ASSUME sessionOn' \/ Starting(Whisper!Replies)', NEW i \in DOMAIN transcripts'
          PROVE  transcripts'[i] # Whisper!End
      <4>1. \A j \in DOMAIN transcripts : transcripts[j] # Whisper!End
        BY <1>0, <1>2, <2>1, <2>3, <3>4 DEF Attuned
      <4> QED  BY <2>1, <3>4, <4>1 DEF Quieter
    <3>5. ASSUME NEW replies, Starting(replies)', replies \subseteq Whisper!Replies, ~Starting({"failed"})'
          PROVE  Starting(replies) /\ call'["controller"].id = call["controller"].id
      BY <2>1, <3>5 DEF Quieter, Starting
    <3>6. {"awaited"} \subseteq Whisper!Replies /\ {"ok"} \subseteq Whisper!Replies
          /\ (Starting({"awaited"})' \/ Starting({"ok"})' => ~Starting({"failed"})')
      BY DEF Whisper!Replies, Starting
    <3>7. Starting({"awaited"})' =>
             /\ worker'[p].stream = 0 /\ Only(p, {"start", "shutdown"})'
             /\ \A i \in DOMAIN Inbox(p)' :
                  Inbox(p)'[i].name = "start" => Inbox(p)'[i].id = call'["controller"].id
      BY <1>0, <2>1, <2>3, <3>1, <3>2, <3>5, <3>6 DEF Attuned
    <3>8. Starting({"ok"})' => worker'[p].stream = call'["controller"].id /\ Only(p, {"shutdown"})'
      BY <1>0, <2>1, <2>3, <3>1, <3>2, <3>5, <3>6 DEF Attuned
    <3>9. AtRest' \/ Starting({"failed"})' => worker'[p].stream = 0 /\ Only(p, {"shutdown"})'
      <4>1. AtRest' => AtRest \/ Starting({"failed"})
        BY <2>1 DEF Quieter
      <4>2. Starting({"failed"})' => Starting({"failed"})
        BY <2>1 DEF Quieter, Starting, Whisper!Replies
      <4> QED  BY <1>0, <2>1, <2>3, <3>1, <3>2, <4>1, <4>2 DEF Attuned
    <3> QED  BY <3>3, <3>4, <3>7, <3>8, <3>9
  <2> QED  BY <2>2, <2>3
<1> QED  BY <1>1, <1>3, <1>4 DEF Sessions

\* The processes when none begins.
LEMMA OneProcessKept ==
  ASSUME OneProcess,
         \A p \in Whisper!Workers : Whisper!Alive(p)' => Whisper!Alive(p),
         process' \in {process, 0} /\ reading' \in {reading, 0},
         process' = process \/ NobodyAlive', reading' = reading \/ NobodyAlive',
         \A c \in Whisper!Callers : call'[c].at \in {"closing", "failing", "spawning"} =>
           process' = 0 \/ call[c].at \in {"closing", "failing", "spawning"},
         closed' /\ call'["shutdown"] = Whisper!Idle =>
           \/ /\ closed /\ call["shutdown"] = Whisper!Idle
              /\ call'["controller"].op \in {"prepare", "start"} =>
                   /\ call["controller"].op \in {"prepare", "start"}
                   /\ call["controller"].at = "waiting" => call'["controller"].at = "waiting"
           \/ process' = 0 /\ call'["controller"].op \notin {"prepare", "start"}
           \/ process' = 0 /\ call'["controller"].at = "waiting"
  PROVE  OneProcess'
<1>1. \A p \in Whisper!Workers : Whisper!Alive(p)' => p = process' /\ p = reading'
  BY DEF OneProcess, NobodyAlive
<1>2. \A c \in Whisper!Callers : call'[c].at \in {"closing", "failing", "spawning"} => process' = 0
  BY DEF OneProcess
<1>3. process' # 0 /\ reading' # 0 => reading' = process'
  BY DEF OneProcess
<1>4. closed' /\ call'["shutdown"] = Whisper!Idle =>
       /\ process' = 0
       /\ call'["controller"].op \in {"prepare", "start"} => call'["controller"].at = "waiting"
  BY DEF OneProcess
<1> QED  BY <1>1, <1>2, <1>3, <1>4 DEF OneProcess

\* A command is written to the worker there is.
Sends(c, k, name) ==
  /\ Whisper!Alive(process) /\ sequence' = sequence + 1
  /\ worker' = [worker EXCEPT ![process].inbox = Append(@, Whisper!Command(name, sequence + 1))]
  /\ call' = [call EXCEPT ![c] = k]
  /\ k \in CallStates /\ k.at = "waiting" /\ k.id = sequence + 1 /\ k.reply = "awaited"
  /\ name \in CommandNames /\ name = CommandOf(k.op)

LEMMA Sending ==
  ASSUME HearerTyping, OneProcess, Inboxes, NEW c \in Whisper!Callers, NEW k, NEW name, Sends(c, k, name),
         c = "shutdown" => name = "shutdown"
  PROVE  /\ Inboxes'
         /\ worker' \in [Whisper!Workers -> WorkerStates]
         /\ \A p \in Whisper!Workers :
              /\ Whisper!Alive(p)' <=> Whisper!Alive(p)
              /\ worker'[p].stream = worker[p].stream /\ worker'[p].busy = worker[p].busy
              /\ Whisper!Alive(p) =>
                   /\ Inbox(p)' = Append(Inbox(p), Whisper!Command(name, sequence + 1))
                   /\ Inbox(p) \in Seq(Commands)
<1> DEFINE m == Whisper!Command(name, sequence + 1)
<1>1. m \in Commands /\ m.name = name /\ m.id = sequence + 1
  BY DEF Whisper!Command, Commands, Sends, HearerTyping
<1> HIDE DEF m
<1>2. process \in Whisper!Workers
  BY HearerFacts DEF Sends, Whisper!Alive, HearerTyping
<1>3. /\ worker' = [worker EXCEPT ![process].inbox = Append(@, m)]
      /\ worker' = [worker EXCEPT ![process] = [worker[process] EXCEPT !.inbox = Append(worker[process].inbox, m)]]
  BY DEF Sends, m
<1>4. worker[process] \in WorkerStates /\ worker[process].inbox \in Seq(Commands)
  BY <1>2 DEF HearerTyping, WorkerStates
<1>5. worker' \in [Whisper!Workers -> WorkerStates]
  <2>1. Append(worker[process].inbox, m) \in Seq(Commands)
    BY <1>1, <1>4
  <2>2. [worker[process] EXCEPT !.inbox = Append(worker[process].inbox, m)] \in WorkerStates
    BY <1>4, <2>1 DEF WorkerStates
  <2> QED  BY <1>2, <1>3, <2>2 DEF HearerTyping
<1>6. \A p \in Whisper!Workers :
              /\ worker'[p].life = worker[p].life
              /\ worker'[p].stream = worker[p].stream /\ worker'[p].busy = worker[p].busy
              /\ Whisper!Alive(p) => p = process
              /\ p = process => worker'[p].inbox = Append(worker[p].inbox, m)
  BY <1>2, <1>3, <1>4 DEF HearerTyping, WorkerStates, OneProcess
<1>7. \A p \in Whisper!Workers :
              /\ Whisper!Alive(p)' <=> Whisper!Alive(p)
              /\ Whisper!Alive(p) => Inbox(p)' = Append(Inbox(p), m) /\ Inbox(p) \in Seq(Commands)
  BY <1>4, <1>6 DEF Whisper!Alive, Inbox
<1>8. Inboxes'
  <2>1. \A d \in Whisper!Callers : /\ call'[d] = IF d = c THEN k ELSE call[d]
                                   /\ call[d].at = "waiting" => call[d].id \in 1..sequence
    BY DEF Sends, HearerTyping, Inboxes
  <2>2. sequence \in Nat /\ sequence' = sequence + 1 /\ sequence + 1 \in 1..(sequence + 1)
        /\ 1..sequence \subseteq 1..(sequence + 1) /\ \A i \in 1..sequence : i < sequence + 1
    BY DEF HearerTyping, Sends
  <2>3. \A d \in Whisper!Callers : call'[d].at = "waiting" => call'[d].id \in 1..sequence'
    BY <2>1, <2>2 DEF Sends
  <2>4. ASSUME NEW p \in Whisper!Workers, Whisper!Alive(p)'
        PROVE
       /\ worker'[p].busy => worker'[p].stream # 0
       /\ \A i \in DOMAIN Inbox(p)' :
            /\ Inbox(p)'[i].id \in 1..sequence'
            /\ \A j \in DOMAIN Inbox(p)' : i < j => Inbox(p)'[i].id < Inbox(p)'[j].id
            /\ \A d \in Whisper!Callers :
                 call'[d].at = "waiting" /\ Inbox(p)'[i].id = call'[d].id =>
                   Inbox(p)'[i].name = CommandOf(call'[d].op)
            /\ call'["controller"].at = "waiting" /\ Inbox(p)'[i].id > call'["controller"].id =>
                 Inbox(p)'[i].name = "shutdown"
       /\ call'["controller"].op = "stop" /\ call'["controller"].reply = "ok" =>
            worker'[p].stream = 0 /\ Only(p, {"shutdown"})'
    <3>1. Whisper!Alive(p) /\ Inbox(p)' = Append(Inbox(p), m) /\ Inbox(p) \in Seq(Commands)
      BY <1>7, <2>4
    <3> DEFINE n == Len(Inbox(p)) + 1
    <3>2. /\ DOMAIN Inbox(p) = 1..Len(Inbox(p)) /\ Len(Inbox(p)) \in Nat
          /\ DOMAIN Inbox(p)' = 1..n /\ n \notin DOMAIN Inbox(p)
          /\ Inbox(p)'[n] = m
          /\ \A i \in DOMAIN Inbox(p) : i \in DOMAIN Inbox(p)' /\ Inbox(p)'[i] = Inbox(p)[i]
          /\ \A i \in DOMAIN Inbox(p)' : i \in DOMAIN Inbox(p) \/ i = n
          /\ \A i \in DOMAIN Inbox(p) : i < n /\ ~(n < i)
      BY <1>1, <3>1
    <3> HIDE DEF n
    <3>3. "controller" \in Whisper!Callers
      BY HearerFacts
    <3>4. \A i \in DOMAIN Inbox(p) : Inbox(p)[i].id \in 1..sequence
      BY <3>1 DEF Inboxes
    <3>5. ASSUME NEW i \in DOMAIN Inbox(p)' PROVE Inbox(p)'[i].id \in 1..sequence'
      BY <1>1, <2>2, <3>2, <3>4, <3>5
    <3>6. ASSUME NEW i \in DOMAIN Inbox(p)', NEW j \in DOMAIN Inbox(p)', i < j
          PROVE  Inbox(p)'[i].id < Inbox(p)'[j].id
      <4>1. i \in DOMAIN Inbox(p) /\ i # n
        BY <3>2, <3>6
      <4>2. CASE j = n
        BY <1>1, <2>2, <3>2, <3>4, <4>1, <4>2
      <4>3. CASE j \in DOMAIN Inbox(p)
        BY <3>1, <3>2, <3>6, <4>1, <4>3 DEF Inboxes
      <4> QED  BY <3>2, <3>6, <4>2, <4>3
    <3>7. ASSUME NEW i \in DOMAIN Inbox(p)', NEW d \in Whisper!Callers,
                 call'[d].at = "waiting", Inbox(p)'[i].id = call'[d].id
          PROVE  Inbox(p)'[i].name = CommandOf(call'[d].op)
      <4>1. CASE d = c
        <5>1. i = n
          BY <2>1, <2>2, <3>2, <3>4, <3>7, <4>1 DEF Sends
        <5> QED  BY <1>1, <2>1, <3>2, <4>1, <5>1 DEF Sends
      <4>2. CASE d # c
        <5>1. call'[d] = call[d] /\ call[d].id \in 1..sequence
          BY <2>1, <3>7, <4>2
        <5>2. i \in DOMAIN Inbox(p)
          BY <1>1, <2>2, <3>2, <3>7, <5>1
        <5> QED  BY <3>1, <3>2, <3>7, <5>1, <5>2 DEF Inboxes
      <4> QED  BY <4>1, <4>2
    <3>8. ASSUME NEW i \in DOMAIN Inbox(p)', call'["controller"].at = "waiting",
                 Inbox(p)'[i].id > call'["controller"].id
          PROVE  Inbox(p)'[i].name = "shutdown"
      <4>1. CASE c = "controller"
        BY <1>1, <2>1, <2>2, <3>2, <3>3, <3>4, <3>8, <4>1 DEF Sends
      <4>2. CASE c # "controller"
        <5>1. name = "shutdown" /\ call'["controller"] = call["controller"]
          BY <2>1, <3>3, <4>2 DEF Whisper!Callers
        <5> QED  BY <1>1, <3>1, <3>2, <3>8, <5>1 DEF Inboxes
      <4> QED  BY <4>1, <4>2
    <3>9. ASSUME call'["controller"].op = "stop", call'["controller"].reply = "ok"
          PROVE  worker'[p].stream = 0 /\ Only(p, {"shutdown"})'
      <4>1. c = "shutdown" /\ call'["controller"] = call["controller"]
        BY <2>1, <3>3, <3>9 DEF Whisper!Callers, Sends
      <4>2. worker[p].stream = 0 /\ Only(p, {"shutdown"}) /\ name = "shutdown"
        BY <3>1, <3>9, <4>1 DEF Inboxes
      <4> QED  BY <1>1, <1>6, <3>2, <4>2 DEF Only
    <3>10. worker'[p].busy => worker'[p].stream # 0
      BY <1>6, <3>1 DEF Inboxes
    <3> QED  BY <3>5, <3>6, <3>7, <3>8, <3>9, <3>10
  <2> QED  BY <2>3, <2>4 DEF Inboxes
<1> QED  BY <1>5, <1>6, <1>7, <1>8 DEF m

\* What the lemmas above ask of a step, of the invariant.
LEMMA Invariantly ==
  ASSUME HInv
  PROVE  /\ HearerTyping /\ Standing /\ OneProcess /\ Inboxes /\ Sessions
         /\ lifecycle \in Lines
         /\ \A c \in Whisper!Callers :
              /\ Fits(c, call[c], Queued(c), First(lifecycle, c)) /\ call[c] \in CallStates
              /\ First(lifecycle, c) => Queued(c)
         /\ "controller" \in Whisper!Callers /\ "shutdown" \in Whisper!Callers
BY LineFacts, HearerFacts DEF HInv, HearerTyping, Standing, Queued

LEMMA Entering ==
  ASSUME NEW c \in Whisper!Callers, NEW op \in {"prepare", "start", "stop", "close"},
         NEW config \in Configs \cup {"none"}
  PROVE  LET k == [op |-> op, at |-> "lock", config |-> config, id |-> 0, reply |-> "none"]
         IN  k \in CallStates /\ Whisper!Enter(c, op, config) = [call EXCEPT ![c] = k]
<1> DEFINE k == [op |-> op, at |-> "lock", config |-> config, id |-> 0, reply |-> "none"]
<1>1. [Whisper!Idle EXCEPT !.op = op, !.config = config, !.at = "lock"] = k
  <2> DEFINE e == [Whisper!Idle EXCEPT !.op = op, !.config = config, !.at = "lock"]
  <2>1. e.op = op /\ e.config = config /\ e.at = "lock" /\ e.id = 0 /\ e.reply = "none"
    BY DEF Whisper!Idle
  <2>2. e = [x \in {"op", "at", "config", "id", "reply"} |-> e[x]]
    BY DEF Whisper!Idle
  <2> HIDE DEF e
  <2>3. e = k
    BY <2>1, <2>2
  <2> QED  BY <2>3 DEF e
<1>2. op \in Whisper!Operations /\ "lock" \in Whisper!Places /\ "none" \in Whisper!Replies /\ 0 \in Nat
  BY DEF Whisper!Operations, Whisper!Places, Whisper!Replies
<1>3. k \in CallStates
  BY <1>2 DEF CallStates
<1> QED  BY <1>1, <1>3 DEF Whisper!Enter

LEMMA Preparing ==
  ASSUME HInv, Whisper!Open
  PROVE  HInv'
<1>1. PICK op \in {"prepare", "start"}, config \in Configs :
        /\ Whisper!CanCall /\ ~sessionOn /\ ~closed
        /\ call' = Whisper!Enter("controller", op, config)
        /\ lifecycle' = Append(lifecycle, "controller")
        /\ UNCHANGED <<Whisper!adapter, worker, sequence, Whisper!reads, astray>>
  BY DEF Whisper!Open
<1>2. HearerTyping /\ Standing /\ OneProcess /\ Inboxes /\ Sessions
  BY Invariantly
<1>3. /\ call["controller"] = Whisper!Idle /\ ~sessionOn /\ ~closed
      /\ UNCHANGED <<sessionOn, closed, process, reading, isReady, transcripts, worker, sequence,
                     session, reader, heard, astray>>
  BY <1>1 DEF Whisper!CanCall, Whisper!adapter, Whisper!reads
<1> DEFINE k == [op |-> op, at |-> "lock", config |-> config, id |-> 0, reply |-> "none"]
<1>4. k \in CallStates /\ call' = [call EXCEPT !["controller"] = k]
  BY <1>1, Entering, HearerFacts
<1>5. ~Queued("controller") /\ call["shutdown"] = Whisper!Idle /\ ~Queued("shutdown")
  BY <1>3, Invariantly, HearerFacts DEF Standing, Fits
<1>6. /\ OtherWaits("controller") /\ Queued("controller")' /\ ~Queued("shutdown")'
      /\ ~First(lifecycle, "shutdown")'
  BY <1>1, <1>5, Invariantly, Joining DEF OtherWaits
<1>7. Goes("controller", k)
  BY <1>2, <1>4, Invariantly DEF Goes, HearerTyping
<1>8. call'["controller"] = k /\ call'["shutdown"] = call["shutdown"]
  BY <1>2, <1>4, Invariantly DEF HearerTyping
<1>9. HearerTyping'
  BY <1>2, <1>3, <1>6, <1>7 DEF HearerTyping, OtherWaits, Goes
<1>10. Fits("controller", k, Queued("controller")', First(lifecycle, "controller")')
  BY <1>6 DEF Fits
<1>11. Standing'
  <2>1. \A d \in Whisper!Callers : Fits(d, call'[d], Queued(d)', First(lifecycle, d)')
    BY <1>2, <1>6, <1>7, <1>10, Invariantly, Fitting
  <2> QED  BY <1>3, <1>5, <1>6, <1>8, <2>1 DEF Standing
<1>12. \A p \in Whisper!Workers : Whisper!Alive(p)' <=> Whisper!Alive(p)
  BY <1>3 DEF Whisper!Alive
<1>13. OneProcess'
  BY <1>2, <1>3, <1>8, <1>12, OneProcessKept, HearerFacts DEF OneProcess, NobodyAlive
<1>14. Calm /\ NobodyAsks
  BY <1>2, <1>3, <1>8, <1>12, HearerFacts DEF Calm, NobodyAsks, Inboxes
<1>15. Quieter
  <2>1. ~sessionOn' /\ ~Starting(Whisper!Replies)' /\ AtRest
    BY <1>3, <1>8, HearerFacts DEF Starting, AtRest
  <2> QED  BY <1>2, <1>3, <1>8, <2>1 DEF Quieter, Sessions, HeardInTime
<1> QED  BY <1>2, <1>9, <1>11, <1>13, <1>14, <1>15, InboxesCalm, SessionsCalm DEF HInv

LEMMA Ending ==
  ASSUME HInv, Whisper!Close
  PROVE  HInv'
<1>1. /\ ~closed /\ closed' /\ ~sessionOn'
      /\ call' = Whisper!Enter("shutdown", "close", "none")
      /\ lifecycle' = Append(lifecycle, "shutdown")
      /\ UNCHANGED <<process, reading, isReady, transcripts, worker, sequence, session, reader, heard, astray>>
      /\ closed' \in BOOLEAN /\ sessionOn' \in BOOLEAN
  BY DEF Whisper!Close, Whisper!reads
<1>2. HearerTyping /\ Standing /\ OneProcess /\ Inboxes /\ Sessions
  BY Invariantly
<1> DEFINE k == [op |-> "close", at |-> "lock", config |-> "none", id |-> 0, reply |-> "none"]
<1>4. k \in CallStates /\ call' = [call EXCEPT !["shutdown"] = k]
  BY <1>1, Entering, HearerFacts
<1>5. call["shutdown"] = Whisper!Idle /\ ~Queued("shutdown")
  BY <1>1, Invariantly, HearerFacts DEF Standing, Fits
<1>6. /\ OtherWaits("shutdown") /\ Queued("shutdown")'
      /\ First(lifecycle, "shutdown")' => ~Queued("controller")'
  BY <1>1, <1>5, Invariantly, Joining DEF OtherWaits, Whisper!Callers
<1>7. Goes("shutdown", k)
  BY <1>2, <1>4, Invariantly DEF Goes, HearerTyping
<1>8. call'["shutdown"] = k /\ call'["controller"] = call["controller"]
  BY <1>2, <1>4, Invariantly DEF HearerTyping
<1>9. HearerTyping'
  BY <1>1, <1>2, <1>6, <1>7 DEF HearerTyping, OtherWaits, Goes
<1>10. Fits("shutdown", k, Queued("shutdown")', First(lifecycle, "shutdown")')
  BY <1>6 DEF Fits
<1>11. Standing'
  <2>1. \A d \in Whisper!Callers : Fits(d, call'[d], Queued(d)', First(lifecycle, d)')
    BY <1>2, <1>6, <1>7, <1>10, Invariantly, Fitting
  <2> QED  BY <1>1, <1>2, <1>6, <1>8, <2>1 DEF Standing
<1>12. \A p \in Whisper!Workers : Whisper!Alive(p)' <=> Whisper!Alive(p)
  BY <1>1 DEF Whisper!Alive
<1>13. OneProcess'
  BY <1>1, <1>2, <1>8, <1>12, OneProcessKept, HearerFacts DEF OneProcess, NobodyAlive
<1>14. Calm /\ NobodyAsks
  BY <1>1, <1>2, <1>8, <1>12, HearerFacts DEF Calm, NobodyAsks, Inboxes
<1>15. Quieter
  <2>1. /\ Starting(Whisper!Replies)' => Starting(Whisper!Replies)
        /\ AtRest' => AtRest
    BY <1>1, <1>8 DEF Starting, AtRest
  <2>2. sessionOn' \/ Starting(Whisper!Replies)' => Expected # Whisper!End \/ TRUE
    OBVIOUS
  <2> QED  BY <1>1, <1>2, <1>8, <1>12, <2>1 DEF Quieter, Sessions, HeardInTime
<1> QED  BY <1>2, <1>9, <1>11, <1>13, <1>14, <1>15, InboxesCalm, SessionsCalm DEF HInv

LEMMA Unheard ==
  ASSUME HInv, UNCHANGED <<sessionOn, closed, process, reading, worker, transcripts, lifecycle, call,
                           sequence, session, reader, heard, astray>>
  PROVE  HInv'
<1>1. \A p \in Whisper!Workers : Whisper!Alive(p)' <=> Whisper!Alive(p)
  BY DEF Whisper!Alive
<1>2. HearerTyping' /\ Standing'
  BY DEF HInv, HearerTyping, Standing, Queued
<1>3. OneProcess'
  BY <1>1 DEF HInv, OneProcess
<1>4. Calm /\ NobodyAsks /\ Quieter
  BY <1>1, Invariantly, HearerFacts
  DEF Calm, NobodyAsks, Quieter, Inboxes, Sessions, HeardInTime, Starting, AtRest
<1> QED  BY <1>2, <1>3, <1>4, Invariantly, InboxesCalm, SessionsCalm DEF HInv

LEMMA Asking ==
  ASSUME HearerTyping, NEW c \in Whisper!Callers, NEW name \in CommandNames, Whisper!Send(c, name),
         Whisper!Alive(process), name = CommandOf(call[c].op)
  PROVE  LET k == [op |-> call[c].op, at |-> "waiting", config |-> call[c].config, id |-> sequence + 1,
                   reply |-> "awaited"]
         IN  Sends(c, k, name)
<1> DEFINE k == [op |-> call[c].op, at |-> "waiting", config |-> call[c].config, id |-> sequence + 1,
                 reply |-> "awaited"]
<1>1. "waiting" \in Whisper!Places /\ "awaited" \in Whisper!Replies /\ call[c] \in CallStates
      /\ sequence + 1 \in Nat
  BY DEF Whisper!Places, Whisper!Replies, HearerTyping
<1>2. k \in CallStates
  BY <1>1 DEF CallStates
<1>3. call'[c] = k
  <2>1. call'[c].op = call[c].op /\ call'[c].at = "waiting" /\ call'[c].config = call[c].config
        /\ call'[c].id = sequence + 1 /\ call'[c].reply = "awaited"
    BY <1>1 DEF Whisper!Send, HearerTyping, CallStates
  <2>2. call'[c] = [x \in {"op", "at", "config", "id", "reply"} |-> call'[c][x]]
    BY <1>1 DEF Whisper!Send, HearerTyping, CallStates
  <2> QED  BY <2>1, <2>2
<1>4. call' = [call EXCEPT ![c] = call'[c]]
  BY DEF Whisper!Send, HearerTyping
<1> QED  BY <1>2, <1>3, <1>4 DEF Sends, Whisper!Send

LEMMA Finishing ==
  ASSUME HInv, Whisper!Finish
  PROVE  HInv'
<1>1. /\ call["controller"] = Whisper!Idle /\ sessionOn
      /\ UNCHANGED <<sessionOn, closed, process, reading, transcripts, lifecycle, session, reader, heard, astray>>
  BY DEF Whisper!Finish, Whisper!CanCall, Whisper!adapter, Whisper!reads
<1>2. HearerTyping /\ Standing /\ OneProcess /\ Inboxes /\ Sessions /\ lifecycle \in Lines
      /\ "controller" \in Whisper!Callers
  BY Invariantly
<1>3. CASE ~Whisper!Alive(process)
  BY <1>1, <1>3, Unheard DEF Whisper!Finish
<1>4. CASE Whisper!Alive(process)
  <2> DEFINE k == [op |-> "finish", at |-> "waiting", config |-> "none", id |-> sequence + 1, reply |-> "awaited"]
  <2>1. Sends("controller", k, "finish")
    <3>1. k \in CallStates
      BY <1>2 DEF CallStates, HearerTyping, Whisper!Operations, Whisper!Places, Whisper!Replies
    <3>2. "finish" = CommandOf("finish") /\ "finish" \in CommandNames
      BY DEF CommandOf, CommandNames
    <3> QED  BY <1>4, <3>1, <3>2 DEF Whisper!Finish, Sends
  <2>2. Inboxes' /\ worker' \in [Whisper!Workers -> WorkerStates]
    BY <1>2, <2>1, Sending
  <2>3. \A p \in Whisper!Workers :
              /\ Whisper!Alive(p)' <=> Whisper!Alive(p)
              /\ worker'[p].stream = worker[p].stream
              /\ Whisper!Alive(p) =>
                   /\ Inbox(p)' = Append(Inbox(p), Whisper!Command("finish", sequence + 1))
                   /\ Inbox(p) \in Seq(Commands)
    BY <1>2, <2>1, Sending
  <2>4. call'["controller"] = k /\ call'["shutdown"] = call["shutdown"] /\ Goes("controller", k)
    BY <1>2, <2>1, HearerFacts DEF Sends, HearerTyping, Goes
  <2>5. OtherWaits("controller") /\ ~Queued("controller")'
    BY <1>1, <1>2, Staying, Invariantly, HearerFacts DEF Fits
  <2>6. HearerTyping'
    BY <1>1, <1>2, <2>1, <2>2, <2>4, <2>5 DEF HearerTyping, OtherWaits, Goes, Sends
  <2>7. Standing'
    <3>1. Fits("controller", k, Queued("controller")', First(lifecycle, "controller")')
      BY <2>5 DEF Fits
    <3>2. \A d \in Whisper!Callers : Fits(d, call'[d], Queued(d)', First(lifecycle, d)')
      BY <1>2, <2>4, <2>5, <3>1, Fitting
    <3> QED  BY <1>1, <1>2, <2>4, <2>5, <3>2 DEF Standing
  <2>8. OneProcess'
    BY <1>1, <1>2, <2>3, <2>4, OneProcessKept, HearerFacts DEF OneProcess, NobodyAlive
  <2>9. Sessions'
    <3>1. \A p \in Whisper!Workers : Whisper!Alive(p) /\ Only(p, {"finish", "shutdown"}) =>
            Only(p, {"finish", "shutdown"})'
      BY <2>3 DEF Only, Whisper!Command
    <3>2. ~Starting(Whisper!Replies) /\ ~Starting(Whisper!Replies)' /\ ~AtRest'
          /\ ~Starting({"awaited"})' /\ ~Starting({"ok"})' /\ ~Starting({"failed"})'
      BY <1>1, <2>4, HearerFacts DEF Starting, AtRest
    <3>3. HeardInTime'
      BY <1>1, <1>2, <2>4 DEF Sessions, HeardInTime
    <3>4. ToCome'
      BY <1>1, <1>2, <3>2 DEF Sessions, ToCome, Expected
    <3>5. Attuned'
      BY <1>1, <1>2, <2>3, <3>1, <3>2 DEF Sessions, Attuned
    <3> QED  BY <3>3, <3>4, <3>5 DEF Sessions
  <2> QED  BY <2>2, <2>6, <2>7, <2>8, <2>9 DEF HInv
<1> QED  BY <1>3, <1>4

LEMMA Stopping ==
  ASSUME HInv, Whisper!Stop
  PROVE  HInv'
<1>1. /\ call["controller"] = Whisper!Idle /\ sessionOn /\ ~sessionOn' /\ sessionOn' \in BOOLEAN
      /\ heard' = Whisper!End
      /\ UNCHANGED <<closed, process, reading, transcripts, session, astray>>
  BY DEF Whisper!Stop, Whisper!CanCall
<1>2. HearerTyping /\ Standing /\ OneProcess /\ Inboxes /\ Sessions /\ lifecycle \in Lines
      /\ "controller" \in Whisper!Callers
  BY Invariantly
<1>3. ~Queued("controller")
  BY <1>1, <1>2, Invariantly, HearerFacts DEF Fits
<1>4. CASE ~Whisper!Alive(process)
  <2> DEFINE k == [op |-> "stop", at |-> "lock", config |-> "none", id |-> 0, reply |-> "none"]
  <2>1. k \in CallStates /\ call' = [call EXCEPT !["controller"] = k]
        /\ lifecycle' = Append(lifecycle, "controller") /\ worker' = worker /\ sequence' = sequence
    BY <1>2, <1>4, Entering DEF Whisper!Stop
  <2>2. call'["controller"] = k /\ call'["shutdown"] = call["shutdown"] /\ Goes("controller", k)
    BY <1>2, <2>1, HearerFacts DEF HearerTyping, Goes
  <2>3. OtherWaits("controller") /\ Queued("controller")'
    BY <1>2, <1>3, <2>1, Joining
  <2>4. HearerTyping'
    BY <1>1, <1>2, <2>1, <2>2, <2>3 DEF HearerTyping, OtherWaits, Goes, Whisper!End
  <2>5. Standing'
    <3>1. Fits("controller", k, Queued("controller")', First(lifecycle, "controller")')
      BY <2>3 DEF Fits
    <3>2. \A d \in Whisper!Callers : Fits(d, call'[d], Queued(d)', First(lifecycle, d)')
      BY <1>2, <2>2, <2>3, <3>1, Fitting
    <3> QED  BY <1>1, <1>2, <2>2, <2>3, <3>2 DEF Standing
  <2>6. \A p \in Whisper!Workers : Whisper!Alive(p)' <=> Whisper!Alive(p)
    BY <1>1, <2>1 DEF Whisper!Alive
  <2>7. OneProcess'
    BY <1>1, <1>2, <2>2, <2>6, OneProcessKept, HearerFacts DEF OneProcess, NobodyAlive
  <2>8. Calm /\ NobodyAsks
    BY <1>1, <1>2, <2>1, <2>2, <2>6, HearerFacts DEF Calm, NobodyAsks, Inboxes
  <2>9. Quieter
    <3>1. ~Starting(Whisper!Replies)' /\ ~AtRest'
      BY <2>2 DEF Starting, AtRest
    <3> QED  BY <1>1, <2>6, <3>1 DEF Quieter
  <2> QED  BY <1>2, <2>4, <2>5, <2>7, <2>8, <2>9, InboxesCalm, SessionsCalm DEF HInv
<1>5. CASE Whisper!Alive(process)
  <2> DEFINE k == [op |-> "stop", at |-> "waiting", config |-> "none", id |-> sequence + 1, reply |-> "awaited"]
  <2>1. Sends("controller", k, "stop") /\ lifecycle' = lifecycle
    <3>1. k \in CallStates
      BY <1>2 DEF CallStates, HearerTyping, Whisper!Operations, Whisper!Places, Whisper!Replies
    <3>2. "stop" = CommandOf("stop") /\ "stop" \in CommandNames
      BY DEF CommandOf, CommandNames
    <3> QED  BY <1>5, <3>1, <3>2 DEF Whisper!Stop, Sends
  <2>2. /\ Inboxes' /\ worker' \in [Whisper!Workers -> WorkerStates]
        /\ \A p \in Whisper!Workers : Whisper!Alive(p)' <=> Whisper!Alive(p)
    BY <1>2, <2>1, Sending
  <2>4. call'["controller"] = k /\ call'["shutdown"] = call["shutdown"] /\ Goes("controller", k)
    BY <1>2, <2>1, HearerFacts DEF Sends, HearerTyping, Goes
  <2>5. OtherWaits("controller") /\ ~Queued("controller")'
    BY <1>2, <1>3, <2>1, Staying
  <2>6. HearerTyping'
    BY <1>1, <1>2, <2>1, <2>2, <2>4, <2>5 DEF HearerTyping, OtherWaits, Goes, Sends, Whisper!End
  <2>7. Standing'
    <3>1. Fits("controller", k, Queued("controller")', First(lifecycle, "controller")')
      BY <2>5 DEF Fits
    <3>2. \A d \in Whisper!Callers : Fits(d, call'[d], Queued(d)', First(lifecycle, d)')
      BY <1>2, <2>4, <2>5, <3>1, Fitting
    <3> QED  BY <1>1, <1>2, <2>4, <2>5, <3>2 DEF Standing
  <2>8. OneProcess'
    BY <1>1, <1>2, <2>2, <2>4, OneProcessKept, HearerFacts DEF OneProcess, NobodyAlive
  <2>9. Sessions'
    <3>1. ~Starting(Whisper!Replies)' /\ ~AtRest'
          /\ ~Starting({"awaited"})' /\ ~Starting({"ok"})' /\ ~Starting({"failed"})'
      BY <2>4, HearerFacts DEF Starting, AtRest
    <3> QED  BY <1>1, <3>1 DEF Sessions, HeardInTime, ToCome, Attuned
  <2> QED  BY <2>2, <2>6, <2>7, <2>8, <2>9 DEF HInv
<1> QED  BY <1>4, <1>5

\* The place of a call changes, and nothing else of it.
LEMMA Placing ==
  ASSUME HearerTyping, NEW c \in Whisper!Callers, NEW place \in Whisper!Places, Whisper!At(c, place)
  PROVE  LET k == [call[c] EXCEPT !.at = place]
         IN  /\ k \in CallStates /\ k.at = place /\ k.op = call[c].op /\ k.reply = call[c].reply
             /\ k.id = call[c].id /\ k.config = call[c].config
             /\ call' = [call EXCEPT ![c] = k] /\ Goes(c, k)
             /\ \A d \in Whisper!Callers \ {c} : call'[d] = call[d]
BY DEF HearerTyping, CallStates, Whisper!At, Goes

LEMMA Terminating ==
  ASSUME HInv, NEW c \in Whisper!Callers, NEW place \in {"closing", "failing"},
         Whisper!Terminate(c, place), First(lifecycle, c),
         call[c].at \in {"lock", "loading"} \/ (call[c].at = "waiting" /\ call[c].op = "close"),
         call[c].reply # "awaited", place = "failing" => call[c].op \in {"prepare", "start"},
         UNCHANGED <<sessionOn, closed, reading, transcripts, lifecycle, sequence, session, reader,
                     heard, astray>>
  PROVE  HInv'
<1>1. /\ process' = 0
      /\ worker' = IF Whisper!Alive(process) THEN [worker EXCEPT ![process].life = "dead"] ELSE worker
      /\ Whisper!At(c, place) /\ place \in Whisper!Places
  BY DEF Whisper!Terminate, Whisper!Places
<1>2. HearerTyping /\ Standing /\ OneProcess /\ Inboxes /\ Sessions /\ lifecycle \in Lines
  BY Invariantly
<1> DEFINE k == [call[c] EXCEPT !.at = place]
<1>3. /\ k \in CallStates /\ k.at = place /\ k.op = call[c].op /\ k.reply = call[c].reply
      /\ Goes(c, k) /\ call'[c] = k
      /\ \A d \in Whisper!Callers \ {c} : call'[d] = call[d]
  BY <1>1, <1>2, Placing DEF Goes
<1> HIDE DEF k
<1>4. NobodyAlive' /\ worker' \in [Whisper!Workers -> WorkerStates]
  <2>1. CASE Whisper!Alive(process)
    <3>1. process \in Whisper!Workers
      BY <1>2, <2>1, HearerFacts DEF Whisper!Alive, HearerTyping
    <3>2. worker' = [worker EXCEPT ![process] = [worker[process] EXCEPT !.life = "dead"]]
      BY <1>1, <2>1
    <3>3. [worker[process] EXCEPT !.life = "dead"] \in WorkerStates
      BY <1>2, <3>1 DEF HearerTyping, WorkerStates
    <3>4. [worker[process] EXCEPT !.life = "dead"].life = "dead"
      BY <1>2, <3>1 DEF HearerTyping, WorkerStates
    <3>5. worker' \in [Whisper!Workers -> WorkerStates] /\ worker'[process].life = "dead"
          /\ \A p \in Whisper!Workers : p # process => worker'[p] = worker[p]
      BY <1>2, <3>1, <3>2, <3>3, <3>4 DEF HearerTyping
    <3> QED  BY <1>2, <3>5 DEF NobodyAlive, Whisper!Alive, OneProcess
  <2>2. CASE ~Whisper!Alive(process)
    <3>1. worker' = worker
      BY <1>1, <2>2
    <3> QED  BY <1>2, <2>2, <3>1 DEF NobodyAlive, Whisper!Alive, OneProcess, HearerTyping
  <2> QED  BY <2>1, <2>2
<1>5. OtherWaits(c) /\ Queued(c)' /\ First(lifecycle, c)'
  <2>1. Queued(c)
    BY Invariantly
  <2> QED  BY <1>2, <2>1, Staying
<1>6. HearerTyping'
  BY <1>1, <1>2, <1>3, <1>4, <1>5, HearerFacts DEF HearerTyping, OtherWaits, Goes
<1>7. Standing'
  <2>1. Fits(c, call[c], Queued(c), First(lifecycle, c))
    BY Invariantly
  <2>2. Fits(c, k, Queued(c)', First(lifecycle, c)')
    BY <1>3, <1>5, <2>1 DEF Fits
  <2>3. \A d \in Whisper!Callers : Fits(d, call'[d], Queued(d)', First(lifecycle, d)')
    BY <1>2, <1>3, <1>5, <2>2, Fitting
  <2>4. \A d \in Whisper!Callers : call'[d].op = call[d].op
    BY <1>3
  <2>5. c = "shutdown" => closed
    BY <1>2, HearerFacts DEF Standing
  <2>6. "controller" \in Whisper!Callers /\ "shutdown" \in Whisper!Callers
        /\ (c # "shutdown" => call'["shutdown"] = call["shutdown"])
    BY <1>3, HearerFacts
  <2>7. lifecycle' = lifecycle /\ sessionOn' = sessionOn /\ closed' = closed
        /\ (Queued("controller")' <=> Queued("controller"))
        /\ (First(lifecycle, "shutdown")' <=> First(lifecycle, "shutdown"))
    BY <1>2, Staying, HearerFacts
  <2> QED  BY <1>2, <2>3, <2>4, <2>5, <2>6, <2>7 DEF Standing
<1>8. OneProcess'
  <2>1. \A p \in Whisper!Workers : ~Whisper!Alive(p)'
    BY <1>4 DEF NobodyAlive
  <2>2. closed' /\ call'["shutdown"] = Whisper!Idle =>
          (call'["controller"].op \in {"prepare", "start"} => call'["controller"].at = "waiting")
    <3>1. c = "controller" => ~(closed /\ call["shutdown"] = Whisper!Idle /\ call[c].op \in {"prepare", "start"})
      BY <1>2, HearerFacts DEF OneProcess
    <3>2. c = "shutdown" => call'["shutdown"] # Whisper!Idle /\ call'["controller"] = call["controller"]
      BY <1>3, HearerFacts
    <3> QED  BY <1>3, <3>1, <3>2, HearerFacts
  <2> QED  BY <1>1, <2>1, <2>2 DEF OneProcess
<1>9. Calm /\ NobodyAsks
  <2>1. \A d \in Whisper!Callers : call'[d].at = "waiting" => call'[d] = call[d]
    BY <1>3
  <2>2. call'["controller"].op = call["controller"].op /\ call'["controller"].reply = call["controller"].reply
    BY <1>3, HearerFacts
  <2>3. NobodyAsks
    BY <2>1, <2>2, HearerFacts DEF NobodyAsks
  <2>4. Calm
    BY <1>4 DEF Calm, NobodyAlive
  <2> QED  BY <2>3, <2>4
<1>10. Quieter
  <2>1. Starting(Whisper!Replies)' => call'["controller"] = call["controller"] /\ Starting(Whisper!Replies)
    BY <1>3, HearerFacts DEF Starting
  <2>2. call'["controller"].op = call["controller"].op
    BY <1>3, HearerFacts
  <2>3. \A p \in Whisper!Workers : ~Whisper!Alive(p)'
    BY <1>4 DEF NobodyAlive
  <2> QED  BY <1>2, <1>4, <2>1, <2>2, <2>3 DEF Quieter, Sessions, HeardInTime
<1> QED  BY <1>2, <1>6, <1>7, <1>8, <1>9, <1>10, InboxesCalm, SessionsCalm DEF HInv

LEMMA Recycling ==
  ASSUME HInv, NEW c \in Whisper!Callers, Whisper!Recycle(c) \/ Whisper!Cold(c)
  PROVE  HInv'
<1>1. Fits(c, call[c], Queued(c), First(lifecycle, c))
  BY Invariantly
<1>2. CASE Whisper!Recycle(c)
  <2>1. /\ Whisper!Terminate(c, "closing") /\ First(lifecycle, c) /\ call[c].at = "lock"
        /\ UNCHANGED <<sessionOn, closed, reading, transcripts, lifecycle, sequence, session, reader,
                       heard, astray>>
    BY <1>2, HearerFacts DEF Whisper!Recycle, Whisper!reads
  <2> QED  BY <1>1, <2>1, Terminating DEF Fits
<1>3. CASE Whisper!Cold(c)
  <2>1. /\ Whisper!Terminate(c, "failing") /\ call[c].at = "loading"
        /\ UNCHANGED <<sessionOn, closed, reading, transcripts, lifecycle, sequence, session, reader,
                       heard, astray>>
    BY <1>3 DEF Whisper!Cold, Whisper!reads
  <2>2. First(lifecycle, c) /\ call[c].op \in {"prepare", "start"} /\ call[c].reply # "awaited"
    BY <1>1, <2>1 DEF Fits
  <2> QED  BY <2>1, <2>2, Terminating
<1> QED  BY <1>2, <1>3

LEMMA Dismissing ==
  ASSUME HInv, NEW c \in Whisper!Callers, Whisper!Dismiss(c)
  PROVE  HInv'
<1>1. /\ call[c].at = "lock" /\ First(lifecycle, c) /\ call[c].op = "close" /\ Whisper!Alive(process)
      /\ Whisper!Send(c, "shutdown")
      /\ UNCHANGED <<sessionOn, closed, process, reading, transcripts, lifecycle, session, reader, heard, astray>>
  BY HearerFacts DEF Whisper!Dismiss, Whisper!adapter, Whisper!reads
<1>2. HearerTyping /\ Standing /\ OneProcess /\ Inboxes /\ Sessions /\ lifecycle \in Lines
  BY Invariantly
<1>3. c = "shutdown" /\ Queued(c) /\ closed
  BY <1>1, Invariantly, HearerFacts DEF Fits, Standing
<1> DEFINE k == [op |-> call[c].op, at |-> "waiting", config |-> call[c].config, id |-> sequence + 1,
                 reply |-> "awaited"]
<1>4. Sends(c, k, "shutdown")
  BY <1>1, <1>2, Asking DEF CommandOf, CommandNames
<1>5. Inboxes' /\ worker' \in [Whisper!Workers -> WorkerStates]
  BY <1>2, <1>3, <1>4, Sending
<1>6. \A p \in Whisper!Workers :
              /\ Whisper!Alive(p)' <=> Whisper!Alive(p)
              /\ worker'[p].stream = worker[p].stream
              /\ Whisper!Alive(p) =>
                   /\ Inbox(p)' = Append(Inbox(p), Whisper!Command("shutdown", sequence + 1))
                   /\ Inbox(p) \in Seq(Commands)
  BY <1>2, <1>3, <1>4, Sending
<1>7. call'["shutdown"] = k /\ call'["controller"] = call["controller"] /\ Goes("shutdown", k)
  BY <1>2, <1>3, <1>4, HearerFacts DEF Sends, HearerTyping, Goes
<1>8. OtherWaits(c) /\ Queued(c)' /\ First(lifecycle, c)'
  BY <1>1, <1>2, <1>3, Staying
<1>9. HearerTyping'
  BY <1>1, <1>2, <1>4, <1>5, <1>7, <1>8 DEF HearerTyping, OtherWaits, Goes, Sends
<1>10. Standing'
  <2>1. Fits(c, k, Queued(c)', First(lifecycle, c)')
    BY <1>1, <1>3, <1>8 DEF Fits
  <2>2. \A d \in Whisper!Callers : Fits(d, call'[d], Queued(d)', First(lifecycle, d)')
    BY <1>2, <1>3, <1>7, <1>8, <2>1, Fitting
  <2>3. (Queued("controller")' <=> Queued("controller"))
        /\ (First(lifecycle, "shutdown")' <=> First(lifecycle, "shutdown"))
    BY <1>1, <1>2, Staying, HearerFacts
  <2> QED  BY <1>1, <1>2, <1>3, <1>7, <2>2, <2>3 DEF Standing
<1>11. OneProcess'
  BY <1>1, <1>2, <1>3, <1>6, <1>7, OneProcessKept, HearerFacts DEF OneProcess, NobodyAlive
<1>12. Sessions'
  <2>1. \A p \in Whisper!Workers : \A names : Whisper!Alive(p) /\ Only(p, names) /\ "shutdown" \in names =>
            Only(p, names)'
    BY <1>6 DEF Only, Whisper!Command
  <2>2. \A p \in Whisper!Workers : Whisper!Alive(p) /\ Only(p, {"finish", "shutdown"}) => Only(p, {"finish", "shutdown"})'
    BY <2>1
  <2>3. \A p \in Whisper!Workers : Whisper!Alive(p) /\ Only(p, {"start", "shutdown"}) => Only(p, {"start", "shutdown"})'
    BY <2>1
  <2>4. \A p \in Whisper!Workers : Whisper!Alive(p) /\ Only(p, {"shutdown"}) => Only(p, {"shutdown"})'
    BY <2>1
  <2>5. \A p \in Whisper!Workers : Whisper!Alive(p) =>
          \A i \in DOMAIN Inbox(p)' : Inbox(p)'[i].name = "start" =>
             i \in DOMAIN Inbox(p) /\ Inbox(p)'[i] = Inbox(p)[i]
    <3>1. SUFFICES ASSUME NEW p \in Whisper!Workers, Whisper!Alive(p), NEW i \in DOMAIN Inbox(p)',
                          Inbox(p)'[i].name = "start"
                   PROVE  i \in DOMAIN Inbox(p) /\ Inbox(p)'[i] = Inbox(p)[i]
      OBVIOUS
    <3>2. /\ Inbox(p)' = Append(Inbox(p), Whisper!Command("shutdown", sequence + 1))
          /\ Inbox(p) \in Seq(Commands)
      BY <1>6, <3>1
    <3>3. i # Len(Inbox(p)) + 1
      BY <3>1, <3>2 DEF Whisper!Command
    <3> QED  BY <3>1, <3>2, <3>3
  <2>6. \A replies : Starting(replies)' <=> Starting(replies)
    BY <1>7 DEF Starting
  <2>7. (AtRest' <=> AtRest) /\ Expected' = Expected
    BY <1>1, <1>7, <2>6 DEF AtRest, Expected
  <2>8. HeardInTime' /\ ToCome'
    BY <1>1, <1>2, <1>7, <2>6, <2>7 DEF Sessions, HeardInTime, ToCome
  <2>9. Attuned'
    <3> SUFFICES ASSUME ~astray', NEW p \in Whisper!Workers, Whisper!Alive(p)'
        PROVE
          /\ sessionOn' => /\ worker'[p].stream \in {0, session'} /\ Only(p, {"finish", "shutdown"})'
                           /\ reader' = "reads"
          /\ (sessionOn' \/ Starting(Whisper!Replies)') =>
               \A i \in DOMAIN transcripts' : transcripts'[i] # Whisper!End
          /\ Starting({"awaited"})' =>
               /\ worker'[p].stream = 0 /\ Only(p, {"start", "shutdown"})'
               /\ \A i \in DOMAIN Inbox(p)' :
                    Inbox(p)'[i].name = "start" => Inbox(p)'[i].id = call'["controller"].id
          /\ Starting({"ok"})' => worker'[p].stream = call'["controller"].id /\ Only(p, {"shutdown"})'
          /\ AtRest' \/ Starting({"failed"})' => worker'[p].stream = 0 /\ Only(p, {"shutdown"})'
      BY DEF Attuned
    <3>1. ~astray /\ Whisper!Alive(p) /\ worker'[p].stream = worker[p].stream
      BY <1>1, <1>6
    <3>2. Sessions => Attuned
      BY DEF Sessions
    <3>3. /\ sessionOn => /\ worker[p].stream \in {0, session} /\ Only(p, {"finish", "shutdown"})
                          /\ reader = "reads"
          /\ (sessionOn \/ Starting(Whisper!Replies)) =>
               \A i \in DOMAIN transcripts : transcripts[i] # Whisper!End
          /\ Starting({"awaited"}) =>
               /\ worker[p].stream = 0 /\ Only(p, {"start", "shutdown"})
               /\ \A i \in DOMAIN Inbox(p) :
                    Inbox(p)[i].name = "start" => Inbox(p)[i].id = call["controller"].id
          /\ Starting({"ok"}) => worker[p].stream = call["controller"].id /\ Only(p, {"shutdown"})
          /\ AtRest \/ Starting({"failed"}) => worker[p].stream = 0 /\ Only(p, {"shutdown"})
      BY <1>2, <3>1, <3>2 DEF Attuned
    <3> QED  BY <1>1, <1>7, <2>2, <2>3, <2>4, <2>5, <2>6, <2>7, <3>1, <3>3
  <2> QED  BY <2>8, <2>9 DEF Sessions
<1> QED  BY <1>5, <1>9, <1>10, <1>11, <1>12 DEF HInv

\* The preparation is over: a start goes on with its command.
LEMMA Proceeding ==
  ASSUME HInv, NEW c \in Whisper!Callers, Whisper!Proceed(c), First(lifecycle, c),
         call[c].at \in {"lock", "loading"}, call[c].op \in {"prepare", "start"},
         UNCHANGED <<sessionOn, closed, process, reading, session, reader, heard, astray>>
  PROVE  HInv'
<1>1. HearerTyping /\ Standing /\ OneProcess /\ Inboxes /\ Sessions /\ lifecycle \in Lines
  BY Invariantly
<1>2. c = "controller" /\ Queued(c) /\ ~sessionOn
  BY <1>1, Invariantly, HearerFacts DEF Fits, Standing
<1>3. ~First(lifecycle, "shutdown") /\ (closed => call["shutdown"] # Whisper!Idle)
  BY <1>1, <1>2, HearerFacts, LineFacts DEF OneProcess
<1>4. ASSUME NEW k, Goes(c, k), lifecycle' = Tail(lifecycle), Fits(c, k, FALSE, FALSE), k.op \in {"none", "start"}
      PROVE  lifecycle' \in Lines /\ Standing'
  <2>1. Leaves(c)
    BY <1>4 DEF Leaves
  <2>2. OtherWaits(c) /\ ~Queued(c)' /\ ~First(lifecycle, c)'
    BY <1>1, <2>1, Leaving, LineFacts DEF OtherWaits, Queued
  <2>3. Fits(c, k, Queued(c)', First(lifecycle, c)')
    BY <1>4, <2>2 DEF Fits
  <2>4. \A d \in Whisper!Callers : Fits(d, call'[d], Queued(d)', First(lifecycle, d)')
    BY <1>1, <1>4, <2>2, <2>3, Fitting
  <2>5. call'["controller"] = k /\ (call["shutdown"] = Whisper!Idle => call'["shutdown"] = Whisper!Idle)
    BY <1>2, <1>4, HearerFacts DEF Goes, Failed
  <2> QED  BY <1>1, <1>2, <1>4, <2>2, <2>4, <2>5 DEF Standing, OtherWaits
<1>5. CASE call[c].op = "start" /\ Whisper!Alive(process)
  <2> DEFINE k == [op |-> call[c].op, at |-> "waiting", config |-> call[c].config, id |-> sequence + 1,
                   reply |-> "awaited"]
  <2>1. Whisper!Send(c, "start") /\ lifecycle' = Tail(lifecycle) /\ transcripts' = <<>>
    BY <1>5 DEF Whisper!Proceed
  <2>2. Sends(c, k, "start")
    BY <1>1, <1>5, <2>1, Asking DEF CommandOf, CommandNames
  <2>3. Inboxes' /\ worker' \in [Whisper!Workers -> WorkerStates]
    BY <1>1, <1>2, <2>2, Sending
  <2>4. \A p \in Whisper!Workers :
              /\ Whisper!Alive(p)' <=> Whisper!Alive(p)
              /\ worker'[p].stream = worker[p].stream
              /\ Whisper!Alive(p) =>
                   /\ Inbox(p)' = Append(Inbox(p), Whisper!Command("start", sequence + 1))
                   /\ Inbox(p) \in Seq(Commands)
    BY <1>1, <1>2, <2>2, Sending
  <2>5. /\ call'["controller"] = k /\ call'["shutdown"] = call["shutdown"] /\ Goes(c, k)
        /\ k.op = "start" /\ k.at = "waiting" /\ k.reply = "awaited" /\ k.id = sequence + 1
    BY <1>1, <1>2, <1>5, <2>2, HearerFacts DEF Sends, HearerTyping, Goes
  <2>6. lifecycle' \in Lines /\ Standing'
    <3>1. Fits(c, k, FALSE, FALSE)
      BY <1>2, <2>5, HearerFacts DEF Fits
    <3> QED  BY <1>4, <2>1, <2>5, <3>1
  <2>7. HearerTyping'
    BY <1>1, <2>1, <2>2, <2>3, <2>5, <2>6 DEF HearerTyping, Goes, Sends
  <2> HIDE DEF k
  <2>8. OneProcess'
    BY <1>1, <1>3, <2>4, <2>5, OneProcessKept, HearerFacts DEF OneProcess, NobodyAlive
  <2>9. Sessions'
    <3>1. AtRest
      BY <1>2, <1>5, HearerFacts DEF AtRest
    <3>2. /\ Starting({"awaited"})' /\ ~Starting({"ok"})' /\ ~Starting({"failed"})' /\ ~AtRest'
      BY <2>5 DEF Starting, AtRest
    <3>3. HeardInTime'
      BY <1>1, <1>2, <2>5 DEF Sessions, HeardInTime
    <3>4. ToCome'
      BY <2>1 DEF ToCome
    <3>5. \A p \in Whisper!Workers : Whisper!Alive(p) /\ Only(p, {"shutdown"}) =>
            /\ Only(p, {"start", "shutdown"})'
            /\ \A i \in DOMAIN Inbox(p)' :
                 Inbox(p)'[i].name = "start" => Inbox(p)'[i].id = call'["controller"].id
      <4>1. SUFFICES ASSUME NEW p \in Whisper!Workers, Whisper!Alive(p), Only(p, {"shutdown"}),
                            NEW i \in DOMAIN Inbox(p)'
                     PROVE  /\ Inbox(p)'[i].name \in {"start", "shutdown"}
                            /\ Inbox(p)'[i].name = "start" => Inbox(p)'[i].id = call'["controller"].id
        BY DEF Only
      <4> DEFINE m == Whisper!Command("start", sequence + 1)
      <4>2. m.name = "start" /\ m.id = sequence + 1 /\ m \in Commands
        BY <1>1 DEF Whisper!Command, Commands, CommandNames, HearerTyping
      <4>3. Inbox(p)' = Append(Inbox(p), m) /\ Inbox(p) \in Seq(Commands)
        BY <2>4, <4>1
      <4> HIDE DEF m
      <4>4. \/ i \in DOMAIN Inbox(p) /\ Inbox(p)'[i] = Inbox(p)[i]
            \/ Inbox(p)'[i] = m
        BY <4>1, <4>2, <4>3
      <4> QED  BY <2>5, <4>1, <4>2, <4>4 DEF Only
    <3>6. Attuned'
      <4>1. \A i \in DOMAIN transcripts' : transcripts'[i] # Whisper!End
        BY <2>1
      <4>2. ~astray => \A p \in Whisper!Workers : Whisper!Alive(p) => worker[p].stream = 0 /\ Only(p, {"shutdown"})
        BY <1>1, <3>1 DEF Sessions, Attuned
      <4> QED  BY <1>2, <2>4, <3>2, <3>5, <4>1, <4>2 DEF Attuned
    <3> QED  BY <3>3, <3>4, <3>6 DEF Sessions
  <2> QED  BY <2>3, <2>6, <2>7, <2>8, <2>9 DEF HInv
<1>6. CASE ~(call[c].op = "start" /\ Whisper!Alive(process))
  <2>1. /\ call' = [call EXCEPT ![c] = Whisper!Idle] /\ lifecycle' = Tail(lifecycle)
        /\ transcripts' \in {<<>>, transcripts} /\ worker' = worker /\ sequence' = sequence
    BY <1>6, HearerFacts DEF Whisper!Proceed, Whisper!Leave
  <2>2. /\ call'["controller"] = Whisper!Idle /\ call'["shutdown"] = call["shutdown"] /\ Goes(c, Whisper!Idle)
    BY <1>1, <1>2, <2>1, HearerFacts DEF HearerTyping, Goes
  <2>3. lifecycle' \in Lines /\ Standing'
    <3>1. Fits(c, Whisper!Idle, FALSE, FALSE)
      BY <1>2, HearerFacts DEF Fits
    <3> QED  BY <1>4, <2>1, <2>2, <3>1, HearerFacts
  <2>4. HearerTyping'
    <3>1. transcripts' \in Seq(Nat) /\ call' \in [Whisper!Callers -> CallStates]
      <4>1. <<>> \in Seq(Nat) /\ transcripts \in Seq(Nat)
        BY <1>1 DEF HearerTyping
      <4>2. transcripts' \in Seq(Nat)
        BY <2>1, <4>1
      <4> QED  BY <2>2, <4>2 DEF Goes
    <3>2. worker' = worker /\ sequence' = sequence
      BY <2>1
    <3> QED  BY <1>1, <2>3, <3>1, <3>2 DEF HearerTyping
  <2>5. \A p \in Whisper!Workers : Whisper!Alive(p)' <=> Whisper!Alive(p)
    BY <2>1 DEF Whisper!Alive
  <2>6. OneProcess'
    BY <1>1, <1>3, <2>2, <2>5, OneProcessKept, HearerFacts DEF OneProcess, NobodyAlive
  <2>7. Calm /\ NobodyAsks
    BY <1>1, <2>1, <2>2, <2>5, HearerFacts DEF Calm, NobodyAsks, Inboxes
  <2>8. Quieter
    <3>1. ~sessionOn' /\ ~Starting(Whisper!Replies)' /\ AtRest
      BY <1>2, <2>2, HearerFacts DEF Starting, AtRest
    <3> QED  BY <1>1, <2>2, <3>1, HearerFacts DEF Quieter, Sessions, HeardInTime
  <2> QED  BY <1>1, <2>3, <2>4, <2>6, <2>7, <2>8, InboxesCalm, SessionsCalm DEF HInv
<1> QED  BY <1>5, <1>6

LEMMA Prepared ==
  ASSUME HInv, NEW c \in Whisper!Callers, Whisper!Reuse(c) \/ Whisper!Warm(c)
  PROVE  HInv'
<1>1. CASE Whisper!Reuse(c)
  <2>1. /\ Whisper!Proceed(c) /\ First(lifecycle, c) /\ call[c].at = "lock" /\ call[c].op \in {"prepare", "start"}
        /\ UNCHANGED <<sessionOn, closed, process, reading, session, reader, heard, astray>>
    BY <1>1, HearerFacts DEF Whisper!Reuse, Whisper!reads
  <2> QED  BY <2>1, Proceeding
<1>2. CASE Whisper!Warm(c)
  <2>1. /\ Whisper!Proceed(c) /\ call[c].at = "loading"
        /\ UNCHANGED <<sessionOn, closed, process, reading, session, reader, heard, astray>>
    BY <1>2 DEF Whisper!Warm, Whisper!reads
  <2>2. First(lifecycle, c) /\ call[c].op \in {"prepare", "start"}
    BY <2>1, Invariantly DEF Fits
  <2> QED  BY <2>1, <2>2, Proceeding
<1> QED  BY <1>1, <1>2

LEMMA Spawning ==
  ASSUME HInv, NEW c \in Whisper!Callers, Whisper!Spawn(c)
  PROVE  HInv'
<1>1. PICK p \in Whisper!Workers :
        /\ worker[p] = Whisper!Unborn
        /\ worker' = [worker EXCEPT ![p].life = "loading"]
        /\ process' = p /\ reading' = p
  BY DEF Whisper!Spawn
<1>2. /\ call[c].at = "spawning" /\ Whisper!At(c, "loading")
      /\ UNCHANGED <<sessionOn, closed, transcripts, lifecycle, sequence, session, reader, heard, astray>>
  BY DEF Whisper!Spawn, Whisper!reads
<1>3. HearerTyping /\ Standing /\ OneProcess /\ Inboxes /\ Sessions /\ lifecycle \in Lines
  BY Invariantly
<1>4. /\ c = "controller" /\ call[c].op \in {"prepare", "start"} /\ call[c].reply # "awaited"
      /\ First(lifecycle, c) /\ Queued(c) /\ ~sessionOn
  BY <1>2, <1>3, Invariantly, HearerFacts DEF Fits, Standing
<1>5. /\ ~First(lifecycle, "shutdown") /\ (closed => call["shutdown"] # Whisper!Idle)
      /\ process = 0 /\ NobodyAlive
  BY <1>2, <1>3, <1>4, HearerFacts, LineFacts DEF OneProcess, NobodyAlive
<1> DEFINE k == [call[c] EXCEPT !.at = "loading"]
<1>6. /\ k \in CallStates /\ k.at = "loading" /\ k.op = call[c].op /\ k.reply = call[c].reply
      /\ Goes(c, k) /\ call'["controller"] = k /\ call'["shutdown"] = call["shutdown"]
  <2>1. "loading" \in Whisper!Places
    BY DEF Whisper!Places
  <2> QED  BY <1>2, <1>3, <1>4, <2>1, Placing, HearerFacts DEF Goes
<1> HIDE DEF k
<1>7. /\ worker' \in [Whisper!Workers -> WorkerStates]
      /\ worker'[p].inbox = <<>> /\ worker'[p].stream = 0 /\ worker'[p].busy = FALSE
      /\ \A q \in Whisper!Workers : q # p => worker'[q] = worker[q]
  <2> DEFINE w == [worker[p] EXCEPT !.life = "loading"]
  <2>1. worker[p] \in WorkerStates /\ worker' = [worker EXCEPT ![p] = w]
    BY <1>1, <1>3 DEF HearerTyping
  <2>2. worker[p].inbox = <<>> /\ worker[p].stream = 0 /\ worker[p].busy = FALSE
    BY <1>1 DEF Whisper!Unborn
  <2>3. w \in WorkerStates /\ w.inbox = <<>> /\ w.stream = 0 /\ w.busy = FALSE
    BY <2>1, <2>2 DEF WorkerStates
  <2> HIDE DEF w
  <2> QED  BY <1>3, <2>1, <2>3 DEF HearerTyping
<1>8. \A q \in Whisper!Workers : Whisper!Alive(q)' => q = p
  BY <1>5, <1>7 DEF NobodyAlive, Whisper!Alive
<1>9. OtherWaits(c) /\ Queued(c)' /\ First(lifecycle, c)'
  BY <1>2, <1>3, <1>4, Staying
<1>10. HearerTyping'
  BY <1>1, <1>2, <1>3, <1>6, <1>7, <1>9, HearerFacts DEF HearerTyping, OtherWaits, Goes
<1>11. Standing'
  <2>1. Fits(c, call[c], Queued(c), First(lifecycle, c))
    BY Invariantly
  <2>2. Fits(c, k, Queued(c)', First(lifecycle, c)')
    BY <1>4, <1>6, <1>9, <2>1 DEF Fits
  <2>3. \A d \in Whisper!Callers : Fits(d, call'[d], Queued(d)', First(lifecycle, d)')
    BY <1>3, <1>6, <1>9, <2>2, Fitting
  <2>4. ~First(lifecycle, "shutdown")'
    BY <1>2, <1>5
  <2> QED  BY <1>2, <1>3, <1>4, <1>6, <2>3, <2>4 DEF Standing
<1>12. OneProcess'
  <2>1. call["shutdown"].at \notin {"closing", "failing", "spawning"}
    <3>1. Fits("shutdown", call["shutdown"], Queued("shutdown"), First(lifecycle, "shutdown"))
      BY Invariantly
    <3> QED  BY <1>5, <3>1 DEF Fits
  <2>2. \A d \in Whisper!Callers : call'[d].at \notin {"closing", "failing", "spawning"}
    BY <1>6, <2>1, HearerFacts
  <2> QED  BY <1>1, <1>2, <1>5, <1>6, <1>8, <2>2 DEF OneProcess
<1>13. Calm /\ NobodyAsks
  <2>1. Calm
    BY <1>2, <1>5, <1>7, <1>8 DEF Calm, NobodyAlive
  <2> QED  BY <1>4, <1>6, <2>1, HearerFacts DEF NobodyAsks
<1>14. Quieter
  <2>1. ~sessionOn' /\ ~Starting(Whisper!Replies)' /\ AtRest
    BY <1>2, <1>4, <1>6 DEF Starting, AtRest
  <2> QED  BY <1>2, <1>3, <1>4, <1>6, <2>1 DEF Quieter, Sessions, HeardInTime
<1> QED  BY <1>3, <1>10, <1>11, <1>12, <1>13, <1>14, InboxesCalm, SessionsCalm DEF HInv

\* Steps of the worker and of the reader of the transcripts, which no call takes part in.
LEMMA Quieting ==
  ASSUME HInv, UNCHANGED <<sessionOn, closed, process, reading, lifecycle, call, sequence, session, astray>>,
         worker' \in [Whisper!Workers -> WorkerStates], transcripts' \in Seq(Nat), heard' \in Nat,
         \A p \in Whisper!Workers : Whisper!Alive(p)' =>
           /\ Whisper!Alive(p) /\ worker'[p].inbox = worker[p].inbox /\ worker'[p].stream = worker[p].stream
           /\ worker'[p].busy => worker[p].stream # 0,
         ~astray =>
           /\ sessionOn => heard' \in {Whisper!End, session}
           /\ heard' = heard \/ (sessionOn /\ call["controller"].op # "stop")
           /\ reader' = reader \/ NobodyAlive',
         ~astray /\ (sessionOn \/ Starting(Whisper!Replies)) =>
           \A i \in DOMAIN transcripts' :
              \/ \E j \in DOMAIN transcripts : transcripts'[i] = transcripts[j]
              \/ transcripts'[i] = Expected /\ Expected # Whisper!End,
         call["controller"].op = "stop" => heard' = heard
  PROVE  HInv'
<1>1. HearerTyping /\ Standing /\ OneProcess /\ Inboxes /\ Sessions /\ lifecycle \in Lines
  BY Invariantly
<1>2. HearerTyping' /\ Standing'
  BY <1>1 DEF HearerTyping, Standing, Queued
<1>3. OneProcess'
  BY <1>1 DEF OneProcess
<1>4. Calm /\ NobodyAsks
  BY DEF Calm, NobodyAsks
<1>5. Quieter
  <2>1. (AtRest' <=> AtRest) /\ (Starting(Whisper!Replies)' <=> Starting(Whisper!Replies))
    BY DEF AtRest, Starting
  <2> QED  BY <1>1, <2>1 DEF Quieter, Sessions, HeardInTime
<1> QED  BY <1>1, <1>2, <1>3, <1>4, <1>5, InboxesCalm, SessionsCalm DEF HInv

\* A step of one worker keeps the types.
LEMMA WorkerTyped ==
  ASSUME HearerTyping, NEW p \in Whisper!Workers, NEW w \in WorkerStates, worker' = [worker EXCEPT ![p] = w]
  PROVE  /\ worker' \in [Whisper!Workers -> WorkerStates] /\ worker'[p] = w
         /\ \A q \in Whisper!Workers : q # p => worker'[q] = worker[q]
BY DEF HearerTyping

LEMMA WorkerSteps ==
  ASSUME HInv, NEW p \in Whisper!Workers, Whisper!Load(p) \/ Whisper!Speak(p) \/ Whisper!Crash(p)
  PROVE  HInv'
<1>1. HearerTyping /\ OneProcess /\ Inboxes /\ Sessions /\ worker[p] \in WorkerStates
  BY Invariantly DEF HearerTyping
<1>2. UNCHANGED <<sessionOn, closed, process, reading, lifecycle, call, sequence, session, astray, transcripts,
                  heard, reader>>
  BY DEF Whisper!Load, Whisper!Speak, Whisper!Crash, Whisper!adapter, Whisper!reads
<1>3. PICK w \in WorkerStates :
        /\ worker' = [worker EXCEPT ![p] = w]
        /\ w.inbox = worker[p].inbox /\ w.stream = worker[p].stream
        /\ w.busy => worker[p].busy \/ worker[p].stream # 0
        /\ worker[p].life \in {"loading", "serving"}
  <2>1. CASE Whisper!Load(p)
    <3> DEFINE u == [worker[p] EXCEPT !.life = "serving"]
    <3>1. u \in WorkerStates /\ u.inbox = worker[p].inbox /\ u.stream = worker[p].stream /\ u.busy = worker[p].busy
      BY <1>1 DEF WorkerStates
    <3> QED  BY <2>1, <3>1 DEF Whisper!Load
  <2>2. CASE Whisper!Speak(p)
    <3> DEFINE u == [worker[p] EXCEPT !.busy = TRUE]
    <3>1. u \in WorkerStates /\ u.inbox = worker[p].inbox /\ u.stream = worker[p].stream
      BY <1>1 DEF WorkerStates
    <3> QED  BY <2>2, <3>1 DEF Whisper!Speak
  <2>3. CASE Whisper!Crash(p)
    <3> DEFINE u == [worker[p] EXCEPT !.life = "dead"]
    <3>1. u \in WorkerStates /\ u.inbox = worker[p].inbox /\ u.stream = worker[p].stream /\ u.busy = worker[p].busy
      BY <1>1 DEF WorkerStates
    <3> QED  BY <2>3, <3>1 DEF Whisper!Crash
  <2> QED  BY <2>1, <2>2, <2>3
<1>4. /\ worker' \in [Whisper!Workers -> WorkerStates]
      /\ worker'[p] = w /\ \A q \in Whisper!Workers : q # p => worker'[q] = worker[q]
  BY <1>1, <1>3, WorkerTyped
<1>5. \A q \in Whisper!Workers : Whisper!Alive(q)' =>
           /\ Whisper!Alive(q) /\ worker'[q].inbox = worker[q].inbox /\ worker'[q].stream = worker[q].stream
           /\ worker'[q].busy => worker[q].stream # 0
  <2>1. Whisper!Alive(p)
    BY <1>3, HearerFacts DEF Whisper!Alive
  <2>2. \A q \in Whisper!Workers : Whisper!Alive(q) /\ worker[q].busy => worker[q].stream # 0
    BY <1>1 DEF Inboxes
  <2>3. \A q \in Whisper!Workers : q # p => (Whisper!Alive(q)' <=> Whisper!Alive(q))
    BY <1>4 DEF Whisper!Alive
  <2> QED  BY <1>3, <1>4, <2>1, <2>2, <2>3
<1> QED  BY <1>1, <1>2, <1>4, <1>5, Quieting DEF HearerTyping, Sessions, HeardInTime

LEMMA Transcribing ==
  ASSUME HInv, NEW p \in Whisper!Workers, Whisper!Transcribe(p)
  PROVE  HInv'
<1>1. HearerTyping /\ Standing /\ OneProcess /\ Inboxes /\ Sessions /\ worker[p] \in WorkerStates
  BY Invariantly DEF HearerTyping
<1>2. /\ worker[p].life = "serving" /\ worker[p].busy
      /\ worker' = [worker EXCEPT ![p].busy = FALSE]
      /\ Whisper!Read(p, 0, "none", <<worker[p].stream>>)
      /\ UNCHANGED <<sessionOn, closed, process, reading, lifecycle, sequence, session, astray, heard, reader>>
  BY DEF Whisper!Transcribe, Whisper!reads
<1>3. Whisper!Alive(p) /\ worker[p].stream # 0 /\ worker[p].stream \in Nat
  BY <1>1, <1>2, HearerFacts DEF Whisper!Alive, Inboxes, WorkerStates
<1>4. call' = call /\ transcripts' \in {transcripts, transcripts \o <<worker[p].stream>>}
  <2>1. \A c \in Whisper!Callers : call[c].reply = "awaited" => call[c].id # 0
    <3>1. SUFFICES ASSUME NEW c \in Whisper!Callers, call[c].reply = "awaited" PROVE call[c].id # 0
      OBVIOUS
    <3>2. call[c].at = "waiting"
      BY <3>1, Invariantly DEF Fits
    <3>3. call[c].id \in 1..sequence /\ sequence \in Nat
      BY <1>1, <3>2 DEF Inboxes, HearerTyping
    <3> QED  BY <3>3
  <2>2. CASE reading = p
    <3>1. call' = [c \in Whisper!Callers |-> call[c]] /\ transcripts' = transcripts \o <<worker[p].stream>>
      BY <1>2, <2>1, <2>2 DEF Whisper!Read
    <3> QED  BY <1>1, <3>1 DEF HearerTyping
  <2>3. CASE reading # p
    BY <1>2, <2>3 DEF Whisper!Read
  <2> QED  BY <2>2, <2>3
<1>5. /\ transcripts' \in Seq(Nat)
      /\ \A i \in DOMAIN transcripts' : \/ \E j \in DOMAIN transcripts : transcripts'[i] = transcripts[j]
                                        \/ transcripts'[i] = worker[p].stream
  <2>1. transcripts \in Seq(Nat)
    BY <1>1 DEF HearerTyping
  <2> DEFINE T == transcripts \o <<worker[p].stream>>
  <2>2. T \in Seq(Nat) /\ \A i \in DOMAIN T : \/ \E j \in DOMAIN transcripts : T[i] = transcripts[j]
                                              \/ T[i] = worker[p].stream
    BY <1>3, <2>1
  <2> HIDE DEF T
  <2>3. transcripts' = transcripts \/ transcripts' = T
    BY <1>4 DEF T
  <2> QED  BY <2>1, <2>2, <2>3
<1>6. ASSUME ~astray, sessionOn \/ Starting(Whisper!Replies)
      PROVE  worker[p].stream = Expected
  <2>1. Attuned
    BY <1>1 DEF Sessions
  <2>2. CASE sessionOn
    <3>1. ~Starting(Whisper!Replies)
      BY <1>1, <2>2 DEF Standing, Starting
    <3> QED  BY <1>3, <1>6, <2>1, <2>2, <3>1 DEF Attuned, Expected
  <2>3. CASE Starting(Whisper!Replies)
    <3>1. Starting({"awaited"}) \/ Starting({"ok"}) \/ Starting({"failed"})
      <4>1. Fits("controller", call["controller"], Queued("controller"), First(lifecycle, "controller"))
        BY Invariantly
      <4> QED  BY <2>3, <4>1 DEF Fits, Starting, Whisper!Replies
    <3> QED  BY <1>3, <1>6, <2>1, <2>3, <3>1 DEF Attuned, Expected
  <2> QED  BY <1>6, <2>2, <2>3
<1> DEFINE w == [worker[p] EXCEPT !.busy = FALSE]
<1>7. /\ w \in WorkerStates /\ worker' = [worker EXCEPT ![p] = w]
      /\ w.inbox = worker[p].inbox /\ w.stream = worker[p].stream /\ w.life = worker[p].life /\ w.busy = FALSE
  BY <1>1, <1>2 DEF WorkerStates
<1> HIDE DEF w
<1>8. /\ worker' \in [Whisper!Workers -> WorkerStates] /\ worker'[p] = w
      /\ \A q \in Whisper!Workers : q # p => worker'[q] = worker[q]
  BY <1>1, <1>7, WorkerTyped
<1>9. \A q \in Whisper!Workers : Whisper!Alive(q)' =>
           /\ Whisper!Alive(q) /\ worker'[q].inbox = worker[q].inbox /\ worker'[q].stream = worker[q].stream
           /\ worker'[q].busy => worker[q].stream # 0
  <2>1. \A q \in Whisper!Workers : Whisper!Alive(q) /\ worker[q].busy => worker[q].stream # 0
    BY <1>1 DEF Inboxes
  <2>2. \A q \in Whisper!Workers : Whisper!Alive(q)' <=> Whisper!Alive(q)
    BY <1>7, <1>8 DEF Whisper!Alive
  <2> QED  BY <1>7, <1>8, <2>1, <2>2
<1>10. \A i \in DOMAIN transcripts' :
         ~astray /\ (sessionOn \/ Starting(Whisper!Replies)) =>
              \/ \E j \in DOMAIN transcripts : transcripts'[i] = transcripts[j]
              \/ transcripts'[i] = Expected /\ Expected # Whisper!End
  BY <1>3, <1>5, <1>6 DEF Whisper!End
<1> QED  BY <1>1, <1>2, <1>4, <1>5, <1>8, <1>9, <1>10, Quieting DEF HearerTyping, Sessions, HeardInTime

LEMMA Taking ==
  ASSUME HInv, Whisper!Take
  PROVE  HInv'
<1>1. HearerTyping /\ Standing /\ OneProcess /\ Inboxes /\ Sessions
  BY Invariantly
<1>2. /\ sessionOn /\ call["controller"] = Whisper!Idle /\ transcripts # <<>> /\ transcripts' = Tail(transcripts)
      /\ IF Head(transcripts) = Whisper!End THEN heard' = heard ELSE heard' = Head(transcripts) /\ reader' = reader
      /\ UNCHANGED <<sessionOn, closed, process, reading, worker, lifecycle, call, sequence, session, astray>>
  BY DEF Whisper!Take
<1>3. /\ transcripts \in Seq(Nat) /\ 1 \in DOMAIN transcripts /\ Head(transcripts) = transcripts[1]
      /\ Head(transcripts) \in Nat /\ transcripts' \in Seq(Nat)
      /\ \A i \in DOMAIN transcripts' : i + 1 \in DOMAIN transcripts /\ transcripts'[i] = transcripts[i + 1]
  <2>1. transcripts \in Seq(Nat) /\ transcripts # <<>>
    BY <1>1, <1>2 DEF HearerTyping
  <2> QED  BY <1>2, <2>1
<1>4. ~Starting(Whisper!Replies) /\ call["controller"].op = "none" /\ Expected = session
  BY <1>2, HearerFacts DEF Starting, Expected
<1>5. ASSUME ~astray
      PROVE  /\ Head(transcripts) \in {Whisper!End, session}
             /\ Head(transcripts) = Whisper!End => NobodyAlive
  BY <1>1, <1>2, <1>3, <1>4, <1>5 DEF Sessions, ToCome, Attuned, NobodyAlive
<1>6. \A p \in Whisper!Workers : Whisper!Alive(p)' <=> Whisper!Alive(p)
  BY <1>2 DEF Whisper!Alive
<1>7. \A p \in Whisper!Workers : Whisper!Alive(p)' =>
           /\ Whisper!Alive(p) /\ worker'[p].inbox = worker[p].inbox /\ worker'[p].stream = worker[p].stream
           /\ worker'[p].busy => worker[p].stream # 0
  BY <1>1, <1>2, <1>6 DEF Inboxes
<1>8. heard' \in Nat /\ worker' \in [Whisper!Workers -> WorkerStates]
  BY <1>1, <1>2, <1>3 DEF HearerTyping
<1>9. ~astray => /\ heard' \in {Whisper!End, session} /\ (reader' = reader \/ NobodyAlive')
  <2>1. ~astray => heard \in {Whisper!End, session}
    BY <1>1 DEF Sessions, HeardInTime
  <2>2. NobodyAlive' <=> NobodyAlive
    BY <1>6 DEF NobodyAlive
  <2> QED  BY <1>2, <1>5, <2>1, <2>2
<1>10. \A i \in DOMAIN transcripts' : \E j \in DOMAIN transcripts : transcripts'[i] = transcripts[j]
  BY <1>3
<1> QED  BY <1>2, <1>3, <1>4, <1>7, <1>8, <1>9, <1>10, Quieting

LEMMA TimingOut ==
  ASSUME HInv, NEW c \in Whisper!Callers, Whisper!TimeOut(c)
  PROVE  HInv'
<1>1. /\ call[c].at = "waiting" /\ call[c].reply = "awaited"
      /\ call' = [call EXCEPT ![c].reply = "failed"]
      /\ astray' = (astray \/ call[c].op = "start")
      /\ UNCHANGED <<sessionOn, closed, process, reading, transcripts, worker, lifecycle, sequence, session,
                     reader, heard>>
  BY DEF Whisper!TimeOut, Whisper!adapter, Whisper!reads
<1>2. HearerTyping /\ Standing /\ OneProcess /\ Inboxes /\ Sessions /\ lifecycle \in Lines
  BY Invariantly
<1> DEFINE k == [call[c] EXCEPT !.reply = "failed"]
<1>3. /\ k \in CallStates /\ k.at = "waiting" /\ k.op = call[c].op /\ k.reply = "failed"
      /\ k.id = call[c].id /\ Goes(c, k) /\ call'[c] = k
      /\ \A d \in Whisper!Callers \ {c} : call'[d] = call[d]
  <2>1. call[c] \in CallStates /\ "failed" \in Whisper!Replies
    BY <1>2 DEF HearerTyping, Whisper!Replies
  <2>2. /\ k \in CallStates /\ k.at = call[c].at /\ k.op = call[c].op /\ k.reply = "failed" /\ k.id = call[c].id
    BY <2>1 DEF CallStates
  <2>3. call' = [call EXCEPT ![c] = k]
    BY <1>1
  <2> HIDE DEF k
  <2> QED  BY <1>1, <1>2, <2>2, <2>3 DEF HearerTyping, Goes
<1> HIDE DEF k
<1>4. OtherWaits(c) /\ (Queued(c)' <=> Queued(c)) /\ (First(lifecycle, c)' <=> First(lifecycle, c))
  BY <1>1, <1>2, Staying
<1>5. \A d \in Whisper!Callers : call'[d].op = call[d].op /\ call'[d].at = call[d].at /\ call'[d].id = call[d].id
  BY <1>1, <1>3
<1>6. HearerTyping'
  <2>1. astray' \in BOOLEAN
    BY <1>1, <1>2 DEF HearerTyping
  <2> QED  BY <1>1, <1>2, <1>3, <2>1 DEF HearerTyping, Goes
<1>7. Standing'
  <2>1. Fits(c, call[c], Queued(c), First(lifecycle, c))
    BY Invariantly
  <2>2. Fits(c, k, Queued(c)', First(lifecycle, c)')
    BY <1>1, <1>3, <1>4, <2>1 DEF Fits
  <2>3. \A d \in Whisper!Callers : Fits(d, call'[d], Queued(d)', First(lifecycle, d)')
    BY <1>2, <1>3, <1>4, <2>2, Fitting
  <2>4. c = "shutdown" => closed
    BY <1>1, <1>2, HearerFacts DEF Standing
  <2>5. c # "shutdown" => call'["shutdown"] = call["shutdown"]
    BY <1>3, HearerFacts
  <2>6. (Queued("controller")' <=> Queued("controller"))
        /\ (First(lifecycle, "shutdown")' <=> First(lifecycle, "shutdown"))
    BY <1>1, <1>2, Staying, HearerFacts
  <2>7. call'["controller"].op = call["controller"].op
    BY <1>5, HearerFacts
  <2>8. (~closed => call["shutdown"] = Whisper!Idle)
        /\ (Queued("controller") /\ First(lifecycle, "shutdown") => call["controller"].op = "stop")
        /\ (sessionOn => call["controller"].op \in {"none", "finish"})
        /\ (call["controller"].op = "finish" => sessionOn \/ closed)
    BY <1>2 DEF Standing
  <2>9. (~closed => call["shutdown"] = Whisper!Idle)'
        /\ (Queued("controller")' /\ First(lifecycle, "shutdown")' => call'["controller"].op = "stop")
        /\ (sessionOn' => call'["controller"].op \in {"none", "finish"})
        /\ (call'["controller"].op = "finish" => sessionOn' \/ closed')
    BY <1>1, <2>4, <2>5, <2>6, <2>7, <2>8
  <2> QED  BY <2>3, <2>9 DEF Standing
<1>8. \A p \in Whisper!Workers : Whisper!Alive(p)' <=> Whisper!Alive(p)
  BY <1>1 DEF Whisper!Alive
<1>9. OneProcess'
  <2>1. call'["shutdown"] = Whisper!Idle => call["shutdown"] = Whisper!Idle
    BY <1>3, HearerFacts
  <2> QED  BY <1>1, <1>2, <1>5, <1>8, <2>1, OneProcessKept, HearerFacts DEF OneProcess, NobodyAlive
<1>10. Calm /\ NobodyAsks
  <2>1. Calm
    BY <1>1, <1>2, <1>8 DEF Calm, Inboxes
  <2>2. call'["controller"].reply \in {call["controller"].reply, "failed"}
    BY <1>3, HearerFacts
  <2> QED  BY <1>5, <2>1, <2>2, HearerFacts DEF NobodyAsks
<1>11. Quieter
  <2>1. call'["controller"].reply = call["controller"].reply
          \/ (call'["controller"].reply = "failed" /\ (call["controller"].op = "start" => astray'))
    BY <1>1, <1>3, HearerFacts
  <2>2. Starting(Whisper!Replies)' => Starting(Whisper!Replies) /\ call["controller"].op = "start"
    <3>1. call["controller"].reply \in Whisper!Replies
      BY <1>2, HearerFacts DEF HearerTyping, CallStates
    <3> QED  BY <1>5, <3>1, HearerFacts DEF Starting
  <2>3. AtRest' => AtRest
    BY <1>1, <1>5, HearerFacts DEF AtRest
  <2>4. ~astray' => ~astray
    BY <1>1
  <2>5. call'["controller"].op = call["controller"].op /\ call'["controller"].id = call["controller"].id
    BY <1>5, HearerFacts
  <2>6. HeardInTime
    BY <1>2 DEF Sessions
  <2> QED  BY <1>1, <1>8, <2>1, <2>2, <2>3, <2>4, <2>5, <2>6 DEF Quieter, HeardInTime
<1> QED  BY <1>2, <1>6, <1>7, <1>9, <1>10, <1>11, InboxesCalm, SessionsCalm DEF HInv

LEMMA Cancelling ==
  ASSUME HInv, Whisper!Cancel
  PROVE  HInv'
<1> DEFINE c == "controller"
<1>1. /\ call[c].at # "idle" /\ call' = [call EXCEPT ![c] = Whisper!Idle] /\ Leaves(c)
      /\ astray' = (astray \/ call[c].op = "stop" \/ (call[c].op = "start" /\ call[c].at = "waiting"))
      /\ UNCHANGED <<sessionOn, closed, process, reading, transcripts, worker, sequence, session, reader, heard>>
  BY HearerFacts DEF Whisper!Cancel, Whisper!Leave, Leaves, Whisper!adapter, Whisper!reads
<1>2. HearerTyping /\ Standing /\ OneProcess /\ Inboxes /\ Sessions /\ lifecycle \in Lines /\ c \in Whisper!Callers
  BY Invariantly
<1>3. call'[c] = Whisper!Idle /\ call'["shutdown"] = call["shutdown"] /\ Goes(c, Whisper!Idle)
  BY <1>1, <1>2, HearerFacts DEF HearerTyping, Goes
<1>4. OtherWaits(c) /\ ~Queued(c)'
  BY <1>1, <1>2, Leaving
<1>5. HearerTyping'
  <2>1. astray' \in BOOLEAN /\ call' \in [Whisper!Callers -> CallStates] /\ lifecycle' \in Lines
    BY <1>1, <1>2, <1>3, <1>4 DEF HearerTyping, Goes, OtherWaits
  <2> QED  BY <1>1, <1>2, <2>1 DEF HearerTyping
<1>6. Standing'
  <2>1. Fits(c, Whisper!Idle, Queued(c)', First(lifecycle, c)')
    BY <1>4, HearerFacts DEF Fits
  <2>2. \A d \in Whisper!Callers : Fits(d, call'[d], Queued(d)', First(lifecycle, d)')
    BY <1>2, <1>3, <1>4, <2>1, Fitting
  <2> QED  BY <1>1, <1>2, <1>3, <1>4, <2>2, HearerFacts DEF Standing
<1>7. \A p \in Whisper!Workers : Whisper!Alive(p)' <=> Whisper!Alive(p)
  BY <1>1 DEF Whisper!Alive
<1>8. OneProcess'
  BY <1>1, <1>2, <1>3, <1>7, OneProcessKept, HearerFacts DEF OneProcess, NobodyAlive
<1>9. Calm /\ NobodyAsks
  BY <1>1, <1>2, <1>3, <1>7, HearerFacts DEF Calm, NobodyAsks, Inboxes
<1>10. Quieter
  <2>1. ~Starting(Whisper!Replies)' /\ call'["controller"].op = "none"
    BY <1>3, HearerFacts DEF Starting
  <2>2. call[c].op \in {"prepare", "start", "finish", "stop"}
    <3>1. Fits(c, call[c], Queued(c), First(lifecycle, c))
      BY Invariantly
    <3> QED  BY <1>1, <3>1 DEF Fits
  <2>3. call[c].op = "prepare" => call[c].at # "waiting"
    <3>1. Fits(c, call[c], Queued(c), First(lifecycle, c))
      BY Invariantly
    <3> QED  BY <3>1 DEF Fits
  <2>4. ~astray' /\ AtRest' => AtRest
    BY <1>1, <1>2, <1>3, <2>2, <2>3, HearerFacts DEF AtRest, Standing
  <2>5. HeardInTime
    BY <1>2 DEF Sessions
  <2>6. \A i \in DOMAIN transcripts' : \E j \in DOMAIN transcripts : transcripts'[i] = transcripts[j]
    BY <1>1
  <2> QED  BY <1>1, <1>7, <2>1, <2>4, <2>5, <2>6 DEF Quieter, HeardInTime
<1> QED  BY <1>2, <1>5, <1>6, <1>8, <1>9, <1>10, InboxesCalm, SessionsCalm DEF HInv

LEMMA HangingUp ==
  ASSUME HInv, Whisper!Hangup
  PROVE  HInv'
<1>1. /\ reading # 0 /\ worker[reading].life = "dead" /\ reading' = 0
      /\ transcripts' = Append(transcripts, Whisper!End) /\ call' = Whisper!Unanswered("nobody")
      /\ UNCHANGED <<sessionOn, closed, process, worker, lifecycle, sequence, session, reader, heard, astray>>
  BY DEF Whisper!Hangup, Whisper!ReaderEnds, Whisper!reads
<1>2. HearerTyping /\ Standing /\ OneProcess /\ Inboxes /\ Sessions /\ lifecycle \in Lines
  BY Invariantly
<1>3. NobodyAlive /\ NobodyAlive'
  BY <1>1, <1>2 DEF OneProcess, NobodyAlive, Whisper!Alive
<1>4. \A d \in Whisper!Callers :
        /\ call'[d] = call[d] \/ Failed(d)
        /\ call[d] \in CallStates
        /\ call'[d].op = call[d].op /\ call'[d].at = call[d].at /\ call'[d].id = call[d].id
        /\ call'[d].reply \in {call[d].reply, "failed"}
        /\ call[d] = Whisper!Idle => call'[d] = Whisper!Idle
        /\ call'[d] = Whisper!Idle => call[d] = Whisper!Idle
        /\ call'[d] \in CallStates
  <2>1. SUFFICES ASSUME NEW d \in Whisper!Callers
                 PROVE  /\ call'[d] = call[d] \/ Failed(d)
                        /\ call[d] \in CallStates
                        /\ call'[d].op = call[d].op /\ call'[d].at = call[d].at /\ call'[d].id = call[d].id
                        /\ call'[d].reply \in {call[d].reply, "failed"}
                        /\ call[d] = Whisper!Idle => call'[d] = Whisper!Idle
                        /\ call'[d] = Whisper!Idle => call[d] = Whisper!Idle
                        /\ call'[d] \in CallStates
    OBVIOUS
  <2>2. call[d] \in CallStates
    BY <1>2 DEF HearerTyping
  <2>3. call'[d] = call[d] \/ Failed(d)
    BY <1>1, HearerFacts DEF Whisper!Unanswered, Failed
  <2>4. ASSUME Failed(d)
        PROVE  /\ call'[d] \in CallStates /\ call'[d].reply = "failed"
               /\ call'[d].op = call[d].op /\ call'[d].at = call[d].at /\ call'[d].id = call[d].id
               /\ call[d].reply = "awaited"
    <3>1. "failed" \in Whisper!Replies
      BY DEF Whisper!Replies
    <3> QED  BY <2>2, <2>4, <3>1 DEF Failed, CallStates
  <2> QED  BY <2>2, <2>3, <2>4, HearerFacts
<1>5. call' \in [Whisper!Callers -> CallStates]
  <2>1. call' = [d \in Whisper!Callers |-> call'[d]]
    BY <1>1 DEF Whisper!Unanswered
  <2> QED  BY <1>4, <2>1
<1>6. Goes("controller", call'["controller"]) /\ OtherWaits("controller")
      /\ \A d \in Whisper!Callers : (Queued(d)' <=> Queued(d)) /\ (First(lifecycle, d)' <=> First(lifecycle, d))
  BY <1>1, <1>2, <1>4, <1>5, Staying, HearerFacts DEF Goes
<1>7. /\ transcripts' \in Seq(Nat)
      /\ \A i \in DOMAIN transcripts' : \/ \E j \in DOMAIN transcripts : transcripts'[i] = transcripts[j]
                                        \/ transcripts'[i] = Whisper!End
  <2>1. transcripts \in Seq(Nat) /\ Whisper!End \in Nat
    BY <1>2 DEF HearerTyping, Whisper!End
  <2> DEFINE T == Append(transcripts, Whisper!End)
  <2>2. T \in Seq(Nat) /\ \A i \in DOMAIN T : \/ \E j \in DOMAIN transcripts : T[i] = transcripts[j]
                                              \/ T[i] = Whisper!End
    BY <2>1
  <2> QED  BY <1>1, <2>2
<1>8. HearerTyping'
  BY <1>1, <1>2, <1>5, <1>7, HearerFacts DEF HearerTyping
<1>9. Standing'
  <2>1. Fits("controller", call["controller"], Queued("controller"), First(lifecycle, "controller"))
    BY Invariantly
  <2>2. Fits("controller", call'["controller"], Queued("controller")', First(lifecycle, "controller")')
    <3>1. CASE call'["controller"] = call["controller"]
      BY <1>6, <2>1, <3>1, HearerFacts DEF Fits
    <3>2. CASE Failed("controller")
      <4>1. call["controller"].at = "waiting" /\ call'["controller"].reply = "failed"
        BY <1>4, <2>1, <3>2, HearerFacts DEF Failed, Fits, CallStates
      <4> QED  BY <1>4, <1>6, <2>1, <4>1, HearerFacts DEF Fits
    <3> QED  BY <1>4, <3>1, <3>2, HearerFacts
  <2>3. \A d \in Whisper!Callers : Fits(d, call'[d], Queued(d)', First(lifecycle, d)')
    BY <1>2, <1>6, <2>2, Fitting, HearerFacts
  <2> QED  BY <1>1, <1>2, <1>4, <1>6, <2>3, HearerFacts DEF Standing
<1>10. OneProcess'
  <2>1. \A p \in Whisper!Workers : ~Whisper!Alive(p)'
    BY <1>3 DEF NobodyAlive
  <2> QED  BY <1>1, <1>2, <1>3, <1>4, <2>1, OneProcessKept, HearerFacts
<1>11. Calm /\ NobodyAsks
  <2>1. Calm
    BY <1>1, <1>3 DEF Calm, NobodyAlive
  <2> QED  BY <1>4, <2>1, HearerFacts DEF NobodyAsks
<1>12. Quieter
  <2>1. Starting(Whisper!Replies)' => Starting(Whisper!Replies)
    BY <1>4, HearerFacts DEF Starting, CallStates
  <2>2. AtRest' <=> AtRest
    BY <1>1, <1>4, HearerFacts DEF AtRest
  <2>3. HeardInTime
    BY <1>2 DEF Sessions
  <2>4. \A p \in Whisper!Workers : ~Whisper!Alive(p)'
    BY <1>3 DEF NobodyAlive
  <2>5. call'["controller"].op = call["controller"].op /\ call'["controller"].id = call["controller"].id
        /\ call'["controller"].reply \in {call["controller"].reply, "failed"}
    BY <1>4, HearerFacts
  <2> QED  BY <1>1, <1>3, <1>7, <2>1, <2>2, <2>3, <2>4, <2>5 DEF Quieter, HeardInTime
<1> QED  BY <1>2, <1>8, <1>9, <1>10, <1>11, <1>12, InboxesCalm, SessionsCalm DEF HInv

LEMMA Reaping ==
  ASSUME HInv, NEW c \in Whisper!Callers, Whisper!Closed(c)
  PROVE  HInv'
<1> DEFINE spawns == call[c].at = "closing" /\ call[c].op \in {"prepare", "start"}
           k == IF spawns THEN [call[c] EXCEPT !.at = "spawning"] ELSE Whisper!Idle
           left == IF reading # 0 THEN Append(transcripts, Whisper!End) ELSE transcripts
           known == IF reading # 0 THEN Whisper!Unanswered(c) ELSE call
<1>1. /\ call[c].at \in {"closing", "failing"}
      /\ transcripts' = IF call[c].op \in {"stop", "close"} THEN Append(left, Whisper!End) ELSE left
      /\ reading' = 0
      /\ spawns => call' = [known EXCEPT ![c].at = "spawning"] /\ lifecycle' = lifecycle
      /\ ~spawns => call' = [known EXCEPT ![c] = Whisper!Idle] /\ lifecycle' = Tail(lifecycle)
      /\ astray' = (astray /\ call[c].op # "stop")
      /\ UNCHANGED <<sessionOn, closed, process, worker, sequence, session, reader, heard>>
  BY DEF Whisper!Closed, Whisper!reads
<1>2. HearerTyping /\ Standing /\ OneProcess /\ Inboxes /\ Sessions /\ lifecycle \in Lines
      /\ Fits(c, call[c], Queued(c), First(lifecycle, c)) /\ call[c] \in CallStates
  BY Invariantly
<1>3. process = 0 /\ NobodyAlive /\ NobodyAlive'
  BY <1>1, <1>2, HearerFacts DEF OneProcess, NobodyAlive, Whisper!Alive
<1>4. /\ Queued(c) /\ First(lifecycle, c) /\ call[c].at # "waiting" /\ call[c].reply # "awaited"
      /\ call[c].op \in {"prepare", "start", "stop", "close"}
      /\ call[c].op = "close" => c = "shutdown"
      /\ call[c].op # "close" => c = "controller"
  BY <1>1, <1>2, HearerFacts DEF Fits
<1>5. /\ known \in [Whisper!Callers -> CallStates] /\ known[c] = call[c]
      /\ \A d \in Whisper!Callers : d # c => known[d] = call[d] \/ Failed(d) \/ known[d] = [call[d] EXCEPT !.reply = "failed"]
      /\ \A d \in Whisper!Callers : known[d] # call[d] => call[d].reply = "awaited"
  <2>1. \A d \in Whisper!Callers : call[d] \in CallStates /\ [call[d] EXCEPT !.reply = "failed"] \in CallStates
    <3>1. "failed" \in Whisper!Replies
      BY DEF Whisper!Replies
    <3> QED  BY <1>2, <3>1 DEF HearerTyping, CallStates
  <2> QED  BY <1>2, <2>1 DEF Whisper!Unanswered, HearerTyping
<1>6. k \in CallStates /\ k.reply # "awaited" /\ k.at \in {"spawning", "idle"} /\ k.op \in {call[c].op, "none"}
      /\ (spawns => k.at = "spawning" /\ k.op = call[c].op) /\ (~spawns => k = Whisper!Idle)
      /\ (~spawns => k.op = "none")
  <2>1. "spawning" \in Whisper!Places
    BY DEF Whisper!Places
  <2>2. [call[c] EXCEPT !.at = "spawning"] \in CallStates
        /\ [call[c] EXCEPT !.at = "spawning"].reply = call[c].reply
        /\ [call[c] EXCEPT !.at = "spawning"].op = call[c].op
        /\ [call[c] EXCEPT !.at = "spawning"].at = "spawning"
    BY <1>2, <2>1 DEF CallStates
  <2> QED  BY <1>4, <2>2, HearerFacts
<1>7. call' = [known EXCEPT ![c] = k]
  BY <1>1, <1>5
<1>8. Goes(c, k)
  <2>1. \A d \in Whisper!Callers \ {c} : call'[d] = known[d]
    BY <1>5, <1>7
  <2>2. \A d \in Whisper!Callers \ {c} : call'[d] = call[d] \/ Failed(d)
    BY <1>5, <2>1 DEF Failed
  <2>3. call' \in [Whisper!Callers -> CallStates] /\ call'[c] = k
    BY <1>5, <1>6, <1>7
  <2> QED  BY <2>2, <2>3 DEF Goes
<1> HIDE DEF k, known
<1>9. \A d \in Whisper!Callers \ {c} :
        /\ call'[d].op = call[d].op /\ call'[d].at = call[d].at /\ call'[d].id = call[d].id
        /\ call'[d].reply \in {call[d].reply, "failed"}
        /\ call[d] = Whisper!Idle => call'[d] = Whisper!Idle
        /\ call'[d] = Whisper!Idle => call[d] = Whisper!Idle
  <2>1. SUFFICES ASSUME NEW d \in Whisper!Callers \ {c}
                 PROVE  /\ call'[d].op = call[d].op /\ call'[d].at = call[d].at /\ call'[d].id = call[d].id
                        /\ call'[d].reply \in {call[d].reply, "failed"}
                        /\ call[d] = Whisper!Idle => call'[d] = Whisper!Idle
                        /\ call'[d] = Whisper!Idle => call[d] = Whisper!Idle
    OBVIOUS
  <2>2. call[d] \in CallStates /\ (call'[d] = call[d] \/ Failed(d))
    BY <1>2, <1>8 DEF HearerTyping, Goes
  <2>3. ASSUME Failed(d)
        PROVE  /\ call'[d].reply = "failed"
               /\ call'[d].op = call[d].op /\ call'[d].at = call[d].at /\ call'[d].id = call[d].id
               /\ call[d].reply = "awaited"
    BY <2>2, <2>3 DEF Failed, CallStates
  <2> QED  BY <2>2, <2>3, HearerFacts
<1>10. /\ OtherWaits(c)
       /\ spawns => /\ Queued(c)' /\ First(lifecycle, c)'
       /\ ~spawns => ~Queued(c)'
  <2>1. CASE spawns
    BY <1>1, <1>2, <1>4, <2>1, Staying
  <2>2. CASE ~spawns
    <3>1. Leaves(c)
      BY <1>1, <1>4, <2>2 DEF Leaves
    <3> QED  BY <1>2, <2>2, <3>1, Leaving
  <2> QED  BY <2>1, <2>2
<1>11. /\ transcripts' \in Seq(Nat)
       /\ \A i \in DOMAIN transcripts' : \/ \E j \in DOMAIN transcripts : transcripts'[i] = transcripts[j]
                                         \/ transcripts'[i] = Whisper!End
  <2>1. transcripts \in Seq(Nat) /\ Whisper!End \in Nat
    BY <1>2 DEF HearerTyping, Whisper!End
  <2>2. ASSUME NEW T \in Seq(Nat), \A i \in DOMAIN T : \/ \E j \in DOMAIN transcripts : T[i] = transcripts[j]
                                                       \/ T[i] = Whisper!End
        PROVE  LET A == Append(T, Whisper!End)
               IN  A \in Seq(Nat) /\ \A i \in DOMAIN A : \/ \E j \in DOMAIN transcripts : A[i] = transcripts[j]
                                                         \/ A[i] = Whisper!End
    BY <2>1, <2>2
  <2>3. left \in Seq(Nat) /\ \A i \in DOMAIN left : \/ \E j \in DOMAIN transcripts : left[i] = transcripts[j]
                                                    \/ left[i] = Whisper!End
    BY <2>1, <2>2
  <2> HIDE DEF left
  <2> QED  BY <1>1, <2>2, <2>3
<1> HIDE DEF left
<1>12. HearerTyping'
  <2>1. astray' \in BOOLEAN /\ reading' \in 0..MaxCalls
    BY <1>1, <1>2, HearerFacts DEF HearerTyping
  <2> QED  BY <1>1, <1>2, <1>8, <1>10, <1>11, <2>1 DEF HearerTyping, Goes, OtherWaits
<1>13. call'[c] = k
  BY <1>8 DEF Goes
<1>14. Standing'
  <2>1. Fits(c, k, Queued(c)', First(lifecycle, c)')
    <3>1. CASE spawns
      BY <1>4, <1>6, <1>10, <3>1 DEF Fits
    <3>2. CASE ~spawns
      BY <1>6, <1>10, <3>2, HearerFacts DEF Fits
    <3> QED  BY <3>1, <3>2
  <2>2. \A d \in Whisper!Callers : Fits(d, call'[d], Queued(d)', First(lifecycle, d)')
    BY <1>2, <1>8, <1>10, <2>1, Fitting
  <2>3. ~closed' => call'["shutdown"] = Whisper!Idle
    BY <1>1, <1>2, <1>4, <1>9, HearerFacts DEF Standing
  <2>4. Queued("controller")' /\ First(lifecycle, "shutdown")' => call'["controller"].op = "stop"
    <3>1. CASE c = "controller"
      BY <1>2, <1>4, <1>6, <1>10, <1>13, <3>1, HearerFacts, LineFacts DEF OtherWaits
    <3>2. CASE c = "shutdown"
      <4>1. ~spawns
        BY <1>4, <3>2
      <4>2. ~First(lifecycle, "shutdown")'
        BY <1>10, <3>2, <4>1, LineFacts DEF OtherWaits, Queued
      <4> QED  BY <4>2
    <3> QED  BY <3>1, <3>2, HearerFacts
  <2>5. call'["controller"].op = call["controller"].op
          \/ (call'["controller"].op = "none" /\ call["controller"].op # "finish")
    BY <1>4, <1>6, <1>9, <1>13, HearerFacts
  <2> QED  BY <1>1, <1>2, <2>2, <2>3, <2>4, <2>5 DEF Standing
<1>15. OneProcess'
  <2>1. \A p \in Whisper!Workers : ~Whisper!Alive(p)'
    BY <1>3 DEF NobodyAlive
  <2>2. ASSUME closed', call'["shutdown"] = Whisper!Idle, call'["controller"].op \in {"prepare", "start"}
        PROVE  call'["controller"].at = "waiting"
    <3>1. CASE c = "controller"
      <4>1. call["shutdown"] = Whisper!Idle /\ call["controller"].op \in {"prepare", "start"}
        BY <1>6, <1>9, <1>13, <2>2, <3>1, HearerFacts
      <4> QED  BY <1>1, <1>2, <1>4, <2>2, <3>1, <4>1 DEF OneProcess
    <3>2. CASE c = "shutdown"
      <4>1. /\ call["controller"].op \in {"prepare", "start"} /\ call'["controller"].at = call["controller"].at
            /\ ~Queued("controller")
        BY <1>2, <1>4, <1>9, <2>2, <3>2, HearerFacts DEF Standing
      <4>2. Fits("controller", call["controller"], Queued("controller"), First(lifecycle, "controller"))
        BY Invariantly
      <4> QED  BY <4>1, <4>2 DEF Fits
    <3> QED  BY <3>1, <3>2, HearerFacts
  <2> QED  BY <1>1, <1>3, <2>1, <2>2 DEF OneProcess
<1>16. Calm /\ NobodyAsks
  <2>1. Calm
    BY <1>1, <1>3 DEF Calm, NobodyAlive
  <2>2. \A d \in Whisper!Callers : call'[d].at = "waiting" => d # c
    BY <1>6, <1>13
  <2>3. call'["controller"].op = "stop" /\ call'["controller"].reply = "ok" => c # "controller"
    BY <1>6, <1>13, HearerFacts
  <2> QED  BY <1>9, <2>1, <2>2, <2>3, HearerFacts DEF NobodyAsks
<1>17. Sessions'
  <2>1. CASE call[c].op = "stop"
    <3>1. call'["controller"] = Whisper!Idle /\ ~sessionOn' /\ heard' = Whisper!End
      BY <1>1, <1>2, <1>4, <1>6, <1>13, <2>1 DEF Sessions, HeardInTime, Standing
    <3>2. ~Starting(Whisper!Replies)' /\ \A p \in Whisper!Workers : ~Whisper!Alive(p)'
      BY <1>3, <3>1, HearerFacts DEF Starting, NobodyAlive
    <3> QED  BY <3>1, <3>2 DEF Sessions, HeardInTime, ToCome, Attuned
  <2>2. CASE call[c].op # "stop"
    <3>1. Starting(Whisper!Replies)' => c # "controller"
      BY <1>6, <1>13 DEF Starting
    <3>2. call["controller"].reply \in Whisper!Replies
      BY <1>2, HearerFacts DEF HearerTyping, CallStates
    <3>3. Starting(Whisper!Replies)' =>
            /\ Starting(Whisper!Replies) /\ call'["controller"].id = call["controller"].id
            /\ call'["controller"].reply \in {call["controller"].reply, "failed"}
      BY <1>9, <3>1, <3>2, HearerFacts DEF Starting
    <3>4. call'["controller"].op = "stop" => call["controller"].op = "stop"
      BY <1>4, <1>6, <1>9, <1>13, HearerFacts
    <3>5. HeardInTime /\ astray' = astray
      BY <1>1, <1>2, <2>2 DEF Sessions, HearerTyping
    <3>6. \A p \in Whisper!Workers : ~Whisper!Alive(p)'
      BY <1>3 DEF NobodyAlive
    <3>7. Quieter
      BY <1>1, <1>3, <1>11, <3>3, <3>4, <3>5, <3>6 DEF Quieter, HeardInTime
    <3> QED  BY <1>2, <1>14, <1>16, <3>7, SessionsCalm
  <2> QED  BY <2>1, <2>2
<1> QED  BY <1>2, <1>12, <1>14, <1>15, <1>16, <1>17, InboxesCalm DEF HInv

\* The controller's call is over, whatever it asked.
LEMMA Returning ==
  ASSUME HInv, call["controller"].at = "waiting", call' = [call EXCEPT !["controller"] = Whisper!Idle],
         Leaves("controller"), UNCHANGED <<closed, process, reading, worker, sequence>>,
         sessionOn' \in BOOLEAN
  PROVE  /\ call'["controller"] = Whisper!Idle /\ call'["shutdown"] = call["shutdown"]
         /\ call' \in [Whisper!Callers -> CallStates] /\ lifecycle' \in Lines
         /\ Standing' /\ OneProcess' /\ Inboxes' /\ Calm
         /\ ~Starting(Whisper!Replies)'
         /\ \A p \in Whisper!Workers : /\ Whisper!Alive(p)' <=> Whisper!Alive(p)
                                       /\ Inbox(p)' = Inbox(p)
<1> DEFINE c == "controller"
<1>1. HearerTyping /\ Standing /\ OneProcess /\ Inboxes /\ Sessions /\ lifecycle \in Lines /\ c \in Whisper!Callers
  BY Invariantly
<1>2. call'[c] = Whisper!Idle /\ call'["shutdown"] = call["shutdown"] /\ Goes(c, Whisper!Idle)
  BY <1>1, HearerFacts DEF HearerTyping, Goes
<1>3. OtherWaits(c) /\ ~Queued(c)'
  BY <1>1, Leaving
<1>4. Standing'
  <2>1. Fits(c, Whisper!Idle, Queued(c)', First(lifecycle, c)')
    BY <1>3, HearerFacts DEF Fits
  <2>2. \A d \in Whisper!Callers : Fits(d, call'[d], Queued(d)', First(lifecycle, d)')
    BY <1>1, <1>2, <1>3, <2>1, Fitting
  <2> QED  BY <1>1, <1>2, <1>3, <2>2, HearerFacts DEF Standing
<1>5. \A p \in Whisper!Workers : (Whisper!Alive(p)' <=> Whisper!Alive(p)) /\ Inbox(p)' = Inbox(p)
  BY DEF Whisper!Alive, Inbox
<1>6. OneProcess'
  BY <1>1, <1>2, <1>5, OneProcessKept, HearerFacts DEF OneProcess, NobodyAlive
<1>7. Calm /\ NobodyAsks
  BY <1>1, <1>2, <1>5, HearerFacts DEF Calm, NobodyAsks, Inboxes
<1>8. ~Starting(Whisper!Replies)'
  BY <1>2, HearerFacts DEF Starting
<1> QED  BY <1>1, <1>2, <1>3, <1>4, <1>5, <1>6, <1>7, <1>8, InboxesCalm DEF Goes, OtherWaits

LEMMA Answering ==
  ASSUME HInv, NEW c \in Whisper!Callers, Whisper!Answered(c)
  PROVE  HInv'
<1>1. /\ call[c].at = "waiting" /\ call[c].reply \in {"ok", "failed"}
      /\ UNCHANGED <<closed, reading, sequence>>
  BY DEF Whisper!Answered
<1>2. HearerTyping /\ Standing /\ OneProcess /\ Inboxes /\ Sessions /\ lifecycle \in Lines
      /\ Fits(c, call[c], Queued(c), First(lifecycle, c)) /\ call[c] \in CallStates
  BY Invariantly
<1>3. /\ call[c].op \in {"start", "finish", "stop", "close"}
      /\ call[c].op = "close" => c = "shutdown" /\ First(lifecycle, c)
      /\ call[c].op # "close" => c = "controller" /\ ~Queued(c)
      /\ call[c].id \in 1..sequence
  BY <1>1, <1>2, HearerFacts DEF Fits, Inboxes
<1>4. HeardInTime /\ ToCome /\ Attuned
  BY <1>2 DEF Sessions
<1>5. CASE call[c].op = "close"
  <2>1. /\ Whisper!Terminate(c, "closing")
        /\ UNCHANGED <<sessionOn, closed, reading, transcripts, lifecycle, sequence, session, reader, heard, astray>>
    BY <1>5 DEF Whisper!Answered, Whisper!reads
  <2> QED  BY <1>1, <1>3, <1>5, <2>1, Terminating
<1>6. CASE call[c].op = "start" /\ call[c].reply = "ok"
  <2>1. /\ sessionOn' = TRUE /\ session' = call[c].id /\ reader' = "reads" /\ heard' = Whisper!End
        /\ Whisper!Leave(c) /\ UNCHANGED <<process, worker, transcripts, astray>>
    BY <1>6 DEF Whisper!Answered
  <2>2. c = "controller" /\ Leaves(c) /\ call' = [call EXCEPT !["controller"] = Whisper!Idle]
    BY <1>3, <1>6, <2>1, HearerFacts DEF Whisper!Leave, Leaves
  <2>3. /\ call'["controller"] = Whisper!Idle
        /\ call' \in [Whisper!Callers -> CallStates] /\ lifecycle' \in Lines
        /\ Standing' /\ OneProcess' /\ Inboxes'
        /\ ~Starting(Whisper!Replies)'
        /\ \A p \in Whisper!Workers : (Whisper!Alive(p)' <=> Whisper!Alive(p)) /\ Inbox(p)' = Inbox(p)
    BY <1>1, <2>1, <2>2, Returning
  <2>4. HearerTyping'
    <3>1. session' \in Nat /\ heard' \in Nat /\ sessionOn' \in BOOLEAN
      BY <1>2, <1>3, <2>1 DEF HearerTyping, Whisper!End
    <3> QED  BY <1>1, <1>2, <2>1, <2>3, <3>1 DEF HearerTyping
  <2>5. HeardInTime'
    BY <1>2, <1>3, <2>1, <2>3, HearerFacts DEF HeardInTime, HearerTyping
  <2>6. Starting(Whisper!Replies) /\ Starting({"ok"}) /\ Expected = call[c].id /\ Expected' = call[c].id
    BY <1>1, <1>6, <2>1, <2>2, <2>3 DEF Starting, Expected, Whisper!Replies
  <2>7. ToCome'
    BY <1>4, <2>1, <2>6 DEF ToCome
  <2>8. \A p \in Whisper!Workers : Only(p, {"shutdown"}) => Only(p, {"finish", "shutdown"})'
    BY <2>3 DEF Only
  <2>9. ~Starting({"awaited"})' /\ ~Starting({"ok"})' /\ ~Starting({"failed"})' /\ ~AtRest'
    BY <2>1, <2>3, HearerFacts DEF Starting, AtRest
  <2>10. Attuned'
    BY <1>4, <2>1, <2>2, <2>3, <2>6, <2>8, <2>9 DEF Attuned
  <2> QED  BY <2>3, <2>4, <2>5, <2>7, <2>10 DEF HInv, Sessions
<1>7. CASE call[c].op = "stop" /\ call[c].reply = "ok"
  <2>1. /\ transcripts' = Append(transcripts, Whisper!End) /\ astray' = FALSE
        /\ Whisper!Leave(c) /\ UNCHANGED <<sessionOn, process, worker, session, reader, heard>>
    BY <1>7 DEF Whisper!Answered, Whisper!reads
  <2>2. c = "controller" /\ Leaves(c) /\ call' = [call EXCEPT !["controller"] = Whisper!Idle] /\ ~sessionOn
    BY <1>2, <1>3, <1>7, <2>1, HearerFacts DEF Whisper!Leave, Leaves, Standing
  <2>3. /\ call'["controller"] = Whisper!Idle
        /\ call' \in [Whisper!Callers -> CallStates] /\ lifecycle' \in Lines
        /\ Standing' /\ OneProcess' /\ Inboxes'
        /\ ~Starting(Whisper!Replies)'
        /\ \A p \in Whisper!Workers : (Whisper!Alive(p)' <=> Whisper!Alive(p)) /\ Inbox(p)' = Inbox(p)
    <3>1. sessionOn' \in BOOLEAN
      BY <1>2, <2>1 DEF HearerTyping
    <3> QED  BY <1>1, <2>1, <2>2, <3>1, Returning
  <2>4. HearerTyping'
    <3>1. transcripts' \in Seq(Nat)
      BY <1>2, <2>1 DEF HearerTyping, Whisper!End
    <3> QED  BY <1>1, <1>2, <2>1, <2>3, <3>1 DEF HearerTyping
  <2>5. heard' = Whisper!End
    BY <1>4, <1>7, <2>1, <2>2 DEF HeardInTime
  <2>6. \A p \in Whisper!Workers : Whisper!Alive(p)' => worker'[p].stream = 0 /\ Only(p, {"shutdown"})'
    BY <1>2, <1>7, <2>1, <2>2, <2>3 DEF Inboxes, Only
  <2>7. ~Starting({"awaited"})' /\ ~Starting({"ok"})' /\ ~Starting({"failed"})' /\ ~sessionOn'
    BY <2>1, <2>2, <2>3, HearerFacts DEF Starting
  <2>8. Sessions'
    BY <2>3, <2>5, <2>6, <2>7 DEF Sessions, HeardInTime, ToCome, Attuned
  <2> QED  BY <2>3, <2>4, <2>8 DEF HInv
<1>8. CASE call[c].op = "stop" /\ call[c].reply = "failed"
  <2>1. /\ call' = [call EXCEPT ![c].at = "lock", ![c].reply = "none"]
        /\ lifecycle' = Append(lifecycle, c)
        /\ UNCHANGED <<sessionOn, process, worker, transcripts, session, reader, heard, astray>>
    BY <1>8 DEF Whisper!Answered, Whisper!reads
  <2> DEFINE k == [call[c] EXCEPT !.at = "lock", !.reply = "none"]
  <2>2. /\ k \in CallStates /\ k.op = call[c].op /\ k.at = "lock" /\ k.reply = "none" /\ call'[c] = k
        /\ \A d \in Whisper!Callers \ {c} : call'[d] = call[d]
        /\ Goes(c, k)
    <3>1. "lock" \in Whisper!Places /\ "none" \in Whisper!Replies
      BY DEF Whisper!Places, Whisper!Replies
    <3>2. k \in CallStates /\ k.op = call[c].op /\ k.at = "lock" /\ k.reply = "none"
      BY <1>2, <3>1 DEF CallStates
    <3>3. call'[c] = k /\ \A d \in Whisper!Callers \ {c} : call'[d] = call[d]
      BY <1>2, <2>1 DEF HearerTyping, CallStates
    <3>4. DOMAIN call' = Whisper!Callers /\ call' = [d \in Whisper!Callers |-> call'[d]]
      BY <1>2, <2>1 DEF HearerTyping
    <3> HIDE DEF k
    <3>5. \A d \in Whisper!Callers : call'[d] \in CallStates
      BY <1>2, <3>2, <3>3 DEF HearerTyping
    <3>6. call' \in [Whisper!Callers -> CallStates]
      BY <3>4, <3>5
    <3> QED  BY <3>2, <3>3, <3>6 DEF Goes
  <2> HIDE DEF k
  <2>3. c = "controller" /\ ~Queued(c) /\ ~sessionOn
    BY <1>2, <1>3, <1>8 DEF Standing
  <2>4. OtherWaits(c) /\ Queued(c)'
    BY <1>2, <2>1, <2>3, Joining
  <2>5. HearerTyping'
    BY <1>1, <1>2, <2>1, <2>2, <2>4 DEF HearerTyping, Goes, OtherWaits
  <2>6. call'["controller"].op = "stop" /\ call'["shutdown"] = call["shutdown"]
    BY <1>8, <2>2, <2>3, HearerFacts
  <2>7. Standing'
    <3>1. Fits(c, k, Queued(c)', First(lifecycle, c)')
      BY <1>8, <2>2, <2>3, <2>4 DEF Fits
    <3>2. \A d \in Whisper!Callers : Fits(d, call'[d], Queued(d)', First(lifecycle, d)')
      BY <1>2, <2>2, <2>4, <3>1, Fitting
    <3> QED  BY <1>1, <1>2, <2>1, <2>3, <2>6, <3>2 DEF Standing
  <2>8. \A p \in Whisper!Workers : Whisper!Alive(p)' <=> Whisper!Alive(p)
    BY <2>1 DEF Whisper!Alive
  <2>9. OneProcess'
    BY <1>1, <1>2, <2>1, <2>2, <2>3, <2>6, <2>8, OneProcessKept, HearerFacts DEF OneProcess, NobodyAlive
  <2>10. Calm /\ NobodyAsks
    <3>1. Calm
      BY <1>1, <1>2, <2>1, <2>8 DEF Calm, Inboxes
    <3>2. \A d \in Whisper!Callers : call'[d].at = "waiting" => call'[d] = call[d]
      BY <2>2
    <3>3. call'["controller"].reply = "none"
      BY <2>2, <2>3
    <3> QED  BY <3>1, <3>2, <3>3 DEF NobodyAsks
  <2>11. Quieter
    <3>1. ~sessionOn' /\ ~Starting(Whisper!Replies)' /\ ~AtRest'
      BY <2>1, <2>3, <2>6 DEF Starting, AtRest
    <3>2. heard = Whisper!End
      BY <1>4, <1>8, <2>3 DEF HeardInTime
    <3> QED  BY <2>1, <3>1, <3>2 DEF Quieter
  <2> QED  BY <1>2, <2>5, <2>7, <2>9, <2>10, <2>11, InboxesCalm, SessionsCalm DEF HInv
<1>9. CASE call[c].op = "finish" \/ (call[c].op = "start" /\ call[c].reply = "failed")
  <2>1. Whisper!Leave(c) /\ UNCHANGED <<sessionOn, process, worker, transcripts, session, reader, heard, astray>>
    BY <1>9 DEF Whisper!Answered, Whisper!reads
  <2>2. c = "controller" /\ Leaves(c) /\ call' = [call EXCEPT !["controller"] = Whisper!Idle]
    BY <1>3, <1>9, <2>1, HearerFacts DEF Whisper!Leave, Leaves
  <2>3. /\ call'["controller"] = Whisper!Idle
        /\ call' \in [Whisper!Callers -> CallStates] /\ lifecycle' \in Lines
        /\ Standing' /\ OneProcess' /\ Inboxes' /\ Calm
        /\ ~Starting(Whisper!Replies)'
        /\ \A p \in Whisper!Workers : Whisper!Alive(p)' <=> Whisper!Alive(p)
    <3>1. sessionOn' \in BOOLEAN
      BY <1>2, <2>1 DEF HearerTyping
    <3> QED  BY <1>1, <2>1, <2>2, <3>1, Returning
  <2>4. HearerTyping'
    BY <1>1, <1>2, <2>1, <2>3 DEF HearerTyping
  <2>5. AtRest' => Starting({"failed"})
    BY <1>1, <1>2, <1>9, <2>1, <2>2, <2>3, HearerFacts DEF AtRest, Starting, Standing
  <2>6. Quieter
    <3>1. call'["controller"].op = "none"
      BY <2>3, HearerFacts
    <3>2. \A i \in DOMAIN transcripts' : \E j \in DOMAIN transcripts : transcripts'[i] = transcripts[j]
      BY <2>1
    <3> QED  BY <1>4, <2>1, <2>3, <2>5, <3>1, <3>2 DEF Quieter, HeardInTime
  <2> QED  BY <1>2, <2>3, <2>4, <2>6, SessionsCalm DEF HInv
<1> QED  BY <1>1, <1>3, <1>5, <1>6, <1>7, <1>8, <1>9

\* What an obeyed command leaves: the worker, the answer and what was transcribed.
Obeyed(p, m, w, r, S) ==
  /\ worker' = [worker EXCEPT ![p] = w] /\ w \in WorkerStates
  /\ w.inbox = Tail(worker[p].inbox) /\ w.busy = FALSE
  /\ Whisper!Read(p, m.id, r, S)
  /\ \/ m.name = "start" /\ r = "ok" /\ w.stream = m.id /\ S = <<>> /\ w.life = "serving"
     \/ m.name \in {"start", "finish"} /\ r = "failed" /\ w.stream = 0 /\ S = <<>> /\ w.life = "serving"
     \/ /\ m.name = "finish" /\ r = "ok" /\ w.stream = 0 /\ w.life = "serving"
        /\ S = <<IF worker[p].stream = 0 THEN session ELSE worker[p].stream>>
     \/ m.name = "stop" /\ r = "ok" /\ w.stream = 0 /\ S = <<>> /\ w.life = "serving"
     \/ m.name = "shutdown" /\ r = "ok" /\ w.stream = 0 /\ S = <<>> /\ w.life = "dead"

LEMMA ObeyFacts ==
  ASSUME HearerTyping, NEW p \in Whisper!Workers, Whisper!Obey(p)
  PROVE  \E w, r, S : Obeyed(p, Head(worker[p].inbox), w, r, S)
<1> DEFINE v == worker[p]
           m == Head(v.inbox)
           rest == [v EXCEPT !.inbox = Tail(@), !.stream = 0]
<1>1. v \in WorkerStates /\ v.life = "serving" /\ v.busy = FALSE /\ v.inbox # <<>> /\ v.inbox \in Seq(Commands)
  BY DEF Whisper!Obey, HearerTyping, WorkerStates
<1>2. Tail(v.inbox) \in Seq(Commands) /\ m \in Commands /\ m.id \in Nat
  <2>1. m \in Commands /\ Tail(v.inbox) \in Seq(Commands)
    BY <1>1
  <2> QED  BY <2>1 DEF Commands
<1>3. rest \in WorkerStates /\ rest.inbox = Tail(v.inbox) /\ rest.stream = 0 /\ rest.busy = FALSE /\ rest.life = "serving"
  BY <1>1, <1>2 DEF WorkerStates
<1>4. \/ m.name = "start" /\ worker' = [worker EXCEPT ![p] = [rest EXCEPT !.stream = m.id]] /\ Whisper!Read(p, m.id, "ok", <<>>)
      \/ m.name \in {"start", "finish"} /\ worker' = [worker EXCEPT ![p] = rest] /\ Whisper!Read(p, m.id, "failed", <<>>)
      \/ m.name = "finish" /\ worker' = [worker EXCEPT ![p] = rest]
           /\ Whisper!Read(p, m.id, "ok", <<IF v.stream = 0 THEN session ELSE v.stream>>)
      \/ m.name = "stop" /\ worker' = [worker EXCEPT ![p] = rest] /\ Whisper!Read(p, m.id, "ok", <<>>)
      \/ m.name = "shutdown" /\ worker' = [worker EXCEPT ![p] = [rest EXCEPT !.life = "dead"]] /\ Whisper!Read(p, m.id, "ok", <<>>)
  BY DEF Whisper!Obey
<1> HIDE DEF rest, m, v
<1> DEFINE opened == [rest EXCEPT !.stream = m.id]
           gone == [rest EXCEPT !.life = "dead"]
<1>5. /\ opened \in WorkerStates /\ opened.inbox = Tail(v.inbox) /\ opened.stream = m.id /\ opened.busy = FALSE
      /\ opened.life = "serving"
  BY <1>2, <1>3 DEF WorkerStates
<1>6. /\ gone \in WorkerStates /\ gone.inbox = Tail(v.inbox) /\ gone.stream = 0 /\ gone.busy = FALSE
      /\ gone.life = "dead"
  BY <1>3 DEF WorkerStates
<1> HIDE DEF opened, gone
<1>7. CASE m.name = "start" /\ worker' = [worker EXCEPT ![p] = opened] /\ Whisper!Read(p, m.id, "ok", <<>>)
  <2>1. Obeyed(p, m, opened, "ok", <<>>)
    BY <1>5, <1>7 DEF Obeyed, v
  <2> QED  BY <2>1 DEF m, v
<1>8. CASE m.name \in {"start", "finish"} /\ worker' = [worker EXCEPT ![p] = rest] /\ Whisper!Read(p, m.id, "failed", <<>>)
  <2>1. Obeyed(p, m, rest, "failed", <<>>)
    BY <1>3, <1>8 DEF Obeyed, v
  <2> QED  BY <2>1 DEF m, v
<1>9. CASE m.name = "finish" /\ worker' = [worker EXCEPT ![p] = rest]
             /\ Whisper!Read(p, m.id, "ok", <<IF v.stream = 0 THEN session ELSE v.stream>>)
  <2>1. Obeyed(p, m, rest, "ok", <<IF v.stream = 0 THEN session ELSE v.stream>>)
    BY <1>3, <1>9 DEF Obeyed, v
  <2> QED  BY <2>1 DEF m, v
<1>10. CASE m.name = "stop" /\ worker' = [worker EXCEPT ![p] = rest] /\ Whisper!Read(p, m.id, "ok", <<>>)
  <2>1. Obeyed(p, m, rest, "ok", <<>>)
    BY <1>3, <1>10 DEF Obeyed, v
  <2> QED  BY <2>1 DEF m, v
<1>11. CASE m.name = "shutdown" /\ worker' = [worker EXCEPT ![p] = gone] /\ Whisper!Read(p, m.id, "ok", <<>>)
  <2>1. Obeyed(p, m, gone, "ok", <<>>)
    BY <1>6, <1>11 DEF Obeyed, v
  <2> QED  BY <2>1 DEF m, v
<1> QED  BY <1>4, <1>7, <1>8, <1>9, <1>10, <1>11 DEF opened, gone

LEMMA Obeying ==
  ASSUME HInv, NEW p \in Whisper!Workers, Whisper!Obey(p)
  PROVE  HInv'
<1> DEFINE m == Head(worker[p].inbox)
<1>1. HearerTyping /\ Standing /\ OneProcess /\ Inboxes /\ Sessions /\ lifecycle \in Lines
  BY Invariantly
<1>2. PICK w, r, S : Obeyed(p, m, w, r, S)
  BY <1>1, ObeyFacts
<1>3. /\ worker[p].life = "serving" /\ worker[p].inbox # <<>>
      /\ UNCHANGED <<sessionOn, closed, process, reading, lifecycle, sequence, session, reader, heard, astray>>
  BY DEF Whisper!Obey, Whisper!reads
<1>4. Whisper!Alive(p) /\ p = process /\ p = reading
  BY <1>1, <1>3, HearerFacts DEF Whisper!Alive, OneProcess
<1>5. /\ Inbox(p) \in Seq(Commands) /\ 1 \in DOMAIN Inbox(p) /\ m = Inbox(p)[1]
      /\ m \in Commands /\ m.id \in 1..sequence
  <2>1. Inbox(p) \in Seq(Commands) /\ Inbox(p) # <<>>
    BY <1>1, <1>3 DEF HearerTyping, WorkerStates, Inbox
  <2>2. 1 \in DOMAIN Inbox(p) /\ m = Inbox(p)[1] /\ m \in Commands
    BY <2>1 DEF Inbox
  <2>3. Inbox(p)[1].id \in 1..sequence
    BY <1>1, <1>4, <2>2 DEF Inboxes
  <2> QED  BY <2>1, <2>2, <2>3
<1> HIDE DEF m
<1>6. /\ worker' \in [Whisper!Workers -> WorkerStates] /\ worker'[p] = w
      /\ \A q \in Whisper!Workers : q # p => worker'[q] = worker[q]
  BY <1>1, <1>2, WorkerTyped DEF Obeyed
<1>7. /\ \A i \in DOMAIN Inbox(p)' : i + 1 \in DOMAIN Inbox(p) /\ Inbox(p)'[i] = Inbox(p)[i + 1] /\ 1 < i + 1
      /\ \A i, j \in DOMAIN Inbox(p)' : i < j => i + 1 < j + 1
  <2>1. Inbox(p)' = Tail(Inbox(p)) /\ Inbox(p) # <<>>
    BY <1>2, <1>3, <1>6 DEF Obeyed, Inbox
  <2> QED  BY <1>5, <2>1
<1>8. \A q \in Whisper!Workers : Whisper!Alive(q)' => q = p /\ Whisper!Alive(q) /\ m.name # "shutdown"
  BY <1>1, <1>2, <1>4, <1>6 DEF Whisper!Alive, OneProcess, Obeyed
<1>9. /\ transcripts' = transcripts \o S
      /\ call' = [d \in Whisper!Callers |-> IF call[d].reply = "awaited" /\ call[d].id = m.id
                                             THEN [call[d] EXCEPT !.reply = r] ELSE call[d]]
      /\ r \in {"ok", "failed"}
  BY <1>2, <1>4 DEF Obeyed, Whisper!Read
<1>10. \A d \in Whisper!Callers :
        /\ call'[d] \in CallStates
        /\ call'[d].op = call[d].op /\ call'[d].at = call[d].at /\ call'[d].id = call[d].id
        /\ \/ call'[d] = call[d] /\ ~(call[d].reply = "awaited" /\ call[d].id = m.id)
           \/ call'[d].reply = r /\ call[d].reply = "awaited" /\ call[d].id = m.id /\ call[d].at = "waiting"
  <2>1. SUFFICES ASSUME NEW d \in Whisper!Callers
        PROVE  /\ call'[d] \in CallStates
               /\ call'[d].op = call[d].op /\ call'[d].at = call[d].at /\ call'[d].id = call[d].id
               /\ \/ call'[d] = call[d] /\ ~(call[d].reply = "awaited" /\ call[d].id = m.id)
                  \/ call'[d].reply = r /\ call[d].reply = "awaited" /\ call[d].id = m.id /\ call[d].at = "waiting"
    OBVIOUS
  <2>2. call[d] \in CallStates /\ (call[d].reply = "awaited" => call[d].at = "waiting")
    BY Invariantly DEF Fits
  <2> DEFINE k == [call[d] EXCEPT !.reply = r]
  <2>3. k \in CallStates /\ k.reply = r /\ k.op = call[d].op /\ k.at = call[d].at /\ k.id = call[d].id
    <3>1. r \in Whisper!Replies
      BY <1>9 DEF Whisper!Replies
    <3> QED  BY <2>2, <3>1 DEF CallStates
  <2>4. call'[d] = IF call[d].reply = "awaited" /\ call[d].id = m.id THEN k ELSE call[d]
    BY <1>9
  <2> HIDE DEF k
  <2> QED  BY <2>2, <2>3, <2>4
<1>11. call' \in [Whisper!Callers -> CallStates]
  <2>1. call' = [d \in Whisper!Callers |-> call'[d]]
    BY <1>9
  <2> QED  BY <1>10, <2>1
<1>12. transcripts' \in Seq(Nat) /\ \A i \in DOMAIN transcripts' :
          \/ \E j \in DOMAIN transcripts : transcripts'[i] = transcripts[j]
          \/ m.name = "finish" /\ transcripts'[i] = IF worker[p].stream = 0 THEN session ELSE worker[p].stream
  <2> DEFINE s == IF worker[p].stream = 0 THEN session ELSE worker[p].stream
  <2>1. transcripts \in Seq(Nat) /\ s \in Nat
    BY <1>1 DEF HearerTyping, WorkerStates
  <2>2. S = <<>> \/ (m.name = "finish" /\ S = <<s>>)
    BY <1>2 DEF Obeyed
  <2> HIDE DEF s
  <2>3. CASE S = <<>>
    <3>1. transcripts' = transcripts
      BY <1>9, <2>1, <2>3
    <3> QED  BY <2>1, <3>1
  <2>4. CASE m.name = "finish" /\ S = <<s>>
    <3>1. transcripts' = transcripts \o <<s>>
      BY <1>9, <2>4
    <3>2. /\ transcripts \o <<s>> \in Seq(Nat)
          /\ \A i \in DOMAIN (transcripts \o <<s>>) :
               \/ \E j \in DOMAIN transcripts : (transcripts \o <<s>>)[i] = transcripts[j]
               \/ (transcripts \o <<s>>)[i] = s
      BY <2>1
    <3> QED  BY <2>4, <3>1, <3>2 DEF s
  <2> QED  BY <2>2, <2>3, <2>4
<1>13. HearerTyping'
  BY <1>1, <1>3, <1>6, <1>11, <1>12 DEF HearerTyping
<1>14. Standing'
  <2>1. \A d \in Whisper!Callers : (Queued(d)' <=> Queued(d)) /\ (First(lifecycle, d)' <=> First(lifecycle, d))
    BY <1>1, <1>3, Staying
  <2>2. \A d \in Whisper!Callers : Fits(d, call'[d], Queued(d)', First(lifecycle, d)')
    <3>1. SUFFICES ASSUME NEW d \in Whisper!Callers PROVE Fits(d, call'[d], Queued(d)', First(lifecycle, d)')
      OBVIOUS
    <3>2. Fits(d, call[d], Queued(d), First(lifecycle, d))
      BY Invariantly
    <3>3. CASE call'[d] = call[d]
      BY <2>1, <3>2, <3>3 DEF Fits
    <3>4. CASE call'[d].reply = r /\ call[d].at = "waiting"
      BY <1>9, <1>10, <2>1, <3>2, <3>4 DEF Fits
    <3> QED  BY <1>10, <3>3, <3>4
  <2>3. /\ call["shutdown"] = Whisper!Idle => call'["shutdown"] = Whisper!Idle
        /\ call'["controller"].op = call["controller"].op
    BY <1>10, HearerFacts
  <2> QED  BY <1>1, <1>3, <2>1, <2>2, <2>3, HearerFacts DEF Standing
<1>15. OneProcess'
  <2>1. call'["shutdown"] = Whisper!Idle => call["shutdown"] = Whisper!Idle
    BY <1>9, <1>10, HearerFacts
  <2> QED  BY <1>1, <1>3, <1>8, <1>10, <2>1, OneProcessKept, HearerFacts
\* The commands that are left come after the one obeyed.
<1>16. \A i \in DOMAIN Inbox(p)' :
         /\ Inbox(p)'[i].id \in 1..sequence /\ m.id < Inbox(p)'[i].id
         /\ \A j \in DOMAIN Inbox(p)' : i < j => Inbox(p)'[i].id < Inbox(p)'[j].id
         /\ \A d \in Whisper!Callers :
              call[d].at = "waiting" /\ Inbox(p)'[i].id = call[d].id => Inbox(p)'[i].name = CommandOf(call[d].op)
         /\ call["controller"].at = "waiting" /\ Inbox(p)'[i].id > call["controller"].id =>
              Inbox(p)'[i].name = "shutdown"
  BY <1>1, <1>4, <1>5, <1>7 DEF Inboxes
<1>17. \A names : Only(p, names) => m.name \in names /\ Only(p, names)'
  BY <1>5, <1>7 DEF Only
<1>18. \A d \in Whisper!Callers : call'[d] # call[d] => m.name = CommandOf(call[d].op)
  BY <1>1, <1>4, <1>5, <1>10 DEF Inboxes
<1>19. m.id \in Nat /\ \A i \in DOMAIN Inbox(p)' : Inbox(p)'[i].id > m.id
  BY <1>1, <1>5, <1>16 DEF HearerTyping
<1>20. call'["controller"] # call["controller"] => Only(p, {"shutdown"})' /\ call["controller"].id = m.id
  BY <1>10, <1>16, <1>19, HearerFacts DEF Only
<1>21. Inboxes'
  <2>1. \A d \in Whisper!Callers : call'[d].at = "waiting" => call'[d].id \in 1..sequence'
    BY <1>1, <1>3, <1>10 DEF Inboxes
  <2>2. w.busy = FALSE
    BY <1>2 DEF Obeyed
  <2>3. ASSUME call'["controller"].op = "stop", call'["controller"].reply = "ok"
        PROVE  worker'[p].stream = 0 /\ Only(p, {"shutdown"})'
    <3>1. CASE call'["controller"] = call["controller"]
      <4>1. Only(p, {"shutdown"})
        BY <1>1, <1>4, <2>3, <3>1 DEF Inboxes
      <4>2. m.name = "shutdown" /\ Only(p, {"shutdown"})'
        BY <1>17, <4>1
      <4> QED  BY <1>2, <1>6, <4>2 DEF Obeyed
    <3>2. CASE call'["controller"] # call["controller"]
      <4>1. m.name = "stop"
        BY <1>10, <1>18, <2>3, <3>2, HearerFacts DEF CommandOf
      <4> QED  BY <1>2, <1>6, <1>20, <3>2, <4>1 DEF Obeyed
    <3> QED  BY <3>1, <3>2
  <2>4. \A i \in DOMAIN Inbox(p)' :
         /\ Inbox(p)'[i].id \in 1..sequence'
         /\ \A j \in DOMAIN Inbox(p)' : i < j => Inbox(p)'[i].id < Inbox(p)'[j].id
         /\ \A d \in Whisper!Callers :
              call'[d].at = "waiting" /\ Inbox(p)'[i].id = call'[d].id => Inbox(p)'[i].name = CommandOf(call'[d].op)
         /\ call'["controller"].at = "waiting" /\ Inbox(p)'[i].id > call'["controller"].id =>
              Inbox(p)'[i].name = "shutdown"
    BY <1>3, <1>10, <1>16, HearerFacts
  <2> QED  BY <1>6, <1>8, <2>1, <2>2, <2>3, <2>4 DEF Inboxes
<1>22. Sessions'
  <2>1. HeardInTime /\ ToCome /\ Attuned
    BY <1>1 DEF Sessions
  <2>2. /\ call'["controller"].op = call["controller"].op /\ call'["controller"].at = call["controller"].at
        /\ call'["controller"].id = call["controller"].id
        /\ call["controller"].reply \in Whisper!Replies /\ call'["controller"].reply \in Whisper!Replies
    BY <1>1, <1>10, HearerFacts DEF HearerTyping, CallStates
  <2>3. HeardInTime'
    BY <1>3, <2>1, <2>2 DEF HeardInTime
  <2>4. /\ Starting(Whisper!Replies)' <=> Starting(Whisper!Replies)
        /\ Expected' = Expected
        /\ AtRest' <=> AtRest
    <3>1. Starting(Whisper!Replies)' <=> Starting(Whisper!Replies)
      BY <2>2 DEF Starting
    <3> QED  BY <1>3, <2>2, <3>1 DEF Expected, AtRest
  <2>5. Starting(Whisper!Replies) => Starting({"awaited"}) \/ Starting({"ok"}) \/ Starting({"failed"})
    <3>1. Fits("controller", call["controller"], Queued("controller"), First(lifecycle, "controller"))
      BY Invariantly
    <3> QED  BY <3>1 DEF Fits, Starting, Whisper!Replies
  <2>6. ASSUME ~astray, sessionOn \/ Starting(Whisper!Replies), NEW i \in DOMAIN transcripts'
        PROVE  \/ \E j \in DOMAIN transcripts : transcripts'[i] = transcripts[j]
               \/ transcripts'[i] = Expected /\ Expected # Whisper!End
    <3>1. CASE m.name = "finish"
      <4>1. ~Starting({"awaited"}) /\ ~Starting({"ok"}) /\ ~Starting({"failed"})
        BY <1>4, <1>17, <2>1, <2>6, <3>1 DEF Attuned
      <4>2. sessionOn /\ ~Starting(Whisper!Replies) /\ Expected = session
        BY <2>5, <2>6, <4>1 DEF Expected
      <4>3. worker[p].stream \in {0, session} /\ session # 0
        BY <1>4, <2>1, <2>6, <4>2 DEF Attuned, HeardInTime
      <4> QED  BY <1>12, <2>6, <4>2, <4>3 DEF Whisper!End
    <3>2. CASE m.name # "finish"
      BY <1>12, <2>6, <3>2
    <3> QED  BY <3>1, <3>2
  <2>7. ToCome'
    BY <1>3, <2>1, <2>4, <2>6 DEF ToCome
  <2>8. Attuned'
    <3> SUFFICES ASSUME ~astray, Whisper!Alive(p)', m.name # "shutdown"
        PROVE
          /\ sessionOn' => /\ worker'[p].stream \in {0, session'} /\ Only(p, {"finish", "shutdown"})'
                           /\ reader' = "reads"
          /\ (sessionOn' \/ Starting(Whisper!Replies)') =>
               \A i \in DOMAIN transcripts' : transcripts'[i] # Whisper!End
          /\ Starting({"awaited"})' =>
               /\ worker'[p].stream = 0 /\ Only(p, {"start", "shutdown"})'
               /\ \A i \in DOMAIN Inbox(p)' :
                    Inbox(p)'[i].name = "start" => Inbox(p)'[i].id = call'["controller"].id
          /\ Starting({"ok"})' => worker'[p].stream = call'["controller"].id /\ Only(p, {"shutdown"})'
          /\ AtRest' \/ Starting({"failed"})' => worker'[p].stream = 0 /\ Only(p, {"shutdown"})'
      BY <1>3, <1>8 DEF Attuned
    <3>1. /\ sessionOn => /\ worker[p].stream \in {0, session} /\ Only(p, {"finish", "shutdown"})
                          /\ reader = "reads"
          /\ (sessionOn \/ Starting(Whisper!Replies)) =>
               \A i \in DOMAIN transcripts : transcripts[i] # Whisper!End
          /\ Starting({"awaited"}) =>
               /\ worker[p].stream = 0 /\ Only(p, {"start", "shutdown"})
               /\ \A i \in DOMAIN Inbox(p) :
                    Inbox(p)[i].name = "start" => Inbox(p)[i].id = call["controller"].id
          /\ Starting({"ok"}) => worker[p].stream = call["controller"].id /\ Only(p, {"shutdown"})
          /\ AtRest \/ Starting({"failed"}) => worker[p].stream = 0 /\ Only(p, {"shutdown"})
      BY <1>4, <2>1 DEF Attuned
    <3>2. ~Only(p, {"shutdown"})
      BY <1>17
    <3>3. ~AtRest /\ ~Starting({"ok"}) /\ ~Starting({"failed"})
      BY <3>1, <3>2
    <3>4. sessionOn' => /\ worker'[p].stream \in {0, session'} /\ Only(p, {"finish", "shutdown"})'
                        /\ reader' = "reads"
      <4>1. ASSUME sessionOn PROVE m.name = "finish" /\ Only(p, {"finish", "shutdown"})'
        BY <1>17, <3>1, <4>1
      <4>2. m.name = "finish" => w.stream = 0
        BY <1>2 DEF Obeyed
      <4> QED  BY <1>3, <1>6, <3>1, <4>1, <4>2
    <3>5. (sessionOn' \/ Starting(Whisper!Replies)') =>
               \A i \in DOMAIN transcripts' : transcripts'[i] # Whisper!End
      BY <1>3, <2>4, <2>6, <3>1
    <3>6. CASE Starting({"awaited"})
      <4>1. m.name = "start" /\ m.id = call["controller"].id
        BY <1>5, <1>17, <3>1, <3>6
      <4>2. call'["controller"].reply = r /\ call'["controller"] # call["controller"]
        BY <1>9, <1>10, <3>6, <4>1, HearerFacts DEF Starting
      <4>3. Only(p, {"shutdown"})' /\ ~Starting({"awaited"})'
        BY <1>9, <1>20, <4>2 DEF Starting
      <4>4. IF r = "ok" THEN worker'[p].stream = m.id ELSE worker'[p].stream = 0
        BY <1>2, <1>6, <4>1 DEF Obeyed
      <4>5. Starting({"ok"})' => r = "ok"
        BY <4>2 DEF Starting
      <4>6. AtRest' \/ Starting({"failed"})' => r = "failed"
        BY <2>4, <3>3, <4>2 DEF Starting
      <4> QED  BY <2>2, <3>4, <3>5, <4>1, <4>3, <4>4, <4>5, <4>6
    <3>7. CASE ~Starting({"awaited"})
      <4>1. ~Starting(Whisper!Replies)'
        BY <2>4, <2>5, <3>3, <3>7
      <4>2. ~AtRest' /\ ~Starting({"awaited"})' /\ ~Starting({"ok"})' /\ ~Starting({"failed"})'
        BY <2>2, <2>4, <3>3, <4>1 DEF Starting
      <4> QED  BY <3>4, <3>5, <4>2
    <3> QED  BY <3>6, <3>7
  <2> QED  BY <2>3, <2>7, <2>8 DEF Sessions
<1> QED  BY <1>13, <1>14, <1>15, <1>21, <1>22 DEF HInv

LEMMA HInitially == VoiceInit => HInv
<1> SUFFICES ASSUME Whisper!Init PROVE HInv
  BY DEF VoiceInit, VoiceParts
<1>1. /\ sessionOn = FALSE /\ closed = FALSE /\ astray = FALSE /\ process = 0 /\ reading = 0
      /\ worker = [p \in Whisper!Workers |-> Whisper!Unborn] /\ transcripts = <<>> /\ lifecycle = <<>>
      /\ call = [c \in Whisper!Callers |-> Whisper!Idle] /\ sequence = 0 /\ session = 0 /\ heard = Whisper!End
  BY DEF Whisper!Init
<1>2. Whisper!Unborn \in WorkerStates /\ Whisper!Unborn.life = "unborn"
  <2>1. <<>> \in Seq(Commands)
    OBVIOUS
  <2> QED  BY <2>1 DEF WorkerStates, Whisper!Unborn
<1>3. HearerTyping
  <2>1. worker \in [Whisper!Workers -> WorkerStates] /\ call \in [Whisper!Callers -> CallStates]
    BY <1>1, <1>2, HearerFacts
  <2>2. transcripts \in Seq(Nat) /\ lifecycle \in Lines
    BY <1>1 DEF Lines
  <2>3. 0 \in 0..MaxCalls
    BY HearerFacts
  <2> QED  BY <1>1, <2>1, <2>2, <2>3 DEF HearerTyping, Whisper!End
<1>4. \A c \in Whisper!Callers : call[c] = Whisper!Idle /\ ~Queued(c) /\ ~First(lifecycle, c)
  BY <1>1, LineFacts DEF Queued, InLine, First
<1>5. Standing
  <2>1. \A c \in Whisper!Callers : Fits(c, call[c], Queued(c), First(lifecycle, c))
    BY <1>4, HearerFacts DEF Fits
  <2> QED  BY <1>1, <1>4, <2>1, HearerFacts DEF Standing
<1>6. \A p \in Whisper!Workers : ~Whisper!Alive(p)
  BY <1>1, <1>2 DEF Whisper!Alive
<1>7. OneProcess /\ Inboxes
  BY <1>1, <1>4, <1>6, HearerFacts DEF OneProcess, Inboxes
<1>8. Sessions
  BY <1>1, <1>6 DEF Sessions, HeardInTime, ToCome, Attuned
<1> QED  BY <1>3, <1>5, <1>7, <1>8 DEF HInv

LEMMA HStepwise == HInv /\ [VoiceNext]_<<part, vars, whisperVars, speakerVars>> => HInv'
<1> SUFFICES ASSUME HInv, [VoiceNext]_<<part, vars, whisperVars, speakerVars>> PROVE HInv'
  OBVIOUS
<1>1. CASE UNCHANGED whisperVars
  BY <1>1, Unheard DEF whisperVars
<1>2. CASE Whisper!Next
  <2>1. ASSUME NEW c \in Whisper!Callers, Whisper!Working(c) PROVE HInv'
    BY <2>1, Prepared, Recycling, Dismissing, Reaping, Spawning, Answering, TimingOut DEF Whisper!Working
  <2>2. ASSUME NEW p \in Whisper!Workers, Whisper!Serving(p) PROVE HInv'
    BY <2>2, WorkerSteps, Transcribing, Obeying DEF Whisper!Serving
  <2> QED  BY <1>2, <2>1, <2>2, Preparing, Finishing, Stopping, Ending, Cancelling, HangingUp, Taking
           DEF Whisper!Next
<1> QED  BY <1>1, <1>2 DEF VoiceNext

\* What the controller is told in a session was said in that session, whatever the worker, the
\* deadlines and the tasks that make the calls have done: except from the cancellation or the
\* deadline of a start or a stop to the next stop that is answered or has ended its worker
\* (isolated_faster_whisper.py: start, stop, _read_worker; stt_service.py).
THEOREM TranscriptsFresh == VoiceSpec => []TranscriptsAreFresh
<1>1. VoiceInit => HInv
  BY HInitially
<1>2. HInv /\ [VoiceNext]_<<part, vars, whisperVars, speakerVars>> => HInv'
  BY HStepwise
<1>3. HInv => TranscriptsAreFresh
  BY DEF HInv, Sessions, HeardInTime, TranscriptsAreFresh, Whisper!TranscriptsAreFresh
<1> QED  BY <1>1, <1>2, <1>3, PTL DEF VoiceSpec

\* There is one recogniser at most, and none after close(); between two calls its microphone is
\* open for a session that is on, and that somebody reads (isolated_faster_whisper.py: prepare,
\* start, stop, close).
THEOREM OneHears == VoiceSpec => []OneWorkerHears
<1>1. VoiceInit => HInv
  BY HInitially
<1>2. HInv /\ [VoiceNext]_<<part, vars, whisperVars, speakerVars>> => HInv'
  BY HStepwise
<1>3. HInv => OneWorkerHears
  <2> SUFFICES ASSUME HInv PROVE Whisper!OpenIsHeard /\ Whisper!OneWorker
    BY DEF OneWorkerHears
  <2>1. OneProcess /\ Standing /\ Attuned
    BY DEF HInv, Sessions
  <2>2. Whisper!OneWorker
    BY <2>1 DEF OneProcess, Whisper!OneWorker
  <2>3. Whisper!OpenIsHeard
    <3> SUFFICES ASSUME NEW p \in Whisper!Workers, worker[p].stream # 0, worker[p].life = "serving", ~astray,
                        \A c \in Whisper!Callers : call[c] = Whisper!Idle
                 PROVE  sessionOn /\ p = process /\ session = worker[p].stream /\ reader = "reads"
      BY DEF Whisper!OpenIsHeard
    <3>1. Whisper!Alive(p) /\ p # 0
      BY HearerFacts DEF Whisper!Alive
    <3>2. call["controller"].op = "none" /\ call["shutdown"] = Whisper!Idle
      BY HearerFacts
    <3>3. sessionOn
      BY <2>1, <3>1, <3>2 DEF Attuned, AtRest, OneProcess
    <3> QED  BY <2>1, <3>1, <3>3 DEF Attuned, OneProcess
  <2> QED  BY <2>2, <2>3
<1> QED  BY <1>1, <1>2, <1>3, PTL DEF VoiceSpec

-----------------------------------------------------------------------------
(* The types *)

\* What the types of the recogniser add: nothing is of a command that was not yet given.
Given(s, n) == \A i \in DOMAIN s : s[i] <= n

HearerBounds ==
  /\ loaded \in Configs \cup {"none"} /\ isReady \in {"open", "set", "failed"}
  /\ reader \in {"none", "reads", "over"}
  /\ session <= sequence /\ Given(transcripts, sequence)
  /\ \A p \in Whisper!Workers : worker[p].stream <= sequence

LEMMA GivenFacts ==
  ASSUME NEW s \in Seq(Nat), NEW n \in Nat, Given(s, n)
  PROVE  /\ Given(<<>>, n) /\ Append(s, 0) \in Seq(Nat) /\ Given(Append(s, 0), n)
         /\ Given(Append(Append(s, 0), 0), n)
         /\ s # <<>> => Given(Tail(s), n)
         /\ s \o <<>> = s
         /\ \A x \in Nat : x <= n => Given(s \o <<x>>, n)
         /\ \A m \in Nat : n <= m => Given(s, m)
<1>1. ASSUME NEW t \in Seq(Nat), Given(t, n) PROVE Append(t, 0) \in Seq(Nat) /\ Given(Append(t, 0), n)
  BY <1>1, AppendProperties DEF Given
<1>2. s # <<>> => Given(Tail(s), n)
  BY HeadTailProperties DEF Given
<1>3. ASSUME NEW x \in Nat, x <= n PROVE Given(s \o <<x>>, n)
  <2>1. /\ <<x>> \in Seq(Nat) /\ Len(<<x>>) = 1 /\ <<x>>[1] = x
    OBVIOUS
  <2>2. s \o <<x>> \in Seq(Nat) /\ Len(s \o <<x>>) = Len(s) + 1 /\ Len(s) \in Nat
        /\ \A i \in 1..(Len(s) + 1) : (s \o <<x>>)[i] = IF i <= Len(s) THEN s[i] ELSE <<x>>[i - Len(s)]
    BY <2>1, ConcatProperties
  <2> SUFFICES ASSUME NEW i \in 1..(Len(s) + 1) PROVE (s \o <<x>>)[i] <= n
    BY <2>2 DEF Given
  <2>3. CASE i <= Len(s)
    BY <2>2, <2>3 DEF Given
  <2>4. CASE i = Len(s) + 1
    BY <1>3, <2>1, <2>2, <2>4
  <2> QED  BY <2>2, <2>3, <2>4
<1>4. s \o <<>> = s
  BY ConcatEmptySeq
<1>5. ASSUME NEW m \in Nat, n <= m PROVE Given(s, m)
  <2>1. \A i \in DOMAIN s : s[i] \in Nat
    BY ElementOfSeq
  <2> QED  BY <1>5, <2>1 DEF Given
<1>6. Given(<<>>, n)
  BY DEF Given
<1> QED  BY <1>1, <1>2, <1>3, <1>4, <1>5, <1>6

\* A step makes nothing be of a command that was not given.
LEMMA BoundsKept ==
  ASSUME HearerTyping, HearerTyping', HearerBounds,
         loaded' \in Configs \cup {"none"}, isReady' \in {"open", "set", "failed"},
         reader' \in {"none", "reads", "over"},
         sequence' >= sequence, session' <= sequence \/ session' <= sequence',
         Given(transcripts', sequence),
         \A p \in Whisper!Workers : worker'[p].stream \in {0, worker[p].stream} \/ worker'[p].stream <= sequence
  PROVE  HearerBounds'
<1>1. /\ sequence \in Nat /\ sequence' \in Nat /\ session' \in Nat /\ transcripts' \in Seq(Nat)
      /\ \A p \in Whisper!Workers : worker'[p].stream \in Nat
  BY DEF HearerTyping, WorkerStates
<1>2. Given(transcripts', sequence')
  BY <1>1, GivenFacts
<1>3. \A p \in Whisper!Workers : worker'[p].stream <= sequence'
  BY <1>1 DEF HearerBounds
<1> QED  BY <1>1, <1>2, <1>3 DEF HearerBounds

\* A worker is changed in what is not its stream.
LEMMA StreamsKept ==
  ASSUME HearerTyping,
         \/ worker' = worker
         \/ \E q : worker' = [worker EXCEPT ![q].life = "dead"]
         \/ \E q : worker' = [worker EXCEPT ![q].life = "loading"]
         \/ \E q : worker' = [worker EXCEPT ![q].life = "serving"]
         \/ \E q : worker' = [worker EXCEPT ![q].busy = TRUE]
         \/ \E q : worker' = [worker EXCEPT ![q].busy = FALSE]
         \/ \E q, m : worker' = [worker EXCEPT ![q].inbox = Append(@, m)]
  PROVE  \A p \in Whisper!Workers : worker'[p].stream = worker[p].stream
<1> SUFFICES ASSUME NEW p \in Whisper!Workers PROVE worker'[p].stream = worker[p].stream
  OBVIOUS
<1>1. worker[p] \in WorkerStates /\ p \in DOMAIN worker
  BY DEF HearerTyping
<1>2. \/ worker'[p] = worker[p]
      \/ \E x : worker'[p] = [worker[p] EXCEPT !.life = x]
      \/ \E x : worker'[p] = [worker[p] EXCEPT !.busy = x]
      \/ \E x : worker'[p] = [worker[p] EXCEPT !.inbox = x]
  <2>1. ASSUME NEW q, NEW x, worker' = [worker EXCEPT ![q].life = x]
        PROVE  worker'[p] = worker[p] \/ worker'[p] = [worker[p] EXCEPT !.life = x]
    BY <1>1, <2>1 DEF HearerTyping
  <2>2. ASSUME NEW q, NEW x, worker' = [worker EXCEPT ![q].busy = x]
        PROVE  worker'[p] = worker[p] \/ worker'[p] = [worker[p] EXCEPT !.busy = x]
    BY <1>1, <2>2 DEF HearerTyping
  <2>3. ASSUME NEW q, NEW m, worker' = [worker EXCEPT ![q].inbox = Append(@, m)]
        PROVE  \/ worker'[p] = worker[p]
               \/ worker'[p] = [worker[p] EXCEPT !.inbox = Append(worker[p].inbox, m)]
    BY <1>1, <2>3 DEF HearerTyping
  <2> QED  BY <2>1, <2>2, <2>3
<1> QED  BY <1>1, <1>2 DEF WorkerStates

\* What send, terminate and go on do.
LEMMA SentBounds ==
  ASSUME HearerTyping, NEW c \in Whisper!Callers, NEW name
  PROVE  /\ Whisper!Send(c, name) =>
              sequence' = sequence + 1 /\ \A p \in Whisper!Workers : worker'[p].stream = worker[p].stream
         /\ \A place : Whisper!Terminate(c, place) =>
              \A p \in Whisper!Workers : worker'[p].stream = worker[p].stream
<1>1. ASSUME Whisper!Send(c, name)
      PROVE  sequence' = sequence + 1 /\ \A p \in Whisper!Workers : worker'[p].stream = worker[p].stream
  BY <1>1, StreamsKept DEF Whisper!Send
<1>2. ASSUME NEW place, Whisper!Terminate(c, place)
      PROVE  \A p \in Whisper!Workers : worker'[p].stream = worker[p].stream
  BY <1>2, StreamsKept DEF Whisper!Terminate
<1> QED  BY <1>1, <1>2

LEMMA ProceedBounds ==
  ASSUME HearerTyping, HearerBounds, NEW c \in Whisper!Callers, Whisper!Proceed(c)
  PROVE  /\ sequence' >= sequence /\ Given(transcripts', sequence)
         /\ \A p \in Whisper!Workers : worker'[p].stream = worker[p].stream
<1>1. sequence \in Nat /\ transcripts \in Seq(Nat) /\ Given(transcripts, sequence)
  BY DEF HearerTyping, HearerBounds
<1>2. Given(<<>>, sequence)
  BY <1>1, GivenFacts
<1>3. CASE Whisper!Send(c, "start") /\ transcripts' = <<>>
  BY <1>1, <1>2, <1>3, SentBounds
<1>4. CASE (transcripts' = <<>> \/ transcripts' = transcripts) /\ UNCHANGED <<sequence, worker>>
  BY <1>1, <1>2, <1>4
<1> QED  BY <1>3, <1>4 DEF Whisper!Proceed

\* The calls.
LEMMA CallBounds ==
  ASSUME HearerTyping, HearerTyping', HearerBounds,
         \/ Whisper!Open \/ Whisper!Finish \/ Whisper!Stop \/ Whisper!Close \/ Whisper!Cancel
         \/ \E c \in Whisper!Callers : \/ Whisper!Recycle(c) \/ Whisper!Dismiss(c) \/ Whisper!Cold(c)
                                       \/ Whisper!TimeOut(c) \/ Whisper!Spawn(c)
  PROVE  HearerBounds'
<1>1. sequence \in Nat /\ \A p \in Whisper!Workers : worker[p].stream <= sequence
  BY DEF HearerTyping, HearerBounds
<1>2. ASSUME loaded' = loaded, transcripts' = transcripts, session' = session,
             reader' \in {reader, "none"}, isReady' \in {isReady, "open"}, sequence' \in {sequence, sequence + 1},
             \A p \in Whisper!Workers : worker'[p].stream = worker[p].stream
      PROVE  HearerBounds'
  BY <1>1, <1>2, BoundsKept DEF HearerBounds
<1> USE DEF Whisper!adapter, Whisper!reads
<1>3. CASE Whisper!Open \/ Whisper!Close \/ Whisper!Cancel \/ \E c \in Whisper!Callers : Whisper!TimeOut(c)
  <2>1. /\ UNCHANGED <<loaded, transcripts, session, reader, isReady, sequence, worker>>
    BY <1>3 DEF Whisper!Open, Whisper!Close, Whisper!Cancel, Whisper!TimeOut
  <2> QED  BY <1>2, <2>1
<1>4. CASE Whisper!Finish
  <2>1. /\ UNCHANGED <<loaded, transcripts, session, reader, isReady>> /\ sequence' \in {sequence, sequence + 1}
    BY <1>4 DEF Whisper!Finish
  <2>2. worker' = worker \/ \E q, m : worker' = [worker EXCEPT ![q].inbox = Append(@, m)]
    BY <1>4 DEF Whisper!Finish
  <2> QED  BY <1>2, <2>1, <2>2, StreamsKept
<1>5. CASE Whisper!Stop
  <2>1. /\ UNCHANGED <<loaded, transcripts, session, isReady>> /\ sequence' \in {sequence, sequence + 1}
        /\ reader' = "none"
    BY <1>5 DEF Whisper!Stop
  <2>2. worker' = worker \/ \E q, m : worker' = [worker EXCEPT ![q].inbox = Append(@, m)]
    BY <1>5 DEF Whisper!Stop
  <2> QED  BY <1>2, <2>1, <2>2, StreamsKept
<1>6. ASSUME NEW c \in Whisper!Callers, Whisper!Recycle(c) \/ Whisper!Cold(c) PROVE HearerBounds'
  <2>1. UNCHANGED <<loaded, transcripts, session, reader, isReady, sequence>>
        /\ \E place : Whisper!Terminate(c, place)
    BY <1>6 DEF Whisper!Recycle, Whisper!Cold
  <2> QED  BY <1>2, <2>1, SentBounds
<1>7. ASSUME NEW c \in Whisper!Callers, Whisper!Dismiss(c) PROVE HearerBounds'
  <2>1. UNCHANGED <<loaded, transcripts, session, reader, isReady>> /\ Whisper!Send(c, "shutdown")
    BY <1>7 DEF Whisper!Dismiss
  <2> QED  BY <1>2, <2>1, SentBounds
<1>8. ASSUME NEW c \in Whisper!Callers, Whisper!Spawn(c) PROVE HearerBounds'
  <2>1. UNCHANGED <<loaded, transcripts, session, reader, sequence>> /\ isReady' = "open"
        /\ \E q : worker' = [worker EXCEPT ![q].life = "loading"]
    BY <1>8 DEF Whisper!Spawn
  <2> QED  BY <1>2, <2>1, StreamsKept
<1> QED  BY <1>3, <1>4, <1>5, <1>6, <1>7, <1>8

\* What prepares, ends and answers.
LEMMA WorkBounds ==
  ASSUME HInv, HearerTyping', HearerBounds, NEW c \in Whisper!Callers,
         Whisper!Reuse(c) \/ Whisper!Warm(c) \/ Whisper!Closed(c) \/ Whisper!Answered(c)
  PROVE  HearerBounds'
<1>1. /\ HearerTyping /\ sequence \in Nat /\ transcripts \in Seq(Nat) /\ Given(transcripts, sequence)
      /\ call[c].config \in Configs \cup {"none"}
  BY DEF HInv, HearerTyping, HearerBounds, CallStates
<1>2. ASSUME NEW x \in {0} PROVE Given(Append(transcripts, x), sequence)
                                 /\ Given(Append(Append(transcripts, x), x), sequence)
  BY <1>1, GivenFacts
<1>3. CASE Whisper!Reuse(c)
  <2>1. UNCHANGED <<loaded, isReady, session, reader>> /\ Whisper!Proceed(c)
    BY <1>3 DEF Whisper!Reuse, Whisper!reads
  <2> QED  BY <1>1, <2>1, ProceedBounds, BoundsKept DEF HearerBounds
<1>4. CASE Whisper!Warm(c)
  <2>1. UNCHANGED <<isReady, session, reader>> /\ Whisper!Proceed(c) /\ loaded' = call[c].config
    BY <1>4 DEF Whisper!Warm, Whisper!reads
  <2> QED  BY <1>1, <2>1, ProceedBounds, BoundsKept DEF HearerBounds
<1>5. CASE Whisper!Closed(c)
  <2>1. UNCHANGED <<session, reader, worker, sequence>> /\ loaded' \in {loaded, "none"}
        /\ isReady' \in {isReady, "failed"}
    BY <1>5 DEF Whisper!Closed, Whisper!reads
  <2>2. transcripts' \in {transcripts, Append(transcripts, 0), Append(Append(transcripts, 0), 0)}
    BY <1>5 DEF Whisper!Closed, Whisper!End
  <2>3. Given(transcripts', sequence)
    BY <1>1, <1>2, <2>2
  <2> QED  BY <1>1, <2>1, <2>3, BoundsKept DEF HearerBounds
<1>6. CASE Whisper!Answered(c)
  <2>1. UNCHANGED <<loaded, isReady, sequence>>
    BY <1>6 DEF Whisper!Answered
  <2>2. transcripts' \in {transcripts, Append(transcripts, 0)}
    BY <1>6 DEF Whisper!Answered, Whisper!End, Whisper!reads
  <2>3. call[c].id <= sequence
    BY <1>1, <1>6 DEF Whisper!Answered, HInv, Inboxes
  <2>4. session' \in {session, call[c].id} /\ reader' \in {reader, "reads"}
    BY <1>6 DEF Whisper!Answered, Whisper!reads
  <2>5. worker' = worker \/ Whisper!Terminate(c, "closing")
    BY <1>6 DEF Whisper!Answered
  <2>6. \A p \in Whisper!Workers : worker'[p].stream = worker[p].stream
    BY <1>1, <2>5, SentBounds
  <2>7. Given(transcripts', sequence)
    BY <1>1, <1>2, <2>2
  <2> QED  BY <1>1, <2>1, <2>3, <2>4, <2>6, <2>7, BoundsKept DEF HearerBounds
<1> QED  BY <1>3, <1>4, <1>5, <1>6

\* The workers, and who reads what they say.
LEMMA WorkerBounds ==
  ASSUME HInv, HearerTyping', HearerBounds,
         Whisper!Hangup \/ Whisper!Take \/ \E p \in Whisper!Workers : Whisper!Serving(p)
  PROVE  HearerBounds'
<1>1. /\ HearerTyping /\ sequence \in Nat /\ transcripts \in Seq(Nat) /\ Given(transcripts, sequence)
      /\ session \in Nat /\ session <= sequence
  BY DEF HInv, HearerTyping, HearerBounds
<1> USE DEF Whisper!adapter, Whisper!reads
<1>2. CASE Whisper!Hangup
  <2>1. UNCHANGED <<loaded, session, reader, worker, sequence>> /\ isReady' \in {isReady, "failed"}
        /\ transcripts' = Append(transcripts, 0)
    BY <1>2 DEF Whisper!Hangup, Whisper!ReaderEnds, Whisper!End
  <2>2. Given(transcripts', sequence)
    BY <1>1, <2>1, GivenFacts
  <2> QED  BY <1>1, <2>1, <2>2, BoundsKept DEF HearerBounds
<1>3. CASE Whisper!Take
  <2>1. UNCHANGED <<loaded, isReady, session, worker, sequence>> /\ reader' \in {reader, "over"}
        /\ transcripts # <<>> /\ transcripts' = Tail(transcripts)
    BY <1>3 DEF Whisper!Take
  <2>2. Given(transcripts', sequence)
    BY <1>1, <2>1, GivenFacts
  <2> QED  BY <1>1, <2>1, <2>2, BoundsKept DEF HearerBounds
<1>4. ASSUME NEW p \in Whisper!Workers, Whisper!Load(p) \/ Whisper!Speak(p) \/ Whisper!Crash(p)
      PROVE  HearerBounds'
  <2>1. UNCHANGED <<loaded, session, reader, transcripts, sequence>> /\ isReady' \in {isReady, "set"}
    BY <1>4 DEF Whisper!Load, Whisper!Speak, Whisper!Crash
  <2>2. \/ worker' = [worker EXCEPT ![p].life = "serving"]
        \/ worker' = [worker EXCEPT ![p].life = "dead"]
        \/ worker' = [worker EXCEPT ![p].busy = TRUE]
    BY <1>4 DEF Whisper!Load, Whisper!Speak, Whisper!Crash
  <2>3. \A q \in Whisper!Workers : worker'[q].stream = worker[q].stream
    BY <1>1, <2>2, StreamsKept
  <2> QED  BY <1>1, <2>1, <2>3, BoundsKept DEF HearerBounds
<1>5. \A p, id, reply : \A n \in Nat :
        /\ Whisper!Read(p, id, reply, <<n>>) /\ n <= sequence => Given(transcripts', sequence)
        /\ Whisper!Read(p, id, reply, <<>>) => Given(transcripts', sequence)
  BY <1>1, GivenFacts DEF Whisper!Read
<1>6. ASSUME NEW p \in Whisper!Workers, Whisper!Transcribe(p) PROVE HearerBounds'
  <2>1. UNCHANGED <<loaded, isReady, session, reader, sequence>>
        /\ worker' = [worker EXCEPT ![p].busy = FALSE]
        /\ Whisper!Read(p, 0, "none", <<worker[p].stream>>)
    BY <1>6 DEF Whisper!Transcribe
  <2>2. worker[p].stream \in Nat /\ worker[p].stream <= sequence
    BY <1>1 DEF HearerBounds, HearerTyping, WorkerStates
  <2>3. Given(transcripts', sequence)
    BY <1>5, <2>1, <2>2
  <2>4. \A q \in Whisper!Workers : worker'[q].stream = worker[q].stream
    BY <1>1, <2>1, StreamsKept
  <2> QED  BY <1>1, <2>1, <2>3, <2>4, BoundsKept DEF HearerBounds
<1>7. ASSUME NEW p \in Whisper!Workers, Whisper!Obey(p) PROVE HearerBounds'
  <2> DEFINE w == worker[p]
             m == Head(w.inbox)
             rest == [w EXCEPT !.inbox = Tail(@), !.stream = 0]
  <2>1. UNCHANGED <<loaded, isReady, session, reader, sequence>>
        /\ worker[p].life = "serving" /\ worker[p].inbox # <<>>
    BY <1>7 DEF Whisper!Obey
  <2>2. /\ \/ worker' = [worker EXCEPT ![p] = [rest EXCEPT !.stream = m.id]]
           \/ worker' = [worker EXCEPT ![p] = rest]
           \/ worker' = [worker EXCEPT ![p] = [rest EXCEPT !.life = "dead"]]
        /\ \E reply : \/ Whisper!Read(p, m.id, reply, <<>>)
                      \/ Whisper!Read(p, m.id, reply, <<IF w.stream = 0 THEN session ELSE w.stream>>)
    BY <1>7 DEF Whisper!Obey
  <2>3. /\ w \in WorkerStates /\ w.inbox \in Seq(Commands) /\ m = w.inbox[1] /\ 1 \in DOMAIN w.inbox
        /\ w.stream \in Nat /\ w.stream <= sequence
    <3>1. w \in WorkerStates /\ w.stream <= sequence
      BY <1>1 DEF HearerTyping, HearerBounds
    <3>2. w.inbox \in Seq(Commands) /\ w.stream \in Nat
      BY <3>1 DEF WorkerStates
    <3> QED  BY <2>1, <3>1, <3>2, HeadTailProperties
  <2>4. Whisper!Alive(p)
    <3>1. p # 0
      BY HearerFacts
    <3> QED  BY <2>1, <3>1 DEF Whisper!Alive
  <2>5. m.id <= sequence /\ m.id \in Nat
    BY <1>1, <2>3, <2>4 DEF HInv, Inboxes, Inbox
  <2>6. \A q \in Whisper!Workers : worker'[q].stream \in {0, worker[q].stream} \/ worker'[q].stream <= sequence
    <3>1. \A q \in Whisper!Workers \ {p} : worker'[q] = worker[q]
      BY <1>1, <2>2 DEF HearerTyping
    <3>2. worker'[p].stream \in {0, m.id}
      <4>1. worker'[p] \in {[rest EXCEPT !.stream = m.id], rest, [rest EXCEPT !.life = "dead"]}
        BY <1>1, <2>2 DEF HearerTyping
      <4> HIDE DEF m
      <4> QED  BY <2>3, <4>1 DEF WorkerStates
    <3> HIDE DEF m, rest
    <3> QED  BY <2>5, <3>1, <3>2
  <2>7. Given(transcripts', sequence)
    <3>1. PICK reply : \/ Whisper!Read(p, m.id, reply, <<>>)
                       \/ Whisper!Read(p, m.id, reply, <<IF w.stream = 0 THEN session ELSE w.stream>>)
      BY <2>2
    <3>2. (IF w.stream = 0 THEN session ELSE w.stream) \in Nat
          /\ (IF w.stream = 0 THEN session ELSE w.stream) <= sequence
      BY <1>1, <2>3
    <3> HIDE DEF m, rest, w
    <3> QED  BY <1>1, <1>5, <3>1, <3>2
  <2> HIDE DEF m, rest, w
  <2> QED  BY <1>1, <2>1, <2>6, <2>7, BoundsKept DEF HearerBounds
<1> QED  BY <1>2, <1>3, <1>4, <1>6, <1>7 DEF Whisper!Serving

LEMMA HearerBoundsInitially == VoiceInit => HearerBounds
<1> SUFFICES ASSUME Whisper!Init PROVE HearerBounds
  BY DEF VoiceInit, VoiceParts
<1>1. \A p \in Whisper!Workers : worker[p].stream = 0
  BY DEF Whisper!Init, Whisper!Unborn
<1> QED  BY <1>1 DEF Whisper!Init, HearerBounds, Given

LEMMA HearerBoundsStepwise ==
  HInv /\ HearerBounds /\ [VoiceNext]_<<part, vars, whisperVars, speakerVars>> => HearerBounds'
<1> SUFFICES ASSUME HInv, HearerBounds, [VoiceNext]_<<part, vars, whisperVars, speakerVars>>
             PROVE  HearerBounds'
  OBVIOUS
<1>1. HearerTyping /\ HearerTyping'
  BY HStepwise DEF HInv
<1>2. CASE UNCHANGED whisperVars
  BY <1>2 DEF whisperVars, HearerBounds, Given
<1>3. CASE Whisper!Next
  <2>1. ASSUME NEW c \in Whisper!Callers, Whisper!Working(c) PROVE HearerBounds'
    BY <1>1, <2>1, CallBounds, WorkBounds DEF Whisper!Working
  <2> QED  BY <1>1, <1>3, <2>1, CallBounds, WorkerBounds DEF Whisper!Next
<1> QED  BY <1>2, <1>3 DEF VoiceNext

\* What the types of the reply processes add: a reply is in line once, and only while its job waits
\* for the lock or holds it.
Outside == {"none", "created", "clearing", "over"}

InLineOnce ==
  /\ line \in Seq(Speaker!Replies)
  /\ \A i, k \in DOMAIN line : line[i] = line[k] => i = k
  /\ \A i \in DOMAIN line : job[line[i]] \notin Outside

SpeakerLists ==
  /\ adapter \in Adapters /\ InLineOnce
  /\ interrupted \subseteq Speaker!Replies /\ jobsCancelled \subseteq Speaker!Replies
  /\ failed \subseteq Speaker!Replies
  /\ asked \in Seq(Speaker!Replies) /\ answers \in Seq(Speaker!Replies)

\* A sequence without its i-th element.
LEMMA RemovalFacts ==
  ASSUME NEW S, NEW s \in Seq(S), NEW i \in 1..Len(s)
  PROVE  LET r == SubSeq(s, 1, i - 1) \o SubSeq(s, i + 1, Len(s))
         IN /\ r \in Seq(S) /\ Len(r) = Len(s) - 1
            /\ \A k \in 1..(Len(s) - 1) : r[k] = s[IF k < i THEN k ELSE k + 1]
<1> DEFINE n == Len(s)
           front == SubSeq(s, 1, i - 1)
           back == SubSeq(s, i + 1, n)
           both == front \o back
<1>1. n \in Nat /\ i \in Nat /\ 1 <= i /\ i <= n
  OBVIOUS
<1>2. (\A k \in 1..(i - 1) : s[k] \in S) /\ \A k \in (i + 1)..n : s[k] \in S
  OBVIOUS
<1> HIDE DEF n
<1>3. i - 1 \in Int /\ i + 1 \in Int /\ 1 \in Int /\ n \in Int
  BY <1>1
<1>4. front \in Seq(S) /\ Len(front) = (IF 1 <= i - 1 THEN (i - 1) - 1 + 1 ELSE 0)
      /\ \A k \in 1..((i - 1) - 1 + 1) : front[k] = s[1 + k - 1]
  BY <1>2, <1>3, SubSeqProperties
<1>5. back \in Seq(S) /\ Len(back) = (IF i + 1 <= n THEN n - (i + 1) + 1 ELSE 0)
      /\ \A k \in 1..(n - (i + 1) + 1) : back[k] = s[(i + 1) + k - 1]
  BY <1>2, <1>3, SubSeqProperties
<1> HIDE DEF front, back
<1>6. Len(front) = i - 1 /\ Len(back) = n - i
      /\ (i - 1) - 1 + 1 = i - 1 /\ n - (i + 1) + 1 = n - i
  BY <1>1, <1>4, <1>5
<1>7. /\ both \in Seq(S) /\ Len(both) = Len(front) + Len(back)
      /\ \A k \in 1..(Len(front) + Len(back)) :
           both[k] = IF k <= Len(front) THEN front[k] ELSE back[k - Len(front)]
  BY <1>4, <1>5, ConcatProperties
<1> HIDE DEF both
<1>8. Len(front) + Len(back) = n - 1
  BY <1>1, <1>6
<1>9. ASSUME NEW k \in 1..(n - 1) PROVE both[k] = s[IF k < i THEN k ELSE k + 1]
  <2>1. both[k] = IF k <= Len(front) THEN front[k] ELSE back[k - Len(front)]
    BY <1>7, <1>8
  <2>2. CASE k < i
    <3>1. k <= Len(front) /\ k \in 1..((i - 1) - 1 + 1) /\ 1 + k - 1 = k
      BY <2>2, <1>1, <1>6
    <3>2. front[k] = s[1 + k - 1]
      BY <3>1, <1>4
    <3> QED  BY <2>1, <2>2, <3>1, <3>2
  <2>3. CASE ~(k < i)
    <3>1. /\ ~(k <= Len(front)) /\ k - Len(front) \in 1..(n - (i + 1) + 1)
          /\ (i + 1) + (k - Len(front)) - 1 = k + 1
      BY <2>3, <1>1, <1>6
    <3>2. back[k - Len(front)] = s[(i + 1) + (k - Len(front)) - 1]
      BY <3>1, <1>5
    <3> QED  BY <2>1, <2>3, <3>1, <3>2
  <2> QED  BY <2>2, <2>3
<1> QED  BY <1>7, <1>8, <1>9 DEF both, front, back, n

\* Who leaves the line leaves it to the others.
LEMMA WithoutFacts ==
  ASSUME InLineOnce, NEW j
  PROVE  /\ Speaker!Without(j) \in Seq(Speaker!Replies)
         /\ \A i \in DOMAIN Speaker!Without(j) :
              /\ Speaker!Without(j)[i] # j
              /\ \E k \in DOMAIN line : Speaker!Without(j)[i] = line[k]
         /\ \A i, k \in DOMAIN Speaker!Without(j) : Speaker!Without(j)[i] = Speaker!Without(j)[k] => i = k
<1> DEFINE at == {i \in DOMAIN line : line[i] = j}
           n == CHOOSE i \in at : TRUE
           t == Speaker!Without(j)
<1>1. line \in Seq(Speaker!Replies) /\ Len(line) \in Nat /\ DOMAIN line = 1..Len(line)
  BY DEF InLineOnce
<1>2. t = IF at = {} THEN line ELSE SubSeq(line, 1, n - 1) \o SubSeq(line, n + 1, Len(line))
  BY DEF Speaker!Without, Speaker!RemoveAt
<1>3. CASE at = {}
  BY <1>1, <1>2, <1>3 DEF InLineOnce
<1>4. CASE at # {}
  <2>1. n \in 1..Len(line) /\ line[n] = j
    BY <1>1, <1>4
  <2> HIDE DEF n
  <2>2. t = SubSeq(line, 1, n - 1) \o SubSeq(line, n + 1, Len(line))
    BY <1>2, <1>4
  <2> HIDE DEF t, at
  <2>3. /\ t \in Seq(Speaker!Replies) /\ Len(t) = Len(line) - 1
        /\ \A k \in 1..(Len(line) - 1) : t[k] = line[IF k < n THEN k ELSE k + 1]
    BY <1>1, <2>1, <2>2, RemovalFacts
  <2>4. DOMAIN t = 1..(Len(line) - 1)
    BY <2>3
  <2> DEFINE f(k) == IF k < n THEN k ELSE k + 1
  <2>5. \A k \in DOMAIN t : f(k) \in DOMAIN line /\ f(k) # n /\ t[k] = line[f(k)]
    BY <1>1, <2>1, <2>3, <2>4
  <2>6. \A k, l \in DOMAIN t : f(k) = f(l) => k = l
    BY <1>1, <2>1, <2>4
  <2> HIDE DEF f
  <2>7. (\A i, k \in DOMAIN line : line[i] = line[k] => i = k) /\ n \in DOMAIN line
    BY <1>1, <2>1 DEF InLineOnce
  <2>8. ASSUME NEW i \in DOMAIN t PROVE t[i] # j /\ \E k \in DOMAIN line : t[i] = line[k]
    BY <2>1, <2>5, <2>7
  <2>9. ASSUME NEW i \in DOMAIN t, NEW k \in DOMAIN t, t[i] = t[k] PROVE i = k
    <3>1. f(i) = f(k)
      BY <2>5, <2>7, <2>9
    <3> QED  BY <2>6, <3>1
  <2> QED  BY <2>3, <2>8, <2>9 DEF t
<1> QED  BY <1>3, <1>4

\* The job of one reply goes on.
LEMMA LineStep ==
  ASSUME InLineOnce, NEW j \in Speaker!Replies, \A k \in Speaker!Replies \ {j} : job'[k] = job[k],
         \/ line' = line /\ (job[j] \in Outside \/ job'[j] \notin Outside)
         \/ line' = Speaker!Without(j)
         \/ line' = Append(line, j) /\ job[j] \in Outside /\ job'[j] \notin Outside
  PROVE  InLineOnce'
<1>1. /\ line \in Seq(Speaker!Replies) /\ Len(line) \in Nat /\ DOMAIN line = 1..Len(line)
      /\ \A i \in DOMAIN line : line[i] \in Speaker!Replies /\ job[line[i]] \notin Outside
      /\ \A i, k \in DOMAIN line : line[i] = line[k] => i = k
  BY ElementOfSeq DEF InLineOnce
<1>2. CASE line' = line /\ (job[j] \in Outside \/ job'[j] \notin Outside)
  BY <1>1, <1>2 DEF InLineOnce
<1>3. CASE line' = Speaker!Without(j)
  <2>1. /\ line' \in Seq(Speaker!Replies) /\ \A i, k \in DOMAIN line' : line'[i] = line'[k] => i = k
        /\ \A i \in DOMAIN line' : line'[i] # j /\ \E k \in DOMAIN line : line'[i] = line[k]
    BY <1>3, WithoutFacts
  <2>2. \A i \in DOMAIN line' : job'[line'[i]] \notin Outside
    BY <1>1, <2>1
  <2> QED  BY <2>1, <2>2 DEF InLineOnce
<1>4. CASE line' = Append(line, j) /\ job[j] \in Outside /\ job'[j] \notin Outside
  <2> DEFINE t == Append(line, j)
  <2>1. /\ t \in Seq(Speaker!Replies) /\ Len(t) = Len(line) + 1 /\ t[Len(line) + 1] = j
        /\ \A i \in 1..Len(line) : t[i] = line[i]
    BY <1>1, AppendProperties
  <2>2. t = line'
    BY <1>4
  <2> HIDE DEF t
  <2>3. DOMAIN t = 1..(Len(line) + 1)
    BY <2>1
  <2>4. \A i \in DOMAIN t : (i = Len(line) + 1 /\ t[i] = j) \/ (i \in DOMAIN line /\ t[i] = line[i])
    BY <1>1, <2>1, <2>3
  <2>5. \A i \in DOMAIN line : line[i] # j
    BY <1>1, <1>4
  <2>6. ASSUME NEW i \in DOMAIN t, NEW k \in DOMAIN t, t[i] = t[k] PROVE i = k
    BY <1>1, <2>4, <2>5, <2>6
  <2>7. ASSUME NEW i \in DOMAIN t PROVE job'[t[i]] \notin Outside
    <3>1. CASE t[i] = j
      BY <1>4, <3>1
    <3>2. CASE i \in DOMAIN line /\ t[i] = line[i]
      BY <1>1, <2>5, <3>2
    <3> QED  BY <2>4, <3>1, <3>2
  <2>8. /\ t \in Seq(Speaker!Replies) /\ \A i, k \in DOMAIN t : t[i] = t[k] => i = k
        /\ \A i \in DOMAIN t : job'[t[i]] \notin Outside
    BY <2>1, <2>6, <2>7
  <2> QED  BY <2>2, <2>8 DEF InLineOnce
<1> QED  BY <1>2, <1>3, <1>4

\* What the worker of Chatterbox is asked for and has answered.
Worked == asked' \in Seq(Speaker!Replies) /\ answers' \in Seq(Speaker!Replies)

LEMMA WorkedFacts ==
  ASSUME SpeakerLists
  PROVE  /\ UNCHANGED Speaker!workerVars => Worked
         /\ Speaker!Discard => Worked
         /\ \A p : Speaker!DiscardUnless(p) => Worked
<1>1. UNCHANGED Speaker!workerVars => Worked
  BY DEF SpeakerLists, Worked, Speaker!workerVars
<1>2. <<>> \in Seq(Speaker!Replies)
  OBVIOUS
<1>3. Speaker!Discard => Worked
  <2>1. CASE asked' = <<>> /\ answers' = <<>>
    BY <1>2, <2>1 DEF Worked
  <2> QED  BY <1>1, <2>1 DEF Speaker!Discard
<1> QED  BY <1>1, <1>3 DEF Speaker!DiscardUnless

\* A step of the job, or of the task, of a reply.
LEMMA ListsKept ==
  ASSUME SpeakerLists, adapter' = adapter, InLineOnce', Worked, NEW j \in Speaker!Replies,
         interrupted' \in {interrupted, interrupted \cup {j}}, failed' \in {failed, failed \cup {j}},
         jobsCancelled' \in {jobsCancelled, jobsCancelled \cup {j}, jobsCancelled \ {j}}
  PROVE  SpeakerLists'
BY DEF SpeakerLists, Worked

LEMMA TaskLists ==
  ASSUME SpeakerLists, NEW j \in Speaker!Replies,
         Speaker!Interrupt(j) \/ Speaker!TaskStep(j) \/ Speaker!Ends(j)
  PROVE  SpeakerLists'
<1> USE DEF Speaker!jobVars, Speaker!callVars
<1>1. /\ UNCHANGED <<adapter, job, line, failed>> /\ interrupted' \in {interrupted, interrupted \cup {j}}
      /\ jobsCancelled' \in {jobsCancelled, jobsCancelled \cup {j}}
  BY DEF Speaker!Interrupt, Speaker!TaskStep, Speaker!Ready, Speaker!Unwind, Speaker!Unwound, Speaker!Settle,
         Speaker!Finish, Speaker!Finished, Speaker!Ends, Speaker!CancelJob
<1>2. UNCHANGED Speaker!workerVars \/ Speaker!Discard \/ \E p : Speaker!DiscardUnless(p)
  BY DEF Speaker!Interrupt, Speaker!TaskStep, Speaker!Ready, Speaker!Unwind, Speaker!Unwound, Speaker!Settle,
         Speaker!Finish, Speaker!Finished, Speaker!Ends
<1>3. Worked
  BY <1>2, WorkedFacts
<1>4. InLineOnce'
  BY <1>1 DEF SpeakerLists, InLineOnce
<1> QED  BY <1>1, <1>3, <1>4, ListsKept

\* Who asks, and who reads an answer.
LEMMA AskedFacts ==
  ASSUME SpeakerLists, NEW j \in Speaker!Replies
  PROVE  /\ Append(asked, j) \in Seq(Speaker!Replies)
         /\ answers # <<>> => Tail(answers) \in Seq(Speaker!Replies)
         /\ asked # <<>> => /\ Tail(asked) \in Seq(Speaker!Replies)
                            /\ Append(answers, Head(asked)) \in Seq(Speaker!Replies)
BY HeadTailProperties, AppendProperties DEF SpeakerLists

LEMMA JobLists ==
  ASSUME SInv, SpeakerLists, NEW j \in Speaker!Replies, Speaker!JobStep(j)
  PROVE  SpeakerLists'
<1> USE DEF Speaker!callVars
<1>1. /\ SpeakerTyping /\ InLineOnce /\ asked \in Seq(Speaker!Replies) /\ answers \in Seq(Speaker!Replies)
      /\ job \in [Speaker!Replies -> Speaker!JobStates]
  BY DEF SInv, SpeakerLists, SpeakerTyping
\* The end of speak(), and the beginning of a playback.
<1>2. ASSUME NEW raised, Speaker!Over(j, raised), UNCHANGED <<adapter, interrupted>>, Worked PROVE SpeakerLists'
  <2>1. /\ \A k \in Speaker!Replies \ {j} : job'[k] = job[k]
        /\ line' = Speaker!Without(j) /\ failed' \in {failed, failed \cup {j}}
        /\ jobsCancelled' = jobsCancelled \ {j}
    BY <1>1, <1>2 DEF Speaker!Over
  <2>2. InLineOnce'
    BY <1>1, <2>1, LineStep
  <2> QED  BY <1>2, <2>1, <2>2, ListsKept
<1>3. ASSUME NEW s \in Speaker!JobStates, job' = [job EXCEPT ![j] = s],
             \/ line' = line /\ (job[j] \in Outside \/ s \notin Outside)
             \/ line' = Speaker!Without(j)
             \/ line' = Append(line, j) /\ job[j] \in Outside /\ s \notin Outside,
             UNCHANGED <<adapter, interrupted, failed>>, Worked,
             jobsCancelled' \in {jobsCancelled, jobsCancelled \ {j}}
      PROVE  SpeakerLists'
  <2>1. job'[j] = s /\ \A k \in Speaker!Replies \ {j} : job'[k] = job[k]
    BY <1>1, <1>3
  <2>2. InLineOnce'
    BY <1>1, <1>3, <2>1, LineStep
  <2> QED  BY <1>3, <2>2, ListsKept
<1>4. CASE Speaker!Begin(j)
  <2>1. /\ UNCHANGED <<adapter, interrupted, failed, jobsCancelled>> /\ job[j] = "created"
        /\ \/ job' = [job EXCEPT ![j] = "queued"] /\ line' = Append(line, j)
           \/ job' = [job EXCEPT ![j] = "clearing"] /\ line' = line
        /\ UNCHANGED Speaker!workerVars \/ Speaker!DiscardUnless(playing)
    BY <1>4 DEF Speaker!Begin
  <2>2. Worked
    BY <2>1, WorkedFacts
  <2> QED  BY <1>3, <2>1, <2>2 DEF Outside, Speaker!JobStates
<1>5. CASE Speaker!Clear(j)
  <2>1. /\ UNCHANGED <<adapter, interrupted, failed, jobsCancelled>> /\ job[j] = "clearing"
        /\ \/ job' = [job EXCEPT ![j] = "queued"] /\ line' = Append(line, j)
           \/ job' = [job EXCEPT ![j] = "making"] /\ line' = line
        /\ UNCHANGED Speaker!workerVars \/ Speaker!Discard
    BY <1>5 DEF Speaker!Clear
  <2>2. Worked
    BY <2>1, WorkedFacts
  <2> QED  BY <1>3, <2>1, <2>2 DEF Outside, Speaker!JobStates
<1>6. CASE Speaker!Enter(j)
  <2>1. UNCHANGED <<adapter, interrupted, answers>> /\ asked' \in {asked, Append(asked, j)}
    BY <1>6 DEF Speaker!Enter
  <2>2. Worked
    BY <1>1, <2>1, AskedFacts DEF Worked
  <2>3. \/ Speaker!Over(j, TRUE)
        \/ /\ UNCHANGED <<jobsCancelled, failed, line>>
           /\ job' = [job EXCEPT ![j] = "playing"] \/ job' = [job EXCEPT ![j] = "making"]
    BY <1>6 DEF Speaker!Enter
  <2> QED  BY <1>2, <1>3, <2>1, <2>2, <2>3 DEF Outside, Speaker!JobStates
<1>7. CASE Speaker!Made(j)
  <2>1. /\ UNCHANGED <<adapter, interrupted, asked>>
        /\ answers' = answers \/ (answers # <<>> /\ answers' = Tail(answers))
        /\ Speaker!Over(j, TRUE) \/ Speaker!Play(j)
    BY <1>7 DEF Speaker!Made
  <2>2. Worked
    BY <1>1, <2>1, AskedFacts DEF Worked
  <2>3. Speaker!Play(j) => /\ job' = [job EXCEPT ![j] = "playing"] /\ line' = Speaker!Without(j)
                           /\ UNCHANGED <<jobsCancelled, failed>>
    BY DEF Speaker!Play
  <2>4. "playing" \in Speaker!JobStates
    BY DEF Speaker!JobStates
  <2> QED  BY <1>2, <1>3, <2>1, <2>2, <2>3, <2>4
<1>8. CASE Speaker!Played(j)
  <2>1. UNCHANGED <<adapter, interrupted, Speaker!workerVars>> /\ \E raised \in BOOLEAN : Speaker!Over(j, raised)
    BY <1>8 DEF Speaker!Played
  <2>2. Worked
    BY <2>1, WorkedFacts
  <2> QED  BY <1>2, <2>1, <2>2
<1>9. CASE Speaker!Quit(j)
  <2>1. UNCHANGED <<adapter, interrupted, Speaker!workerVars>>
    BY <1>9 DEF Speaker!Quit
  <2>2. Worked
    BY <2>1, WorkedFacts
  <2>3. \/ Speaker!Over(j, FALSE)
        \/ /\ job' = [job EXCEPT ![j] = "aborting"] /\ line' \in {line, Speaker!Without(j)}
           /\ UNCHANGED failed /\ jobsCancelled' = jobsCancelled \ {j}
    BY <1>9 DEF Speaker!Quit
  <2> QED  BY <1>2, <1>3, <2>1, <2>2, <2>3 DEF Outside, Speaker!JobStates
<1>10. CASE Speaker!Aborted(j)
  <2>1. UNCHANGED <<adapter, interrupted>> /\ Speaker!Discard /\ Speaker!Over(j, FALSE)
    BY <1>10 DEF Speaker!Aborted
  <2>2. Worked
    BY <2>1, WorkedFacts
  <2> QED  BY <1>2, <2>1, <2>2
<1> QED  BY <1>4, <1>5, <1>6, <1>7, <1>8, <1>9, <1>10 DEF Speaker!JobStep

LEMMA SpeakerListsInitially == VoiceInit => SpeakerLists
<1> SUFFICES ASSUME Speaker!Init PROVE SpeakerLists
  BY DEF VoiceInit, VoiceParts
<1>1. line = <<>> /\ asked = <<>> /\ answers = <<>> /\ adapter \in Adapters
      /\ interrupted = {} /\ jobsCancelled = {} /\ failed = {}
  BY DEF Speaker!Init
<1> QED  BY <1>1 DEF SpeakerLists, InLineOnce

LEMMA SpeakerListsStepwise ==
  SInv /\ SpeakerLists /\ [VoiceNext]_<<part, vars, whisperVars, speakerVars>> => SpeakerLists'
<1> SUFFICES ASSUME SInv, SpeakerLists, [VoiceNext]_<<part, vars, whisperVars, speakerVars>>
             PROVE  SpeakerLists'
  OBVIOUS
<1>1. CASE UNCHANGED speakerVars
  BY <1>1 DEF speakerVars, SpeakerLists, InLineOnce
<1>2. ASSUME NEW j \in Speaker!Replies, Speaker!Say(j) PROVE SpeakerLists'
  <2>1. /\ job' = [job EXCEPT ![j] = "created"] /\ job[j] = "none"
        /\ UNCHANGED <<adapter, interrupted, jobsCancelled, failed, line, Speaker!workerVars>>
    BY <1>2 DEF Speaker!Say, SInv, Sequel
  <2>2. \A k \in Speaker!Replies \ {j} : job'[k] = job[k]
    BY <2>1 DEF SInv, SpeakerTyping
  <2>3. InLineOnce'
    BY <2>1, <2>2, LineStep DEF SpeakerLists, Outside
  <2>4. Worked
    BY <2>1, WorkedFacts
  <2> QED  BY <2>1, <2>3, <2>4, ListsKept
<1>3. CASE Speaker!Answer
  <2>1. /\ UNCHANGED <<adapter, interrupted, job, jobsCancelled, failed, line>> /\ asked # <<>>
        /\ asked' = Tail(asked) /\ answers' = Append(answers, Head(asked))
    BY <1>3 DEF Speaker!Answer, Speaker!callVars, Speaker!jobVars
  <2>2. Tail(asked) \in Seq(Speaker!Replies) /\ Append(answers, Head(asked)) \in Seq(Speaker!Replies)
    BY <2>1, HeadTailProperties, AppendProperties DEF SpeakerLists
  <2> QED  BY <2>1, <2>2 DEF SpeakerLists, InLineOnce
<1>4. CASE Speaker!Next
  BY <1>2, <1>3, <1>4, TaskLists, JobLists DEF Speaker!Next
<1> QED  BY <1>1, <1>4 DEF VoiceNext

-----------------------------------------------------------------------------
\* The variables of the controller, of the recogniser and of the reply processes keep their types:
\* each waits for a lock once, and nothing is heard or answered that was not asked for.
THEOREM VoiceTyped == VoiceSpec => []VoiceTypes
<1> DEFINE Typed == IInv /\ HInv /\ HearerBounds /\ SInv /\ SpeakerLists
<1>1. VoiceInit => Typed
  <2>1. VoiceInit => Init
    BY DEF VoiceInit, VoiceParts
  <2> QED  BY <2>1, Initially, HInitially, HearerBoundsInitially, SInitially, SpeakerListsInitially
<1>2. Typed /\ [VoiceNext]_<<part, vars, whisperVars, speakerVars>> => Typed'
  <2> SUFFICES ASSUME Typed, [VoiceNext]_<<part, vars, whisperVars, speakerVars>> PROVE Typed'
    OBVIOUS
  <2>1. [Next]_vars
    BY DEF VoiceNext
  <2>2. IInv'
    BY <2>1, Stepwise
  <2> QED  BY <2>2, HStepwise, HearerBoundsStepwise, SStepwise, SpeakerListsStepwise
<1>3. Typed => VoiceTypes
  <2> SUFFICES ASSUME Typed PROVE TypeOK /\ Whisper!TypeOK /\ Speaker!TypeOK
    BY DEF VoiceTypes
  <2>1. TypeOK
    BY DEF IInv
  <2>2. Whisper!TypeOK
    <3>1. HearerTyping /\ HearerBounds
      BY DEF HInv
    <3>2. \A p \in Whisper!Workers : /\ worker[p].life \in {"unborn", "loading", "serving", "dead"}
                                     /\ worker[p].busy \in BOOLEAN /\ worker[p].stream \in 0..sequence
      BY <3>1 DEF HearerTyping, HearerBounds, WorkerStates
    <3>3. \A i \in DOMAIN transcripts : transcripts[i] \in 0..sequence
      <4>1. \A i \in DOMAIN transcripts : transcripts[i] \in Nat
        BY <3>1, ElementOfSeq DEF HearerTyping
      <4> QED  BY <3>1, <4>1 DEF HearerBounds, HearerTyping, Given
    <3>4. \A c \in Whisper!Callers : /\ call[c].op \in Whisper!Operations /\ call[c].at \in Whisper!Places
                                     /\ call[c].reply \in Whisper!Replies
      BY <3>1 DEF HearerTyping, CallStates
    <3>5. Whisper!IsInjective(lifecycle) /\ Whisper!ToSet(lifecycle) \subseteq Whisper!Callers
      BY <3>1 DEF HearerTyping, Lines, Whisper!IsInjective, Whisper!ToSet, Whisper!Callers
    <3> QED  BY <3>1, <3>2, <3>3, <3>4, <3>5 DEF Whisper!TypeOK, HearerTyping, HearerBounds
  <2>3. Speaker!TypeOK
    <3>1. SpeakerTyping /\ SpeakerLists /\ InLineOnce
      BY DEF SInv, SpeakerLists
    <3>2. Speaker!IsInjective(line) /\ Speaker!ToSet(line) \subseteq Speaker!Replies
      BY <3>1, ElementOfSeq DEF InLineOnce, Speaker!IsInjective, Speaker!ToSet
    <3>3. Speaker!ToSet(asked) \cup Speaker!ToSet(answers) \subseteq Speaker!Replies
      BY <3>1, ElementOfSeq DEF SpeakerLists, Speaker!ToSet
    <3> QED  BY <3>1, <3>2, <3>3 DEF Speaker!TypeOK, SpeakerTyping, SpeakerLists
  <2> QED  BY <2>1, <2>2, <2>3
<1> HIDE DEF Typed
<1> QED  BY <1>1, <1>2, <1>3, PTL DEF VoiceSpec
=============================================================================
