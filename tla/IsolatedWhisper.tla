--------------------------- MODULE IsolatedWhisper ---------------------------
(***************************************************************************)
(* IsolatedFasterWhisperAdapter                                            *)
(* (voice/stt/isolated_faster_whisper.py) and the process it supervises    *)
(* (voice/workers/stt_service.py): the microphone and the recogniser live  *)
(* in a worker that obeys commands, one line each, and answers with lines. *)
(*                                                                         *)
(* Two tasks call the adapter: those of SpeechController, one call after   *)
(* the other, any of which may be cancelled, and the shutdown.  A session  *)
(* is named by the number of the start command that opened it; a           *)
(* transcript is the session in which it was spoken.                       *)
(***************************************************************************)
EXTENDS Naturals, Sequences, FiniteSets, SequencesExt

CONSTANTS Configs,      \* what a worker is started with: model, language, ...
          MaxCalls,     \* bound: calls of the controller
          MaxUtterances,\* bound: what is said to an open microphone
          MaxFaults     \* bound: crashes of a worker, and cancelled calls

WhisperBounds == {MaxCalls, MaxUtterances, MaxFaults} \subseteq Nat

Callers == {"controller", "shutdown"}
Operations == {"none", "prepare", "start", "finish", "stop", "close"}
Workers == 1..MaxCalls    \* a call starts one at most
End == 0                \* the None that ends an iteration over the transcripts

VARIABLES
  started, closed,      \* _started, _closed
  loaded,               \* _signature
  process, reading,     \* _process, and whose output _reader_task reads; 0 for None
  isReady,              \* _ready: "open", "set" or "failed"
  worker,               \* what each process is at
  transcripts,          \* _queue
  lifecycle,            \* _lifecycle_lock: its holder, then those that wait
  call,                 \* what each caller is at
  sequence,             \* _command_sequence
  session,              \* the session whose transcripts the controller reads
  reader,               \* how its iteration stands: "none", "reads", "over"
  heard,                \* the last transcript it took in that session, End for none
  astray,               \* a start or stop was given up, and no stop has succeeded since
  calls, said, faults   \* counters of the bounds

adapter == <<started, closed, loaded, process, reading, isReady, transcripts>>
reads == <<session, reader, heard>>
counts == <<calls, said, faults>>
whisperVars == <<adapter, worker, lifecycle, call, sequence, reads, astray, counts>>

Places == {"idle", "lock", "closing", "spawning", "loading", "failing", "waiting"}
Replies == {"none", "awaited", "ok", "failed"}
Idle == [op |-> "none", at |-> "idle", config |-> "none", id |-> 0, reply |-> "none"]
Unborn == [life |-> "unborn", inbox |-> <<>>, stream |-> 0, busy |-> FALSE]

Command(name, id) == [name |-> name, id |-> id]

Init ==
  /\ started = FALSE /\ closed = FALSE
  /\ loaded = "none"
  /\ process = 0 /\ reading = 0
  /\ isReady = "open"
  /\ worker = [p \in Workers |-> Unborn]
  /\ transcripts = <<>>
  /\ lifecycle = <<>>
  /\ call = [c \in Callers |-> Idle]
  /\ sequence = 0
  /\ session = 0 /\ reader = "none" /\ heard = End
  /\ astray = FALSE
  /\ calls = 0 /\ said = 0 /\ faults = 0

Alive(p) == p # 0 /\ worker[p].life \in {"loading", "serving"}
Holds(c) == lifecycle # <<>> /\ Head(lifecycle) = c

-----------------------------------------------------------------------------
(* The steps that the operations share *)

\* The operation is over for c, which gives back the lock or, last in line behind the one
\* other caller, no longer waits for it.
Leave(c) ==
  /\ call' = [call EXCEPT ![c] = Idle]
  /\ lifecycle' = IF Holds(c) THEN Tail(lifecycle)
                  ELSE IF lifecycle # <<>> THEN <<Head(lifecycle)>> ELSE <<>>

At(c, place) == call' = [call EXCEPT ![c].at = place]

\* _command() up to the wait for its answer.
Send(c, name) ==
  /\ sequence' = sequence + 1
  /\ worker' = [worker EXCEPT ![process].inbox = Append(@, Command(name, sequence + 1))]
  /\ call' = [call EXCEPT ![c].at = "waiting", ![c].id = sequence + 1, ![c].reply = "awaited"]

\* The finally of _read_worker(), while c does something else.
Unanswered(c) ==
  [d \in Callers |->
     IF d # c /\ call[d].reply = "awaited" THEN [call[d] EXCEPT !.reply = "failed"] ELSE call[d]]

ReaderEnds ==
  /\ reading' = 0
  /\ isReady' = IF isReady = "open" THEN "failed" ELSE isReady
  /\ transcripts' = Append(transcripts, End)

\* _close_worker() up to the wait for the process: it is terminated.
Terminate(c, place) ==
  /\ process' = 0
  /\ worker' = IF Alive(process) THEN [worker EXCEPT ![process].life = "dead"] ELSE worker
  /\ At(c, place)

\* A slip: the queue is not drained.
ProceedUndrained(c) ==
  IF call[c].op = "start" /\ Alive(process)
    THEN /\ Send(c, "start")
         /\ lifecycle' = Tail(lifecycle)
         /\ UNCHANGED transcripts
    ELSE /\ Leave(c)
         /\ UNCHANGED <<sequence, worker, transcripts>>

\* prepare() found or made the worker it wants.  start() goes on without a pause: what
\* an earlier session left in the queue is dropped, and the command is written.
Proceed(c) ==
  IF call[c].op = "start" /\ Alive(process)
    THEN /\ Send(c, "start")
         /\ lifecycle' = Tail(lifecycle)
         /\ transcripts' = <<>>
    ELSE /\ Leave(c)
         /\ transcripts' = IF call[c].op = "start" THEN <<>> ELSE transcripts
         /\ UNCHANGED <<sequence, worker>>

-----------------------------------------------------------------------------
(* The calls of SpeechController and of the shutdown *)

Enter(c, op, config) ==
  [call EXCEPT ![c] = [Idle EXCEPT !.op = op, !.config = config, !.at = "lock"]]

CanCall == call["controller"] = Idle /\ calls < MaxCalls

\* A slip: prepare() does not refuse when the adapter is closed.
OpenUnchecked ==
  \E op \in {"prepare", "start"}, config \in Configs :
    /\ CanCall /\ ~started
    /\ calls' = calls + 1
    /\ call' = Enter("controller", op, config)
    /\ lifecycle' = Append(lifecycle, "controller")
    /\ UNCHANGED <<adapter, worker, sequence, reads, astray, said, faults>>

\* prepare() and start() up to the lock.  A session that is on is not started again,
\* and nothing is prepared for another model while it is on.  prepare() refuses when closed.
Open ==
  \E op \in {"prepare", "start"}, config \in Configs :
    /\ CanCall /\ ~started /\ ~closed
    /\ calls' = calls + 1
    /\ call' = Enter("controller", op, config)
    /\ lifecycle' = Append(lifecycle, "controller")
    /\ UNCHANGED <<adapter, worker, sequence, reads, astray, said, faults>>

\* finish_utterance(): the command, or at once an exception when the worker is gone.
Finish ==
  /\ CanCall /\ started
  /\ calls' = calls + 1
  /\ IF Alive(process)
       THEN /\ sequence' = sequence + 1
            /\ worker' = [worker EXCEPT ![process].inbox =
                            Append(@, Command("finish", sequence + 1))]
            /\ call' = [call EXCEPT !["controller"] =
                 [op |-> "finish", at |-> "waiting", config |-> "none",
                  id |-> sequence + 1, reply |-> "awaited"]]
       ELSE UNCHANGED <<sequence, worker, call>>
  /\ UNCHANGED <<adapter, lifecycle, reads, astray, said, faults>>

\* stop() of a session that is on; the controller has cancelled its reader before.
Stop ==
  /\ CanCall /\ started
  /\ calls' = calls + 1
  /\ started' = FALSE
  /\ reader' = "none" /\ heard' = End
  /\ IF Alive(process)
       THEN /\ sequence' = sequence + 1
            /\ worker' = [worker EXCEPT ![process].inbox =
                            Append(@, Command("stop", sequence + 1))]
            /\ call' = [call EXCEPT !["controller"] =
                 [op |-> "stop", at |-> "waiting", config |-> "none",
                  id |-> sequence + 1, reply |-> "awaited"]]
            /\ UNCHANGED lifecycle
       ELSE /\ call' = Enter("controller", "stop", "none")
            /\ lifecycle' = Append(lifecycle, "controller")
            /\ UNCHANGED <<sequence, worker>>
  /\ UNCHANGED <<closed, loaded, process, reading, isReady, transcripts, session, astray,
                 said, faults>>

\* close() up to the lock.
Close ==
  /\ ~closed
  /\ closed' = TRUE /\ started' = FALSE
  /\ call' = Enter("shutdown", "close", "none")
  /\ lifecycle' = Append(lifecycle, "shutdown")
  /\ UNCHANGED <<loaded, process, reading, isReady, transcripts, worker, sequence, reads,
                 astray, counts>>

-----------------------------------------------------------------------------
(* Behind the lock *)

\* The worker is alive and loaded as wanted.
Reuse(c) ==
  /\ call[c].at = "lock" /\ Holds(c) /\ call[c].op \in {"prepare", "start"}
  /\ Alive(process) /\ loaded = call[c].config
  /\ Proceed(c)
  /\ UNCHANGED <<started, closed, loaded, process, reading, isReady, reads, astray, counts>>

\* Otherwise the old one goes first; stop() comes here when its command failed, and
\* close() when there is nobody to tell.
Recycle(c) ==
  /\ call[c].at = "lock" /\ Holds(c)
  /\ \/ call[c].op \in {"prepare", "start"} /\ ~(Alive(process) /\ loaded = call[c].config)
     \/ call[c].op = "stop"
     \/ call[c].op = "close" /\ ~Alive(process)
  /\ Terminate(c, "closing")
  /\ UNCHANGED <<started, closed, loaded, reading, isReady, transcripts, lifecycle, sequence,
                 reads, astray, counts>>

\* close() asks the worker to go.
Dismiss(c) ==
  /\ call[c].at = "lock" /\ Holds(c) /\ call[c].op = "close"
  /\ Alive(process)
  /\ Send(c, "shutdown")
  /\ UNCHANGED <<adapter, lifecycle, reads, astray, counts>>

\* The process is gone: its reader is cancelled, and runs its finally, unless it has
\* met the end of the output before.  stop() and close() end with a None of their own.
Closed(c) ==
  /\ call[c].at \in {"closing", "failing"}
  /\ LET left == IF reading # 0 THEN Append(transcripts, End) ELSE transcripts
     IN transcripts' = IF call[c].op \in {"stop", "close"} THEN Append(left, End) ELSE left
  /\ reading' = 0
  /\ isReady' = IF reading # 0 /\ isReady = "open" THEN "failed" ELSE isReady
  /\ IF call[c].at = "closing" /\ call[c].op \in {"prepare", "start"}
       THEN /\ call' = [(IF reading # 0 THEN Unanswered(c) ELSE call) EXCEPT ![c].at = "spawning"]
            /\ UNCHANGED lifecycle
       ELSE /\ call' = [(IF reading # 0 THEN Unanswered(c) ELSE call) EXCEPT ![c] = Idle]
            /\ lifecycle' = Tail(lifecycle)
  /\ loaded' = IF call[c].op = "stop" THEN "none" ELSE loaded
  /\ astray' = (astray /\ call[c].op # "stop")
  /\ UNCHANGED <<started, closed, process, worker, sequence, reads, counts>>

Spawn(c) ==
  /\ call[c].at = "spawning"
  /\ \E p \in Workers :
       /\ worker[p] = Unborn /\ \A q \in 1..(p - 1) : worker[q] # Unborn
       /\ worker' = [worker EXCEPT ![p].life = "loading"]
       /\ process' = p /\ reading' = p
  /\ isReady' = "open"
  /\ At(c, "loading")
  /\ UNCHANGED <<started, closed, loaded, transcripts, lifecycle, sequence, reads, astray,
                 counts>>

\* The worker says that it is ready.
Warm(c) ==
  /\ call[c].at = "loading" /\ isReady = "set"
  /\ loaded' = call[c].config
  /\ Proceed(c)
  /\ UNCHANGED <<started, closed, process, reading, isReady, reads, astray, counts>>

\* It ended before that, or has not said so in time.
Cold(c) ==
  /\ call[c].at = "loading" /\ isReady # "set"
  /\ Terminate(c, "failing")
  /\ UNCHANGED <<started, closed, loaded, reading, isReady, transcripts, lifecycle, sequence,
                 reads, astray, counts>>

\* A command was answered, or its reader ended.
Answered(c) ==
  /\ call[c].at = "waiting" /\ call[c].reply \in {"ok", "failed"}
  /\ CASE call[c].op = "start" /\ call[c].reply = "ok" ->
            /\ started' = TRUE
            /\ session' = call[c].id /\ reader' = "reads" /\ heard' = End
            /\ Leave(c)
            /\ UNCHANGED <<process, worker, transcripts, astray>>
       [] call[c].op = "stop" /\ call[c].reply = "ok" ->
            /\ transcripts' = Append(transcripts, End)
            /\ astray' = FALSE
            /\ Leave(c)
            /\ UNCHANGED <<started, process, worker, reads>>
       [] call[c].op = "stop" /\ call[c].reply = "failed" ->
            /\ call' = [call EXCEPT ![c].at = "lock", ![c].reply = "none"]
            /\ lifecycle' = Append(lifecycle, c)
            /\ UNCHANGED <<started, process, worker, transcripts, reads, astray>>
       [] call[c].op = "close" ->
            /\ Terminate(c, "closing")
            /\ UNCHANGED <<started, transcripts, lifecycle, reads, astray>>
       [] OTHER ->
            /\ Leave(c)
            /\ UNCHANGED <<started, process, worker, transcripts, reads, astray>>
  /\ UNCHANGED <<closed, loaded, reading, isReady, sequence, counts>>

\* The deadline of a command: its answer is not awaited any more.
TimeOut(c) ==
  /\ call[c].at = "waiting" /\ call[c].reply = "awaited"
  /\ call' = [call EXCEPT ![c].reply = "failed"]
  /\ astray' = (astray \/ call[c].op = "start")
  /\ UNCHANGED <<adapter, worker, lifecycle, sequence, reads, counts>>

\* The task that makes the call is cancelled at an await.  A process that is being
\* created is undone by asyncio; a command that was written stays written.
Cancel ==
  /\ call["controller"].at # "idle" /\ faults < MaxFaults
  /\ faults' = faults + 1
  /\ Leave("controller")
  /\ astray' = \/ astray
               \/ call["controller"].op = "stop"
               \/ call["controller"].op = "start" /\ call["controller"].at = "waiting"
  /\ UNCHANGED <<adapter, worker, sequence, reads, calls, said>>

-----------------------------------------------------------------------------
(* The reader of the worker's output, and the controller's of the transcripts *)

\* _read_worker() of what p says: an acknowledgement ends the wait for it, if somebody
\* still waits.  The pipe keeps the order, so that a line which is read late is as good
\* as a worker that is slow: both are one step.
Read(p, id, reply, spoken) ==
  IF reading = p
    THEN /\ transcripts' = transcripts \o spoken
         /\ call' = [c \in Callers |->
              IF call[c].reply = "awaited" /\ call[c].id = id
                THEN [call[c] EXCEPT !.reply = reply] ELSE call[c]]
    ELSE UNCHANGED <<transcripts, call>>

\* The output has ended.
Hangup ==
  /\ reading # 0 /\ worker[reading].life = "dead"
  /\ ReaderEnds
  /\ call' = Unanswered("nobody")
  /\ UNCHANGED <<started, closed, loaded, process, worker, lifecycle, sequence, reads, astray,
                 counts>>

\* SpeechController reads while a session is on, after start() and after finish().
Take ==
  /\ started /\ reader = "reads" /\ call["controller"] = Idle
  /\ transcripts # <<>>
  /\ transcripts' = Tail(transcripts)
  /\ IF Head(transcripts) = End
       THEN reader' = "over" /\ UNCHANGED heard
       ELSE heard' = Head(transcripts) /\ UNCHANGED reader
  /\ UNCHANGED <<started, closed, loaded, process, reading, isReady, worker, lifecycle, call,
                 sequence, session, astray, counts>>

-----------------------------------------------------------------------------
(* The worker *)

Load(p) ==
  /\ worker[p].life = "loading"
  /\ worker' = [worker EXCEPT ![p].life = "serving"]
  /\ isReady' = IF reading = p /\ isReady = "open" THEN "set" ELSE isReady
  /\ UNCHANGED <<started, closed, loaded, process, reading, transcripts, lifecycle, call, sequence,
                 reads, astray, counts>>

\* _handle_command(): opening a device or transcribing may fail.  If nothing was recorded,
\* the transcript is empty, and of the session that asks for it.
Obey(p) ==
  /\ worker[p].life = "serving" /\ ~worker[p].busy /\ worker[p].inbox # <<>>
  /\ LET w == worker[p]
         command == Head(w.inbox)
         rest == [w EXCEPT !.inbox = Tail(@), !.stream = 0]
         After(state) == worker' = [worker EXCEPT ![p] = state]
     IN \/ /\ command.name = "start"
           /\ After([rest EXCEPT !.stream = command.id])
           /\ Read(p, command.id, "ok", <<>>)
        \/ /\ command.name \in {"start", "finish"}
           /\ After(rest)
           /\ Read(p, command.id, "failed", <<>>)
        \/ /\ command.name = "finish"
           /\ After(rest)
           /\ Read(p, command.id, "ok", <<IF w.stream = 0 THEN session ELSE w.stream>>)
        \/ /\ command.name = "stop"
           /\ After(rest)
           /\ Read(p, command.id, "ok", <<>>)
        \/ /\ command.name = "shutdown"
           /\ After([rest EXCEPT !.life = "dead"])
           /\ Read(p, command.id, "ok", <<>>)
  /\ UNCHANGED <<started, closed, loaded, process, reading, isReady, lifecycle, sequence, reads,
                 astray, counts>>

\* _handle_audio() of a passive session: something was said, and is transcribed while
\* commands wait.
Speak(p) ==
  /\ worker[p].life = "serving" /\ worker[p].stream # 0
  /\ ~worker[p].busy /\ worker[p].inbox = <<>>
  /\ said < MaxUtterances
  /\ said' = said + 1
  /\ worker' = [worker EXCEPT ![p].busy = TRUE]
  /\ UNCHANGED <<adapter, lifecycle, call, sequence, reads, astray, calls, faults>>

Transcribe(p) ==
  /\ worker[p].life = "serving" /\ worker[p].busy
  /\ worker' = [worker EXCEPT ![p].busy = FALSE]
  /\ Read(p, 0, "none", <<worker[p].stream>>)
  /\ UNCHANGED <<started, closed, loaded, process, reading, isReady, lifecycle, sequence, reads,
                 astray, counts>>

\* The process dies, at any moment.
Crash(p) ==
  /\ worker[p].life \in {"loading", "serving"} /\ faults < MaxFaults
  /\ faults' = faults + 1
  /\ worker' = [worker EXCEPT ![p].life = "dead"]
  /\ UNCHANGED <<adapter, lifecycle, call, sequence, reads, astray, calls, said>>

-----------------------------------------------------------------------------
Working(c) ==
  \/ Reuse(c) \/ Recycle(c) \/ Dismiss(c) \/ Closed(c) \/ Spawn(c) \/ Warm(c) \/ Cold(c)
  \/ Answered(c) \/ TimeOut(c)

Serving(p) == Load(p) \/ Obey(p) \/ Speak(p) \/ Transcribe(p) \/ Crash(p)

Next ==
  \/ Open \/ Finish \/ Stop \/ Close \/ Cancel
  \/ \E c \in Callers : Working(c)
  \/ Hangup \/ Take
  \/ \E p \in Workers : Serving(p)

Spec ==
  /\ Init /\ [][Next]_whisperVars
  /\ \A c \in Callers : WF_whisperVars(Working(c))

-----------------------------------------------------------------------------
TypeOK ==
  /\ {started, closed, astray} \subseteq BOOLEAN
  /\ loaded \in Configs \cup {"none"}
  /\ {process, reading} \subseteq 0..MaxCalls
  /\ isReady \in {"open", "set", "failed"}
  /\ \A p \in Workers :
       /\ worker[p].life \in {"unborn", "loading", "serving", "dead"}
       /\ worker[p].busy \in BOOLEAN
       /\ worker[p].stream \in 0..sequence
  /\ \A i \in DOMAIN transcripts : transcripts[i] \in 0..sequence
  /\ \A c \in Callers : /\ call[c].op \in Operations /\ call[c].at \in Places
                        /\ call[c].reply \in Replies
  /\ IsInjective(lifecycle) /\ ToSet(lifecycle) \subseteq Callers
  /\ session \in 0..sequence /\ reader \in {"none", "reads", "over"}

\* What the controller is told in a session was said in that session: nothing of an
\* earlier one is left over, although a transcript may come after its session was
\* stopped.  Excepted: after a start or a stop that was given up.
TranscriptsAreFresh == (heard # End /\ ~astray) => heard = session

\* Between two calls the microphone is open for a session that is on only, and somebody
\* reads what it hears: also when stop() was not answered.  Excepted as before.
OpenIsHeard ==
  \A p \in Workers :
    (worker[p].stream # 0 /\ worker[p].life = "serving" /\ ~astray)
      => \/ \E c \in Callers : call[c] # Idle
         \/ started /\ p = process /\ session = worker[p].stream /\ reader = "reads"

\* There is one worker at most, whatever was cancelled, and none after close().
OneWorker ==
  /\ \A p \in Workers : Alive(p) => p = process
  /\ (closed /\ call["shutdown"] = Idle) => process = 0

\* Every call returns, even if the worker says nothing.
CallsReturn == \A c \in Callers : (call[c] # Idle) ~> (call[c] = Idle)
=============================================================================
