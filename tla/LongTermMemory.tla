--------------------------- MODULE LongTermMemory ---------------------------
(***************************************************************************)
(* Long-term memory (memory/service.py, providers.py, extractors.py) and   *)
(* the calls upon it: a turn asks for context and hands in what was said,  *)
(* the dashboard (backend/routes/memory.py) lists, edits, deletes and      *)
(* clears, the shutdown (backend/main.py) closes.                          *)
(*                                                                         *)
(* A call waits for the store's lock and for a thread that does the work   *)
(* in one transaction.  A thread cannot be cancelled: a call that gives up *)
(* its await leaves it behind, and its lock free.                          *)
(***************************************************************************)
EXTENDS Naturals

CONSTANTS Facts,       \* what can be remembered
          MaxCalls     \* bound of the model: calls

MemoryBounds == MaxCalls \in Nat

Calls == 1..MaxCalls
NoCall == 0
NoRecord == 0
Reads == {"context", "list"}
Edits == {"delete", "update", "clear"}

VARIABLES
  provider,     \* "none", "sqlite" or "hindsight"
  extraction,   \* "deterministic" or "llm"
  call,         \* the calls: kind, fact, record, stage and answer
  lock,         \* the call that holds the lock of the store
  initialized,  \* whether the table is known to exist
  record,       \* the id of the record of each fact
  old,          \* facts past the retention time
  nextId,
  pending,      \* the observations that close() found at work
  cut           \* the time limit of the shutdown cut close() short

vars == <<provider, extraction, call, lock, initialized, record, old, nextId, pending, cut>>

Unused == [kind |-> "none", fact |-> "none", id |-> NoRecord, stage |-> "none", answer |-> "none"]

Init ==
  /\ provider \in {"none", "sqlite", "hindsight"}
  /\ extraction \in {"deterministic", "llm"}
  /\ call = [c \in Calls |-> Unused]
  /\ lock = NoCall /\ initialized = FALSE
  /\ record = [f \in Facts |-> NoRecord] /\ old = {} /\ nextId = 1
  /\ pending = {} /\ cut = FALSE

-----------------------------------------------------------------------------
\* A slip in the operator that follows.
EntersOnceReady(kind) == IF provider = "sqlite" /\ ~initialized THEN "waits" ELSE "works"

\* _ensure_ready and the lock: a read needs the lock only to create the table.
Enters(kind) ==
  IF provider # "sqlite" THEN "works"
  ELSE IF kind \in Reads /\ initialized THEN "works"
  ELSE "waits"

\* A call arrives.  Hindsight does not edit, and no provider means that there is nothing to do.
Arrive(c, kind, f, id) ==
  /\ call[c] = Unused /\ \A e \in 1..(c - 1) : call[e] # Unused
  /\ LET refused == kind \in Edits /\ provider = "hindsight"
         stage == IF kind = "observe" /\ extraction = "llm" THEN "extracts"
                  ELSE IF kind = "close" THEN "closes"
                  ELSE IF refused THEN "done" ELSE Enters(kind)
     IN call' = [call EXCEPT ![c] = [kind |-> kind, fact |-> f, id |-> id, stage |-> stage,
                                     answer |-> IF refused THEN "refused" ELSE "none"]]
  /\ pending' = IF kind # "close" THEN pending
                ELSE {o \in Calls : call[o].kind = "observe" /\ call[o].stage # "done"}
  /\ UNCHANGED <<provider, extraction, lock, initialized, record, old, nextId, cut>>

\* Nothing is said once the conversation is closed, which is before the memory is.
Observe(c, f) ==
  /\ \A e \in Calls : call[e].kind # "close"
  /\ Arrive(c, "observe", f, NoRecord)

Close(c) ==
  /\ \A e \in Calls : call[e].kind # "close"
  /\ Arrive(c, "close", "none", NoRecord)

Ask(c) ==
  \/ \E kind \in Reads \cup {"clear"} : Arrive(c, kind, "none", NoRecord)
  \/ \E id \in 1..(nextId - 1) :
       \/ Arrive(c, "delete", "none", id)
       \/ \E f \in Facts : Arrive(c, "update", f, id)

\* The language model found the fact, found nothing, or failed.
Extracted(c) ==
  /\ call[c].stage = "extracts"
  /\ \E stage \in {Enters("observe"), "done"} : call' = [call EXCEPT ![c].stage = stage]
  /\ UNCHANGED <<provider, extraction, lock, initialized, record, old, nextId, pending, cut>>

-----------------------------------------------------------------------------
\* The lock is taken, to create the table or to work.
Acquire(c) ==
  /\ call[c].stage = "waits" /\ lock = NoCall
  /\ LET reads == initialized /\ call[c].kind \in Reads IN
     /\ lock' = IF reads THEN NoCall ELSE c
     /\ call' = [call EXCEPT ![c].stage = IF initialized THEN "works" ELSE "creates"]
  /\ UNCHANGED <<provider, extraction, initialized, record, old, nextId, pending, cut>>

Created(c) ==
  /\ call[c].stage = "creates"
  /\ initialized' = TRUE /\ lock' = NoCall
  /\ call' = [call EXCEPT ![c].stage = IF call[c].kind \in Reads THEN "works" ELSE "waits"]
  /\ UNCHANGED <<provider, extraction, record, old, nextId, pending, cut>>

\* _purge_expired_sync comes first in every transaction but those that delete.
Purged(kind) ==
  IF kind \in {"delete", "clear"} \/ provider # "sqlite" THEN record
  ELSE [f \in Facts |-> IF f \in old THEN NoRecord ELSE record[f]]

\* The record of an id, in a table.
Holds(table, id) == {f \in Facts : table[f] = id}

\* One transaction: the table it leaves and the answer of the call.
Result(k) ==
  LET table == Purged(k.kind)
      moved == [f \in Facts |-> IF f = k.fact THEN k.id
                                ELSE IF table[f] = k.id THEN NoRecord ELSE table[f]]
  IN IF provider = "none" THEN [table |-> record, answer |-> "empty"] ELSE
     CASE k.kind \in Reads -> [table |-> table, answer |-> "rows"]
       [] k.kind = "observe" ->
            [table |-> IF table[k.fact] = NoRecord THEN [table EXCEPT ![k.fact] = nextId] ELSE table,
             answer |-> "kept"]
       [] k.kind = "delete" ->
            [table |-> [f \in Facts |-> IF table[f] = k.id THEN NoRecord ELSE table[f]],
             answer |-> IF Holds(table, k.id) = {} THEN "missing" ELSE "gone"]
       [] k.kind = "clear" -> [table |-> [f \in Facts |-> NoRecord], answer |-> "gone"]
       [] k.kind = "update" ->
            IF Holds(table, k.id) = {} \/ table[k.fact] \notin {NoRecord, k.id}
            THEN [table |-> table, answer |-> "missing"]
            ELSE [table |-> moved, answer |-> "changed"]

\* The effect of a thread that ends.
Commit(k) ==
  LET r == Result(k)
      refreshed == IF k.kind \in {"observe", "update"} /\ r.answer # "missing" THEN {k.fact} ELSE {}
  IN /\ record' = r.table
     /\ old' = {f \in old : r.table[f] # NoRecord} \ refreshed
     /\ nextId' = IF \E f \in Facts : r.table[f] = nextId THEN nextId + 1 ELSE nextId

Work(c) ==
  /\ call[c].stage = "works"
  /\ Commit(call[c])
  /\ call' = [call EXCEPT ![c].stage = "done", ![c].answer = Result(call[c]).answer]
  /\ lock' = IF lock = c THEN NoCall ELSE lock
  /\ UNCHANGED <<provider, extraction, initialized, pending, cut>>

\* The thread raises: the database is locked or the service is away.
Fail(c) ==
  /\ call[c].stage \in {"creates", "works"}
  /\ call' = [call EXCEPT ![c].stage = "done", ![c].answer = "failed"]
  /\ lock' = IF lock = c THEN NoCall ELSE lock
  /\ UNCHANGED <<provider, extraction, initialized, record, old, nextId, pending, cut>>

-----------------------------------------------------------------------------
\* A call is cancelled: what it waited for is given up, a thread is left behind.
Abandoned(c, k) ==
  [k EXCEPT !.answer = "given_up",
            !.stage = IF k.stage = "works" /\ provider # "none" THEN "left" ELSE "done"]

\* asyncio.timeout in context().
Deadline(c) ==
  /\ call[c].kind = "context" /\ call[c].stage \in {"waits", "creates", "works"}
  /\ call' = [call EXCEPT ![c] = Abandoned(c, @)]
  /\ lock' = IF lock = c THEN NoCall ELSE lock
  /\ UNCHANGED <<provider, extraction, initialized, record, old, nextId, pending, cut>>

\* A thread that was left behind ends.
LeftEnds(c) ==
  /\ call[c].stage = "left"
  /\ Commit(call[c]) \/ UNCHANGED <<record, old, nextId>>
  /\ call' = [call EXCEPT ![c].stage = "done"]
  /\ UNCHANGED <<provider, extraction, lock, initialized, pending, cut>>

\* close() returns when the writes it found have ended, whatever became of them.
Closed(c) ==
  /\ call[c].stage = "closes"
  /\ \A o \in pending : call[o].stage = "done"
  /\ call' = [call EXCEPT ![c].stage = "done"]
  /\ UNCHANGED <<provider, extraction, lock, initialized, record, old, nextId, pending, cut>>

\* The shutdown waits two seconds; then close() is cancelled, and with it the write it awaits.
CloseCut(c) ==
  /\ call[c].stage = "closes"
  /\ \E o \in pending :
       /\ call[o].stage # "done"
       /\ call' = [call EXCEPT ![c].stage = "done", ![o] = Abandoned(o, @)]
       /\ lock' = IF lock = o THEN NoCall ELSE lock
  /\ cut' = TRUE
  /\ UNCHANGED <<provider, extraction, initialized, record, old, nextId, pending>>

\* A record passes the retention time.
Expire(f) ==
  /\ provider = "sqlite" /\ record[f] # NoRecord /\ f \notin old
  /\ old' = old \cup {f}
  /\ UNCHANGED <<provider, extraction, call, lock, initialized, record, nextId, pending, cut>>

Next ==
  \/ \E c \in Calls :
       \/ \E f \in Facts : Observe(c, f)
       \/ Ask(c) \/ Close(c) \/ Extracted(c) \/ Acquire(c) \/ Created(c) \/ Work(c) \/ Fail(c)
       \/ Deadline(c) \/ LeftEnds(c) \/ Closed(c) \/ CloseCut(c)
  \/ \E f \in Facts : Expire(f)

\* Timers fire and close() returns when it can, which every call does once; threads and models may
\* hang.
Timers == \E c \in Calls : Deadline(c) \/ CloseCut(c) \/ Closed(c)

Spec == Init /\ [][Next]_vars /\ WF_vars(Timers)

-----------------------------------------------------------------------------
TypeOK ==
  /\ lock \in Calls \cup {NoCall}
  /\ record \in [Facts -> 0..MaxCalls]
  /\ old \subseteq Facts /\ pending \subseteq Calls /\ {initialized, cut} \subseteq BOOLEAN
  /\ \A c \in Calls :
       call[c].stage \in {"none", "extracts", "waits", "creates", "works", "left", "closes", "done"}

Changes(c) == call[c].kind \in Edits \cup {"observe"} /\ call[c].stage \in {"works", "left"}

\* Two threads that change the store never work at once, unless the shutdown was cut short; an id
\* is the id of one fact; and a close() that returned in time left no write of the conversation
\* behind (providers.py:95-205, service.py:50-91, main.py:361-383).
MemoryIsKept ==
  /\ (provider = "sqlite" /\ ~cut) => \A c, d \in Calls : Changes(c) /\ Changes(d) => c = d
  /\ \A f, g \in Facts : record[f] = record[g] => (f = g \/ record[f] = NoRecord)
  /\ (\E c \in Calls : call[c].kind = "close" /\ call[c].stage = "done") =>
       (cut \/ \A c \in Calls : call[c].kind = "observe" => call[c].stage = "done")

\* A turn that asks for context goes on, and the shutdown comes to its end, whatever the store
\* does (service.py:38-48, main.py:361-373).
MemoryAnswers ==
  \A c \in Calls :
    /\ call[c].kind = "context" ~> call[c].stage \in {"left", "done"}
    /\ call[c].kind = "close" ~> call[c].stage = "done"
=============================================================================
