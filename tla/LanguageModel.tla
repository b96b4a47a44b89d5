--------------------------- MODULE LanguageModel ---------------------------
(***************************************************************************)
(* The language models behind the LLMAdapter port: LiteLLMAdapter          *)
(* (llm/litellm_adapter.py), LLMRouter with its retries and its fallback   *)
(* (llm/router.py), LLMSwitchboard (llm/switchboard.py), the streams that  *)
(* a turn and the extraction of memories take from them, and the routes    *)
(* that change backend, model, credential and web search meanwhile         *)
(* (backend/routes/llm.py).                                                *)
(*                                                                         *)
(* A generation is a stack of async generators, driven by one consumer.    *)
(* It suspends in acompletion(), between two chunks and in the pause       *)
(* before a retry; everything between two suspensions is one step, in      *)
(* which a whole series of attempts may fail.  The attempts of a           *)
(* generation are numbered through: those of the primary come first.       *)
(***************************************************************************)
EXTENDS Naturals, Sequences, FiniteSets

CONSTANTS Backends,        \* the named backends, each with an adapter
          Primary, Fallback, MemoryBackend,
          Attempts,        \* max(1, RouterRetryPolicy.attempts)
          MaxGenerations,  \* bound of the model: generations
          MaxChunks,       \* bound of the model: chunks of one answer
          MaxChanges       \* bound of the model: changes of the settings

BoundsAssumption ==
  /\ {Primary, Fallback, MemoryBackend} \subseteq Backends /\ Primary # Fallback
  /\ Attempts \in Nat \ {0}
  /\ MaxGenerations \in Nat /\ MaxChunks \in Nat /\ MaxChanges \in Nat

VARIABLES
  wiring,    \* what _build_llm or a caller of the library has put together
  active,    \* LLMSwitchboard._active
  settings,  \* model, web search and key of each adapter
  closed,    \* LiteLLMAdapter._closed, of all: close() closes them in one step
  stage,     \* where each generation is suspended
  user,      \* who consumes it
  chosen,    \* the backend that was active when it was asked for
  attempt,   \* the number of its attempt
  model,     \* the model its attempt was opened with
  why,       \* history: how each of its attempts failed
  called,    \* history: the attempts that reached a provider
  out,       \* history: the chunks its consumer received
  changes    \* changes of the settings so far

vars == <<wiring, active, settings, closed, stage, user, chosen, attempt, model, why, called,
          out, changes>>

Generations == 1..MaxGenerations

\* One attempt on the chosen backend, or up to Attempts on the primary and then the fallback.
Last == IF wiring = "router" THEN 2 * Attempts ELSE 1

Numbers == 1..(2 * Attempts)

\* The adapter of an attempt; b is the backend that the switchboard was asked for.
Adapter(b, k) ==
  IF wiring = "switchboard" THEN b
  ELSE IF k > Attempts THEN Fallback ELSE Primary

\* An OpenRouter model, and one that is none.
Models == {"openrouter", "other"}

\* "environment" is a variable that is set, "missing" one that is not.
Keys == {"environment", "missing", "session"}

Settings == [model : Models, web : BOOLEAN, key : Keys, environment : BOOLEAN]

Errors == {"transport", "auth"}

Stages == {"idle", "opening", "streaming", "pausing", "done", "cancelled"} \cup Errors

Suspended == {"opening", "streaming", "pausing"}

Init ==
  /\ wiring \in {"switchboard", "router"}
  /\ active = Primary
  /\ settings \in [Backends -> {s \in Settings :
                     /\ s.key = (IF s.environment THEN "environment" ELSE "missing")
                     /\ s.web => s.model = "openrouter"}]
  /\ closed = FALSE
  /\ stage = [g \in Generations |-> "idle"]
  /\ user = [g \in Generations |-> "turn"]
  /\ chosen = [g \in Generations |-> Primary]
  /\ attempt = [g \in Generations |-> 0]
  /\ model = [g \in Generations |-> "other"]
  /\ why = [g \in Generations |-> [k \in Numbers |-> "none"]]
  /\ called = [g \in Generations |-> {}]
  /\ out = [g \in Generations |-> <<>>]
  /\ changes = 0

-----------------------------------------------------------------------------
(* Attempts.  Operators named for a slip, here and below, are those that   *)
(* the mutants of PROJECT.json put in place of the one that follows them.  *)

\* How _stream() of the adapter fails before it calls the provider, if it does.
Refusal(b) ==
  IF closed THEN "transport"
  ELSE IF settings[b].web /\ settings[b].model # "openrouter" THEN "transport"
  ELSE IF settings[b].key = "missing" THEN "auth"
  ELSE "none"

\* An exhausted primary hands over to the fallback at once, without a pause.
HandsOver(k) == k = Attempts /\ k # Last

Failed(k) == [attempt |-> k, stage |-> IF k = Last THEN "transport" ELSE "pausing"]

\* What attempt number k comes to before anything suspends it.
Comes(b, k) ==
  CASE Refusal(Adapter(b, k)) = "none" -> [attempt |-> k, stage |-> "opening"]
    [] Refusal(Adapter(b, k)) = "auth" -> [attempt |-> k, stage |-> "auth"]
    [] OTHER                           -> Failed(k)

\* Where a generation is after attempt number k is begun.
Reached(b, k) ==
  IF Refusal(Adapter(b, k)) = "transport" /\ HandsOver(k) THEN Comes(b, k + 1) ELSE Comes(b, k)

\* Generation g is at r, having begun the attempts from number k; w tells of those before.
Goes(g, b, r, k, w) ==
  /\ stage' = [stage EXCEPT ![g] = r.stage]
  /\ attempt' = [attempt EXCEPT ![g] = r.attempt]
  /\ model' = IF r.stage = "opening"
                THEN [model EXCEPT ![g] = settings[Adapter(b, r.attempt)].model] ELSE model
  /\ called' = IF r.stage = "opening"
                 THEN [called EXCEPT ![g] = @ \cup {r.attempt}] ELSE called
  /\ why' = [why EXCEPT ![g] =
               [j \in Numbers |->
                  IF j < k \/ j > r.attempt THEN w[j]
                  ELSE IF j < r.attempt \/ r.stage \in {"pausing", "transport"} THEN "transport"
                  ELSE IF r.stage = "auth" THEN "auth" ELSE "none"]]

\* Attempt number k of generation g is begun.
Try(g, b, k) == Goes(g, b, Reached(b, k), k, why[g])

-----------------------------------------------------------------------------
(* The consumers *)

\* The model replied: a failure cuts a reply short and does not void it.
Replied(g) == stage[g] \in {"done"} \cup Errors /\ out[g] # <<>>

\* generate() and the first chunk asked for: by a turn, of which one is at work at a time, or
\* by the extraction of memories from a turn that replied, which has a backend of its own.
Begin(g, u) ==
  /\ stage[g] = "idle" /\ \A h \in Generations : h < g => stage[h] # "idle"
  /\ IF u = "turn"
       THEN \A h \in Generations : stage[h] \in Suspended => user[h] = "memory"
       ELSE \E h \in Generations : user[h] = "turn" /\ Replied(h)
  /\ user' = [user EXCEPT ![g] = u]
  /\ LET b == IF u = "turn" THEN active ELSE MemoryBackend
     IN chosen' = [chosen EXCEPT ![g] = b] /\ Try(g, b, 1)
  /\ UNCHANGED <<wiring, active, settings, closed, out, changes>>

\* The consumer is cancelled, and the generators below it are with it.
Cancel(g) ==
  /\ stage[g] \in Suspended
  /\ stage' = [stage EXCEPT ![g] = "cancelled"]
  /\ UNCHANGED <<wiring, active, settings, closed, user, chosen, attempt, model, why, called,
                 out, changes>>

-----------------------------------------------------------------------------
(* The provider, and what the generators do with its answer *)

Opened(g) ==
  /\ stage[g] = "opening"
  /\ stage' = [stage EXCEPT ![g] = "streaming"]
  /\ UNCHANGED <<wiring, active, settings, closed, user, chosen, attempt, model, why, called,
                 out, changes>>

\* The chunks of this attempt.
Emitted(g) == \E i \in DOMAIN out[g] : out[g][i].attempt = attempt[g]

Chunk(g) ==
  /\ stage[g] = "streaming" /\ Len(out[g]) < MaxChunks
  /\ out' = [out EXCEPT ![g] =
               Append(@, [attempt |-> attempt[g], adapter |-> Adapter(chosen[g], attempt[g]),
                          model |-> model[g]])]
  /\ UNCHANGED <<wiring, active, settings, closed, stage, user, chosen, attempt, model, why,
                 called, changes>>

Finish(g) ==
  /\ stage[g] = "streaming"
  /\ stage' = [stage EXCEPT ![g] = "done"]
  /\ UNCHANGED <<wiring, active, settings, closed, user, chosen, attempt, model, why, called,
                 out, changes>>

FatalIfRefused(g, e) == e = "auth"

\* Errors that are the consumer's: a wrong credential, and any failure after a chunk.
Fatal(g, e) == e = "auth" \/ Emitted(g)

\* The provider, the network or the request's time-out fails the attempt, which is followed by
\* a pause, or by the fallback, while there is one.
Fails(g, e) ==
  /\ stage[g] \in {"opening", "streaming"}
  /\ LET k == attempt[g]
         w == [why[g] EXCEPT ![k] = e]
         r == IF Fatal(g, e) THEN [attempt |-> k, stage |-> e]
              ELSE IF HandsOver(k) THEN Reached(chosen[g], k + 1) ELSE Failed(k)
     IN Goes(g, chosen[g], r, k + 1, w)
  /\ UNCHANGED <<wiring, active, settings, closed, user, chosen, out, changes>>

\* The pause is over.
Retry(g) ==
  /\ stage[g] = "pausing"
  /\ Try(g, chosen[g], attempt[g] + 1)
  /\ UNCHANGED <<wiring, active, settings, closed, user, chosen, out, changes>>

-----------------------------------------------------------------------------
(* The settings, of which the dashboard changes those of a switchboard *)

Changed == changes < MaxChanges /\ changes' = changes + 1

\* POST /llm/settings: the next generations are the new backend's.
Select(b) ==
  /\ Changed /\ wiring = "switchboard" /\ b # active
  /\ active' = b
  /\ UNCHANGED <<wiring, settings, closed, stage, user, chosen, attempt, model, why, called, out>>

SetAdapter(b, s) ==
  /\ Changed /\ wiring = "switchboard" /\ s # settings[b]
  /\ settings' = [settings EXCEPT ![b] = s]
  /\ UNCHANGED <<wiring, active, closed, stage, user, chosen, attempt, model, why, called, out>>

\* POST /llm/model
SelectModel(b, m) == SetAdapter(b, [settings[b] EXCEPT !.model = m])

\* POST /llm/web-search, refused for a model that is not OpenRouter's.
SetWebSearch(b, on) ==
  /\ on => settings[b].model = "openrouter"
  /\ SetAdapter(b, [settings[b] EXCEPT !.web = on])

\* POST /llm/credentials
SetKey(b) == SetAdapter(b, [settings[b] EXCEPT !.key = "session"])

ClearKey(b) ==
  SetAdapter(b, [settings[b] EXCEPT
                   !.key = IF settings[b].environment THEN "environment" ELSE "missing"])

\* close(): streams that are open go on.
Close ==
  /\ ~closed /\ closed' = TRUE
  /\ UNCHANGED <<wiring, active, settings, stage, user, chosen, attempt, model, why, called, out,
                 changes>>

-----------------------------------------------------------------------------
Answer(g) ==
  \/ Opened(g) \/ Chunk(g) \/ Finish(g)
  \/ \E e \in Errors : Fails(g, e)

Next ==
  \/ \E g \in Generations :
       \/ \E u \in {"turn", "memory"} : Begin(g, u)
       \/ Answer(g) \/ Retry(g) \/ Cancel(g)
  \/ \E b \in Backends :
       \/ Select(b) \/ SetKey(b) \/ ClearKey(b)
       \/ \E m \in Models : SelectModel(b, m)
       \/ \E on \in BOOLEAN : SetWebSearch(b, on)
  \/ Close

\* A provider answers, fails or runs into the request's time-out, and a pause ends; a generation
\* takes a few such steps only, so one condition is enough.
Going == \E g \in Generations : Answer(g) \/ Retry(g)
Fairness == WF_vars(Going)

Spec == Init /\ [][Next]_vars /\ Fairness

-----------------------------------------------------------------------------
TypeOK ==
  /\ wiring \in {"switchboard", "router"} /\ active \in Backends
  /\ settings \in [Backends -> Settings] /\ closed \in BOOLEAN
  /\ stage \in [Generations -> Stages] /\ user \in [Generations -> {"turn", "memory"}]
  /\ chosen \in [Generations -> Backends] /\ attempt \in [Generations -> 0..Last]
  /\ model \in [Generations -> Models]
  /\ why \in [Generations -> [Numbers -> {"none"} \cup Errors]]
  /\ called \in [Generations -> SUBSET (1..Last)]
  /\ \A g \in Generations : Len(out[g]) <= MaxChunks
  /\ changes \in 0..MaxChanges

\* What a consumer receives is one answer: all of it is of the last attempt, of the adapter
\* and the model that attempt was opened with, whatever is selected, retried or fallen back to
\* meanwhile.  In a switchboard the adapter is the one that was active when the turn began.
OneAnswer ==
  \A g \in Generations : \A i \in DOMAIN out[g] :
    /\ out[g][i] = out[g][1]
    /\ out[g][i].attempt = attempt[g] /\ out[g][i].model = model[g]
    /\ wiring = "switchboard" => out[g][i].adapter = chosen[g]

\* A provider is asked again, or the fallback is asked, only after every attempt before failed
\* on its way and left nothing with the consumer; a refused credential is never tried again.
AskedAgainForAReason ==
  \A g \in Generations : \A k \in called[g] : \A j \in 1..(k - 1) :
    /\ why[g][j] = "transport"
    /\ \A i \in DOMAIN out[g] : out[g][i].attempt # j

\* Every generation ends, for a turn waits for it.
GenerationsEnd == \A g \in Generations : stage[g] \in Suspended ~> stage[g] \notin Suspended
=============================================================================
