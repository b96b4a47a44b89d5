------------------------- MODULE AvatarOrchestrator -------------------------
(***************************************************************************)
(* AvatarOrchestrator (avatar/orchestrator.py): it takes the events of its *)
(* subscription to the director one by one, sends the directives to the    *)
(* renderer in use, and brings the avatar back to idle after a hold.  The  *)
(* dashboard may replace the renderer, or the character it shows, meanwhile*)
(* (routes/pack.py).                                                       *)
(*                                                                         *)
(* A step ends where a coroutine awaits: the lock, a call of the renderer, *)
(* the next event.  What the bus may lose is EventBus's matter.            *)
(***************************************************************************)
EXTENDS Naturals, Sequences, FiniteSets, AvatarDirector

CONSTANTS Runtimes,     \* the renderers: the first one and those swapped in
          First,        \* the one in use at the start
          MaxEvents,    \* bound of the model: events published
          MaxPackSwaps, \* bound of the model: requests of POST /pack/swap
          Fails,        \* the calls of a renderer that may raise
          Stops         \* the lifespan ends during the behaviour

ASSUME RuntimesAssumption == First \in Runtimes
ASSUME BoundsAssumption == MaxEvents \in Nat /\ MaxPackSwaps \in Nat
ASSUME FailsAssumption == Fails \subseteq {"apply", "load"} /\ Stops \in BOOLEAN

VARIABLES
  published,  \* number of events published
  inbox,      \* the events the subscription still holds
  director,   \* AvatarDirector._state
  made,       \* number of directives made; a directive is known by its number
  current,    \* _current
  timer,      \* _return_handle, while it may fire: the directive it belongs to
  returns,    \* return tasks that took no step yet, by the same number
  line,       \* who holds _lock, at the head, and who waits for it
  stage,      \* what the head awaits, inside the lock
  active,     \* _runtime
  shape,      \* the life of each renderer
  shown,      \* what each renderer displays
  pack,       \* the request of POST /pack/swap in progress
  packSwaps,  \* number of such requests
  life,       \* how far stop() is
  doomed,     \* return tasks that stop() cancelled
  \* read by properties alone:
  lost,       \* the last directive that was tried raised
  stale       \* what is displayed is a directive that was not the newest when the pack
              \* route mirrored it

intake == <<published, inbox>>
lock == <<line, stage>>
holds == <<timer, returns, doomed>>
display == <<active, shape, shown>>
route == <<pack, packSwaps, stale>>
vars == <<intake, director, made, current, lock, holds, display, route, life, lost>>

NoDirective == [state |-> Rest, id |-> 0, holds |-> FALSE]

\* An entry of the line: the consumer of the bus, a return task (of directive `of`),
\* or a call of swap_runtime (to renderer `to`); with the directive to dispatch.
Consumer(d) == [who |-> "consumer", directive |-> d]
Return(d, id) == [who |-> "return", directive |-> d, of |-> id]
Swapper(r) == [who |-> "swap", to |-> r]

NoPack == [stage |-> "none", runtime |-> First, directive |-> NoDirective]

Init ==
  /\ published = 0
  /\ inbox = <<>>
  /\ director = Rest
  /\ made = 0
  /\ current = NoDirective
  /\ timer = 0
  /\ returns = {}
  /\ line = <<>>
  /\ stage = "free"
  /\ active = First
  /\ shape = [r \in Runtimes |-> IF r = First THEN "loaded" ELSE "new"]
  /\ shown = [r \in Runtimes |-> Rest]
  /\ pack = NoPack
  /\ packSwaps = 0
  /\ life = "on"
  /\ doomed = {}
  /\ lost = FALSE
  /\ stale = FALSE

-----------------------------------------------------------------------------
(* The lock.  asyncio.Lock serves its waiters in the order they came; one  *)
(* that is woken takes it a little later.  Operators named for a slip are  *)
(* those that the mutants of PROJECT.json put in place of the next one.    *)

\* The entry has the lock: it cancels the timer and makes its first call.
Acquire(entry) ==
  /\ timer' = 0
  /\ IF entry.who = "swap"
       THEN /\ stage' = "shutting"
            /\ active' = entry.to
            /\ shape' = [shape EXCEPT ![active] = "closing"]
       ELSE /\ stage' = "applying"
            /\ UNCHANGED <<active, shape>>

EnterFirst(entry) ==
  IF line = <<>>
    THEN line' = <<entry>> /\ Acquire(entry)
    ELSE /\ line' = <<Head(line), entry>> \o Tail(line)
         /\ UNCHANGED <<timer, stage, active, shape>>

\* `async with self._lock` is entered at once when nobody is there.
Enter(entry) ==
  IF line = <<>>
    THEN line' = <<entry>> /\ Acquire(entry)
    ELSE /\ line' = Append(line, entry)
         /\ UNCHANGED <<timer, stage, active, shape>>

Leave ==
  /\ line' = Tail(line)
  /\ stage' = IF Tail(line) = <<>> THEN "free" ELSE "waking"

\* Tasks that stop() cancelled: they do nothing more but unwind.
IsDoomed(entry) == entry.who = "return" /\ entry.of \in doomed
IsConsumer(entry) == entry.who = "consumer"
Going(entry) == ~IsDoomed(entry) /\ (life = "cancelling" => ~IsConsumer(entry))

Wake ==
  /\ stage = "waking"
  /\ Going(Head(line))
  /\ Acquire(Head(line))
  /\ UNCHANGED <<intake, director, made, current, line, returns, doomed, shown,
                 route, life, lost>>

-----------------------------------------------------------------------------
(* Events and directives *)

Publish(event) ==
  /\ published < MaxEvents
  /\ published' = published + 1
  /\ inbox' = Append(inbox, event)
  /\ UNCHANGED <<director, made, current, lock, holds, display, route, life, lost>>

\* The consumer takes no event while it dispatches the directive of another.
Consuming == \A i \in DOMAIN line : line[i].who # "consumer"

\* _handle_event, up to the first await of _dispatch.
Handle ==
  /\ life \in {"on", "gathering"}
  /\ Consuming
  /\ inbox # <<>>
  /\ inbox' = Tail(inbox)
  /\ IF Answers(director, Head(inbox))
       THEN /\ director' = NextState(Head(inbox))
            /\ made' = made + 1
            /\ Enter(Consumer([state |-> director', id |-> made',
                               holds |-> Holds(Head(inbox))]))
       ELSE UNCHANGED <<director, made, line, stage, timer, active, shape>>
  /\ UNCHANGED <<published, current, returns, doomed, shown, route, life, lost>>

\* The renderer took the directive; a hold arms the timer.
Applied ==
  /\ stage = "applying"
  /\ Going(Head(line))
  /\ LET d == Head(line).directive
     IN /\ shown' = [shown EXCEPT ![active] = d.state]
        /\ current' = d
        /\ timer' = IF d.holds THEN d.id ELSE 0
  /\ lost' = FALSE
  /\ stale' = FALSE
  /\ Leave
  /\ UNCHANGED <<intake, director, made, returns, doomed, active, shape, pack, packSwaps, life>>

\* apply_directive raises: the directive is given up, and so is the hold before it.
ApplyFails ==
  /\ "apply" \in Fails
  /\ stage = "applying"
  /\ Going(Head(line))
  /\ lost' = TRUE
  /\ Leave
  /\ UNCHANGED <<intake, director, made, current, holds, display, route, life>>

-----------------------------------------------------------------------------
(* Hold and return *)

FireUnarmed ==
  /\ returns' = returns \cup {timer}
  /\ timer' = 0
  /\ UNCHANGED <<intake, director, made, current, lock, doomed, display, route,
                 life, lost>>

FireForgets ==
  /\ timer # 0
  /\ timer' = 0
  /\ UNCHANGED <<intake, director, made, current, lock, returns, doomed, display,
                 route, life, lost>>

\* The timer fires: a return task is created.
Fire ==
  /\ timer # 0
  /\ returns' = returns \cup {timer}
  /\ timer' = 0
  /\ UNCHANGED <<intake, director, made, current, lock, doomed, display, route,
                 life, lost>>

\* _do_return: apply_return_to, then the dispatch.
DoReturn(id) ==
  /\ id \in returns \ doomed
  /\ returns' = returns \ {id}
  /\ director' = "idle"
  /\ made' = made + 1
  /\ Enter(Return([state |-> "idle", id |-> made', holds |-> FALSE], id))
  /\ UNCHANGED <<intake, current, doomed, shown, route, life, lost>>

-----------------------------------------------------------------------------
(* swap_runtime, by POST /runtime/swap; every request builds a new renderer *)

SwapUnlocked(r) ==
  /\ shape[r] = "new" /\ r # active
  /\ \A i \in DOMAIN line : line[i] # Swapper(r)
  /\ active' = r
  /\ line' = Append(line, Swapper(r))
  /\ UNCHANGED <<intake, director, made, current, stage, holds, shape, shown, route,
                 life, lost>>

Swap(r) ==
  /\ shape[r] = "new" /\ r # active
  /\ \A i \in DOMAIN line : line[i] # Swapper(r)
  /\ Enter(Swapper(r))
  /\ UNCHANGED <<intake, director, made, current, returns, doomed, shown, route,
                 life, lost>>

\* The old renderer is shut down, whatever it raises.
SwapShut ==
  /\ stage = "shutting"
  /\ stage' = "loading"
  /\ shape' = [r \in Runtimes |-> IF shape[r] = "closing" THEN "shut" ELSE shape[r]]
  /\ UNCHANGED <<intake, director, made, current, line, holds, active, shown,
                 route, life, lost>>

\* The character is loaded, in its default state, and the current directive follows.
SwapLoad ==
  /\ stage = "loading"
  /\ shape' = [shape EXCEPT ![active] = "loaded"]
  /\ shown' = [shown EXCEPT ![active] = Rest]
  /\ stale' = FALSE
  /\ IF current.id = 0 THEN Leave ELSE stage' = "again" /\ UNCHANGED line
  /\ UNCHANGED <<intake, director, made, current, holds, active, pack, packSwaps, life, lost>>

\* load_character raises through swap_runtime: the old renderer is gone already.
SwapLoadFails ==
  /\ "load" \in Fails
  /\ stage = "loading"
  /\ shape' = [shape EXCEPT ![active] = "empty"]
  /\ Leave
  /\ UNCHANGED <<intake, director, made, current, holds, active, shown, route,
                 life, lost>>

SwapAgain ==
  /\ stage = "again"
  /\ shown' = [shown EXCEPT ![active] = current.state]
  /\ Leave
  /\ UNCHANGED <<intake, director, made, current, holds, active, shape, route, life, lost>>

\* What the second apply_directive raises is suppressed.
SwapAgainFails ==
  /\ "apply" \in Fails
  /\ stage = "again"
  /\ lost' = TRUE
  /\ Leave
  /\ UNCHANGED <<intake, director, made, current, holds, display, route, life>>

-----------------------------------------------------------------------------
(* POST /pack/swap: the route calls the renderer itself, without the lock   *)

PackSwap ==
  /\ pack.stage = "none"
  /\ packSwaps < MaxPackSwaps
  /\ packSwaps' = packSwaps + 1
  /\ pack' = [NoPack EXCEPT !.stage = "loading", !.runtime = active]
  /\ UNCHANGED <<intake, director, made, current, lock, holds, display, life, lost, stale>>

PackLoad ==
  /\ pack.stage = "loading"
  /\ shown' = [shown EXCEPT ![pack.runtime] = Rest]
  /\ pack' = IF current.id = 0
               THEN NoPack
               ELSE [pack EXCEPT !.stage = "again", !.directive = current]
  /\ UNCHANGED <<intake, director, made, current, lock, holds, active, shape,
                 packSwaps, life, lost, stale>>

PackAgain ==
  /\ pack.stage = "again"
  /\ shown' = [shown EXCEPT ![pack.runtime] = pack.directive.state]
  /\ pack' = NoPack
  /\ stale' = IF pack.runtime = active THEN pack.directive # current ELSE stale
  /\ UNCHANGED <<intake, director, made, current, lock, holds, active, shape,
                 packSwaps, life, lost>>

\* Loading the pack, or mirroring the directive, raises.
PackFails ==
  /\ \/ pack.stage = "loading" /\ "load" \in Fails
     \/ pack.stage = "again" /\ "apply" \in Fails
  /\ pack' = NoPack
  /\ lost' = TRUE
  /\ UNCHANGED <<intake, director, made, current, lock, holds, display, packSwaps,
                 life, stale>>

-----------------------------------------------------------------------------
(* stop() *)

\* The task of an entry ends at its await; if it had the lock, that is free for the next.
Withdraw(i) ==
  /\ line' = SubSeq(line, 1, i - 1) \o SubSeq(line, i + 1, Len(line))
  /\ stage' = CASE i # 1         -> stage
                [] Len(line) = 1 -> "free"
                [] OTHER         -> "waking"

Returning == returns \cup {line[i].of : i \in {j \in DOMAIN line : line[j].who = "return"}}

\* The timer is cancelled, and every return task there is; with none to wait for,
\* the consumer is cancelled too.
Stop ==
  /\ Stops
  /\ life = "on"
  /\ timer' = 0
  /\ doomed' = Returning
  /\ life' = IF doomed' = {} THEN "cancelling" ELSE "gathering"
  /\ UNCHANGED <<intake, director, made, current, lock, returns, display, route, lost>>

\* A return task that was cancelled unwinds: from the lock, or before its first step.
Unwound ==
  /\ life = "gathering"
  /\ \/ \E i \in DOMAIN line : IsDoomed(line[i]) /\ Withdraw(i) /\ UNCHANGED returns
     \/ \E id \in returns \cap doomed : returns' = returns \ {id} /\ UNCHANGED lock
  /\ UNCHANGED <<intake, director, made, current, timer, doomed, display, route, life, lost>>

\* They are over; the consumer is cancelled in the same step.
Gathered ==
  /\ life = "gathering"
  /\ returns \cap doomed = {}
  /\ \A i \in DOMAIN line : ~IsDoomed(line[i])
  /\ life' = "cancelling"
  /\ UNCHANGED <<intake, director, made, current, lock, holds, display, route, lost>>

ConsumerEnds ==
  \/ Consuming /\ UNCHANGED lock
  \/ \E i \in DOMAIN line : IsConsumer(line[i]) /\ Withdraw(i)

Unsubscribed ==
  /\ life = "cancelling"
  /\ ConsumerEnds
  /\ life' = "shutting"
  /\ UNCHANGED <<intake, director, made, current, holds, display, route, lost>>

Stopped ==
  /\ life = "shutting"
  /\ shape' = [shape EXCEPT ![active] = "shut"]
  /\ life' = "stopped"
  /\ UNCHANGED <<intake, director, made, current, lock, holds, active, shown,
                 route, lost>>

Shutdown == Stop \/ Unwound \/ Gathered \/ Unsubscribed \/ Stopped

-----------------------------------------------------------------------------
Dispatch == Wake \/ Handle \/ Applied \/ ApplyFails

ReturnStep == Fire \/ \E id \in returns : DoReturn(id)

SwapStep == SwapShut \/ SwapLoad \/ SwapLoadFails \/ SwapAgain \/ SwapAgainFails

PackStep == PackLoad \/ PackAgain \/ PackFails

Work == Dispatch \/ ReturnStep \/ SwapStep \/ PackStep

Request == PackSwap \/ \E r \in Runtimes : Swap(r)

Next == (\E event \in Events : Publish(event)) \/ Work \/ Request \/ Shutdown

Spec == Init /\ [][Next]_vars

-----------------------------------------------------------------------------
(* Properties *)

Directives == [state : States, id : Nat, holds : BOOLEAN]

\* The types of the variables.
TypeOK ==
  /\ published \in Nat
  /\ inbox \in Seq(Events)
  /\ director \in States
  /\ current \in Directives /\ current.id <= made
  /\ timer \in 0..made
  /\ returns \subseteq 1..made /\ doomed \subseteq 1..made
  /\ stage \in {"free", "waking", "applying", "shutting", "loading", "again"}
  /\ active \in Runtimes
  /\ shape \in [Runtimes -> {"new", "loaded", "empty", "closing", "shut"}]
  /\ shown \in [Runtimes -> States]
  /\ pack.stage \in {"none", "loading", "again"} /\ pack.directive \in Directives
  /\ packSwaps \in 0..MaxPackSwaps
  /\ life \in {"on", "gathering", "cancelling", "shutting", "stopped"}
  /\ {lost, stale} \subseteq BOOLEAN

\* The state that will be on display when everybody in line is through.
Pending == {i \in DOMAIN line : line[i].who # "swap"}
Coming ==
  IF Pending = {} THEN current.state
  ELSE line[CHOOSE i \in Pending : \A j \in Pending : j <= i].directive.state

\* The director commits a state before its directive is sent; since the lock is fair,
\* the last directive in line is always the one that carries the director's state,
\* however consumer and return tasks interleave (_handle_event, _do_return).
DirectorIsFollowed == life = "on" /\ ~lost => Coming = director

\* Outside the lock the renderer in use displays the current directive, across swaps of the
\* renderer (swap_runtime's visual-state preservation) and of its pack (swap_pack mirrors it).
\* A pack swap, which goes around the lock, breaks this in one way: the directive it has read
\* is no longer the current one when it is mirrored.
Mirroring == pack.stage = "again" /\ pack.runtime = active

DisplayIsCurrent ==
  /\ line = <<>>
  /\ ~Mirroring
  /\ ~lost /\ ~stale
  /\ shape[active] = "loaded"
  => shown[active] = current.state

\* A directive is only ever sent to a renderer that is not shut down, and, unless its
\* load failed, one with a character: swap_runtime exchanges it under the lock.  Once
\* stop() has begun this may fail: it cancels the timer before it cancels the
\* consumer, who can arm it again.
TargetIsLoaded ==
  life = "on" /\ stage \in {"applying", "again"} => shape[active] \in {"loaded", "empty"}

\* The adapter shows what the director told it last, and the pack that was loaded last.
DisplayIsRight == DisplayIsCurrent /\ TargetIsLoaded

\* "Any newer event cancels the pending return" (docs/character_packs.md): the director
\* makes no return after it has answered an event that is newer than the hold.
NewerCancelsReturn ==
  [][\A id \in returns \ returns' : id \in doomed \/ made = id]_vars
=============================================================================
