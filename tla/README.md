# OpenMimicry in TLA+

OpenMimicry is a desktop companion: an avatar that listens, thinks, speaks and delegates tasks. This
directory holds TLA+ models of its program, the TLC configurations that check them, and proofs that the
TLA+ proof system checks. Every definition is translated from the source; paths below are relative to the
repository (`core/` stands for `packages/openmimicry-core/src/openmimicry/core/`, and likewise `voice/`,
`avatar/`, `tasks/`, `llm/`, `memory/`, `vision/`; `backend/` for `apps/backend/src/openmimicry_backend/`;
`frontend/` for `apps/desktop/frontend/src/`).

`PROJECT.json` lists the components, the runs, a mutant for every property, the lines each definition
stands for, the findings, the hazards and the theorems.

## 1. The system

The backend is one asyncio process: coroutines interleave only where they await, and no lock is held
across threads but in the adapters that own one. Everything concurrent is a task of the loop, a thread
of an adapter, another process (a renderer, a command, a speech worker), or a window.

| Component | State it keeps | Operations | Interacts with | What is hard | What makes it correct |
|---|---|---|---|---|---|
| Event bus (`core/bus.py`) | closed flag, subscriptions, a bounded queue each | publish, subscribe, iterate, aclose | everything | overflow, closing a full queue, abandoned generators | a subscriber sees a gap-marked, ordered suffix; closing ends every iteration |
| Turn lease (`backend/supervisor.py`, `conversation.py`, `main.py`) | runtime state, active turn, counter, turn tasks, bounded history | submit, finish, fail, cancel, close | chat pipeline, speech, bus | concurrent submitters, cancellation at each await, shutdown | single flight, lease never lost, one terminal state per turn |
| Chat pipeline (`backend/routes/chat.py`) | none of its own | a turn: memory, model or task, presentation | LLM, speech, tasks, bus | four presentation modes, failures, cancellation | the avatar shows what the turn does |
| Speech controller (`voice/controllers/speech.py`) | current utterance, listener, push-to-talk, saved modes | say, interrupt, ptt_down/up, enable/disable, reconfigure, barge-in, stop | STT and TTS ports, bus | no lock at all; cleanups that outlive interrupt() | one speech, always reachable; the microphone is as the user chose |
| Playback lane (`voice/tts/realtimetts_adapter.py`) | turn lock, cancel event, worker lane, engine | prepare, speak, stop, close | speech controller, a COM-bound thread | threads that hang, stop() aimed at whoever is current | an abandoned playback never blocks or silences a later reply |
| Isolated recogniser (`voice/stt/isolated_faster_whisper.py`) | worker process, its signature, `_started`, pending answers | prepare, start, finish, stop, listen, aclose | speech controller, a worker behind two pipes | a crash or a cancelled call between two answers | one worker, no microphone open unheard, what was said told in its session |
| Speech processes (`voice/tts/isolated_piper.py`, `chatterbox.py`, `system_tts.py`, `elevenlabs.py`) | the process at work, the lock, the worker's state | prepare, speak, stop, close | speech controller, a process for each reply or for all | cancelled spawns, a `stop()` that comes after the cancellation | one worker, silence after the end of a reply that nobody disturbed |
| Avatar director (`avatar/director.py`) | the avatar's state | next_directive, return | orchestrator | the table | follows the turn |
| Avatar orchestrator (`avatar/orchestrator.py`, `backend/routes/pack.py`) | lock, hold timer, return tasks, renderer | handle event, return, swap, stop; pack swap beside the lock | director, renderers, bus | timers that fired, swaps, failing renderers | what is shown is what the director decided last |
| Renderer link (`avatar/runtimes/external`, `unity`) | bounded queue, client, sender and reader tasks | apply, reconnect, shutdown | a renderer process | dead clients, time-outs, shutdown | frames lost only for a stated reason; quiet after shutdown |
| Task delegation (`tasks/`) | process, pumps, update queue, cancel flag | submit, updates, result, cancel | chat pipeline, OS processes | full pipes, ignored signals, cancel before spawn | the outcome is told last; no turn waits for ever |
| Windows (`backend/ws.py`, `frontend/ws`, `hooks/useRuntimeState.ts`) | sockets, send locks, what is remembered, pumps; a view per window | connect, replay, pump, publish, break | bus, orchestrator | a replay and a pump for one socket, broken sockets | in order, served, locked exactly while a turn is active |
| Language model (`llm/`, `backend/routes/llm.py`) | active backend; model, web search and key of each; generations under way | generate, retry, fallback, select, change, close | chat pipeline, extraction of memories | failures half way through a stream, settings changed meanwhile | nothing said twice, no splice of two models |
| Saved settings (`backend/user_settings.py`, `core/config/loader.py`, the settings routes) | the overlay, what is in force, what was answered | change with rollback, activate, restart | speech controller, renderer, the next start | one step of several fails, requests side by side, a restart in the midst | what the user was told is in force and is found again |
| Runtime, store, hot reload (`core/runtime.py`, `store.py`, `config/reloader.py`, `logging/bus_tap.py`) | two consumers, the snapshot, the configuration in force | start, stop, fold, reload | bus, a watcher's thread | a stop that is cut, a file half-written, lost events | the snapshot says what the newest events say; consumers end |
| Memory (`memory/`, `backend/routes/memory.py`) | records, the lock, threads, background writes | context, observe, list, edit, clear, close | chat pipeline, dashboard, a thread per call | deadlines that cancel an await and not its thread; writes that outlive a turn | a turn goes on; changes one at a time, none left behind a close |
| Recogniser in process (`voice/stt/realtimestt_adapter.py`) | the recorder and its signature, a pump thread, a queue | prepare, start, stop, close, listen | speech controller, RealtimeSTT | replacement while a pump hangs, callbacks posted late | one recorder, heard in its session; finals are never displaced |
| Vision session (`vision/adapters`, `vision/pipeline/capture.py`) | consent, camera, its thread, the loop, queues | start, stop, frames, detections | two consumers | start and stop that overlap, a thread that posts to the loop | the camera is never left open behind a stop; consumers end |
| Vision pipeline (`vision/classifiers`, `pipeline/throttle.py`, `director_mapping.py`) | the window of frames, the ages of detections | one frame | the director | uneven frames, held gestures | told once in a cooldown |
| Character show (`avatar/pack`, `avatar/runtimes/sprite2d`, `threejs`, `live3d`) | the pack loaded, the projection published last | load, apply, shut down | windows, the static route | four readers of one directory | what passes a check loads, and what is loaded is drawn |
| Library (`backend/character_import.py`, `voice_profiles.py`, `routes/companions.py`) | installed packs, profiles, companions, what is worn | import, create, activate, restart | renderer, saved settings | one step of several fails | nothing is overwritten; a companion is on entirely |
| Mode switches (`backend/routes/mode.py`, `main.py`, `frontend/hooks/useVoiceMode.ts`) | `mode_state`, the switches of each window | toggle | controller, windows | concurrent toggles | what is reported and shown is in force |

Out of scope for good: declarations (schemas, contracts), wiring, detectors (the landmarks in an image),
rendering, installation scripts. `PROJECT.json` lists every component with its status.

## 2. The modules

| Module | Models | State and actions |
|---|---|---|
| `EventBus` | `core/bus.py` | per subscription its `queue`, `closed` flag and where its iterator stands; `Publish`, `Subscribe`, `Get`, `Finish`/`Cancel`/`Abandon`/`Leak`/`Finalise` (the ways a generator ends), `AClose` |
| `EventFeed` | what the bus promises | a subscriber hears a rising sequence of numbers from after its subscription, possibly with gaps, and no more once the bus is closed to it |
| `TurnLease` | supervisor, coordinator, lifespan | the `phase` of each turn's task is the await it is suspended in, because that decides what a cancellation does |
| `SingleFlight` | what they promise | a holder, granted one at a time, while a gate is open |
| `SpeechController` | `voice/controllers/speech.py` | every actor's call is a list of blocks (`todo`), each the code from one await to the next; every utterance's task is an actor |
| `AvatarDirector` | `avatar/director.py` | the reaction table and the cues as functions |
| `AvatarOrchestrator` | `avatar/orchestrator.py`, `routes/pack.py` | the fair lock as a line whose head has a `stage`; timers, return tasks, swaps, failing renderers, `stop()`; `stale` remembers, for the properties alone, that a pack swap mirrored a directive that was no longer the current one |
| `ConversationAvatar` | composition of `AvatarOrchestrator` with `routes/chat.py` and the voice | a turn in its four presentation modes, as the events the avatar hears; `overtaken` remembers, for the properties alone, over which turn an older voice began to play |
| `BroadcastBridge` | `ws.py`, `WSProvider`, `useRuntimeState` | sockets with send locks as lines, a replay, a pump, and a window's view each |
| `PlaybackLane` | `realtimetts_adapter.py` and `_speak_once`'s calls on it | controller task, adapter job and thread of each reply; the lock as a line, the lanes as queues |
| `RendererLink` | `external` and `unity` adapters | bounded queue, sender, reader, connection, the renderer outside |
| `TaskDelegation` | router, shell, claude and mcp-agent adapters, `_run_task_path` | runner, process, pipe, pumps, canceller, updates |
| `IsolatedWhisper` | `isolated_faster_whisper.py` and its worker | three callers with a control point per await, the two pipes as sequences, the worker's microphone |
| `ReplyProcess` | the four TTS adapters that speak through a process | a task for each reply, the lock as a line, the process for each reply or the worker for all, `stop()` after the cancellation |
| `LanguageModel` | `litellm_adapter.py`, `router.py`, `switchboard.py`, `routes/llm.py`, their consumers | per generation its `stage`, the number of its attempt, the model it was opened with and what its consumer received; a series of attempts that fail without a suspension is one step (`Reached`) |
| `UserSettings` | `user_settings.py`, the merge in `loader.py`, the routes that write | three values of every setting: saved (`overlay`), in `force`, and `told` to the user; requests with a stage for every suspension; `Restart` |
| `RuntimeStore` | `runtime.py`, `store.py`, `bus_tap.py`, `reloader.py`, the shutdown's limit | the bus as its two subscriptions see it; `Consume` folds or logs, `Edit`/`Watch`/`Reload` are the file, the thread and the loop; `Stop` suspends at each await, where `TimedOut` may cut it |
| `LongTermMemory` | `memory/service.py`, `providers.py`, `extractors.py`, `routes/memory.py` | a call waits for the lock, then for its thread; `Abandoned` leaves the thread behind with the lock free; `Close` waits for the background |
| `RealtimeRecorder` | `realtimestt_adapter.py` | recorders named by the call that built them, each with its pump; posted callbacks in order; `Enqueued` is the queue's rule that a final displaces a preview and nothing displaces a final |
| `VisionSession` | `mediapipe_adapter.py`, `pipeline/capture.py` | calls of `start()` and `stop()` suspended at their awaits, the camera's thread, the loop, a stream for each consumer |
| `VisionPipeline` | classifiers, throttle, debouncer, mapping | one action, `Frame`; ages instead of a clock |
| `CharacterShow` | `pack/`, the three in-process runtimes and projections, the static route | a pack is where the images of its states come from (`Sources`); `Loads`, `Valid`, `Importable`, `Served` are the four readers |
| `CompanionLibrary` | import, profiles, clones, companions, activation | a request runs to its end or to the step that failed (`torn`); `Restart` |
| `ModeToggles` | `routes/mode.py`, `_apply_mode_toggle`, `useVoiceMode.ts` | calls of windows and of the route, suspended in the controller; messages to each window |
| `EventBusProofs`, `TurnLeaseProofs`, `SpeechControllerProofs`, `VoiceProofs`, `CompanionProofs`, `AvatarOrchestratorProofs`, `PlaybackLaneProofs`, `PortsProofs` | | theorems and their lemmas; `VoiceProofs` is about `ReplyProcess` and `IsolatedWhisper`, `CompanionProofs` about the other parts of `MCCompanion`, `PortsProofs` about what `MCPorts` adds to the playback lane; `EventBusProofs` and `TurnLeaseProofs` are also about what `MCEventBus` and `MCTurnLease` put beside the bus and the turns: each knows its subjects as parts of an MC module |
| `MC*` | | instances for TLC |

Five MC modules put parts side by side that share nothing: `MCEventBus` (bus, runtime and store, camera,
recogniser in process), `MCTurnLease` (turns, long-term memory), `MCCompanion`, which extends
`MCSpeechController` (controller, isolated recogniser, reply processes, and with them switches, show, sight,
library), `MCConversationAvatar` (the orchestrator alone, the orchestrator in a conversation, the windows)
and `MCPorts` (playback lane, renderer link, task, language model, saved settings). A behaviour of such an
instance is a behaviour of one part, chosen initially; the variables of the others keep their initial values,
so that a property of the instance is the conjunction of the parts' properties, and its comment names the
modules where these are stated. Fairness is given to a part only in its own behaviours.

Conventions. An action is the code between two awaits, trailing calls included. A definition whose name
says a slip (`RotateKeepsLane`, `UnwindSilently`, ...) is not part of a model: it is what a mutant puts in
place of the definition that follows it, to show that the property of its run depends on that code.
Constants called `Max...` bound a model and are named as such where they are declared.

## 3. What the runs check

| Run | Instance | What it shows |
|---|---|---|
| `event_bus` | bus: 2 subscriptions, queues of 2, 4 events; store: 3 events, 2 starts, 1 edit, a queue of 2; vision: 2 starts, 1 stop, a queue of 1, 2 frames; recogniser: 2 configurations, 2 calls, 1 end, 2 transcripts | `SubscriptionSound`, `PendingIsLatest`: overflow drops the oldest, never the newest or the sentinel; `FeedSpec`: the bus implements `EventFeed`; `SnapshotIsCurrent`: the snapshot says what the newest event about a field says, unless more than a queue of others followed it, and the reloader what the file says; `CameraIsHeld`: no camera or loop beyond the session that `stop()` reaches, the newest frames wait; `RecorderIsRight`: one recorder, heard by and in its session; `IterationsEnd`: whoever iterates comes to an end |
| `turn_lease` | 4 submissions, a history of 2; memory: 2 facts, 3 calls, both stores, both extractors | the lease is held by exactly the running turn; `TurnsAreSerial`: states are published turn by turn, the history is the last answered turns; nothing works after "stopped"; `FlightSafety`: it implements `SingleFlight`; `MemoryIsKept`: two threads never change the store at once, an id is of one fact, a `close()` that returned in time left no write behind; `TurnsSettle`: every turn and the shutdown terminate, and whoever asks the memory is answered in time |
| `speech` | controller: a turn, a user, the lifespan, 2 utterances, any order with a failing microphone, and orderly calls; recogniser: 3 calls, 2 models, 1 saying, 1 fault; reply processes: 2 replies on piper, chatterbox and a system command; switches: from the wake names on, 2 windows and the route, 2 calls; show: 2 packs loaded over one another out of all kinds; sight: scenes of up to two hands and a head, a window of 3; library: 2 packs, 2 voices, 1 companion, 4 requests | `OneSpeech`, `EventOrder`: speech that nobody cancelled can be reached by `interrupt()`, events of an utterance are in order; in orderly circumstances one speech at a time and one terminal event; `ListeningIsRight`: the microphone as chosen and open exactly when reported, by the backend and in every window; `TranscriptsAreFresh`, `OneWorkerHears`: what was said is told in its session, one worker, no microphone open unheard; `FallsSilent`; `PacksAreDrawn`: what passes a check loads, what is loaded is drawn from its own images; `DetectionsAreRight`: a held gesture is told once in a cooldown, a movement only when its way turned back; `CompanionsAreWorn`, `LibraryIsKept`: a companion is on entirely and found again at the next start, nothing installed is overwritten or half there |
| `speech_live` | the voice with barge-in, 1 utterance, 1 model | `VoiceSettles`: every call returns, a released push-to-talk ends, a reply's task ends |
| `shown` | alone: 2 events, 2 renderers, a pack swap, failures, stop; in a conversation: 2 turns in four presentation modes, with a voice that stops in time or slowly, a user who is heard at any moment, or a model that fails and a delegated task; windows: 2 windows, 2 connections, 2 states, 1 directive, 1 fault | `DirectorIsFollowed`, `DisplayIsRight`: director and display agree in the end, also after a renderer or its pack was swapped, no renderer is used before its load or after its shutdown; `TurnsAreShown`: the avatar thinks while the model does, also when the voice of the turn before ends only then, it speaks while the voice does, and never when nothing is heard; and a window is locked exactly while a turn is active; `WindowsAreServed`: registered windows are served, in order; `ShowEnds`: the avatar comes to rest and `publish()` returns |
| `ports` | lane: 2 replies; link: 4 frames through a queue of 2, 2 faults; task: 3 lines, queue of 2, pipe of 1, 2 cancels; model: 2 generations of 2 attempts and a fallback, 2 chunks, 1 change; settings: 2 requests, 1 restart | `LaneSurvives`: an abandoned playback holds neither lane nor engine of a later one; `FramesAreKept`: frames are lost for a stated reason, a link that was shut down is quiet; `OutcomeIsTold`; `OneAnswer`: a reply is of one attempt, adapter and model, and a provider is asked again only while nothing was heard; `SettingsAreKept`: what the user was told is in force and saved; `PortsSettle`: replies end, the link drains, tasks and generations end |
| `avatar_newer`, `renderer_order`, `task_cancel`, `next_reply`, `reply_silent`, `voice_restart` | the smallest instance that shows it | disagreements of code and documentation, section 6 |

Why the bounds are enough. A queue of two with one more item than it holds shows overflow, and closing
full; four events let a subscriber lag behind one that keeps up. Four submissions give a turn that is
refused behind one at work, turns in succession, and a history that pushes a pair out. Two utterances
(replies, turns) are what every race in the voice needs: one that cleans up, one that starts; three
replies on the playback lane were checked for safety as well (two million states) and add no new
behaviour, because at most one reply cleans up while one waits. Two windows and two connections let a
window reconnect while another is served; one fault per behaviour reaches every await where a socket can
break. A pipe of one line and an update queue of two are full at once. In the `ports` run a process may
still write when its reader has given up. Three calls to the recogniser are one that opens a session, one
that ends it and one beside them, and a second model makes `prepare()` replace a worker; one fault is a crash
or a cancellation at any await. ElevenLabs plays through the same code as the system command and adds no
behaviour of its own to the instance. Two attempts are one that has a pause behind it and one that hands over
or gives up, and two generations are a turn with a second turn or with the extraction of memories from it. Two
requests are what a fight over a setting takes, and one restart reaches every suspension of either.
`MCPorts` starts the language models in settings that differ in what they refuse (`Typical`); all settings
together were checked for safety as well.

Two starts and a stop of the camera are a session with another one that begins while it ends; one more stop
adds no order. Two configurations make a recorder be replaced while its pump hangs, and two transcripts are a
final and a preview in either order. Three calls of the memory are one that is abandoned in its thread, one that
takes the lock, and a `close()`. Three events through a queue of two overflow it once. Four requests import a
companion, put it on, replace what it wears and restart; five were checked as well. Two switches overlap in every order,
and two windows are one that switches and one that is told. Packs are taken from all kinds of sources for the
images of a state and for its speaking images, in three places on disk; two loads show a pack that fails over
one that is shown.

Fairness. All of it is that of tasks on the asyncio loop, which runs every ready task and fires every timer.
Where the steps of one task or loop exclude one another their union is one condition (`LoopStep` of the lane,
`Going` of a generation). Never assumed: that a user, a window or a caller does anything; that a thread of
the playback lane, of the memory or of the recorder comes back (`PortsSettle`, `TurnsSettle` and `IterationsEnd` hold
with hanging threads, by the deadlines and the end marks alone); that the camera delivers; that a process
writes. Assumed beyond the loop: in `turn_lease`, strong fairness of the end of a pipeline (`Ends`: the model and
the speech adapters have deadlines, and the end competes with repeated calls of `say()`); in `event_bus`, that the
thread of the configuration's watcher, which `stop()` joins, has ended; in `ports`, that
a renderer that went down comes back, so that the link drains, and that a process that is not blocked on its
pipe ends; in `speech_live`, that every await of an adapter ends, each having a deadline in the
controller, that a terminated process dies, and of the recogniser nothing but its own calls with their
deadlines: its worker may never answer; in `shown`, that a write to a
stalled socket ends with the server's keepalive; of a provider, that it answers, fails or runs into the
time-out of the request. Nothing is assumed of the requests that change settings or the library.

Deadlock checking is off throughout: every model stops, by its bounds or because the program is shut down.

## 4. What is proved

Every theorem is about the whole specification of its module, or of the part it is of an MC module, for every
value of the constants: any number of subscriptions, turns, replies, users, utterances, events, renderers, calls,
faults. What is assumed of the constants is what the `ASSUME`s of the modules state, which TLC evaluates in the
runs: bounds are naturals (a queue's size is positive), the actors of the speech controller are distinct, the first
renderer is one of the renderers, the setups are of their shape. Fairness plays no part: the theorems are of the
safety part of each specification. Each follows the same argument: an inductive invariant, which TLC checked before
it was proved; that the initial states satisfy it; one lemma for each action or class of actions; and that it
implies the property.

*Event bus.* `PendingIsLatest` and `SubscriptionSound` are not inductive: whether a put fits depends on what
the queue holds. `IInv` adds, per subscription, a `Mode` (unused, open, closed, left) that ties together
registration, closed flag, iterator and queue, and `Sound`: the queue of an open subscription is a rising
run ending in the newest event, that of a closed one ends in the sentinel, and everything in it is newer
than what was seen. Lemmas about `Put` on sequences carry the sequence arguments; every action is then a
case of `Mode`. `ImplementsFeed` shows, from `IInv`, that every step maps to a step of `EventFeed` or to a
stutter, with `seen` and the standing of an iterator as the refinement mapping.

*Runtime and its store.* What the snapshot says of a field is decided by events that may still wait, in the queue of the
updater, behind others. That queue, while the updater is open, is the events published last (`Suffix`), so that folding
what the snapshot says with what waits gives what all events say, up to what a queue can have lost (`Shown`). The store
folds an event at a time; that folding a queue is folding its events one after the other is shown by the least event at
which the two would part. The reloader's half is about a file, a thread and a loop: what the thread saw of the file
before a stop is not applied after it.

*Recogniser in process.* The call that replaces the recorder is the one that holds the lock (`Locked`). Unless a start
overlapped with a replacement, what lives is the adapter's recorder, the microphone is open in a session only, and a
recorder that was not replaced has its pump (`MicHeld`); unless a pump outlived its recorder there is one (`OnePump`). In
a session the queue holds the finals that are due, and a preview behind them at most (`Session`): `_enqueue_item` makes
room in a loop, of which it is proved, again by a least counterexample, that it keeps the finals in their order.

*Camera.* What is held of a capture follows from what the calls decided (`Held`): the event of the thread is set as
long as the device is open, an open capture is the adapter's own, a loop that has not seen its end is the adapter's
task, and after a `stop()` that does not wait there is neither. `Held` excepts what the property excepts (`raced`). That
the newest frames are the ones that wait is a fact about the queue followed by what the thread posted (`Kept`): the
frames in it that were read are a `Run`, which ends in the newest; lemmas say how a run survives that its oldest item
is dropped, taken or slides from one into the other, and that an end mark displaces a frame.

*Turn lease.* `LiveHoldsLease` needs to know that an attempt beyond the counter has no task, and that
nothing is admitted once shutdown began; `IInv` adds `Stages`, which ties the lifespan to the runtime state,
and `Lease`. `TaskEffect` summarises the nine steps of a task: it stays live, or ends and frees the lease.
`SingleTurn`, `Quiet` and `ImplementsSingleFlight` follow. `SerialTurns` is about whole histories: every event
published so far, and every pair remembered. Its invariant says of the last event which turn may still speak, and
that only the holder of the lease does, so that an event appended by a step extends a serial history.

*Long-term memory.* A thread that changes the table was begun under the lock, which its call holds until the thread
ends (`Locking`), the deadlines that leave a thread behind being of the reads; ids are handed out in increasing
order, one for a call at most (`Numbering`); and the observations that `close()` waits for are all there are, since
none begins after it (`Closing`).

*Library.* What is worn is on entirely because nothing that was put on is left unsaved (`Worn`), so that a restart
finds it; and what is in force, or will be at the next start, was found when it was put on (`Findable`), so that an import
can hide it but not replace it. An activation is one lemma for every number of its steps: what was set and is not saved is
what `torn` says. `LibraryKept` is an action property that follows from the same invariant.

*Packs.* The last message that was published is the projection of the pack that is loaded and of the last directive
(`ShowInv`), except where the adapter published nothing; that a window can draw it is then a fact about the
projections alone. The one about addresses (`ServedFacts`) goes through: the address that is made for a file of a pack
names, by the route, that file again, provided the pack's directory is where packs are kept.

*Switches.* A call that nobody overlapped finds the controller in no mode when it returns, because it has switched
off the one there was (`SwitchWork`); so what it writes is what the controller then does. A window is told (`WindowsTold`)
by the last of the messages under way that mentions a switch; where none does, the window shows the switch already, or
has pressed it and will be told.

*Speech controller.* Speech that nobody can interrupt would be an uncancelled task that the handles do not name.
`Handles` says that there is none, and that the handles name no other; that is inductive because they are cleared
before the turn queues the next utterance, which is a fact about what is left of the turn's call (`Scripted`). What
was published of an utterance follows from where its task stands (`Told`), which gives `EventsInOrder`. In orderly
circumstances a call waits for the one before it, and whoever cancels an utterance until it is over (`Orderly`), so
that the turn queues when no task is alive.

*Microphone.* Users, the turn, barge-in, the shutdown and the tasks of utterances close the microphone, suspend, and
open it again, and the mode that was asked for is meanwhile in nobody's hands but theirs. In orderly circumstances
whoever is at the microphone is there alone, and remembers that mode (`Held`, one clause per block of a call);
an utterance that paused the listening remembers it until its task restores it (`Paused`); with nobody there, the
microphone is as reported (`Idle`). The proof is one lemma for leaving the microphone to itself (`LetsGo`), one for
taking it (`Grips`) and one for stepping aside (`Aside`), and each block of each call is one of the three.

*Reply processes.* A process that sounds has a job that plays it or waits for its end (`Covered`). A cancelled
`speak()` of Chatterbox may leave the work of stopping to whoever stops the adapter next: that this stops the right
process takes that one reply at most is neither cancelled nor at its end (`Sequel`), and that what sounds is what the
adapter holds (`Aimed`). Its type needs one thing more: a reply is in line for the lock once, and only while its job waits
for the lock or holds it (`InLineOnce`).

*Vision.* With ages instead of a clock, the debouncer holds back exactly what was told within the cooldown, so that a
detection that is not told again was told within it (`SightInv`). The rest is about data: the hands and the heads of a
window and the sum of a series are recursive functions, of which it is proved that they exist and what type they have
(`Recursion`, `Carried`), and a series that crosses its mean twice, whatever the mean is, turns back (`Turning`).

*Isolated recogniser.* `TranscriptsAreFresh` is far from inductive: a transcript is of the right session because
of what the worker was told before it, and in which order. `Inboxes` describes the commands that wait in the pipe:
their numbers rise, the one with the number of a pending call is that call's command, and behind the controller's
there is nothing but a shutdown; and once a stop is answered the microphone is off. `Sessions` says, for each stage of
a start, a session and a stop, what the microphone, the pipe and the queue of transcripts can hold (`Attuned`,
`ToCome`). `Standing` ties the place of a call to its place in the line for the lock, from which `OneProcess` follows:
only the first in line begins or ends a worker, and nobody is behind a `close()` who would begin one. `OneHears` is
what that leaves between two calls. Both theorems keep the exception of the properties (`astray`).

*Avatar.* What the director decided is what the last directive in the line for the lock carries, or what
was carried last (`Followed`). A renderer that waits to be swapped in is unused (`Swaps`), so that the one in use is
loaded whenever a directive may reach it (`Shapes`), and displays the current directive except while a swap is about to
send it again, or where a pack swap sent one that was stale (`Displayed`). In a conversation the state that a turn is due
(`Due`) is the one to which the director gets by handling the events that are still in its queue, one after the other
(`Leads`): each step of the turn and of the voice publishes what keeps this so, and each step of the avatar shortens the
queue (`TurnInv`). It is so of turns by which alone the avatar is moved (`Undisturbed`): a cue, a failure or a task of an
earlier turn shows in a later one, and a timer of such a turn may fire over it, as section 6 has it. What holds whatever
happens is that an avatar which speaks, or is led there by an event in its queue, will hear of an end (`VoiceInv`): a
voice is heard, whose end is still to come, or its end is in the queue behind.

*Windows.* `StatesInOrder` depends on what is under way: whoever waits for a socket is still at work on it (`Occupied`),
an endpoint or a pump at most once (`Once`), and a pump only with the state that it took last; so an endpoint, which replays what
is old, is through before the pump starts, and a window was told of nothing that its pump is still to send (`Follows`).
`LockedWhileThinking` is a fact about everything sent so far: the window shows the newest of it that was not
rejected, because a state that ends a turn is of the turn that was last (`FeedIsSound`), so that no window ignores it.

*Playback lane.* A lane that was given up may hang for ever, so what counts is what is still to run on it: nothing
that builds an engine, and no playback that was not told to stop (`OldLanes`). The lane in use is given up by the
holder of the lock only (`OneHolder`), when what was to be prepared on it is done (`Prepared`) and the playbacks left on
it are the holder's own and those of jobs whose cleanup was cancelled (`Playing`).

*Renderer link.* Which frames a full queue loses is decided when they are put, so the order and the novelty of what
is written follow from one fact about the queue: it holds a rising run that ends in the newest frame, unless the frame
in the sender's hand is the newest (`LInv`); and nothing is put once the adapter is shut down.

*Delegated task.* The outcome is decided at one place, by the process or by whoever cancels it first (`Decided`), and
what was told follows from how much of it still waits in the queue of updates (`Telling`).

*Language models.* A generation has one attempt that may answer, since the attempts before it have failed or were
given up before anything was received (`Single`); what the consumer received is what that attempt produced, in order
(`Ordered`), of the model it was opened with.

*Saved settings.* The three values of a setting agree where no request is under way (`Agreed`); where one is, they
may differ on what that request wants to change and on nothing else (`Midway`), unless another one contests the same
setting, which the property excepts (`Contested`).

`SpeechTyped`, `VoiceTyped`, `AvatarTyped` and `LaneTypes` prove the type invariants of their modules; `PortsTyped` that of
every part of `MCPorts`, whose safety properties are thereby all proved.

Sixteen proofs changed a model. `stop()` of the orchestrator let all cancelled callers leave the line in one step, which
hid what a caller sees that leaves between two others: they now leave one after the other (`Unwound`). The actors of the
speech controller were not assumed to be distinct. A caller of the recogniser left the line by `SelectSeq`, whose
meaning the prover does not know; with two callers it is the head that stays. The series of attempts that fail
without a suspension (`Reached`) was a recursive operator, and says now which attempts were passed over. A request
that loads settings was not kept to those it wants to change. What a consumer of the camera receives was numbered by frame, and
selected by `SelectSeq`; the numbers told nothing apart, and `NewestIsKept` compares what waits with what was read.
The queue of the recogniser in process was thinned by `SelectSeq` too, and is now thinned by the loop that the code has.
The library was not assumed to hold the ids that the companions of others use (`LibraryBounds`). The clip of a
directive was found by a recursive search, and is now the first of its chain that the pack has (`Clip`). The route
was not assumed to be no window (`ToggleBounds`). `ListeningIsAsChosen` holds of a microphone that opens: one that
does not leaves the mode off, which no orderly run had shown. The vision pipeline filtered
sequences, and let a detection that two hands show pass the debouncer twice; it says now which places of a series are
crossings, and a key passes once. An interruption (`Interrupt` of `ConversationAvatar`) had a `CASE` whose guards overlapped
or left a case out, by the look of it; it changes the current utterance now, of which the proof shows that it is queued
or plays. A pump that ends left the line for its socket by `SelectSeq`; since it waits once, it is cut out (`Without`), and so is
now a reply that leaves the line for its adapter. `TurnIsShown` spoke of an adapter that stops in time alone, and now of
one that stops slowly too, of which the proof gave the one exception (`InOrder`).

Model-checked only: liveness everywhere (out of the prover's reach, as is ENABLED).

## 5. Plan

Done, in this order: bus, lease, speech, avatar, conversation, windows, renderer link, tasks, playback lane,
recogniser, reply processes, language models, saved settings; then runtime and store, vision, memory, the
recogniser in process, the library, the in-process avatar runtimes, the mode switches.

What remains is not worth a module, or not within reach of one; section 7 says why.

## 6. Disagreements met while modelling

Shown by a run:

* `avatar_newer`: a hold's timer that has fired makes its return after a newer event was answered, though
  `docs/character_packs.md` says any newer event cancels it.
* `renderer_order`: a frame whose send failed is queued behind newer ones, not at the front, and the renderer
  ends on an older directive.
* `task_cancel`: a task cancelled while its process is being created runs on; a comment says the run loop
  checks the flag.
* `next_reply`: the task of an interrupted reply calls `tts.stop()` after its cleanup; by then the next reply
  may hold the adapter, and it is the one that is silenced.
* `reply_silent`: cancelling `speak()` of a system command forgets the process, so the `stop()` that follows
  terminates nothing and the reply sounds to its end, though the docstring promises to stop it.

* `voice_restart`: a Chatterbox profile without its reference, which is how profiles are exported by default, is
  valid, and its activation is saved; the next start raises `WiringError`, and the dashboard that could undo it
  stays down.

Read in the code while modelling, and excluded from a property or left to its guard; the module says so:

* Speech. `interrupt()` gives up after 0.15 s, so two TTS tasks can be alive (`speech.py:433`); an utterance
  cancelled before its first step has no terminal event; a listener paused for speech is not restored when
  a mode is switched or speech is interrupted at the wrong await, or is restored although it was switched
  off meanwhile; overlapping openings leave two readers. `SpeechController` states the documented promises
  for orderly circumstances, and only what holds for all of them otherwise.
* `speech.py:441` swallows the CancelledError with which `conversation.close()` cancels a turn: the turn runs
  on (`Swallow` in `TurnLease`), and shutdown waits for its pipeline.
* Playback lane. A reply that waits for the lock observes the readiness of the one before it, despite the
  comment at `speech.py:311`, and reports that it started. An interruption during the recovery from a
  playback deadline cancels the cleanup itself, so the lane is not replaced (`aborted` in `PlaybackLane`,
  which `LaneIsFree` excepts). An engine that hangs while it is built keeps the lane, since only a playback is
  drained. A lane replaced after `close()` is never closed.
* Avatar. The table of reactions has idle for the end of a voice while the avatar thinks (`director.py:8`,
  `docs/character_packs.md:165`); the code does nothing then, so that the end of an old voice does not clear the
  thinking of a new turn, as its own comment and `main.py:210` say (`director.py:244-250`). `TurnIsShown` holds of the
  code and fails of the table (`ReactionByTable`). `POST /pack/swap` mirrors a directive without the lock, perhaps
  after a newer one (`stale`, which `DisplayIsCurrent` excepts); `stop()` cancels
  the timer before the consumer, which can arm it again, and a swap in progress resumes after it.
* Windows. What a later window is replayed depends on the pumps of the earlier ones: turn states published
  while no pump is subscribed are remembered by nobody, and a slow pump sets what is remembered back to an
  older state, which `ws.py:149` says does not happen. A window that connects then shows an older turn until
  its own pump hears of the next.
* Conversation. With an adapter that stops slowly, old voice events reach the avatar after the new turn's
  thinking (`main.py:212`). Their end does no harm, but their beginning does: a turn is admitted, and its thinking
  published, before the interruption, which its task makes (`conversation.py:135-145`), and a reply that was queued may
  begin to play in between. The avatar then speaks, the model's beginning does not change that, and when the old
  voice has ended the avatar is idle while the model thinks (`overtaken`, which `InOrder` excepts). With `voice_ready`
  the cue of a reply may come before or after the beginning of its playback (`chat.py:296`).
* Renderer. `unity/adapter.py:90` speaks of a later replay on reconnect; nothing is replayed. The back-off of a
  connection that worked is not reset.
* Tasks. The router ignores required capabilities (`docs/task_delegation.md:62`, `router.py:95`); a cancel after
  the end turns the result into "cancelled"; a line beyond the reader's limit ends its pump silently and the
  process may block for ever; a prompt larger than the pipe is written before anyone reads the output; a
  cancelled turn leaves its process running.
* Recogniser. A crash ends the passive listener without a word, and the next `stop()` recovers. A `start()` that
  is cancelled or times out leaves the microphone open with `_started` false. A cancelled `stop()` lets its
  transcript reach the next session; the None of a `stop()` can end a session that was started while it
  waited. A `prepare()` that is cancelled while its worker loads leaves the previous signature, so a later one
  for the old model accepts the wrong worker (`isolated_faster_whisper.py:85-89`). `IsolatedWhisper` states its
  properties for behaviours without these cancellations, and says so at each.
* Reply processes. A synthesis cancelled after its readiness timed out leaves a "complete" in the pipe that is
  taken for the next reply's (`chatterbox.py:231`); the slow cleanup of an old reply discards the worker that
  is at work for the next.
* Language models. `select_model()` leaves web search on for a model that is not OpenRouter's, and every reply
  then fails (`litellm_adapter.py:121`, `261`). What arrived of a stream before it broke is shown, spoken and
  remembered as the reply (`chat.py:222-234`). `llm.retry` and `llm.fallback` of the configuration are read by
  nobody, for `LLMRouter` is not wired.
* Settings. Two updates of the voice, or two swaps of the pack, that overlap may leave in force what is not
  saved; an activation of a companion that fails leaves its first parts in place (`companions.py:244-299`); a
  backend, a model or a presentation that cannot be written stays in force behind an error. `SettingsAreKept`
  excuses these (`astray`) until the setting is answered for again. Web search saved for a configuration with
  a single adapter writes a backend without a model, which the next start rejects (`routes/llm.py:129`); an
  overlay written under one profile of the configuration is merged over another. Hindsight can be selected
  without its client (`Installed`, which `voice_restart` sets).
* Vision. `start()` checks that no session runs and that the adapter is open, awaits the consent, and opens the
  camera on what it knew before: a `stop()` that came in between has ended nothing, and the camera is opened behind
  it (`mediapipe_adapter.py:145`). Two hands that are held still, at different places, are a `wave_motion`, because
  the window of positions is not kept by hand (`movements/rules.py`). `_apply_override` with a base directive never uses
  the fallback duration. The adapter's docstring (lines 17-21) says more than its check of the installation does.
* Memory. A record that was cleared is inserted again by an extraction that was under way.
* Runtime. A `stop()` that is cut while the bus closes leaves `_stopping` set, and every later one returns at once; a
  runtime started again has a closed bus (`runtime.py:134`). `GET /config` answers with the configuration of the start
  after a reload, and the reload route calls a `reload_now` that the reloader does not have.
* Recogniser in process. When the construction of a recorder fails, the one that was shut down stays with its old
  signature, and a later `start()` of the old configuration is deaf. A pump whose join timed out reads the events of the
  next recorder, and two pumps serve one queue. A `start()` that waited for its recorder drains the queue before it finds that `close()` has taken
  it (`realtimestt_adapter.py:98-103`): the mark by which the earlier session's consumer would have ended is lost, and it
  waits for ever (`Refused`, which `ListeningEnds` excepts).
* Packs. `docs/character_packs.md:28` and `:184` say that a missing `_speaking` folder falls back to the base images;
  `loader.py:129-134` raises, and `validator.py:95-98` only warns. An empty list of frames passes the import and not the
  loader. `_to_static_url` cuts the path at the first segment that equals the pack's id, which may be a directory above
  it. `PackIsDrawn` and `CheckedPacksLoad` except these.
* Library. An import of a companion lower-cases the names of its files (`companions.py:66`), so that a pack with
  capitals cannot be installed from it. An activation changes the avatar before it finds out that the personality or
  the appearance is missing. An installed pack or profile with the same id wins over the companion's own, and an
  installed profile without its reference keeps the companion's voice from being activated. `POST /voice/clone/*` leaves the
  active profile as it was; `match_active` answers with the first profile of the same remote voice. A pack imported
  under the id of the shipped one is accepted, because only the user's directory is looked at
  (`character_import.py:125`), and hides it.
* Mode switches. Two toggles of passive listening that overlap leave reported the one that returned last, which need
  not be the one in force (`routes/mode.py:208`). Switching off the mode that is not on switches off the other, which
  stays reported. Switching to continuous listening tells no window that `live_wake` is off, and the error of one
  window's switch puts every window's to off (`useVoiceMode.ts:73`). A switch thrown between a window's status and the
  subscription of its pump is not told to it (`ws.py:216-235`). `ModesAreTold` excuses these (`blurred`, `missed`) until the switch is thrown again.
* Windows. `WSProvider.tsx:216` waits out its delay across an unmount, and can open two sockets.

## 7. Not modelled

Declarations (schemas, contracts, logging set-up): the ranges of the variables come from them. The migrations of
the configuration, the projection of events to messages, wake names and transcript filters, the detectors' landmarks:
functions of data without a state, whose results are inputs here. Wiring, health and administration: construction and
read-only probes, of which the models take what decides whether the program starts. The gated task runtimes refuse
everything. The choice of a Whisper runtime is one fallback, seen from outside as a load that fails. The frontend beyond
the views of turns and switches renders; the desktop shell moves windows of the operating system; the renderer and the
Unity bridge are the environment of `RendererLink`. Scripts are run by hand.

`PROJECT.json` says "partly" of five components: of the windows' fan-out, other messages than turn states and
directives; of the saved settings, environment overrides; of the configuration, migrations; of vision and the in-process
runtimes, what is numeric or rendering.
