--------------------------- MODULE BroadcastBridge ---------------------------
(***************************************************************************)
(* The windows of the desktop and what they are told (ws.py, WSProvider    *)
(* and useRuntimeState of the frontend).  Every window has a socket; its   *)
(* endpoint replays what the bridge remembers and then starts a pump, which*)
(* follows the bus on its own.  Turn states reach a window through its     *)
(* pump, and the bridge because every pump makes it remember them; avatar  *)
(* directives are published to all sockets by the bridge itself.           *)
(*                                                                         *)
(* The bridge's lock is never held across an await; the send lock of a     *)
(* socket is held while the socket is written.                             *)
(***************************************************************************)
EXTENDS Naturals, Sequences, FiniteSets

CONSTANTS Windows,       \* the windows
          Sockets,       \* the connections they make, each a WebSocket of its own
          NoSocket,      \* what a window has that is not connected
          MaxStates,     \* bound of the model: turn states published
          MaxDirectives, \* bound of the model: avatar directives published
          MaxFaults      \* bound of the model: connections that break

BoundsAssumption ==
  NoSocket \notin Sockets /\ {MaxStates, MaxDirectives, MaxFaults} \subseteq Nat

VARIABLES
  feed,       \* the turn states published on the bus
  directives, \* number of avatar directives
  sockets,    \* _sockets
  latest,     \* _latest_turn and _latest_avatar, by number
  stage,      \* how far each connection's endpoint is
  replay,     \* what it still has to replay
  pump,       \* the pump of each connection
  pos,        \* number of turn states its subscription has handed out
  since,      \* number of turn states published before it subscribed
  line,       \* who holds the send lock of a socket, at the head, and who waits for it
  round,      \* publish(): the directive, the sockets still to send to, the dead ones
  conn,       \* the connection of each window
  view,       \* what each window shows
  faults      \* number of connections that broke

server == <<sockets, latest, stage, replay, pump, pos, since, line, round>>
source == <<feed, directives>>
client == <<conn, view>>
vars == <<source, server, client, faults>>

Turn(n) == [type |-> "turn", n |-> n]
Avatar(n) == [type |-> "avatar", n |-> n]
Status == [type |-> "status", n |-> 0]

NoRound == [n |-> 0, left |-> {}, dead |-> {}, busy |-> FALSE]

\* What a window shows: the turn it believes current, the last turn state it was
\* told, and the directive; by number.
NoView == [turn |-> 0, told |-> 0, avatar |-> 0]

Init ==
  /\ feed = <<>>
  /\ directives = 0
  /\ sockets = {}
  /\ latest = [turn |-> 0, avatar |-> 0]
  /\ stage = [c \in Sockets |-> "none"]
  /\ replay = [c \in Sockets |-> <<>>]
  /\ pump = [c \in Sockets |-> "none"]
  /\ pos = [c \in Sockets |-> 0]
  /\ since = [c \in Sockets |-> 0]
  /\ line = [c \in Sockets |-> <<>>]
  /\ round = NoRound
  /\ conn = [w \in Windows |-> NoSocket]
  /\ view = [w \in Windows |-> NoView]
  /\ faults = 0

-----------------------------------------------------------------------------
(* The bus: one turn after the other, and attempts that were rejected       *)

States == {"thinking", "over", "rejected"}

Current == {n \in DOMAIN feed : feed[n].state # "rejected"}
Newest == IF Current = {} THEN 0 ELSE CHOOSE n \in Current : \A m \in Current : m <= n
Thinking(n) == n # 0 /\ feed[n].state = "thinking"
Number(n) == IF n = 0 THEN 0 ELSE feed[n].turn

PublishState(state) ==
  /\ Len(feed) < MaxStates
  /\ Thinking(Newest) <=> state # "thinking"
  /\ feed' = Append(feed, [state |-> state,
                           turn |-> CASE state = "thinking" -> Number(Newest) + 1
                                      [] state = "over"     -> Number(Newest)
                                      [] OTHER              -> 0])
  /\ UNCHANGED <<directives, server, client, faults>>

-----------------------------------------------------------------------------
(* Sending.  Operators named for a slip are those that the mutants of      *)
(* PROJECT.json put in place of the next one.                              *)

\* send(): the message gets in line for the socket.
Send(c, by, message) == line' = [line EXCEPT ![c] = Append(@, [by |-> by, message |-> message])]

Writer(c) == Head(line[c]).by
Waits(c, by) == \E i \in DOMAIN line[c] : line[c][i].by = by

\* The line without somebody who is in it once, if at all.
Without(s, by) ==
  LET at == {i \in DOMAIN s : s[i].by = by}
      i == CHOOSE i \in at : TRUE
  IN IF at = {} THEN s ELSE SubSeq(s, 1, i - 1) \o SubSeq(s, i + 1, Len(s))

\* useRuntimeState: an active state always counts, a terminal one for the turn shown.
Show(v, message) ==
  CASE message.type = "avatar" -> [v EXCEPT !.avatar = message.n]
    [] message.type = "status" -> v
    [] message.type = "turn"   ->
         [v EXCEPT !.told = message.n,
                   !.turn = IF \/ Thinking(message.n)
                               \/ /\ feed[message.n].state = "over"
                                  /\ \/ v.turn = 0
                                     \/ Number(v.turn) = Number(message.n)
                              THEN message.n ELSE @]

\* The endpoint goes on with its replay; after the last message it starts the pump.
NextReplay(c) ==
  IF replay[c] = <<>>
    THEN /\ stage' = [stage EXCEPT ![c] = "serving"]
         /\ pump' = [pump EXCEPT ![c] = "created"]
         /\ line' = [line EXCEPT ![c] = Tail(@)]
         /\ UNCHANGED replay
    ELSE /\ replay' = [replay EXCEPT ![c] = Tail(@)]
         /\ IF c \in sockets
              THEN /\ line' = [line EXCEPT ![c] = Append(Tail(@),
                                 [by |-> "endpoint", message |-> Head(replay[c])])]
                   /\ UNCHANGED stage
              ELSE /\ line' = [line EXCEPT ![c] = Tail(@)]
                   /\ stage' = [stage EXCEPT ![c] = "ended"]
         /\ UNCHANGED pump

\* The socket took the message; nobody reads it when the window is gone.
Written(c) ==
  /\ line[c] # <<>>
  /\ view' = [w \in Windows |-> IF conn[w] = c THEN Show(view[w], Head(line[c]).message)
                                               ELSE view[w]]
  /\ IF Writer(c) = "endpoint"
       THEN NextReplay(c)
       ELSE /\ line' = [line EXCEPT ![c] = Tail(@)]
            /\ UNCHANGED <<stage, replay, pump>>
  /\ UNCHANGED <<source, sockets, latest, pos, since, round, conn, faults>>

\* The connection is gone and the write raises: publish() counts the socket among the
\* dead, everybody else removes it and gives up.
WriteFails(c) ==
  /\ line[c] # <<>>
  /\ \A w \in Windows : conn[w] # c
  /\ line' = [line EXCEPT ![c] = Tail(@)]
  /\ sockets' = IF Writer(c) = "publish" THEN sockets ELSE sockets \ {c}
  /\ CASE Writer(c) = "endpoint" -> stage' = [stage EXCEPT ![c] = "ended"] /\ UNCHANGED <<pump, round>>
       [] Writer(c) = "pump"     -> pump' = [pump EXCEPT ![c] = "ended"] /\ UNCHANGED <<stage, round>>
       [] OTHER                  -> round' = [round EXCEPT !.dead = @ \cup {c}] /\ UNCHANGED <<stage, pump>>
  /\ UNCHANGED <<source, latest, replay, pos, since, client, faults>>

-----------------------------------------------------------------------------
(* A connection *)

Remembered ==
  (IF latest.turn = 0 THEN <<>> ELSE <<Turn(latest.turn)>>) \o
  (IF latest.avatar = 0 THEN <<>> ELSE <<Avatar(latest.avatar)>>)

\* add_socket: the window is registered, and the replay of what is remembered begins.
Connect(w, c) ==
  /\ conn[w] = NoSocket
  /\ stage[c] = "none"
  /\ conn' = [conn EXCEPT ![w] = c]
  /\ sockets' = sockets \cup {c}
  /\ stage' = [stage EXCEPT ![c] = "replaying"]
  /\ replay' = [replay EXCEPT ![c] = Tail(Append(Remembered, Status))]
  /\ Send(c, "endpoint", Head(Append(Remembered, Status)))
  /\ UNCHANGED <<source, latest, pump, pos, since, round, view, faults>>

\* The window is closed, or its connection breaks; it keeps what it shows.
Disconnect(w) ==
  /\ conn[w] # NoSocket
  /\ faults < MaxFaults
  /\ faults' = faults + 1
  /\ conn' = [conn EXCEPT ![w] = NoSocket]
  /\ UNCHANGED <<source, server, view>>

\* The endpoint's receive raises: the pump is cancelled and the socket removed.
EndpointEnds(c) ==
  /\ stage[c] = "serving"
  /\ \A w \in Windows : conn[w] # c
  /\ stage' = [stage EXCEPT ![c] = "ended"]
  /\ pump' = [pump EXCEPT ![c] = "ended"]
  /\ line' = [line EXCEPT ![c] = Without(@, "pump")]
  /\ sockets' = sockets \ {c}
  /\ UNCHANGED <<source, latest, replay, pos, since, round, client, faults>>

PumpStartsOver(c) ==
  /\ pump[c] = "created"
  /\ pump' = [pump EXCEPT ![c] = "on"]
  /\ UNCHANGED <<source, sockets, latest, stage, replay, pos, since, line, round, client, faults>>

\* The pump subscribes when it first runs.
PumpStarts(c) ==
  /\ pump[c] = "created"
  /\ pump' = [pump EXCEPT ![c] = "on"]
  /\ pos' = [pos EXCEPT ![c] = Len(feed)]
  /\ since' = [since EXCEPT ![c] = Len(feed)]
  /\ UNCHANGED <<source, sockets, latest, stage, replay, line, round, client, faults>>

\* A rejected attempt is not remembered.
Remember(n) == latest' = IF feed[n].state = "rejected" THEN latest ELSE [latest EXCEPT !.turn = n]

\* It takes the next event, makes the bridge remember it, and sends it to its window.
Pump(c) ==
  /\ pump[c] = "on"
  /\ ~Waits(c, "pump")
  /\ pos[c] < Len(feed)
  /\ pos' = [pos EXCEPT ![c] = @ + 1]
  /\ Remember(pos'[c])
  /\ IF c \in sockets
       THEN Send(c, "pump", Turn(pos'[c])) /\ UNCHANGED pump
       ELSE pump' = [pump EXCEPT ![c] = "ended"] /\ UNCHANGED line
  /\ UNCHANGED <<source, sockets, stage, replay, since, round, client, faults>>

-----------------------------------------------------------------------------
(* publish(), by the avatar runtime: one directive at a time, under the     *)
(* orchestrator's lock                                                      *)

Publish ==
  /\ ~round.busy
  /\ directives < MaxDirectives
  /\ directives' = directives + 1
  /\ latest' = [latest EXCEPT !.avatar = directives']
  /\ round' = [n |-> directives', left |-> sockets, dead |-> {}, busy |-> TRUE]
  /\ UNCHANGED <<feed, sockets, stage, replay, pump, pos, since, line, client, faults>>

PublishTo(c) ==
  /\ c \in round.left
  /\ \A d \in Sockets : ~Waits(d, "publish")
  /\ IF c \in sockets
       THEN /\ Send(c, "publish", Avatar(round.n))
            /\ round' = [round EXCEPT !.left = @ \ {c}]
       ELSE /\ round' = [round EXCEPT !.left = @ \ {c}, !.dead = @ \cup {c}]
            /\ UNCHANGED line
  /\ UNCHANGED <<source, sockets, latest, stage, replay, pump, pos, since, client, faults>>

Published ==
  /\ round.busy
  /\ round.left = {}
  /\ \A d \in Sockets : ~Waits(d, "publish")
  /\ sockets' = sockets \ round.dead
  /\ round' = NoRound
  /\ UNCHANGED <<source, latest, stage, replay, pump, pos, since, line, client, faults>>

-----------------------------------------------------------------------------
Writing == \E c \in Sockets : Written(c) \/ WriteFails(c)
Pumping == \E c \in Sockets : PumpStarts(c) \/ Pump(c)
Publishing == Published \/ \E c \in Sockets : PublishTo(c)
Ending == \E c \in Sockets : EndpointEnds(c)

Next ==
  \/ \E state \in States : PublishState(state)
  \/ Publish
  \/ \E w \in Windows : Disconnect(w) \/ \E c \in Sockets : Connect(w, c)
  \/ Writing \/ Pumping \/ Publishing \/ Ending

\* The loop runs whatever can run; a write is over, at the latest when the keepalive
\* of the server closes a connection that stalls.
Fairness ==
  /\ \A c \in Sockets : WF_vars(Written(c)) /\ WF_vars(PumpStarts(c) \/ Pump(c))
                        /\ WF_vars(EndpointEnds(c))
  /\ WF_vars(Publishing)

Spec == Init /\ [][Next]_vars /\ Fairness

-----------------------------------------------------------------------------
(* Properties *)

Messages == [type : {"turn", "avatar", "status"}, n : Nat]

\* The types of the variables.
TypeOK ==
  /\ feed \in Seq([state : States, turn : Nat]) /\ Len(feed) <= MaxStates
  /\ directives \in 0..MaxDirectives
  /\ sockets \subseteq Sockets
  /\ latest \in [turn : 0..Len(feed), avatar : 0..directives]
  /\ stage \in [Sockets -> {"none", "replaying", "serving", "ended"}]
  /\ pump \in [Sockets -> {"none", "created", "on", "ended"}]
  /\ pos \in [Sockets -> 0..Len(feed)] /\ since \in [Sockets -> 0..Len(feed)]
  /\ replay \in [Sockets -> Seq(Messages)]
  /\ line \in [Sockets -> Seq([by : {"endpoint", "pump", "publish"}, message : Messages])]
  /\ round.left \subseteq Sockets /\ round.dead \subseteq Sockets
  /\ view \in [Windows -> [turn : 0..Len(feed), told : 0..Len(feed), avatar : 0..directives]]

\* Whoever is registered is served: when an endpoint is over, however it ended, its
\* socket is gone from the fan-out.
SocketsAreServed == \A c \in sockets : stage[c] \in {"replaying", "serving"}

\* A window is told of turn states in the order of their publication: what is replayed
\* to it is older than anything its pump sends.
StatesInOrder ==
  [][\A w \in Windows :
       /\ conn[w] # NoSocket /\ conn'[w] = conn[w] /\ stage[conn[w]] = "serving"
       => view'[w].told >= view[w].told]_vars

At(w) == conn[w]
Idle == ~round.busy /\ \A c \in Sockets : line[c] = <<>>
Settled(c) == stage[c] = "serving" /\ pump[c] = "on" /\ pos[c] = Len(feed)

\* A window whose pump has followed the whole turn shows it as it is, with the
\* reducer of useRuntimeState: its controls are locked exactly while the turn is active.
LockedWhileThinking ==
  \A w \in Windows :
    /\ Idle /\ conn[w] # NoSocket /\ Settled(At(w))
    /\ \E n \in Current : n > since[At(w)] /\ feed[n].state = "thinking"
    => view[w].turn = Newest

\* publish() returns, whatever windows come, go or break meanwhile; the orchestrator
\* waits for it with its lock held.
PublishReturns == round.busy ~> ~round.busy

=============================================================================
