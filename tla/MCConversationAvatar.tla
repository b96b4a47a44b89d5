------------------------ MODULE MCConversationAvatar ------------------------
(* What the user is shown: the avatar in a conversation; the avatar alone, to  *)
(* which anything may happen, any event at any moment, other renderers,        *)
(* requests, shutdown; and the windows.  A behaviour is one of these: its part.*)
EXTENDS ConversationAvatar

CONSTANTS Windows, Sockets, NoSocket, MaxStates, MaxDirectives, MaxFaults  \* BroadcastBridge

VARIABLES
  part,
  \* BroadcastBridge
  feed, directives, sockets, latest, endpoint, replay, pump, pos, since, sending, round, conn,
  view, faults

\* Neutral turns in the modes that do not wait for the voice; and with a voice that is slow,
\* neutral turns, a user who is heard at any moment, or a model that fails and a delegated task.
Plain == [mode |-> "parallel", cues |-> {}, llmFails |-> {}, tasks |-> {},
          hears |-> FALSE, prompt |-> TRUE]
Slow == [Plain EXCEPT !.mode = "voice_ready", !.prompt = FALSE]
Heard == [Slow EXCEPT !.hears = TRUE]
Failing == [Slow EXCEPT !.llmFails = {1}, !.tasks = {1}]
AllSetups ==
  {Slow, Heard, Failing} \cup {[Plain EXCEPT !.mode = m] : m \in {"parallel", "text_only", "voice_only"}}

Bridge == INSTANCE BroadcastBridge WITH stage <- endpoint, line <- sending

ASSUME WindowsAssumption == Bridge!BoundsAssumption

windowVars == <<feed, directives, sockets, latest, endpoint, replay, pump, pos, since, sending,
                round, conn, view, faults>>

PartsInit ==
  /\ ConversationInit /\ Bridge!Init
  /\ part \in {"conversation", "alone", "windows"} /\ (part # "conversation" => setup = Heard)

PartsNext ==
  \/ part = "conversation" /\ ConversationNext /\ UNCHANGED <<part, windowVars>>
  \/ part = "alone" /\ Next /\ UNCHANGED <<part, chat, windowVars>>
  \/ part = "windows" /\ Bridge!Next /\ UNCHANGED <<part, all>>

\* The fairness is that of ConversationSpec and of BroadcastBridge.
PartsSpec ==
  /\ PartsInit /\ [][PartsNext]_<<all, part, windowVars>>
  /\ WF_all(part = "conversation" /\ TurnStep)
  /\ WF_all(part = "conversation" /\ Voice)
  /\ WF_all(part = "conversation" /\ Delivery /\ UNCHANGED chat)
  /\ WF_all(part = "conversation" /\ ReturnStep /\ UNCHANGED chat)
  /\ \A c \in Sockets :
       /\ WF_windowVars(part = "windows" /\ Bridge!Written(c))
       /\ WF_windowVars(part = "windows" /\ (Bridge!PumpStarts(c) \/ Bridge!Pump(c)))
       /\ WF_windowVars(part = "windows" /\ Bridge!EndpointEnds(c))
  /\ WF_windowVars(part = "windows" /\ Bridge!Publishing)

-----------------------------------------------------------------------------
\* The variables of every part keep their types.
AvatarTypes == TypeOK /\ Bridge!TypeOK

\* A turn is shown as it is: by the avatar (ConversationAvatar), and by a window, which locks its
\* controls exactly while one is active (BroadcastBridge).
TurnsAreShown == (part = "conversation" => TurnIsShown) /\ Bridge!LockedWhileThinking

\* Whoever is registered with the bridge is served, and is told of turn states in the order of
\* their publication (BroadcastBridge).
WindowsAreServed == []Bridge!SocketsAreServed /\ Bridge!StatesInOrder

\* The avatar comes to rest after a conversation, and publishing to the windows returns.
ShowEnds == (part = "conversation" => AvatarComesToRest) /\ Bridge!PublishReturns
=============================================================================
