---------------------------- MODULE MCTurnLease ----------------------------
(* A turn's lease, and the long-term memory that turns draw on.  They share  *)
(* nothing that is modelled, so a behaviour is one of them alone.            *)
(*                                                                           *)
(* Four attempts: enough for turns that are refused behind one at work, for  *)
(* turns that follow one another, and for a history of two to push a pair    *)
(* out.                                                                      *)
EXTENDS TurnLease

CONSTANTS Facts, MaxCalls

VARIABLES part, provider, extraction, call, lock, initialized, record, old, nextId, pending, cut

Recall == INSTANCE LongTermMemory

ASSUME RecallAssumption == Recall!MemoryBounds

recallVars == <<provider, extraction, call, lock, initialized, record, old, nextId, pending, cut>>

\* Where a part has several initial states, the other starts in one of them.
ConversationInit ==
  /\ part \in {"turns", "recall"}
  /\ Init /\ Recall!Init
  /\ part # "recall" => provider = "none" /\ extraction = "llm"

ConversationNext ==
  \/ part = "turns" /\ Next /\ UNCHANGED <<part, recallVars>>
  \/ part = "recall" /\ Recall!Next /\ UNCHANGED <<part, vars>>

\* The fairness of each part, in the behaviours that are its own.
TurnFairness ==
  /\ \A t \in Turns : WF_vars(part = "turns" /\ TaskStep(t))
  /\ SF_vars(part = "turns" /\ Ends)
  /\ WF_vars(part = "turns" /\ Close)
  /\ WF_vars(part = "turns" /\ Stopped)

RecallFairness == WF_recallVars(part = "recall" /\ Recall!Timers)

ConversationSpec ==
  /\ ConversationInit /\ [][ConversationNext]_<<part, vars, recallVars>>
  /\ TurnFairness /\ RecallFairness

-----------------------------------------------------------------------------
\* Nothing is kept or forgotten by two threads at once, and a close() waits (LongTermMemory).
MemoryIsKept == part = "recall" => Recall!TypeOK /\ Recall!MemoryIsKept

\* Every turn and the shutdown come to their end, and whoever asks the memory goes on (TurnLease,
\* LongTermMemory).
TurnsSettle == TurnsTerminate /\ Recall!MemoryAnswers
=============================================================================
