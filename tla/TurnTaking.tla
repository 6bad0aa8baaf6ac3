----------------------------- MODULE TurnTaking -----------------------------
(***************************************************************************)
(* What the conversation loop promises, without goroutines, contexts or    *)
(* channels: a half-duplex exchange.  The floor is idle, the user's or the *)
(* agent's.  Words of the user are buffered, in the order heard, until a   *)
(* moment when the floor is idle; then they become one message of the log  *)
(* and the agent has the floor.  The agent answers the last message of the *)
(* log at most once, or not at all.  Speaking takes the floor from anyone. *)
(***************************************************************************)
EXTENDS Integers, Sequences

CONSTANTS
  MaxFinals,   \* bound: segments heard
  MaxDeltas    \* bound: length of a reply

VARIABLES
  floor,    \* "idle", "user" or "agent"
  buffer,   \* segments heard and not yet in the log
  heard,    \* number of segments heard
  log       \* the messages exchanged

vars == <<floor, buffer, heard, log>>

\* The number of the last user turn in the log.
LastTurn == IF log = <<>> THEN 0 ELSE log[Len(log)].turn

UserMessage(t, segments) == [role |-> "user", turn |-> t, text |-> segments]

AgentMessages(t) ==
  {[role |-> "assistant", turn |-> t, text |-> [i \in 1..n |-> i]] : n \in 1..MaxDeltas}

Init ==
  /\ floor = "idle"
  /\ buffer = <<>>
  /\ heard = 0
  /\ log = <<>>

\* The words gathered become a turn, and the agent has the floor.
Commit(words) ==
  /\ log' = Append(log, UserMessage(LastTurn + 1, words))
  /\ buffer' = <<>>
  /\ floor' = "agent"

Greet ==
  /\ floor = "idle" /\ heard = 0
  /\ floor' = "agent"
  /\ UNCHANGED <<buffer, heard, log>>

UserTakesFloor ==
  /\ floor # "user"
  /\ floor' = "user"
  /\ UNCHANGED <<buffer, heard, log>>

UserYieldsFloor ==
  /\ floor = "user"
  /\ IF buffer = <<>>
     THEN floor' = "idle" /\ UNCHANGED <<buffer, log>>
     ELSE Commit(buffer)
  /\ UNCHANGED heard

Hear ==
  /\ heard < MaxFinals
  /\ heard' = heard + 1
  /\ IF floor = "idle"
     THEN Commit(Append(buffer, heard + 1))
     ELSE buffer' = Append(buffer, heard + 1) /\ UNCHANGED <<floor, log>>

\* The log ends with a message nobody answered yet.
Unanswered == log # <<>> /\ log[Len(log)].role = "user"

\* A reply enters the log while the agent has the floor, which it gives up,
\* or just after the user took it.
Reply ==
  /\ Unanswered
  /\ \E m \in AgentMessages(LastTurn) : log' = Append(log, m)
  /\ floor' = IF floor = "agent" THEN "idle" ELSE floor
  /\ UNCHANGED <<buffer, heard>>

\* The agent stops without an answer for the log: the greeting, or a failure.
AgentYieldsFloor ==
  /\ floor = "agent"
  /\ floor' = "idle"
  /\ UNCHANGED <<buffer, heard, log>>

Next ==
  \/ Greet
  \/ UserTakesFloor
  \/ UserYieldsFloor
  \/ Hear
  \/ Reply
  \/ AgentYieldsFloor

Spec == Init /\ [][Next]_vars

=============================================================================
