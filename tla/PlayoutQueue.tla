---------------------------- MODULE PlayoutQueue ----------------------------
(***************************************************************************)
(* What the playout path promises: a queue of audio units that are played  *)
(* in the order they were accepted, a frame at a time, or thrown away from *)
(* the front; and a wait that ends only when nothing of the waiting caller *)
(* is queued any more, unless the path was shut down.                      *)
(***************************************************************************)
EXTENDS Integers, Sequences, SequencesExt

CONSTANTS Callers, FrameSize, MaxUnits

VARIABLES
  queue,    \* units accepted, not yet paced out
  paced,    \* units paced out, in order
  gone,     \* units thrown away
  owner,    \* the caller that sent each unit
  waiting,  \* callers whose wait has not ended with success
  down      \* the path is being shut down

vars == <<queue, paced, gone, owner, waiting, down>>

Init ==
  /\ queue = <<>>
  /\ paced = <<>>
  /\ gone = {}
  /\ owner = <<>>
  /\ waiting = Callers
  /\ down = FALSE

Accept(c) ==
  /\ c \in waiting
  /\ \E size \in 1..FrameSize :
       /\ Len(owner) + size <= MaxUnits
       /\ queue' = queue \o [i \in 1..size |-> Len(owner) + i]
       /\ owner' = owner \o [i \in 1..size |-> c]
  /\ UNCHANGED <<paced, gone, waiting, down>>

Queued(c) == \E i \in 1..Len(queue) : owner[queue[i]] = c

Play ==
  /\ \E size \in 1..FrameSize :
       /\ size <= Len(queue)
       /\ paced' = paced \o SubSeq(queue, 1, size)
       /\ queue' = SubSeq(queue, size + 1, Len(queue))
  /\ UNCHANGED <<gone, owner, waiting, down>>

Discard ==
  /\ \E n \in 1..Len(queue) :
       /\ gone' = gone \cup ToSet(SubSeq(queue, 1, n))
       /\ queue' = SubSeq(queue, n + 1, Len(queue))
  /\ UNCHANGED <<paced, owner, waiting, down>>

Release(c) ==
  /\ c \in waiting
  /\ down \/ ~Queued(c)
  /\ waiting' = waiting \ {c}
  /\ UNCHANGED <<queue, paced, gone, owner, down>>

ShutDown ==
  /\ ~down
  /\ down' = TRUE
  /\ UNCHANGED <<queue, paced, gone, owner, waiting>>

Next ==
  \/ \E c \in Callers : Accept(c) \/ Release(c)
  \/ Play
  \/ Discard
  \/ ShutDown

Spec == Init /\ [][Next]_vars

=============================================================================
