---------------------------- MODULE Playout_proofs ----------------------------
(***************************************************************************)
(* Proofs about Playout for any number of callers and any capacity.  What   *)
(* a caller is promised at the end of WaitForDrain is not inductive: it    *)
(* depends on where the pacer is between two of its steps and on who may   *)
(* have sent what it still holds.  IInv adds that; with it every step of   *)
(* the path is a step of the queue of PlayoutQueue, or invisible there.    *)
(***************************************************************************)
EXTENDS Playout, Seqs_proofs

USE PacerConstants

\* The stages of a caller's Send and WaitForDrain.
Progress == {"none", "offering", "registered", "released", "returned",
             "aborted"}

\* The points between two steps of runPacer's loop.
Places == {"select", "topup", "emit", "drainin", "stopped"}

\* The values the variables of the playout path take.
TypeInv ==
  /\ ctxDone \in BOOLEAN
  /\ playback \in Seq(Seq(Nat))
  /\ acc \in Seq(Nat)
  /\ emitting \in Seq(Nat)
  /\ out \in Seq(Seq(Nat))
  /\ written \in Seq(Nat)
  /\ owner \in Seq(Callers)
  /\ waiters \subseteq Callers
  /\ wait \in [Callers -> Progress]
  /\ pacer \in Places

\* Frames are cut to size before they are sent.
FramesFit ==
  /\ \A k \in 1..Len(playback) : Len(playback[k]) \in 1..FrameSize
  /\ Len(emitting) <= FrameSize

\* The pacer keeps nothing between its turns but the jitter buffer.
PacerIsEmpty ==
  /\ pacer # "emit" => emitting = <<>>
  /\ pacer = "drainin" => acc = <<>>

\* The units between the callers and the pacer's output.
Held == ToSet(emitting) \cup ToSet(acc) \cup Elements(playback)

\* A unit that is still queued was sent by some caller.
HeldKnown == Held \subseteq 1..Len(owner)

\* The pacer empties the channel into the buffer before it decides: what came
\* in since then is of callers that had not asked to drain.
LateFrames ==
  pacer = "emit" /\ acc = <<>> =>
    \A u \in Elements(playback) : wait[owner[u]] # "registered"

\* A drain is granted when nothing of the caller is queued any more.
Drained ==
  ~ctxDone =>
    \A u \in Held : wait[owner[u]] \notin {"released", "returned"}

\* The inductive invariant of the playout path.
IInv ==
  /\ TypeInv
  /\ FramesFit
  /\ BufferBounded
  /\ PacerIsEmpty
  /\ HeldKnown
  /\ LateFrames
  /\ Drained

-----------------------------------------------------------------------------

\* The path starts empty.
LEMMA InitInv == Init => IInv
<1> SUFFICES ASSUME Init PROVE IInv
  OBVIOUS
<1> USE DEF Init
<1>1. TypeInv
  <2>1. <<>> \in Seq(Seq(Nat)) /\ <<>> \in Seq(Nat) /\ <<>> \in Seq(Callers)
    BY EmptySeq
  <2>2. [c \in Callers |-> "none"] \in [Callers -> Progress]
    BY DEF Progress
  <2> QED BY <2>1, <2>2 DEF TypeInv, Places
<1>2. Held = {}
  BY DEF Held, Elements, ToSet
<1>3. FramesFit /\ PacerIsEmpty /\ LateFrames
  BY DEF FramesFit, PacerIsEmpty, LateFrames
<1>4. BufferBounded
  BY DEF BufferBounded, MaxSamples
<1> QED BY <1>1, <1>2, <1>3, <1>4 DEF IInv, HeldKnown, Drained

\* Nothing moves: the caller asks for its drain, or gives it up.
LEMMA WaitStep ==
  ASSUME IInv, NEW c \in Callers, NEW p \in Progress,
         p = "registered" => pacer # "emit",
         p \in {"released", "returned"} =>
            wait[c] \in {"released", "returned"},
         wait' = [wait EXCEPT ![c] = p],
         UNCHANGED <<ctxDone, playback, owner, acc, emitting, out, written,
                     pacer>>,
         waiters' \subseteq Callers
  PROVE  IInv'
<1> USE DEF IInv
<1>1. TypeInv'
  BY DEF TypeInv
<1>2. FramesFit' /\ BufferBounded' /\ PacerIsEmpty' /\ HeldKnown'
      /\ Held' = Held
  BY DEF FramesFit, BufferBounded, PacerIsEmpty, HeldKnown, Held, Elements,
     ToSet
<1>3. \A u \in Held : owner[u] \in Callers
  BY DEF HeldKnown, TypeInv
<1>4. LateFrames'
  <2> SUFFICES ASSUME pacer = "emit", acc = <<>>, NEW u \in Elements(playback)
               PROVE  wait'[owner[u]] # "registered"
    BY DEF LateFrames, Elements, ToSet
  <2>1. owner[u] \in Callers /\ wait[owner[u]] # "registered"
    BY <1>3 DEF LateFrames, Held
  <2> QED BY <2>1 DEF TypeInv
<1>5. Drained'
  <2> SUFFICES ASSUME ~ctxDone, NEW u \in Held
               PROVE  wait'[owner[u]] \notin {"released", "returned"}
    BY <1>2 DEF Drained
  <2>1. owner[u] \in Callers /\ wait[owner[u]] \notin {"released", "returned"}
    BY <1>3 DEF Drained
  <2> QED BY <2>1 DEF TypeInv
<1> QED BY <1>1, <1>2, <1>4, <1>5


\* closeWaiters, in a step that leaves the pacer between two turns.
LEMMA CloseStep ==
  ASSUME IInv, CloseWaiters,
         ~ctxDone => \A u \in Held' : wait[owner[u]] # "registered",
         Held' \subseteq Held,
         Elements(playback') \subseteq Elements(playback),
         pacer' \in Places \ {"emit", "drainin"}, emitting' = <<>>,
         UNCHANGED <<ctxDone, playback, owner, acc, written>>,
         out' \in Seq(Seq(Nat))
  PROVE  IInv'
<1> USE DEF IInv, CloseWaiters
<1>1. TypeInv'
  <2>1. wait' \in [Callers -> Progress]
    BY DEF TypeInv, Progress
  <2>2. <<>> \in Seq(Nat)
    BY EmptySeq
  <2> QED BY <2>1, <2>2 DEF TypeInv
<1>2. FramesFit'
  BY DEF FramesFit
<1>3. BufferBounded' /\ PacerIsEmpty' /\ HeldKnown' /\ LateFrames'
  BY DEF BufferBounded, PacerIsEmpty, HeldKnown, LateFrames
<1>4. Drained'
  <2> SUFFICES ASSUME ~ctxDone, NEW u \in Held'
               PROVE  wait'[owner[u]] \notin {"released", "returned"}
    BY DEF Drained
  <2>1. /\ owner[u] \in Callers
        /\ wait[owner[u]] \notin {"released", "returned", "registered"}
    BY DEF Drained, HeldKnown, TypeInv
  <2> QED BY <2>1
<1> QED BY <1>1, <1>2, <1>3, <1>4

\* Send
LEMMA SendStep ==
  ASSUME IInv, NEW c \in Callers, NEW size \in 1..FrameSize, Send(c, size)
  PROVE  IInv'
<1> USE DEF IInv
<1> DEFINE f == [i \in 1..size |-> Len(owner) + i]
<1> DEFINE o == [i \in 1..size |-> c]
<1>1. f \in Seq(Nat) /\ Len(f) = size
      /\ ToSet(f) = (Len(owner) + 1)..(Len(owner) + size)
  <2>1. Len(owner) \in Nat BY DEF TypeInv
  <2>2. f \in Seq(Nat) /\ Len(f) = size BY <2>1
  <2>3. DOMAIN f = 1..size OBVIOUS
  <2>4. \A u \in (Len(owner) + 1)..(Len(owner) + size) :
          u - Len(owner) \in 1..size /\ u = Len(owner) + (u - Len(owner))
    BY <2>1
  <2>5. ToSet(f) = {Len(owner) + i : i \in 1..size}
    BY <2>3 DEF ToSet
  <2>6. {Len(owner) + i : i \in 1..size}
          = (Len(owner) + 1)..(Len(owner) + size)
    BY <2>1, <2>4
  <2> QED BY <2>2, <2>5, <2>6
<1>2. /\ owner' \in Seq(Callers) /\ Len(owner') = Len(owner) + size
      /\ \A u \in 1..Len(owner) : owner'[u] = owner[u]
      /\ \A u \in ToSet(f) : owner'[u] = c
  <2>1. o \in Seq(Callers) /\ Len(o) = size /\ \A i \in 1..size : o[i] = c
    OBVIOUS
  <2>2. owner \in Seq(Callers) /\ owner' = owner \o o
    BY DEF TypeInv, Send
  <2> HIDE DEF o, f
  <2>3. /\ owner' \in Seq(Callers) /\ Len(owner') = Len(owner) + size
        /\ \A i \in 1..Len(owner) + size :
             owner'[i] = IF i <= Len(owner) THEN owner[i]
                                            ELSE o[i - Len(owner)]
    BY <2>1, <2>2, ConcatProperties
  <2>4. Len(owner) \in Nat
    BY <2>2
  <2>5. \A u \in ToSet(f) : /\ u \in 1..Len(owner) + size
                             /\ ~(u <= Len(owner))
                             /\ u - Len(owner) \in 1..size
    BY <1>1, <2>4
  <2>6. \A u \in ToSet(f) : owner'[u] = c
    BY <2>1, <2>3, <2>5
  <2> QED BY <2>3, <2>4, <2>6
<1>3. playback' = Append(playback, f) /\ playback' \in Seq(Seq(Nat))
  <2>1. playback' = Append(playback, f) BY DEF Send
  <2> HIDE DEF f
  <2> QED BY <1>1, <2>1, AppendProperties DEF TypeInv
<1>4. Elements(playback') = Elements(playback) \cup ToSet(f)
  <2> HIDE DEF f
  <2> QED BY <1>1, <1>3, ElementsAppend DEF TypeInv
<1> HIDE DEF f, o
<1>5. TypeInv'
  BY <1>2, <1>3 DEF TypeInv, Send, pacerVars
<1>6. FramesFit'
  <2>1. \A k \in 1..Len(playback') : Len(playback'[k]) \in 1..FrameSize
    <3> SUFFICES ASSUME NEW k \in 1..Len(playback')
                 PROVE  Len(playback'[k]) \in 1..FrameSize
      OBVIOUS
    <3>1. /\ Len(playback') = Len(playback) + 1
          /\ k # Len(playback) + 1 =>
               k \in 1..Len(playback) /\ playback'[k] = playback[k]
          /\ k = Len(playback) + 1 => playback'[k] = f
      BY <1>1, <1>3, AppendProperties DEF TypeInv
    <3> QED BY <1>1, <3>1 DEF FramesFit
  <2> QED BY <2>1 DEF FramesFit, Send, pacerVars
<1>7. BufferBounded' /\ PacerIsEmpty'
  BY DEF BufferBounded, PacerIsEmpty, Send, pacerVars
<1>8. Held' = Held \cup ToSet(f)
  BY <1>4 DEF Held, Send, pacerVars
<1>9. HeldKnown'
  <2>1. Len(owner) \in Nat BY DEF TypeInv
  <2>2. 1..Len(owner) \subseteq 1..Len(owner')
        /\ ToSet(f) \subseteq 1..Len(owner')
    BY <1>1, <1>2, <2>1
  <2> QED BY <1>8, <2>2 DEF HeldKnown
<1>10. wait' = wait /\ wait[c] = "none"
  BY DEF Send
<1>11. \A u \in Held : owner'[u] = owner[u]
  BY <1>2 DEF HeldKnown
<1>12. LateFrames'
  <2> SUFFICES ASSUME pacer = "emit", acc = <<>>, NEW u \in Elements(playback')
               PROVE  wait[owner'[u]] # "registered"
    BY <1>10 DEF LateFrames, Send, pacerVars
  <2>1. CASE u \in ToSet(f) BY <2>1, <1>2, <1>10
  <2>2. CASE u \in Elements(playback) BY <2>2, <1>11 DEF LateFrames, Held
  <2> QED BY <2>1, <2>2, <1>4
<1>13. Drained'
  <2> SUFFICES ASSUME ~ctxDone, NEW u \in Held'
               PROVE  wait[owner'[u]] \notin {"released", "returned"}
    BY <1>10 DEF Drained, Send
  <2>1. CASE u \in ToSet(f) BY <2>1, <1>2, <1>10
  <2>2. CASE u \in Held BY <2>2, <1>11 DEF Drained
  <2> QED BY <2>1, <2>2, <1>8
<1> QED BY <1>5, <1>6, <1>7, <1>9, <1>12, <1>13


\* The jitter buffer is thrown away; the channel is next.
LEMMA TakeClearStep == ASSUME IInv, TakeClear PROVE IInv'
<1> USE DEF IInv, TakeClear, PacerStep
<1>1. TypeInv'
  BY EmptySeq DEF TypeInv, Places, callerVars
<1>2. FramesFit' /\ PacerIsEmpty' /\ LateFrames'
  BY DEF FramesFit, PacerIsEmpty, LateFrames
<1>3. BufferBounded'
  BY DEF BufferBounded, MaxSamples
<1>4. Held' \subseteq Held
  BY DEF Held, ToSet
<1>5. HeldKnown' /\ Drained'
  BY <1>4 DEF HeldKnown, Drained, callerVars
<1> QED BY <1>1, <1>2, <1>3, <1>5

\* One frame leaves the playback channel.
LEMMA HeadFacts ==
  ASSUME IInv, playback # <<>>
  PROVE  /\ Head(playback) \in Seq(Nat) /\ Len(Head(playback)) \in 1..FrameSize
         /\ Tail(playback) \in Seq(Seq(Nat))
         /\ \A k \in 1..Len(Tail(playback)) :
              Len(Tail(playback)[k]) \in 1..FrameSize
         /\ Elements(playback)
              = ToSet(Head(playback)) \cup Elements(Tail(playback))
<1> USE DEF IInv
<1>1. playback \in Seq(Seq(Nat))
  BY DEF TypeInv
<1>2. Elements(playback) = ToSet(Head(playback)) \cup Elements(Tail(playback))
  BY <1>1, ElementsHeadTail
<1>3. /\ Head(playback) \in Seq(Nat) /\ Tail(playback) \in Seq(Seq(Nat))
      /\ Len(Tail(playback)) = Len(playback) - 1
      /\ \A i \in 1..Len(Tail(playback)) : Tail(playback)[i] = playback[i+1]
  BY <1>1, HeadTailProperties
<1>4. Len(playback) \in Nat /\ Len(playback) >= 1
      /\ Head(playback) = playback[1]
  BY <1>1
<1>5. Len(Head(playback)) \in 1..FrameSize
  BY <1>4 DEF FramesFit
<1>6. \A k \in 1..Len(Tail(playback)) : Len(Tail(playback)[k]) \in 1..FrameSize
  <2> SUFFICES ASSUME NEW k \in 1..Len(Tail(playback))
               PROVE  Len(Tail(playback)[k]) \in 1..FrameSize
    OBVIOUS
  <2>1. k + 1 \in 1..Len(playback) /\ Tail(playback)[k] = playback[k+1]
    BY <1>3, <1>4
  <2> QED BY <2>1 DEF FramesFit
<1> QED BY <1>2, <1>3, <1>5, <1>6

\* A frame of the channel is thrown away.
LEMMA DrainInStep == ASSUME IInv, DrainIn PROVE IInv'
<1> USE DEF IInv, DrainIn, pacerVars, callerVars
<1>1. TypeInv'
  BY HeadFacts DEF TypeInv
<1>2. FramesFit'
  BY HeadFacts DEF FramesFit
<1>3. BufferBounded' /\ PacerIsEmpty' /\ LateFrames'
  BY DEF BufferBounded, PacerIsEmpty, LateFrames
<1>4. Held' \subseteq Held
  BY HeadFacts DEF Held
<1>5. HeldKnown' /\ Drained'
  BY <1>4 DEF HeldKnown, Drained
<1> QED BY <1>1, <1>2, <1>3, <1>5

\* A frame goes from the channel into the jitter buffer.
LEMMA TopUpStep == ASSUME IInv, TopUp PROVE IInv' /\ Held' = Held
<1> USE DEF IInv, TopUp, callerVars
<1> DEFINE f == Head(playback)
<1>1. /\ f \in Seq(Nat) /\ Len(f) \in 1..FrameSize
      /\ playback' \in Seq(Seq(Nat))
      /\ \A k \in 1..Len(playback') : Len(playback'[k]) \in 1..FrameSize
      /\ Elements(playback) = ToSet(f) \cup Elements(playback')
  BY HeadFacts
<1>2. acc \in Seq(Nat) /\ acc' = acc \o f
  BY DEF TypeInv
<1> HIDE DEF f
<1>3. acc' \in Seq(Nat) /\ Len(acc') = Len(acc) + Len(f)
  <2>1. f \in Seq(Nat) BY <1>1
  <2> QED BY <1>2, <2>1, ConcatProperties
<1>4. TypeInv'
  BY <1>1, <1>3 DEF TypeInv
<1>5. FramesFit'
  BY <1>1 DEF FramesFit
<1>6. BufferBounded'
  <2>1. Len(acc) \in Nat /\ MaxSamples \in Nat /\ Len(acc) < MaxSamples
    BY <1>2 DEF MaxSamples
  <2> QED BY <1>1, <1>3, <2>1 DEF BufferBounded
<1>7. PacerIsEmpty' /\ LateFrames'
  BY DEF PacerIsEmpty, LateFrames
<1>8. Held' = Held
  <2>1. ToSet(acc') = ToSet(acc) \cup ToSet(f)
    <3>1. f \in Seq(Nat) BY <1>1
    <3>2. ToSet(acc \o f) = ToSet(acc) \cup ToSet(f)
      BY <1>2, <3>1, ConcatElements
    <3> QED BY <1>2, <3>2
  <2> QED BY <1>1, <2>1 DEF Held
<1>9. HeldKnown' /\ Drained'
  BY <1>8 DEF HeldKnown, Drained
<1> QED BY <1>4, <1>5, <1>6, <1>7, <1>8, <1>9

\* The tick decides: what it takes for emission leaves the buffer's front.
LEMMA DecideFacts ==
  ASSUME IInv, Decide
  PROVE  /\ emitting = <<>>
         /\ emitting' \in Seq(Nat) /\ acc' \in Seq(Nat)
         /\ Len(emitting') <= FrameSize /\ Len(acc') <= Len(acc)
         /\ emitting' \o acc' = acc
         /\ ToSet(emitting') \cup ToSet(acc') = ToSet(acc)
         /\ acc' = <<>> => Len(acc) <= FrameSize
<1> USE DEF IInv
<1> DEFINE on == playing \/ StartsPlaying
<1> DEFINE size == IF Len(acc) < FrameSize THEN Len(acc) ELSE FrameSize
<1>1. acc \in Seq(Nat) /\ Len(acc) \in Nat
  BY DEF TypeInv
<1>2. emitting = <<>>
  BY DEF PacerIsEmpty, Decide, PacerStep
<1>3. /\ emitting' = IF on THEN SubSeq(acc, 1, size) ELSE <<>>
      /\ acc' = IF on THEN SubSeq(acc, size + 1, Len(acc)) ELSE acc
  BY DEF Decide
<1>4. CASE on
  <2>1. size \in 0..Len(acc) /\ size <= FrameSize
        /\ (size = Len(acc) => Len(acc) <= FrameSize)
    BY <1>1
  <2> HIDE DEF size, on
  <2>2. emitting' = SubSeq(acc, 1, size)
        /\ acc' = SubSeq(acc, size + 1, Len(acc))
    BY <1>3, <1>4
  <2>3. /\ emitting' \in Seq(Nat) /\ acc' \in Seq(Nat)
        /\ Len(emitting') = size /\ Len(acc') = Len(acc) - size
        /\ emitting' \o acc' = acc
    BY <1>1, <2>1, <2>2, CutConcat
  <2>4. ToSet(emitting') \cup ToSet(acc') = ToSet(acc)
    BY <1>1, <2>1, <2>2, CutElements
  <2>5. acc' = <<>> => Len(acc) <= FrameSize
    BY <1>1, <2>1, <2>3
  <2>6. Len(emitting') <= FrameSize /\ Len(acc') <= Len(acc)
    BY <1>1, <2>1, <2>3
  <2> QED BY <1>2, <2>3, <2>4, <2>5, <2>6
<1>5. CASE ~on
  <2>1. emitting' = <<>> /\ acc' = acc
    BY <1>3, <1>5
  <2>2. <<>> \o acc = acc
    BY <1>1
  <2>3. ToSet(<<>>) = {} /\ Len(<<>>) = 0 /\ <<>> \in Seq(Nat)
    BY DEF ToSet
  <2>4. acc = <<>> => Len(acc) <= FrameSize
    OBVIOUS
  <2> HIDE DEF on
  <2> QED BY <1>1, <1>2, <2>1, <2>2, <2>3, <2>4
<1> HIDE DEF on
<1> QED BY <1>4, <1>5

\* A tick of runPacer moves units from the buffer to the emission, and
\* releases waiters only when none is left.
LEMMA DecideStep == ASSUME IInv, Decide PROVE IInv' /\ Held' = Held
<1> USE DEF IInv
<1>1. /\ pacer' = "emit" /\ playback' = playback
      /\ UNCHANGED <<ctxDone, owner, wait, waiters, out, written>>
      /\ Len(acc) >= MaxSamples \/ playback = <<>>
  BY DEF Decide, PacerStep, callerVars
<1>2. TypeInv'
  BY <1>1, DecideFacts DEF TypeInv, Places
<1>3. FramesFit' /\ BufferBounded' /\ PacerIsEmpty'
  <2>1. MaxSamples \in Nat
    BY DEF MaxSamples
  <2>2. Len(acc) \in Nat /\ Len(acc') \in Nat
    <3>1. acc \in Seq(Nat) BY DEF TypeInv
    <3>2. acc' \in Seq(Nat) BY DecideFacts
    <3> QED BY <3>1, <3>2
  <2> QED
    BY <1>1, <2>1, <2>2, DecideFacts DEF FramesFit, BufferBounded, PacerIsEmpty
<1>4. Held' = Held
  <2>1. ToSet(emitting) = {}
    BY DecideFacts DEF ToSet
  <2> QED BY <1>1, <2>1, DecideFacts DEF Held
<1>5. HeldKnown' /\ Drained'
  BY <1>1, <1>4 DEF HeldKnown, Drained
<1>6. LateFrames'
  <2> SUFFICES ASSUME acc' = <<>> PROVE Elements(playback') = {}
    BY DEF LateFrames
  <2>1. Len(acc) <= FrameSize /\ Len(acc) \in Nat
    BY DecideFacts DEF TypeInv
  <2>2. FrameSize < MaxSamples
    BY DEF MaxSamples
  <2>3. playback = <<>>
    <3>1. MaxSamples \in Nat BY DEF MaxSamples
    <3> QED BY <1>1, <2>1, <2>2, <3>1
  <2> QED BY <1>1, <2>3 DEF Elements
<1> QED BY <1>2, <1>3, <1>4, <1>5, <1>6


\* The emission, taken by the output or lost to the end of the session.
LEMMA AfterEmitStep ==
  ASSUME IInv, AfterEmit, out' \in Seq(Seq(Nat))
  PROVE  IInv' /\ Held' = ToSet(acc) \cup Elements(playback)
<1> USE DEF IInv, AfterEmit, PacerStep
<1>1. Held' = ToSet(acc) \cup Elements(playback)
  BY DEF Held, ToSet
<1>2. Held' \subseteq Held
  BY <1>1 DEF Held
<1>3. CASE waiters # {} /\ acc = <<>>
  <2>1. Held' = Elements(playback)
    BY <1>1, <1>3 DEF ToSet
  <2>2. \A u \in Held' : wait[owner[u]] # "registered"
    BY <2>1, <1>3 DEF LateFrames
  <2>3. pacer' \in Places \ {"emit", "drainin"}
    BY DEF Places
  <2>4. CloseWaiters
    BY <1>3
  <2>5. UNCHANGED <<ctxDone, playback, owner, acc, written>>
        /\ emitting' = <<>>
    OBVIOUS
  <2> QED BY <1>1, <1>2, <2>2, <2>3, <2>4, <2>5, CloseStep
<1>4. CASE ~(waiters # {} /\ acc = <<>>)
  <2>1. UNCHANGED <<waiters, wait>>
    BY <1>4
  <2>2. TypeInv'
    BY <2>1, EmptySeq DEF TypeInv, Places
  <2>3. FramesFit' /\ BufferBounded' /\ PacerIsEmpty' /\ LateFrames'
    BY DEF FramesFit, BufferBounded, PacerIsEmpty, LateFrames
  <2>4. HeldKnown' /\ Drained'
    BY <1>2, <2>1 DEF HeldKnown, Drained
  <2> QED BY <1>1, <2>2, <2>3, <2>4
<1> QED BY <1>3, <1>4

\* The output takes the emission.
LEMMA EmitStep == ASSUME IInv, Emit PROVE IInv'
<1>1. out' = Append(out, emitting) /\ emitting \in Seq(Nat)
      /\ out \in Seq(Seq(Nat))
  BY DEF Emit, IInv, TypeInv
<1>2. out' \in Seq(Seq(Nat))
  BY <1>1, AppendProperties
<1> QED BY <1>2, AfterEmitStep DEF Emit

\* The session ends while the emission is offered.
LEMMA EmitAbortsStep == ASSUME IInv, EmitAborts PROVE IInv'
<1>1. out' \in Seq(Seq(Nat))
  BY DEF EmitAborts, IInv, TypeInv
<1> QED BY <1>1, AfterEmitStep DEF EmitAborts

\* The output's next frame goes to the track.
LEMMA WriteFacts ==
  ASSUME IInv, out # <<>>
  PROVE  /\ Head(out) \in Seq(Nat) /\ Tail(out) \in Seq(Seq(Nat))
         /\ written \o Head(out) \in Seq(Nat)
<1>1. written \in Seq(Nat) /\ out \in Seq(Seq(Nat))
  BY DEF IInv, TypeInv
<1>2. Head(out) \in Seq(Nat) /\ Tail(out) \in Seq(Seq(Nat))
  BY <1>1, HeadTailProperties
<1>3. written \o Head(out) \in Seq(Nat)
  BY <1>1, <1>2, ConcatProperties
<1> QED BY <1>2, <1>3

\* Steps that leave the callers and the pacer where they are.
LEMMA OutputStep ==
  ASSUME IInv, UNCHANGED <<playback, callerVars, pacerVars>>,
         ctxDone' \in BOOLEAN, ctxDone => ctxDone',
         written' \in Seq(Nat), out' \in Seq(Seq(Nat))
  PROVE  IInv'
<1> USE DEF IInv, callerVars, pacerVars
<1>1. TypeInv'
  BY DEF TypeInv
<1>2. Held' = Held
  BY DEF Held
<1>3. FramesFit' /\ BufferBounded' /\ PacerIsEmpty' /\ LateFrames'
  BY DEF FramesFit, BufferBounded, PacerIsEmpty, LateFrames
<1>4. HeldKnown' /\ Drained'
  BY <1>2 DEF HeldKnown, Drained
<1> QED BY <1>1, <1>3, <1>4

-----------------------------------------------------------------------------

\* Every step of a caller of Send and WaitForDrain.
LEMMA CallerStep == ASSUME IInv, NEW c \in Callers, Caller(c) PROVE IInv'
<1>0. wait[c] \in Progress
  BY DEF IInv, TypeInv
<1>1. ASSUME NEW size \in 1..FrameSize, Send(c, size) PROVE IInv'
  BY <1>1, SendStep
<1>2. CASE CallWaitForDrain(c)
  <2>1. "offering" \in Progress BY DEF Progress
  <2>2. waiters' \subseteq Callers
    BY <1>2 DEF CallWaitForDrain, pacerVars, IInv, TypeInv
  <2> QED BY <1>2, <2>1, <2>2, WaitStep DEF CallWaitForDrain, pacerVars
<1>3. CASE WaitForDrainReturns(c)
  <2>1. "returned" \in Progress BY DEF Progress
  <2>2. waiters' \subseteq Callers
    BY <1>3 DEF WaitForDrainReturns, pacerVars, IInv, TypeInv
  <2> QED BY <1>3, <2>1, <2>2, WaitStep DEF WaitForDrainReturns, pacerVars
<1>4. CASE WaitForDrainAborts(c)
  <2>1. "aborted" \in Progress BY DEF Progress
  <2>2. waiters' \subseteq Callers
    BY <1>4 DEF WaitForDrainAborts, pacerVars, IInv, TypeInv
  <2> QED BY <1>4, <2>1, <2>2, WaitStep DEF WaitForDrainAborts, pacerVars
<1> QED BY <1>1, <1>2, <1>3, <1>4 DEF Caller

\* Every step of runPacer.
LEMMA PacerStepInv == ASSUME IInv, Pacer PROVE IInv'
<1>1. CASE Stop
  <2>1. /\ Held' = Held /\ ctxDone /\ CloseWaiters
        /\ UNCHANGED <<ctxDone, playback, owner, acc, written>>
        /\ pacer' \in Places \ {"emit", "drainin"} /\ emitting' = <<>>
        /\ out' \in Seq(Seq(Nat))
    BY <1>1 DEF Stop, PacerStep, Held, Places, IInv, PacerIsEmpty, TypeInv
  <2> QED BY <2>1, CloseStep
<1>2. ASSUME NEW c \in Callers, TakeDrain(c) PROVE IInv'
  <2>1. "registered" \in Progress BY DEF Progress
  <2>2. waiters' \subseteq Callers BY <1>2 DEF TakeDrain, IInv, TypeInv
  <2> QED BY <1>2, <2>1, <2>2, WaitStep DEF TakeDrain
<1>3. CASE TakeClear BY <1>3, TakeClearStep
<1>4. CASE DrainIn BY <1>4, DrainInStep
<1>5. CASE DrainInDone
  <2>1. /\ CloseWaiters
        /\ UNCHANGED <<ctxDone, playback, owner, acc, written>>
        /\ pacer' \in Places \ {"emit", "drainin"} /\ emitting' = <<>>
        /\ out' \in Seq(Seq(Nat))
    BY <1>5 DEF DrainInDone, PacerStep, Places, IInv, PacerIsEmpty, TypeInv
  <2>2. Held' = {}
    BY <1>5 DEF DrainInDone, PacerStep, IInv, PacerIsEmpty, Held, ToSet,
       Elements
  <2> QED BY <2>1, <2>2, CloseStep
<1>6. CASE Tick
  <2> USE DEF IInv, Tick, PacerStep
  <2>1. Held' = Held BY <1>6 DEF Held
  <2>2. TypeInv' BY <1>6 DEF TypeInv, Places, callerVars
  <2> QED BY <1>6, <2>1, <2>2 DEF FramesFit, BufferBounded, PacerIsEmpty,
        HeldKnown, LateFrames, Drained, callerVars
<1>7. CASE TopUp BY <1>7, TopUpStep
<1>8. CASE Decide BY <1>8, DecideStep
<1>9. CASE Emit BY <1>9, EmitStep
<1>10. CASE EmitAborts BY <1>10, EmitAbortsStep
<1> QED
  BY <1>1, <1>2, <1>3, <1>4, <1>5, <1>6, <1>7, <1>8, <1>9, <1>10 DEF Pacer

\* Clear, the end of the session, and the steps of the output.
LEMMA OtherStep == ASSUME IInv, Clear \/ ContextDone \/ Outbound PROVE IInv'
<1>0. ctxDone \in BOOLEAN /\ written \in Seq(Nat) /\ out \in Seq(Seq(Nat))
  BY DEF IInv, TypeInv
<1>1. CASE Clear BY <1>0, <1>1, OutputStep DEF Clear
<1>2. CASE ContextDone BY <1>0, <1>2, OutputStep DEF ContextDone
<1>3. CASE WriteSample BY <1>0, <1>3, WriteFacts, OutputStep DEF WriteSample
<1>4. CASE WriteFails BY <1>0, <1>4, WriteFacts, OutputStep DEF WriteFails
<1>5. CASE OutboundStops BY <1>0, <1>5, OutputStep DEF OutboundStops
<1> QED BY <1>1, <1>2, <1>3, <1>4, <1>5 DEF Outbound

\* A step that changes nothing.
LEMMA StutterStep == ASSUME IInv, UNCHANGED vars PROVE IInv'
BY DEF IInv, vars, callerVars, pacerVars, TypeInv, FramesFit, BufferBounded,
   PacerIsEmpty, HeldKnown, LateFrames, Drained, Held

\* The strengthened invariant holds at every reachable state: what the buffer
\* holds, whose units are queued, and what a granted drain means.
THEOREM PlayoutInductive == Spec => []IInv
<1>1. Init => IInv
  BY InitInv
<1>2. IInv /\ [Next]_vars => IInv'
  BY CallerStep, PacerStepInv, OtherStep, StutterStep DEF Next
<1> QED BY <1>1, <1>2, PTL DEF Spec


-----------------------------------------------------------------------------
(* The refinement.                                                         *)

\* The callers whose wait has not returned.
Waiting == {c \in Callers : wait[c] # "returned"}

\* What the refinement needs to know of a state: the flattened queue is a
\* sequence of the units held.
QueueShape ==
         /\ emitting \in Seq(Nat) /\ acc \in Seq(Nat)
         /\ FlattenSeq(playback) \in Seq(Nat) /\ FlattenSeq(out) \in Seq(Nat)
         /\ acc \o FlattenSeq(playback) \in Seq(Nat)
         /\ Queue \in Seq(Nat)
         /\ Queue = emitting \o (acc \o FlattenSeq(playback))
         /\ ToSet(Queue) = Held
         /\ Paced \in Seq(Nat)

\* The invariant gives the shape of the flattened queue.
LEMMA QueueFacts == IInv => QueueShape
<1> SUFFICES ASSUME IInv PROVE QueueShape
  OBVIOUS
<1> USE DEF QueueShape
<1> DEFINE f == FlattenSeq(playback)
<1>1. emitting \in Seq(Nat) /\ acc \in Seq(Nat)
  BY DEF IInv, TypeInv
<1>2. playback \in Seq(Seq(Nat)) /\ out \in Seq(Seq(Nat))
  BY DEF IInv, TypeInv
<1>3. f \in Seq(Nat) /\ FlattenSeq(out) \in Seq(Nat)
      /\ ToSet(f) = Elements(playback)
  BY <1>2, FlattenType, FlattenElements
<1>4. Queue = (emitting \o acc) \o f
  BY DEF Queue
<1> HIDE DEF f
<1>5. emitting \o acc \in Seq(Nat) /\ acc \o f \in Seq(Nat)
  BY <1>1, <1>3
<1>6. Queue \in Seq(Nat)
  BY <1>3, <1>4, <1>5
<1>7. (emitting \o acc) \o f = emitting \o (acc \o f)
  BY <1>1, <1>3
<1>8. /\ ToSet(emitting \o acc) = ToSet(emitting) \cup ToSet(acc)
      /\ ToSet((emitting \o acc) \o f) = ToSet(emitting \o acc) \cup ToSet(f)
  <2>1. ToSet(emitting \o acc) = ToSet(emitting) \cup ToSet(acc)
    BY <1>1, ConcatElements
  <2> DEFINE p == emitting \o acc
  <2>2. p \in Seq(Nat)
    BY <1>5
  <2> HIDE DEF p
  <2>3. ToSet(p \o f) = ToSet(p) \cup ToSet(f)
    BY <2>2, <1>3, ConcatElements
  <2> QED BY <2>1, <2>3 DEF p
<1>9. Paced \in Seq(Nat)
  <2>1. written \in Seq(Nat) BY DEF IInv, TypeInv
  <2> QED BY <1>3, <2>1 DEF Paced
<1> QED BY <1>1, <1>3, <1>4, <1>5, <1>6, <1>7, <1>8, <1>9 DEF f, Held

\* A step that takes units from the front of the queue and nothing else.
LEMMA FrontLeaves ==
  ASSUME NEW p \in Seq(Nat), NEW q \in Seq(Nat), NEW r \in Seq(Nat),
         q = p \o r, p # <<>>
  PROVE  /\ Len(p) \in 1..Len(q)
         /\ SubSeq(q, 1, Len(p)) = p
         /\ SubSeq(q, Len(p) + 1, Len(q)) = r
<1>1. Len(p) \in Nat /\ Len(p) >= 1 /\ Len(r) \in Nat
      /\ Len(q) = Len(p) + Len(r)
  OBVIOUS
<1> QED BY <1>1, ConcatCut

\* The empty path is the empty queue.
LEMMA InitRefines == Init => Abstract!Init
<1> SUFFICES ASSUME Init PROVE Abstract!Init
  OBVIOUS
<1>1. FlattenSeq(playback) = <<>> /\ FlattenSeq(out) = <<>>
  BY FlattenEmpty DEF Init
<1>2. <<>> \o <<>> = <<>>
  OBVIOUS
<1> QED BY <1>1, <1>2 DEF Init, Abstract!Init, Queue, Paced

\* Send puts the frame at the end of the flattened queue.
LEMMA SendRefines ==
  ASSUME IInv, NEW c \in Callers, NEW size \in 1..FrameSize, Send(c, size)
  PROVE  Abstract!Accept(c)
<1> DEFINE f == [i \in 1..size |-> Len(owner) + i]
<1>1. f \in Seq(Nat)
  <2>1. Len(owner) \in Nat BY DEF IInv, TypeInv
  <2> QED BY <2>1
<1>2. playback \in Seq(Seq(Nat)) /\ playback' = Append(playback, f)
  BY DEF Send, IInv, TypeInv
<1> HIDE DEF f
<1>3. FlattenSeq(playback') = FlattenSeq(playback) \o f
  BY <1>1, <1>2, FlattenAppend
<1>4. emitting \o acc \in Seq(Nat) /\ FlattenSeq(playback) \in Seq(Nat)
  <2>1. emitting \in Seq(Nat) /\ acc \in Seq(Nat)
    BY QueueFacts DEF QueueShape
  <2> QED BY <2>1, QueueFacts DEF QueueShape
<1>5. (emitting \o acc) \o (FlattenSeq(playback) \o f)
        = ((emitting \o acc) \o FlattenSeq(playback)) \o f
  <2> DEFINE p == emitting \o acc
  <2> DEFINE a == FlattenSeq(playback)
  <2>1. IsSeq(p, Nat) /\ IsSeq(a, Nat) /\ IsSeq(f, Nat)
    BY <1>1, <1>4 DEF IsSeq
  <2> HIDE DEF p, a
  <2>2. Cat(Cat(p, a), f) = Cat(p, Cat(a, f))
    BY <2>1, CatShift
  <2> QED BY <2>2 DEF Cat, p, a
<1>6. Queue' = Queue \o f
  BY <1>3, <1>5 DEF Queue, Send, pacerVars
<1>7. Paced' = Paced
  BY DEF Paced, Send
<1> QED BY <1>6, <1>7 DEF Abstract!Accept, Send, f

\* A caller leaves WaitForDrain when no unit of its own is queued.
LEMMA ReleaseRefines ==
  ASSUME IInv, NEW c \in Callers, WaitForDrainReturns(c)
  PROVE  Abstract!Release(c)
<1>1. UNCHANGED <<Queue, Paced, dropped, owner, ctxDone>>
  BY DEF Queue, Paced, WaitForDrainReturns, pacerVars
<1>2. ctxDone \/ ~Abstract!Queued(c)
  <2> SUFFICES ASSUME ~ctxDone, NEW i \in 1..Len(Queue), owner[Queue[i]] = c
               PROVE  FALSE
    BY DEF Abstract!Queued
  <2>1. Queue[i] \in Held
    <3>1. Queue \in Seq(Nat) /\ ToSet(Queue) = Held
      BY QueueFacts DEF QueueShape
    <3>2. Queue[i] \in ToSet(Queue)
      BY <3>1 DEF ToSet
    <3> QED BY <3>1, <3>2
  <2> QED BY <2>1 DEF IInv, Drained, WaitForDrainReturns
<1>3. Waiting' = Waiting \ {c} /\ c \in Waiting
  BY DEF Waiting, WaitForDrainReturns, IInv, TypeInv
<1> QED BY <1>1, <1>2, <1>3 DEF Abstract!Release, Waiting

\* A step that loses a front part of the queue is an abstract discard.
LEMMA DiscardRefines ==
  ASSUME IInv, IInv', NEW p \in Seq(Nat), Queue = p \o Queue',
         dropped' = dropped \cup ToSet(p),
         UNCHANGED <<Paced, owner, Waiting, ctxDone>>
  PROVE  Abstract!Discard \/ UNCHANGED Abstract!vars
<1>1. Queue \in Seq(Nat) /\ Queue' \in Seq(Nat)
  <2>1. Queue \in Seq(Nat) BY QueueFacts DEF QueueShape
  <2>2. IInv' => QueueShape' BY QueueFacts, PTL
  <2>3. Queue' \in Seq(Nat) BY <2>2 DEF QueueShape
  <2> QED BY <2>1, <2>3
<1>2. CASE p = <<>>
  <2>1. Queue' = Queue /\ dropped' = dropped
    BY <1>1, <1>2 DEF ToSet
  <2> QED BY <2>1 DEF Abstract!vars, Waiting
<1>3. CASE p # <<>>
  <2>1. /\ Len(p) \in 1..Len(Queue) /\ SubSeq(Queue, 1, Len(p)) = p
        /\ SubSeq(Queue, Len(p) + 1, Len(Queue)) = Queue'
    BY <1>1, <1>3, FrontLeaves
  <2>2. dropped' = dropped \cup ToSet(SubSeq(Queue, 1, Len(p)))
    BY <2>1
  <2>3. \E n \in 1..Len(Queue) :
          /\ dropped' = dropped \cup ToSet(SubSeq(Queue, 1, n))
          /\ Queue' = SubSeq(Queue, n + 1, Len(Queue))
    <3> DEFINE n == Len(p)
    <3>1. n \in 1..Len(Queue) BY <2>1
    <3>2. /\ dropped' = dropped \cup ToSet(SubSeq(Queue, 1, n))
          /\ Queue' = SubSeq(Queue, n + 1, Len(Queue))
      BY <2>1, <2>2
    <3> HIDE DEF n
    <3> WITNESS n \in 1..Len(Queue)
    <3> QED BY <3>2
  <2> QED BY <2>3 DEF Abstract!Discard, Waiting, Abstract!ToSet, ToSet
<1> QED BY <1>2, <1>3


\* A step that plays a front part of the queue, one frame at most, is an
\* abstract play.
LEMMA PlayRefines ==
  ASSUME IInv, IInv', NEW p \in Seq(Nat), Queue = p \o Queue',
         Len(p) <= FrameSize, Paced' = Paced \o p,
         UNCHANGED <<dropped, owner, Waiting, ctxDone>>
  PROVE  Abstract!Play \/ UNCHANGED Abstract!vars
<1>1. Queue \in Seq(Nat) /\ Queue' \in Seq(Nat) /\ Paced \in Seq(Nat)
  <2>1. Queue \in Seq(Nat) /\ Paced \in Seq(Nat) BY QueueFacts DEF QueueShape
  <2>2. IInv' => QueueShape' BY QueueFacts, PTL
  <2>3. Queue' \in Seq(Nat) BY <2>2 DEF QueueShape
  <2> QED BY <2>1, <2>3
<1>2. CASE p = <<>>
  <2>1. Queue' = Queue /\ Paced' = Paced
    BY <1>1, <1>2
  <2> QED BY <2>1 DEF Abstract!vars, Waiting
<1>3. CASE p # <<>>
  <2>1. /\ Len(p) \in 1..Len(Queue) /\ SubSeq(Queue, 1, Len(p)) = p
        /\ SubSeq(Queue, Len(p) + 1, Len(Queue)) = Queue'
    BY <1>1, <1>3, FrontLeaves
  <2>2. Len(p) \in 1..FrameSize /\ Len(p) <= Len(Queue)
    BY <1>1, <2>1
  <2>3. Paced' = Paced \o SubSeq(Queue, 1, Len(p))
    BY <2>1
  <2> QED BY <2>1, <2>2, <2>3 DEF Abstract!Play, Waiting
<1> QED BY <1>2, <1>3

\* Steps that move no unit between the two ends and end no wait.
LEMMA Stutters ==
  ASSUME UNCHANGED <<Queue, Paced, dropped, owner, Waiting, ctxDone>>
  PROVE  UNCHANGED Abstract!vars
BY DEF Abstract!vars, Waiting

\* Releasing the waiters returns none of them yet.
LEMMA CloseKeepsWaiting ==
  ASSUME IInv, CloseWaiters PROVE Waiting' = Waiting
BY DEF IInv, TypeInv, CloseWaiters, Waiting

\* Every step of a caller is a step of the queue or a stutter.
LEMMA CallerRefines ==
  ASSUME IInv, NEW c \in Callers, Caller(c)
  PROVE  Abstract!Next \/ UNCHANGED Abstract!vars
<1>1. ASSUME NEW size \in 1..FrameSize, Send(c, size) PROVE Abstract!Next
  BY <1>1, SendRefines DEF Abstract!Next
<1>2. CASE WaitForDrainReturns(c)
  BY <1>2, ReleaseRefines DEF Abstract!Next
<1>3. CASE CallWaitForDrain(c)
  <2>1. UNCHANGED <<Queue, Paced, dropped, owner, Waiting, ctxDone>>
    BY <1>3 DEF CallWaitForDrain, pacerVars, Queue, Paced, Waiting, IInv,
       TypeInv
  <2> QED BY <2>1, Stutters
<1>4. CASE WaitForDrainAborts(c)
  <2>1. UNCHANGED <<Queue, Paced, dropped, owner, Waiting, ctxDone>>
    BY <1>4 DEF WaitForDrainAborts, pacerVars, Queue, Paced, Waiting, IInv,
       TypeInv
  <2> QED BY <2>1, Stutters
<1> QED BY <1>1, <1>2, <1>3, <1>4 DEF Caller

\* Every step of runPacer is a step of the queue or a stutter.
LEMMA PacerRefines ==
  ASSUME IInv, IInv', Pacer
  PROVE  Abstract!Next \/ UNCHANGED Abstract!vars
<1> USE DEF PacerStep, callerVars, pacerVars
<1>0. QueueShape /\ QueueShape'
  <2>1. IInv' => QueueShape' BY QueueFacts, PTL
  <2> QED BY <2>1, QueueFacts
<1>1. CASE Stop
  <2>1. UNCHANGED <<Queue, Paced, dropped, owner, Waiting, ctxDone>>
    BY <1>1, CloseKeepsWaiting DEF Stop, Queue, Paced
  <2> QED BY <2>1, Stutters
<1>2. ASSUME NEW c \in Callers, TakeDrain(c) PROVE UNCHANGED Abstract!vars
  <2>1. UNCHANGED <<Queue, Paced, dropped, owner, Waiting, ctxDone>>
    BY <1>2 DEF TakeDrain, Queue, Paced, Waiting, IInv, TypeInv
  <2> QED BY <2>1, Stutters
<1>3. CASE TakeClear
  <2>1. emitting = <<>> /\ emitting' = <<>> /\ acc' = <<>> /\ acc \in Seq(Nat)
    BY <1>3, <1>0 DEF TakeClear, IInv, PacerIsEmpty, QueueShape
  <2>2. Queue = acc \o FlattenSeq(playback) /\ Queue' = FlattenSeq(playback)
    <3>1. acc \o FlattenSeq(playback) \in Seq(Nat)
          /\ FlattenSeq(playback) \in Seq(Nat)
      BY <1>0 DEF QueueShape
    <3>2. Queue = <<>> \o (acc \o FlattenSeq(playback))
      BY <1>0, <2>1 DEF QueueShape
    <3>3. Queue' = <<>> \o (<<>> \o FlattenSeq(playback))
      BY <1>0, <1>3, <2>1 DEF QueueShape, TakeClear
    <3> QED BY <3>1, <3>2, <3>3, ConcatEmptySeq
  <2>3. UNCHANGED <<Paced, owner, Waiting, ctxDone>>
        /\ dropped' = dropped \cup ToSet(acc)
    BY <1>3 DEF TakeClear, Paced, Waiting
  <2>4. Queue = acc \o Queue'
    BY <2>2
  <2> QED BY <2>1, <2>3, <2>4, DiscardRefines DEF Abstract!Next
<1>4. CASE DrainIn
  <2> DEFINE f == Head(playback)
  <2>1. emitting = <<>> /\ acc = <<>> /\ emitting' = <<>> /\ acc' = <<>>
    BY <1>4 DEF DrainIn, IInv, PacerIsEmpty
  <2>2. playback \in Seq(Seq(Nat)) /\ playback # <<>>
        /\ playback' = Tail(playback)
    BY <1>4 DEF DrainIn, IInv, TypeInv
  <2>3. FlattenSeq(playback) = f \o FlattenSeq(playback') /\ f \in Seq(Nat)
    BY <2>2, FlattenHeadTail, HeadTailProperties
  <2>4. Queue = FlattenSeq(playback) /\ Queue' = FlattenSeq(playback')
    <3>1. FlattenSeq(playback) \in Seq(Nat)
          /\ FlattenSeq(playback') \in Seq(Nat)
      BY <1>0 DEF QueueShape
    <3>2. Queue = <<>> \o (<<>> \o FlattenSeq(playback))
      BY <1>0, <2>1 DEF QueueShape
    <3>3. Queue' = <<>> \o (<<>> \o FlattenSeq(playback'))
      BY <1>0, <2>1 DEF QueueShape
    <3> QED BY <3>1, <3>2, <3>3, ConcatEmptySeq
  <2>5. UNCHANGED <<Paced, owner, Waiting, ctxDone>>
        /\ dropped' = dropped \cup ToSet(f)
    BY <1>4 DEF DrainIn, Paced, Waiting
  <2> HIDE DEF f
  <2>6. Queue = f \o Queue'
    BY <2>3, <2>4
  <2> QED BY <2>3, <2>5, <2>6, DiscardRefines DEF Abstract!Next
<1>5. CASE DrainInDone
  <2>1. UNCHANGED <<Queue, Paced, dropped, owner, Waiting, ctxDone>>
    BY <1>5, CloseKeepsWaiting DEF DrainInDone, Queue, Paced
  <2> QED BY <2>1, Stutters
<1>6. CASE Tick
  <2>1. UNCHANGED <<Queue, Paced, dropped, owner, Waiting, ctxDone>>
    BY <1>6 DEF Tick, Queue, Paced, Waiting
  <2> QED BY <2>1, Stutters
<1>7. CASE TopUp
  <2> DEFINE f == Head(playback)
  <2>1. playback \in Seq(Seq(Nat)) /\ playback # <<>>
        /\ playback' = Tail(playback)
    BY <1>7 DEF TopUp, IInv, TypeInv
  <2>2. FlattenSeq(playback) = f \o FlattenSeq(playback') /\ f \in Seq(Nat)
    BY <2>1, FlattenHeadTail, HeadTailProperties
  <2>3. acc' = acc \o f /\ emitting' = emitting
    BY <1>7 DEF TopUp
  <2> HIDE DEF f
  <2>4. acc' \o FlattenSeq(playback') = acc \o FlattenSeq(playback)
    <3> DEFINE r == FlattenSeq(playback')
    <3>1. IsSeq(acc, Nat) /\ IsSeq(f, Nat) /\ IsSeq(r, Nat)
      BY <1>0, <2>2 DEF QueueShape, IsSeq
    <3> HIDE DEF r
    <3>2. Cat(Cat(acc, f), r) = Cat(acc, Cat(f, r))
      BY <3>1, CatShift
    <3> QED BY <2>2, <2>3, <3>2 DEF Cat, r
  <2>5. Queue' = Queue
    BY <1>0, <2>3, <2>4 DEF QueueShape
  <2>6. UNCHANGED <<Paced, dropped, owner, Waiting, ctxDone>>
    BY <1>7 DEF TopUp, Paced, Waiting
  <2> QED BY <2>5, <2>6, Stutters
<1>8. CASE Decide
  <2>1. emitting = <<>> /\ emitting' \o acc' = acc /\ acc \in Seq(Nat)
    BY <1>0, <1>8, DecideFacts DEF QueueShape
  <2>2. emitting \o acc = acc
    BY <2>1, ConcatEmptySeq
  <2>3. Queue' = Queue
    BY <1>8, <2>1, <2>2 DEF Queue, Decide
  <2>4. UNCHANGED <<Paced, dropped, owner, Waiting, ctxDone>>
    BY <1>8 DEF Decide, Paced, Waiting
  <2> QED BY <2>3, <2>4, Stutters
<1>9. ASSUME AfterEmit
      PROVE  /\ Queue = emitting \o Queue' /\ emitting \in Seq(Nat)
             /\ Len(emitting) <= FrameSize
             /\ UNCHANGED <<owner, Waiting, ctxDone, written>>
  <2>1. emitting' = <<>> /\ acc' = acc /\ playback' = playback
    BY <1>9 DEF AfterEmit
  <2>2. Queue' = acc \o FlattenSeq(playback)
    <3>1. acc \o FlattenSeq(playback) \in Seq(Nat)
      BY <1>0 DEF QueueShape
    <3>2. Queue' = <<>> \o (acc \o FlattenSeq(playback))
      BY <1>0, <2>1 DEF QueueShape
    <3> QED BY <3>1, <3>2, ConcatEmptySeq
  <2>3. Queue = emitting \o Queue' /\ emitting \in Seq(Nat)
    BY <1>0, <2>2 DEF QueueShape
  <2>4. Waiting' = Waiting
    BY <1>9, CloseKeepsWaiting DEF AfterEmit, Waiting
  <2> QED BY <1>9, <2>3, <2>4 DEF AfterEmit, IInv, FramesFit
<1>10. CASE Emit
  <2>1. AfterEmit /\ out' = Append(out, emitting) /\ dropped' = dropped
    BY <1>10 DEF Emit
  <2>2. out \in Seq(Seq(Nat)) /\ emitting \in Seq(Nat) /\ written \in Seq(Nat)
    BY DEF IInv, TypeInv
  <2>3. FlattenSeq(out') = FlattenSeq(out) \o emitting
    BY <2>1, <2>2, FlattenAppend
  <2>4. Paced' = Paced \o emitting
    <3> DEFINE r == FlattenSeq(out)
    <3>1. IsSeq(written, Nat) /\ IsSeq(r, Nat) /\ IsSeq(emitting, Nat)
      BY <1>0, <2>2 DEF QueueShape, IsSeq
    <3>2. written' = written
      BY <1>9, <2>1
    <3> HIDE DEF r
    <3>3. Cat(Cat(written, r), emitting) = Cat(written, Cat(r, emitting))
      BY <3>1, CatShift
    <3> QED BY <2>3, <3>2, <3>3 DEF Cat, r, Paced
  <2> QED BY <1>9, <2>1, <2>4, PlayRefines DEF Abstract!Next
<1>11. CASE EmitAborts
  <2>1. AfterEmit /\ out' = out /\ dropped' = dropped \cup ToSet(emitting)
    BY <1>11 DEF EmitAborts
  <2>2. Paced' = Paced
    BY <1>9, <2>1 DEF Paced
  <2> QED BY <1>9, <2>1, <2>2, DiscardRefines DEF Abstract!Next
<1> QED
  BY <1>1, <1>2, <1>3, <1>4, <1>5, <1>6, <1>7, <1>8, <1>10, <1>11 DEF Pacer

\* A frame on its way from the output to the track has been paced already.
LEMMA WriteKeepsPaced ==
  ASSUME IInv, out # <<>>, written' = written \o Head(out), out' = Tail(out)
  PROVE  Paced' = Paced
<1> DEFINE f == Head(out)
<1> DEFINE r == FlattenSeq(out')
<1>1. out \in Seq(Seq(Nat)) /\ written \in Seq(Nat)
  BY DEF IInv, TypeInv
<1>2. f \in Seq(Nat) /\ Tail(out) \in Seq(Seq(Nat)) /\ FlattenSeq(out) = f \o r
  BY <1>1, FlattenHeadTail, HeadTailProperties
<1>3. r \in Seq(Nat)
  BY <1>2, FlattenType
<1>4. IsSeq(written, Nat) /\ IsSeq(f, Nat) /\ IsSeq(r, Nat)
  BY <1>1, <1>2, <1>3 DEF IsSeq
<1>5. written' = written \o f
  OBVIOUS
<1> HIDE DEF f, r
<1>6. Cat(Cat(written, f), r) = Cat(written, Cat(f, r))
  BY <1>4, CatShift
<1>7. written' \o r = written \o FlattenSeq(out)
  BY <1>2, <1>5, <1>6 DEF Cat
<1> QED BY <1>7 DEF Paced, r

\* Clear and the output's steps are invisible; the end of the session is the
\* queue's own.
LEMMA OtherRefines ==
  ASSUME IInv, Clear \/ ContextDone \/ Outbound
  PROVE  Abstract!Next \/ UNCHANGED Abstract!vars
<1> USE DEF callerVars, pacerVars
<1>1. CASE Clear
  <2>1. UNCHANGED <<Queue, Paced, dropped, owner, Waiting, ctxDone>>
    BY <1>1 DEF Clear, Queue, Paced, Waiting
  <2> QED BY <2>1, Stutters
<1>2. CASE ContextDone
  <2>1. UNCHANGED <<Queue, Paced, dropped, owner, Waiting>>
    BY <1>2 DEF ContextDone, Queue, Paced, Waiting
  <2> QED
    BY <1>2, <2>1 DEF ContextDone, Abstract!ShutDown, Abstract!Next, Waiting
<1>3. CASE WriteSample \/ WriteFails
  <2>1. UNCHANGED <<Queue, dropped, owner, Waiting, ctxDone>>
    BY <1>3 DEF WriteSample, WriteFails, Queue, Waiting
  <2>2. Paced' = Paced
    BY <1>3, WriteKeepsPaced DEF WriteSample, WriteFails
  <2> QED BY <2>1, <2>2, Stutters
<1>4. CASE OutboundStops
  <2>1. UNCHANGED <<Queue, Paced, dropped, owner, Waiting, ctxDone>>
    BY <1>4 DEF OutboundStops, Queue, Paced, Waiting
  <2> QED BY <2>1, Stutters
<1> QED BY <1>1, <1>2, <1>3, <1>4 DEF Outbound

\* Every step of the path is a step of the queue or a stutter.
LEMMA StepRefines ==
  IInv /\ IInv' /\ [Next]_vars => [Abstract!Next]_(Abstract!vars)
<1> SUFFICES ASSUME IInv, IInv', [Next]_vars
             PROVE  Abstract!Next \/ UNCHANGED Abstract!vars
  OBVIOUS
<1>1. CASE UNCHANGED vars
  <2>1. UNCHANGED <<Queue, Paced, dropped, owner, Waiting, ctxDone>>
    BY <1>1 DEF vars, callerVars, pacerVars, Queue, Paced, Waiting
  <2> QED BY <2>1, Stutters
<1> QED BY <1>1, CallerRefines, PacerRefines, OtherRefines DEF Next

\* runPacer, Send and WaitForDrain implement one FIFO queue that is appended
\* to, played or discarded from the front, and whose WaitForDrain returns only
\* when nothing of its caller is left in it, for any number of callers, any
\* frame size and any capacity.
THEOREM PlayoutImplementsQueue == Spec => ImplementsPlayoutQueue
<1>1. Init => Abstract!Init
  BY InitRefines
<1>2. IInv /\ IInv' /\ [Next]_vars => [Abstract!Next]_(Abstract!vars)
  BY StepRefines
<1> QED
  BY <1>1, <1>2, PlayoutInductive, PTL
     DEF Spec, ImplementsPlayoutQueue, Abstract!Spec

=============================================================================
