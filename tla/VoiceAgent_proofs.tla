-------------------------- MODULE VoiceAgent_proofs --------------------------
(***************************************************************************)
(* Proofs about the conversation loop, by itself and on the playout path.  *)
(*                                                                         *)
(* The first part is about Orchestrator, for all bounds.  The invariants   *)
(* of the loop are not inductive one by one: what a handler may assume     *)
(* about the response in flight depends on what the workers can still do.  *)
(* IInv is their conjunction with the bookkeeping that ties the two        *)
(* together.                                                               *)
(*                                                                         *)
(* The second part is about VoiceAgent, from what is proved of its two     *)
(* components.  The agent is shown to be a Playout and an Orchestrator     *)
(* (every step of it is one of theirs or invisible to them), so that their *)
(* invariants and refinements hold of it.  What neither of them can say by *)
(* itself is proved on top: a response counts as completed only after the  *)
(* transport has released its worker.                                      *)
(***************************************************************************)
EXTENDS VoiceAgent, TLAPS, SequenceTheorems, Seqs_proofs

-----------------------------------------------------------------------------
(* Part 1: the loop.                                                       *)

\* Every turn took a final segment of its own, so turn numbers stay in Turns.
TurnsAreHeard == turn + Len(pending) <= heard

\* Nothing happens before Run.
NothingBeforeRun ==
  loop = "starting" =>
    /\ state = "listening" /\ ~userSpeaking
    /\ turn = 0 /\ heard = 0 /\ pending = <<>>
    /\ responseDone = Nil
    /\ \A t \in Turns : pc[t] = "idle" /\ ~cancelled[t]

\* Workers of turns to come do not exist.
FutureIsIdle == \A t \in Turns : t > turn => pc[t] = "idle" /\ ~cancelled[t]

\* The cancel function is set exactly while responding, for a live context.
CancelIsCurrent ==
  /\ state = "responding" <=> responseCancel # Nil
  /\ responseCancel # Nil => responseCancel = turn /\ ~cancelled[turn]

\* A worker only exists after a start of a response wrote turnStart.
StartIsSet == \A t \in Turns : pc[t] # "idle" => turnStart \in Turns

\* The greeting has no LLM stream, hence no text for the history.
GreetingHasNoText ==
  /\ pc[0] \notin {"spawned", "llm", "stream"}
  /\ after[0] = "flush"
  /\ full[0] = 0

BufferedIsReceived == \A t \in Turns : buffered[t] <= full[t]

\* A frame is only offered to the transport within the bound.
SendHasRoom == \A t \in Turns : pc[t] = "send" => sent[t] < MaxFrames

\* The history ends with the current turn, not answered while its result is
\* outstanding.
HistoryIsCurrent ==
  /\ turn = 0 <=> history = <<>>
  /\ turn > 0 => history[Len(history)].turn = turn
  /\ turn > 0 /\ responseDone # Nil => history[Len(history)].role = "user"

\* While the user speaks the label of the utterance cannot age.
SpeakingIsLabelled == userSpeaking => utteranceTurn = turn + 1

IInv ==
  /\ TypeOK
  /\ TurnsAreHeard
  /\ NothingBeforeRun
  /\ FutureIsIdle
  /\ CancelIsCurrent
  /\ StartIsSet
  /\ GreetingHasNoText
  /\ BufferedIsReceived
  /\ SendHasRoom
  /\ HistoryIsCurrent
  /\ SpeakingIsLabelled
  /\ MetricsNameTheirTurn
  /\ HalfDuplex
  /\ ResultChannelIsCurrent
  /\ OneLiveResponse
  /\ HistoryAlternates

-----------------------------------------------------------------------------
(* Type facts used everywhere.                                             *)

\* Turn numbers are integers from 0, and Nil is none of them.
LEMMA TurnsAreNumbers ==
  /\ Turns \subseteq Nat
  /\ 0 \in Turns
  /\ Nil \notin Turns
  /\ \A t \in Turns : t <= MaxFinals
  BY NilAssumption, ConfigAssumption DEF Turns

\* Initially the invariant holds.
LEMMA InitIInv == Init => IInv
<1> SUFFICES ASSUME Init PROVE IInv
  OBVIOUS
<1>1. TypeOK
  <2>1. /\ pending \in Seq(1..MaxFinals)
        /\ history \in Seq(Messages)
    BY DEF Init
  <2>2. /\ heard \in 0..MaxFinals
        /\ turn \in Turns
        /\ turnStart \in Turns \cup {Nil}
        /\ responseCancel \in Turns \cup {Nil}
        /\ responseDone \in Turns \cup {Nil}
        /\ utteranceTurn \in 0..(MaxFinals + 1)
    BY TurnsAreNumbers, ConfigAssumption DEF Init
  <2>3. /\ loop \in {"starting", "running", "returned"}
        /\ ctxDone \in BOOLEAN
        /\ state \in {"listening", "responding"}
        /\ userSpeaking \in BOOLEAN
        /\ marks \in [start : BOOLEAN, end : BOOLEAN, hit : BOOLEAN]
    BY DEF Init, NoMarks
  <2>4. /\ pc \in [Turns -> WorkerPC]
        /\ after \in [Turns -> {"stream", "flush"}]
        /\ started \in [Turns -> Turns \cup {Nil}]
        /\ cancelled \in [Turns -> BOOLEAN]
        /\ completed \in [Turns -> BOOLEAN]
    BY DEF Init, WorkerPC
  <2>5. /\ full \in [Turns -> 0..MaxDeltas]
        /\ buffered \in [Turns -> 0..MaxDeltas]
        /\ sent \in [Turns -> 0..MaxFrames]
    BY ConfigAssumption DEF Init
  <2> QED
    BY <2>1, <2>2, <2>3, <2>4, <2>5 DEF TypeOK
<1>2. history = <<>> /\ turn = 0 /\ responseDone = Nil /\ responseCancel = Nil
      /\ state = "listening" /\ pending = <<>> /\ heard = 0 /\ ~userSpeaking
      /\ marks = NoMarks
  BY DEF Init
<1>3. \A t \in Turns : /\ pc[t] = "idle" /\ ~cancelled[t] /\ full[t] = 0
                       /\ buffered[t] = 0 /\ after[t] = "flush"
  BY DEF Init
<1> QED
  BY <1>1, <1>2, <1>3, TurnsAreNumbers
  DEF IInv, TurnsAreHeard, NothingBeforeRun, FutureIsIdle, CancelIsCurrent,
      StartIsSet, GreetingHasNoText, BufferedIsReceived, SendHasRoom,
      HistoryIsCurrent, SpeakingIsLabelled, MetricsNameTheirTurn, HalfDuplex, NoMarks,
      ResultChannelIsCurrent, OneLiveResponse, Live, HistoryAlternates

-----------------------------------------------------------------------------
(* Steps of a worker.                                                      *)

\* A step that moves one running worker, and touches nothing of the loop but
\* that worker's own variables, preserves the invariant.
LEMMA WorkerMoves ==
  ASSUME IInv,
         NEW t \in Turns, NEW to \in WorkerPC \ {"idle"},
         pc[t] \notin {"idle", "done"},
         pc' = [pc EXCEPT ![t] = to],
         t = 0 => to \notin {"spawned", "llm", "stream"},
         UNCHANGED <<loop, ctxDone, convVars, cancelled>>,
         after' \in [Turns -> {"stream", "flush"}],
         after'[0] = "flush",
         started' \in [Turns -> Turns \cup {Nil}],
         full' \in [Turns -> 0..MaxDeltas],
         full'[0] = 0,
         buffered' \in [Turns -> 0..MaxDeltas],
         \A u \in Turns : buffered'[u] <= full'[u],
         sent' \in [Turns -> 0..MaxFrames],
         \A u \in Turns : u # t => sent'[u] = sent[u],
         to = "send" => sent'[t] < MaxFrames,
         completed' \in [Turns -> BOOLEAN]
  PROVE  IInv'
<1>1. TypeOK'
  <2>1. pc' \in [Turns -> WorkerPC]
    BY DEF IInv, TypeOK
  <2>2. cancelled' \in [Turns -> BOOLEAN]
    BY DEF IInv, TypeOK
  <2>3. /\ (loop \in {"starting", "running", "returned"})'
        /\ (ctxDone \in BOOLEAN)'
        /\ (state \in {"listening", "responding"})'
        /\ (userSpeaking \in BOOLEAN)'
        /\ (pending \in Seq(1..MaxFinals))'
        /\ (heard \in 0..MaxFinals)'
        /\ (turn \in Turns)'
        /\ (turnStart \in Turns \cup {Nil})'
        /\ (history \in Seq(Messages))'
        /\ (responseCancel \in Turns \cup {Nil})'
        /\ (responseDone \in Turns \cup {Nil})'
        /\ (marks \in [start : BOOLEAN, end : BOOLEAN, hit : BOOLEAN])'
        /\ (utteranceTurn \in 0..(MaxFinals + 1))'
    BY Zenon DEF IInv, TypeOK, convVars
  <2> QED
    BY <2>1, <2>2, <2>3 DEF TypeOK
<1>2. /\ pc'[t] = to
      /\ \A u \in Turns : u # t => pc'[u] = pc[u]
      /\ \A u \in Turns : (pc'[u] = "idle") <=> (pc[u] = "idle")
  BY DEF IInv, TypeOK, WorkerPC
<1>3. (TurnsAreHeard /\ HistoryIsCurrent /\ SpeakingIsLabelled
       /\ MetricsNameTheirTurn /\ HalfDuplex /\ HistoryAlternates)'
  BY DEF IInv, convVars, TurnsAreHeard, HistoryIsCurrent, SpeakingIsLabelled,
         MetricsNameTheirTurn, HalfDuplex, HistoryAlternates
<1>4. NothingBeforeRun'
  BY <1>2 DEF IInv, convVars, NothingBeforeRun
<1>5. (FutureIsIdle /\ CancelIsCurrent /\ StartIsSet)'
  BY <1>2 DEF IInv, convVars, FutureIsIdle, CancelIsCurrent, StartIsSet
<1>6. GreetingHasNoText'
  BY <1>2, TurnsAreNumbers DEF IInv, GreetingHasNoText
<1>7. (BufferedIsReceived /\ SendHasRoom)'
  BY <1>2 DEF IInv, BufferedIsReceived, SendHasRoom
<1>8. ResultChannelIsCurrent'
  BY <1>2 DEF IInv, TypeOK, convVars, ResultChannelIsCurrent
<1>9. OneLiveResponse'
  <2> SUFFICES ASSUME NEW u \in Turns, Live(u)'
               PROVE  (/\ u = turn
                       /\ state = "responding"
                       /\ responseCancel = u
                       /\ responseDone = u)'
    BY DEF OneLiveResponse
  <2>1. Live(u)
    BY <1>2 DEF Live
  <2> QED
    BY <2>1 DEF IInv, OneLiveResponse, convVars
<1> QED
  BY <1>1, <1>3, <1>4, <1>5, <1>6, <1>7, <1>8, <1>9 DEF IInv

\* The same for a worker that only moves.
LEMMA WorkerJumps ==
  ASSUME IInv,
         NEW t \in Turns, NEW to \in WorkerPC \ {"idle"},
         pc[t] \notin {"idle", "done"},
         pc' = [pc EXCEPT ![t] = to],
         t = 0 => to \notin {"spawned", "llm", "stream"},
         to = "send" => sent[t] < MaxFrames,
         UNCHANGED <<loop, ctxDone, convVars, after, started, cancelled, full,
                     buffered, sent, completed>>
  PROVE  IInv'
<1>1. /\ after' \in [Turns -> {"stream", "flush"}]
      /\ after'[0] = "flush"
      /\ started' \in [Turns -> Turns \cup {Nil}]
      /\ full' \in [Turns -> 0..MaxDeltas]
      /\ full'[0] = 0
      /\ buffered' \in [Turns -> 0..MaxDeltas]
      /\ \A u \in Turns : buffered'[u] <= full'[u]
      /\ sent' \in [Turns -> 0..MaxFrames]
      /\ completed' \in [Turns -> BOOLEAN]
  BY DEF IInv, TypeOK, GreetingHasNoText, BufferedIsReceived
<1> QED
  BY <1>1, WorkerMoves

\* The same for a worker that returns.
LEMMA WorkerFinishes ==
  ASSUME IInv, NEW t \in Turns, NEW from \in WorkerPC \ {"idle", "done"},
         NEW ok \in BOOLEAN, Finish(t, from, ok)
  PROVE  IInv'
<1>1. /\ pc[t] \notin {"idle", "done"}
      /\ pc' = [pc EXCEPT ![t] = "done"]
      /\ UNCHANGED <<loop, ctxDone, convVars, cancelled>>
  BY DEF Finish, WorkerStep
<1>2. /\ after' \in [Turns -> {"stream", "flush"}]
      /\ after'[0] = "flush"
      /\ started' \in [Turns -> Turns \cup {Nil}]
      /\ full' \in [Turns -> 0..MaxDeltas]
      /\ full'[0] = 0
      /\ buffered' \in [Turns -> 0..MaxDeltas]
      /\ \A u \in Turns : buffered'[u] <= full'[u]
      /\ sent' \in [Turns -> 0..MaxFrames] /\ sent' = sent
      /\ completed' \in [Turns -> BOOLEAN]
  BY DEF Finish, IInv, TypeOK, GreetingHasNoText, BufferedIsReceived
<1>3. "done" \in WorkerPC \ {"idle"}
  BY DEF WorkerPC
<1> QED
  BY <1>1, <1>2, <1>3, WorkerMoves

\* Every step of a worker preserves the invariant.
LEMMA WorkerPreserves ==
  ASSUME IInv, NEW t \in Turns, Worker(t)
  PROVE  IInv'
<1> USE DEF WorkerPC
<1>0. /\ TypeOK /\ GreetingHasNoText /\ BufferedIsReceived
      /\ t = 0 => /\ pc[t] \notin {"spawned", "llm", "stream"}
                  /\ after[t] = "flush"
                  /\ buffered[t] = 0
  <2>1. TypeOK /\ GreetingHasNoText /\ BufferedIsReceived
    BY DEF IInv
  <2>2. buffered[0] <= full[0] /\ buffered[0] \in Nat
    BY <2>1, TurnsAreNumbers, ConfigAssumption DEF TypeOK, BufferedIsReceived
  <2> QED
    BY <2>1, <2>2 DEF GreetingHasNoText
<1>1. CASE ReadTurnStart(t)
  <2>1. /\ started' \in [Turns -> Turns \cup {Nil}]
        /\ pc[t] = "spawned" /\ t # 0
    <3>1. pc[t] = "spawned" /\ t # 0
      BY <1>0, <1>1 DEF ReadTurnStart, WorkerStep
    <3>2. turnStart \in Turns
      BY <3>1 DEF IInv, StartIsSet
    <3>3. \A s \in t..turnStart : s \in Turns
      BY <3>2, TurnsAreNumbers, ConfigAssumption DEF Turns
    <3> QED
      BY <3>1, <3>3, <1>0, <1>1 DEF ReadTurnStart, TypeOK
  <2> QED
    BY <2>1, <1>0, <1>1, WorkerMoves
    DEF ReadTurnStart, WorkerStep, TypeOK, GreetingHasNoText, BufferedIsReceived
<1>2. CASE OpenStream(t)
  BY <1>0, <1>2, WorkerJumps DEF OpenStream, WorkerStep
<1>3. CASE OpenStreamFails(t)
  BY <1>3, WorkerFinishes DEF OpenStreamFails
<1>4. CASE ReceiveDelta(t)
  <2>1. /\ pc[t] = "stream" /\ t # 0
        /\ UNCHANGED <<loop, ctxDone, convVars, cancelled, started, sent, completed>>
    BY <1>0, <1>4 DEF ReceiveDelta, WorkerStep
  <2>2. /\ full' = [full EXCEPT ![t] = full[t] + 1]
        /\ full[t] < MaxDeltas
        /\ \/ after' = after /\ buffered' = [buffered EXCEPT ![t] = buffered[t] + 1]
           \/ /\ after' = [after EXCEPT ![t] = "stream"]
              /\ buffered' = [buffered EXCEPT ![t] = 0]
    BY <1>4 DEF ReceiveDelta
  <2>3. /\ full \in [Turns -> 0..MaxDeltas] /\ full[0] = 0
        /\ buffered \in [Turns -> 0..MaxDeltas]
        /\ after \in [Turns -> {"stream", "flush"}] /\ after[0] = "flush"
        /\ 0 \in Turns
        /\ \A u \in Turns : buffered[u] <= full[u]
    BY <1>0, TurnsAreNumbers DEF TypeOK, GreetingHasNoText, BufferedIsReceived
  <2>4. /\ full' \in [Turns -> 0..MaxDeltas]
        /\ full'[0] = 0
        /\ buffered' \in [Turns -> 0..MaxDeltas]
        /\ \A u \in Turns : buffered'[u] <= full'[u]
        /\ after' \in [Turns -> {"stream", "flush"}]
        /\ after'[0] = "flush"
    <3> HIDE DEF Turns, WorkerPC
    <3>1. full[t] \in 0..MaxDeltas /\ full[t] + 1 \in 0..MaxDeltas
      BY <2>2, <2>3, ConfigAssumption
    <3>2. full' \in [Turns -> 0..MaxDeltas] /\ full'[0] = 0
      BY <2>1, <2>2, <2>3, <3>1
    <3>3. buffered[t] \in 0..MaxDeltas /\ buffered[t] + 1 \in 0..MaxDeltas
          /\ 0 \in 0..MaxDeltas
      BY <2>2, <2>3, <3>1, ConfigAssumption
    <3>4. buffered' \in [Turns -> 0..MaxDeltas]
      BY <2>2, <2>3, <3>3
    <3>5. ASSUME NEW u \in Turns PROVE buffered'[u] <= full'[u]
      <4>1. CASE u = t
        BY <4>1, <2>2, <2>3, <3>1, <3>3
      <4>2. CASE u # t
        BY <4>2, <2>2, <2>3
      <4> QED
        BY <4>1, <4>2
    <3>6. after' \in [Turns -> {"stream", "flush"}] /\ after'[0] = "flush"
      BY <2>1, <2>2, <2>3
    <3> QED
      BY <3>2, <3>4, <3>5, <3>6
  <2>5. started' \in [Turns -> Turns \cup {Nil}] /\ sent' \in [Turns -> 0..MaxFrames]
        /\ completed' \in [Turns -> BOOLEAN]
    BY <2>1, <1>0 DEF TypeOK
  <2>6. CASE pc' = [pc EXCEPT ![t] = "speak"]
    BY <2>1, <2>4, <2>5, <2>6, WorkerMoves
  <2>7. CASE pc' = [pc EXCEPT ![t] = "stream"]
    BY <2>1, <2>4, <2>5, <2>7, WorkerMoves
  <2> QED
    BY <2>6, <2>7, <1>4 DEF ReceiveDelta, WorkerStep
<1>5. CASE StreamEnds(t)
  BY <1>0, <1>5, WorkerJumps DEF StreamEnds, WorkerStep
<1>6. CASE StreamAborts(t)
  BY <1>6, WorkerFinishes DEF StreamAborts
<1>7. CASE Flush(t)
  <2>1. /\ pc[t] = "flush" /\ buffered[t] > 0
        /\ buffered' = [buffered EXCEPT ![t] = 0]
        /\ after' = [after EXCEPT ![t] = "flush"]
        /\ UNCHANGED <<full, sent>>
    BY <1>7 DEF Flush, WorkerStep
  <2>2. /\ buffered' \in [Turns -> 0..MaxDeltas]
        /\ \A u \in Turns : buffered'[u] <= full'[u]
    <3>1. /\ buffered \in [Turns -> 0..MaxDeltas]
          /\ full \in [Turns -> 0..MaxDeltas]
          /\ \A u \in Turns : buffered[u] <= full[u]
      BY <1>0 DEF TypeOK, BufferedIsReceived
    <3> QED
      BY <2>1, <3>1, ConfigAssumption
  <2>3. /\ after' \in [Turns -> {"stream", "flush"}]
        /\ after'[0] = "flush"
    BY <2>1, <1>0, TurnsAreNumbers DEF TypeOK, GreetingHasNoText
  <2>4. /\ started' \in [Turns -> Turns \cup {Nil}] /\ sent' \in [Turns -> 0..MaxFrames]
        /\ completed' \in [Turns -> BOOLEAN] /\ full' \in [Turns -> 0..MaxDeltas]
        /\ full'[0] = 0
    BY <1>0, <1>7 DEF Flush, TypeOK, GreetingHasNoText
  <2>5. /\ pc' = [pc EXCEPT ![t] = "speak"]
        /\ UNCHANGED <<loop, ctxDone, convVars, cancelled>>
    BY <1>7 DEF Flush, WorkerStep
  <2> QED
    BY <2>1, <2>2, <2>3, <2>4, <2>5, WorkerMoves
<1>8. CASE CallWaitForPlayout(t)
  BY <1>0, <1>8, WorkerJumps DEF CallWaitForPlayout, WorkerStep
<1>9. CASE PlayoutReturns(t)
  BY <1>9, WorkerFinishes DEF PlayoutReturns
<1>10. CASE PlayoutAborts(t)
  BY <1>10, WorkerFinishes DEF PlayoutAborts
<1>11. CASE CallSetPendingTTS(t)
  BY <1>0, <1>11, WorkerJumps DEF CallSetPendingTTS, WorkerStep
<1>12. CASE Synthesize(t)
  BY <1>0, <1>12, WorkerJumps DEF Synthesize, WorkerStep
<1>13. CASE SynthesizeFails(t)
  <2>1. CASE Cancelled(t)
    BY <2>1, <1>13, WorkerFinishes DEF SynthesizeFails
  <2>2. CASE ~Cancelled(t)
    <3>1. after[t] \in {"stream", "flush"}
      BY <1>0 DEF TypeOK
    <3> QED
      BY <3>1, <2>2, <1>0, <1>13, WorkerJumps DEF SynthesizeFails, WorkerStep
  <2> QED
    BY <2>1, <2>2
<1>14. CASE FrameReady(t)
  BY <1>0, <1>14, WorkerJumps DEF FrameReady, WorkerStep
<1>15. CASE SendAccepted(t)
  <2>1. sent' \in [Turns -> 0..MaxFrames]
    BY <1>0, <1>15, ConfigAssumption
    DEF IInv, SendHasRoom, SendAccepted, WorkerStep, TypeOK
  <2> QED
    BY <2>1, <1>0, <1>15, WorkerMoves
    DEF SendAccepted, WorkerStep, TypeOK, GreetingHasNoText, BufferedIsReceived
<1>16. CASE SendAborts(t)
  BY <1>16, WorkerFinishes DEF SendAborts
<1>17. CASE SpeechQueued(t)
  <2>1. after[t] \in {"stream", "flush"}
    BY <1>0 DEF TypeOK
  <2> QED
    BY <2>1, <1>0, <1>17, WorkerJumps DEF SpeechQueued, WorkerStep
<1>18. CASE SpeechAborts(t)
  BY <1>18, WorkerFinishes DEF SpeechAborts
<1> QED
  BY <1>1, <1>2, <1>3, <1>4, <1>5, <1>6, <1>7, <1>8, <1>9, <1>10, <1>11,
     <1>12, <1>13, <1>14, <1>15, <1>16, <1>17, <1>18 DEF Worker

-----------------------------------------------------------------------------
(* Steps of the loop.                                                      *)

\* What appending one message to the history does.
LEMMA Appended ==
  ASSUME NEW S, NEW s \in Seq(S), NEW e \in S
  PROVE  /\ Append(s, e) \in Seq(S)
         /\ Append(s, e) # <<>>
         /\ Len(s) \in Nat
         /\ Len(Append(s, e)) = Len(s) + 1
         /\ Append(s, e)[Len(s) + 1] = e
         /\ \A i \in 1..Len(s) : Append(s, e)[i] = s[i]
  OBVIOUS

\* A step that only changes the agent's context, or ends Run, or is a stutter.
LEMMA ConversationUnchanged ==
  ASSUME IInv,
         loop' \in {"starting", "running", "returned"},
         loop' = "starting" => loop = "starting",
         ctxDone' \in BOOLEAN,
         UNCHANGED <<convVars, workerVars>>
  PROVE  IInv'
<1>1. TypeOK'
  BY DEF IInv, TypeOK, convVars, workerVars
<1>2. (/\ TurnsAreHeard /\ NothingBeforeRun /\ FutureIsIdle /\ CancelIsCurrent
       /\ StartIsSet /\ GreetingHasNoText /\ BufferedIsReceived /\ SendHasRoom)'
  BY DEF IInv, convVars, workerVars, TurnsAreHeard, NothingBeforeRun,
         FutureIsIdle, CancelIsCurrent, StartIsSet, GreetingHasNoText,
         BufferedIsReceived, SendHasRoom
<1>3. (/\ HistoryIsCurrent /\ SpeakingIsLabelled /\ MetricsNameTheirTurn
       /\ HalfDuplex /\ ResultChannelIsCurrent /\ OneLiveResponse
       /\ HistoryAlternates)'
  BY DEF IInv, convVars, workerVars, HistoryIsCurrent, SpeakingIsLabelled,
         MetricsNameTheirTurn, HalfDuplex, ResultChannelIsCurrent,
         OneLiveResponse, Live, HistoryAlternates
<1> QED
  BY <1>1, <1>2, <1>3 DEF IInv

\* A handler that starts no response and interrupts none: it may buffer a
\* segment, set marks, and take the user's speaking flag to a value that the
\* state allows.
LEMMA HandlerBuffers ==
  ASSUME IInv,
         loop = "running", UNCHANGED <<loop, ctxDone, workerVars>>,
         UNCHANGED <<state, turn, turnStart, history, responseCancel,
                     responseDone>>,
         pending' \in Seq(1..MaxFinals),
         heard' \in 0..MaxFinals,
         turn + Len(pending') <= heard',
         userSpeaking' \in BOOLEAN,
         utteranceTurn' \in 0..(MaxFinals + 1),
         userSpeaking' => state = "listening" /\ utteranceTurn' = turn + 1,
         marks' \in [start : BOOLEAN, end : BOOLEAN, hit : BOOLEAN],
         marks'.start \/ marks'.end => utteranceTurn' = turn + 1
  PROVE  IInv'
<1>1. TypeOK'
  BY DEF IInv, TypeOK, workerVars
<1>2. (/\ TurnsAreHeard /\ NothingBeforeRun /\ FutureIsIdle /\ CancelIsCurrent
       /\ StartIsSet /\ GreetingHasNoText /\ BufferedIsReceived /\ SendHasRoom)'
  BY DEF IInv, workerVars, TurnsAreHeard, NothingBeforeRun,
         FutureIsIdle, CancelIsCurrent, StartIsSet, GreetingHasNoText,
         BufferedIsReceived, SendHasRoom
<1>3. (/\ HistoryIsCurrent /\ SpeakingIsLabelled /\ MetricsNameTheirTurn
       /\ HalfDuplex)'
  BY DEF IInv, HistoryIsCurrent, SpeakingIsLabelled, MetricsNameTheirTurn,
         HalfDuplex
<1>4. (/\ ResultChannelIsCurrent /\ OneLiveResponse /\ HistoryAlternates)'
  BY DEF IInv, workerVars, ResultChannelIsCurrent, OneLiveResponse, Live,
         HistoryAlternates
<1> QED
  BY <1>1, <1>2, <1>3, <1>4 DEF IInv

\* A handler in which maybeEndTurn fires: no response is running, so the new
\* one is the only one, and its number is free.
LEMMA TurnStarts ==
  ASSUME IInv, NEW buffer \in Seq(1..MaxFinals),
         loop = "running", state # "responding", buffer # <<>>,
         heard' \in 0..MaxFinals, turn + Len(buffer) <= heard',
         userSpeaking' = FALSE,
         turn' = turn + 1, pending' = <<>>, marks' = NoMarks,
         history' = Append(history, UserMessage(turn + 1, buffer)),
         SpawnWorker(turn + 1, "spawned"),
         UNCHANGED <<loop, ctxDone, utteranceTurn, after, started, cancelled,
                     full, buffered, sent, completed>>
  PROVE  IInv'
<1> DEFINE m == UserMessage(turn + 1, buffer)
<1>1. /\ TypeOK /\ turn \in Nat /\ turn + 1 \in Turns /\ turn + 1 \in 1..MaxFinals
      /\ turn + 1 # 0 /\ turn + 1 <= heard'
  <2>1. TypeOK /\ turn \in 0..MaxFinals
    BY DEF IInv, TypeOK, Turns
  <2>2. Len(buffer) \in Nat /\ Len(buffer) > 0
    OBVIOUS
  <2>3. turn + 1 \in 1..MaxFinals /\ turn + 1 <= heard'
    BY <2>1, <2>2, ConfigAssumption
  <2> QED
    BY <2>1, <2>3, ConfigAssumption DEF Turns
<1>2. /\ m \in Messages /\ m.role = "user" /\ m.turn = turn + 1
  <2>1. buffer \in Seq(Nat)
    <3>1. 1..MaxFinals \subseteq Nat
      OBVIOUS
    <3> QED
      BY <3>1, SeqMonotonic
  <2> QED
    BY <1>1, <2>1 DEF Messages, UserMessage
<1>3. /\ history \in Seq(Messages)
      /\ history' \in Seq(Messages)
      /\ history' # <<>>
      /\ Len(history) \in Nat
      /\ Len(history') = Len(history) + 1
      /\ history'[Len(history) + 1] = m
      /\ \A i \in 1..Len(history) : history'[i] = history[i]
  <2>1. history \in Seq(Messages)
    BY <1>1 DEF TypeOK
  <2> HIDE DEF m
  <2>2. history' = Append(history, m)
    BY DEF m
  <2> QED
    BY <2>1, <2>2, <1>2, Appended
<1>4. /\ state' = "responding" /\ turnStart' = turn + 1
      /\ responseCancel' = turn + 1 /\ responseDone' = turn + 1
      /\ pc' = [pc EXCEPT ![turn + 1] = "spawned"]
  BY DEF SpawnWorker
<1>5. /\ pc' \in [Turns -> WorkerPC]
      /\ pc'[turn + 1] = "spawned"
      /\ \A u \in Turns : u # turn + 1 => pc'[u] = pc[u]
      /\ ~cancelled[turn + 1]
      /\ 0 \in Turns
  BY <1>1, <1>4, TurnsAreNumbers DEF IInv, TypeOK, WorkerPC, FutureIsIdle
<1>6. TypeOK'
  <2>1. pending' \in Seq(1..MaxFinals) /\ marks' \in [start : BOOLEAN, end : BOOLEAN, hit : BOOLEAN]
    BY DEF NoMarks
  <2> QED
    BY <2>1, <1>1, <1>3, <1>4, <1>5 DEF TypeOK
<1>7. (TurnsAreHeard /\ NothingBeforeRun /\ SpeakingIsLabelled /\ HalfDuplex
       /\ MetricsNameTheirTurn)'
  BY <1>1 DEF TurnsAreHeard, NothingBeforeRun, SpeakingIsLabelled, HalfDuplex,
              MetricsNameTheirTurn, NoMarks
<1>8. (FutureIsIdle /\ CancelIsCurrent /\ StartIsSet /\ GreetingHasNoText)'
  BY <1>1, <1>4, <1>5, TurnsAreNumbers
  DEF IInv, FutureIsIdle, CancelIsCurrent, StartIsSet, GreetingHasNoText
<1>9. (BufferedIsReceived /\ SendHasRoom)'
  BY <1>4, <1>5 DEF IInv, BufferedIsReceived, SendHasRoom
<1>10. HistoryIsCurrent'
  <2>1. turn' > 0 /\ history'[Len(history')] = m
    BY <1>1, <1>3
  <2> QED
    BY <2>1, <1>1, <1>2, <1>3 DEF HistoryIsCurrent
<1>11. ResultChannelIsCurrent'
  BY <1>4, <1>5 DEF ResultChannelIsCurrent
<1>12. OneLiveResponse'
  <2> SUFFICES ASSUME NEW u \in Turns, Live(u)', u # turn + 1
               PROVE  FALSE
    BY <1>4 DEF OneLiveResponse
  <2>1. Live(u)
    BY <1>5 DEF Live
  <2> QED
    BY <2>1 DEF IInv, OneLiveResponse
<1>13. HistoryAlternates'
  <2> SUFFICES ASSUME NEW i \in 1..Len(history')
               PROVE  IF history'[i].role = "user"
                      THEN history'[i].turn = IF i = 1 THEN 1 ELSE history'[i - 1].turn + 1
                      ELSE /\ i > 1
                           /\ history'[i - 1].role = "user"
                           /\ history'[i - 1].turn = history'[i].turn
    BY DEF HistoryAlternates
  <2>1. CASE i \in 1..Len(history)
    <3>1. history'[i] = history[i] /\ (i > 1 => history'[i - 1] = history[i - 1])
      BY <2>1, <1>3
    <3> QED
      BY <2>1, <3>1, <1>3 DEF IInv, HistoryAlternates
  <2>2. CASE i = Len(history) + 1
    <3>1. history'[i].role = "user" /\ history'[i].turn = turn + 1
      BY <2>2, <1>2, <1>3
    <3>2. CASE i = 1
      <4>1. history = <<>>
        BY <3>2, <2>2, <1>3
      <4> QED
        BY <4>1, <3>1, <3>2 DEF IInv, HistoryIsCurrent
    <3>3. CASE i # 1
      <4>1. Len(history) > 0 /\ history # <<>>
        BY <3>3, <2>2, <1>3
      <4>2. turn > 0 /\ history[Len(history)].turn = turn
        BY <4>1, <1>1 DEF IInv, HistoryIsCurrent
      <4>3. history'[i - 1] = history[Len(history)]
        BY <4>1, <2>2, <1>3
      <4> QED
        BY <3>1, <3>3, <4>2, <4>3
    <3> QED
      BY <3>2, <3>3
  <2> QED
    BY <2>1, <2>2, <1>3
<1> QED
  BY <1>6, <1>7, <1>8, <1>9, <1>10, <1>11, <1>12, <1>13 DEF IInv

\* A response is cancelled only by the handler that hears the user start.
LEMMA SpeechStartPreserves == IInv /\ OnSpeechStart => IInv'
<1> SUFFICES ASSUME IInv, OnSpeechStart PROVE IInv'
  OBVIOUS
<1>1. /\ loop = "running" /\ userSpeaking' = TRUE /\ utteranceTurn' = turn + 1
      /\ marks' = [start |-> TRUE, end |-> FALSE, hit |-> FALSE]
      /\ UNCHANGED <<loop, ctxDone, pending, heard, turn, turnStart, history,
                     responseDone, pc, after, started, full, buffered, sent,
                     completed>>
  BY DEF OnSpeechStart
<1>2. /\ TypeOK /\ turn \in 0..MaxFinals /\ heard \in 0..MaxFinals
      /\ turn + 1 \in 0..(MaxFinals + 1)
      /\ marks' \in [start : BOOLEAN, end : BOOLEAN, hit : BOOLEAN]
  <2>1. TypeOK /\ turn \in 0..MaxFinals /\ heard \in 0..MaxFinals
    BY DEF IInv, TypeOK, Turns
  <2>2. turn + 1 \in 0..(MaxFinals + 1)
    BY <2>1, ConfigAssumption
  <2>3. marks' \in [start : BOOLEAN, end : BOOLEAN, hit : BOOLEAN]
    BY <1>1
  <2> QED
    BY <2>1, <2>2, <2>3
<1>3. CASE state # "responding"
  <2>1. UNCHANGED <<cancelled, responseCancel, state>>
    BY <1>3 DEF OnSpeechStart
  <2>2. state = "listening" /\ UNCHANGED workerVars
    BY <1>1, <1>2, <1>3, <2>1 DEF TypeOK, workerVars
  <2>3. pending' \in Seq(1..MaxFinals) /\ turn + Len(pending') <= heard'
    BY <1>1 DEF IInv, TypeOK, TurnsAreHeard
  <2> QED
    BY <1>1, <1>2, <2>1, <2>2, <2>3, HandlerBuffers
<1>4. CASE state = "responding"
  <2>1. /\ responseCancel = turn /\ turn \in Turns
        /\ cancelled' = [cancelled EXCEPT ![turn] = TRUE]
        /\ responseCancel' = Nil /\ state' = "listening"
    BY <1>2, <1>4 DEF IInv, CancelIsCurrent, OnSpeechStart, InterruptResponse, TypeOK
  <2>2. /\ cancelled' \in [Turns -> BOOLEAN]
        /\ cancelled'[turn]
        /\ \A u \in Turns : u # turn => cancelled'[u] = cancelled[u]
    BY <1>2, <2>1 DEF TypeOK
  <2>3. TypeOK'
    BY <1>1, <1>2, <2>1, <2>2 DEF TypeOK
  <2>4. (/\ TurnsAreHeard /\ NothingBeforeRun /\ StartIsSet /\ GreetingHasNoText
         /\ BufferedIsReceived /\ SendHasRoom /\ HistoryIsCurrent
         /\ SpeakingIsLabelled /\ MetricsNameTheirTurn /\ HalfDuplex
         /\ HistoryAlternates)'
    BY <1>1, <2>1
    DEF IInv, TurnsAreHeard, NothingBeforeRun, StartIsSet, GreetingHasNoText,
        BufferedIsReceived, SendHasRoom, HistoryIsCurrent, SpeakingIsLabelled,
        MetricsNameTheirTurn, HalfDuplex, HistoryAlternates
  <2>5. (FutureIsIdle /\ CancelIsCurrent /\ ResultChannelIsCurrent)'
    BY <1>1, <1>2, <2>1, <2>2
    DEF IInv, FutureIsIdle, CancelIsCurrent, ResultChannelIsCurrent
  <2>6. OneLiveResponse'
    <3> SUFFICES ASSUME NEW u \in Turns, Live(u)' PROVE FALSE
      BY DEF OneLiveResponse
    <3>1. u # turn /\ Live(u)
      BY <1>1, <2>2 DEF Live
    <3> QED
      BY <3>1 DEF IInv, OneLiveResponse
  <2> QED
    BY <2>3, <2>4, <2>5, <2>6 DEF IInv
<1> QED
  BY <1>3, <1>4

LEMMA SpeechEndPreserves == IInv /\ OnSpeechEnd => IInv'
<1> SUFFICES ASSUME IInv, OnSpeechEnd PROVE IInv'
  OBVIOUS
<1>1. /\ loop = "running" /\ userSpeaking /\ userSpeaking' = FALSE
      /\ UNCHANGED <<loop, ctxDone, heard, utteranceTurn, after, started,
                     cancelled, full, buffered, sent, completed>>
      /\ MaybeEndTurn(FALSE, pending, [marks EXCEPT !.end = TRUE])
  BY DEF OnSpeechEnd
<1>2. /\ pending \in Seq(1..MaxFinals) /\ heard' \in 0..MaxFinals
      /\ turn + Len(pending) <= heard' /\ utteranceTurn = turn + 1
      /\ utteranceTurn' \in 0..(MaxFinals + 1)
      /\ [marks EXCEPT !.end = TRUE] \in [start : BOOLEAN, end : BOOLEAN, hit : BOOLEAN]
  BY <1>1 DEF IInv, TypeOK, TurnsAreHeard, SpeakingIsLabelled
<1>3. CASE EndsTurn(FALSE, pending)
  BY <1>1, <1>2, <1>3, TurnStarts DEF MaybeEndTurn, EndsTurn
<1>4. CASE ~EndsTurn(FALSE, pending)
  <2>1. /\ pending' = pending /\ marks' = [marks EXCEPT !.end = TRUE]
        /\ UNCHANGED <<state, turn, turnStart, history, responseCancel,
                       responseDone, pc>>
    BY <1>1, <1>4 DEF MaybeEndTurn
  <2>2. UNCHANGED workerVars
    BY <1>1, <2>1 DEF workerVars
  <2> QED
    BY <1>1, <1>2, <2>1, <2>2, HandlerBuffers
<1> QED
  BY <1>3, <1>4

\* The interrupting branch of onTranscript contradicts HalfDuplex.
LEMMA InterimPreserves == IInv /\ OnInterim => IInv'
<1> SUFFICES ASSUME IInv, OnInterim PROVE IInv'
  OBVIOUS
<1>1. ~(state = "responding" /\ userSpeaking)
  BY DEF IInv, HalfDuplex
<1>2. /\ loop = "running" /\ marks' = [marks EXCEPT !.hit = TRUE]
      /\ UNCHANGED <<cancelled, responseCancel, state>>
      /\ UNCHANGED <<loop, ctxDone, userSpeaking, pending, heard, turn,
                     turnStart, history, responseDone, utteranceTurn, pc,
                     after, started, full, buffered, sent, completed>>
  BY <1>1 DEF OnInterim
<1>3. /\ marks' \in [start : BOOLEAN, end : BOOLEAN, hit : BOOLEAN]
      /\ marks'.start = marks.start /\ marks'.end = marks.end
      /\ UNCHANGED workerVars
  BY <1>2 DEF IInv, TypeOK, workerVars
<1>4. /\ pending' \in Seq(1..MaxFinals) /\ heard' \in 0..MaxFinals
      /\ turn + Len(pending') <= heard' /\ userSpeaking' \in BOOLEAN
      /\ utteranceTurn' \in 0..(MaxFinals + 1)
      /\ userSpeaking' => state = "listening" /\ utteranceTurn' = turn + 1
      /\ marks'.start \/ marks'.end => utteranceTurn' = turn + 1
  BY <1>2, <1>3
  DEF IInv, TypeOK, TurnsAreHeard, SpeakingIsLabelled, HalfDuplex,
      MetricsNameTheirTurn
<1> QED
  BY <1>2, <1>3, <1>4, HandlerBuffers

LEMMA FinalPreserves == IInv /\ OnFinal => IInv'
<1> SUFFICES ASSUME IInv, OnFinal PROVE IInv'
  OBVIOUS
<1> DEFINE buffer == Append(pending, heard + 1)
           hit == [marks EXCEPT !.hit = TRUE]
<1>1. ~(state = "responding" /\ userSpeaking)
  BY DEF IInv, HalfDuplex
<1>2. /\ loop = "running" /\ heard < MaxFinals /\ heard' = heard + 1
      /\ MaybeEndTurn(userSpeaking, buffer, hit)
      /\ UNCHANGED cancelled
      /\ UNCHANGED <<loop, ctxDone, userSpeaking, utteranceTurn, after,
                     started, full, buffered, sent, completed>>
  BY <1>1 DEF OnFinal
<1>3. /\ heard' \in 0..MaxFinals /\ heard + 1 \in 1..MaxFinals
      /\ pending \in Seq(1..MaxFinals) /\ turn \in 0..MaxFinals
      /\ turn + Len(pending) <= heard /\ heard \in 0..MaxFinals
      /\ utteranceTurn' \in 0..(MaxFinals + 1)
      /\ userSpeaking \in BOOLEAN
  BY <1>2, ConfigAssumption DEF IInv, TypeOK, TurnsAreHeard, Turns
<1>4. /\ buffer \in Seq(1..MaxFinals) /\ buffer # <<>>
      /\ Len(buffer) = Len(pending) + 1 /\ Len(pending) \in Nat
  <2>1. pending \in Seq(1..MaxFinals) /\ heard + 1 \in 1..MaxFinals
    BY <1>3
  <2>2. Len(pending) \in Nat /\ Append(pending, heard + 1) # <<>>
        /\ Append(pending, heard + 1) \in Seq(1..MaxFinals)
        /\ Len(Append(pending, heard + 1)) = Len(pending) + 1
    <3> HIDE DEF buffer, hit
    <3> QED
      BY <2>1, Appended
  <2> QED
    BY <2>2
<1>5. turn + Len(buffer) <= heard'
  <2> HIDE DEF buffer
  <2> QED
    BY <1>2, <1>3, <1>4
<1>6. /\ hit \in [start : BOOLEAN, end : BOOLEAN, hit : BOOLEAN]
      /\ hit.start \/ hit.end => utteranceTurn = turn + 1
  BY DEF IInv, TypeOK, MetricsNameTheirTurn
<1> HIDE DEF buffer, hit
<1>7. CASE EndsTurn(userSpeaking, buffer)
  <2>1. userSpeaking' = FALSE /\ state # "responding"
    BY <1>2, <1>3, <1>7 DEF EndsTurn
  <2>2. /\ turn' = turn + 1 /\ pending' = <<>> /\ marks' = NoMarks
        /\ history' = Append(history, UserMessage(turn + 1, buffer))
        /\ SpawnWorker(turn + 1, "spawned")
    BY <1>2, <1>7 DEF MaybeEndTurn
  <2> QED
    BY <1>2, <1>3, <1>4, <1>5, <2>1, <2>2, TurnStarts
<1>8. CASE ~EndsTurn(userSpeaking, buffer)
  <2>1. /\ pending' = buffer /\ marks' = hit
        /\ UNCHANGED <<state, turn, turnStart, history, responseCancel,
                       responseDone, pc>>
    BY <1>2, <1>8 DEF MaybeEndTurn
  <2>2. UNCHANGED workerVars
    BY <1>2, <2>1 DEF workerVars
  <2>3. userSpeaking' => state = "listening" /\ utteranceTurn' = turn + 1
    BY <1>2 DEF IInv, HalfDuplex, SpeakingIsLabelled
  <2> QED
    BY <1>2, <1>3, <1>4, <1>5, <1>6, <2>1, <2>2, <2>3, HandlerBuffers
<1> QED
  BY <1>7, <1>8

\* The result taken is that of the current turn, whose worker has returned: no
\* response is left.
LEMMA ResponseDonePreserves == IInv /\ OnResponseDone => IInv'
<1> SUFFICES ASSUME IInv, OnResponseDone PROVE IInv'
  OBVIOUS
<1> DEFINE m == AgentMessage(turn, ResultText(turn))
<1>1. /\ loop = "running" /\ responseDone # Nil /\ responseDone = turn
      /\ turn \in Turns /\ turn \in 0..MaxFinals
  BY DEF IInv, ResultChannelIsCurrent, OnResponseDone, TypeOK, Turns
<1>2. /\ pc[turn] = "done" /\ responseCancel' = Nil /\ responseDone' = Nil
      /\ state' = "listening"
      /\ \/ UNCHANGED history
         \/ /\ history' = Append(history, m)
            /\ completed[turn] /\ ResultText(turn) > 0
      /\ UNCHANGED <<loop, ctxDone, userSpeaking, pending, heard, turn,
                     turnStart, marks, utteranceTurn, workerVars>>
  BY <1>1 DEF IInv, TypeOK, OnResponseDone
<1>3. /\ history \in Seq(Messages)
      /\ history' \in Seq(Messages) /\ Len(history) \in Nat
      /\ turn = 0 <=> history' = <<>>
      /\ turn > 0 => history'[Len(history')].turn = turn
      /\ HistoryAlternates'
  <2>1. history \in Seq(Messages) /\ HistoryAlternates /\ HistoryIsCurrent
    BY DEF IInv, TypeOK
  <2>2. CASE UNCHANGED history
    BY <2>1, <2>2 DEF HistoryAlternates, HistoryIsCurrent
  <2>3. CASE history' = Append(history, m) /\ completed[turn] /\ ResultText(turn) > 0
    <3>1. turn > 0 /\ full[turn] \in Nat /\ ResultText(turn) = full[turn]
      <4>1. full[turn] > 0 /\ ResultText(turn) = full[turn] /\ full[turn] \in Nat
        BY <1>1, <2>3, ConfigAssumption DEF ResultText, IInv, TypeOK
      <4>2. turn # 0
        BY <4>1 DEF IInv, GreetingHasNoText
      <4> QED
        BY <4>1, <4>2, <1>1
    <3>2. m \in Messages /\ m.role = "assistant" /\ m.turn = turn
      <4>1. [i \in 1..full[turn] |-> i] \in Seq(Nat)
        BY <3>1
      <4>2. turn \in 1..MaxFinals
        BY <3>1, <1>1
      <4> QED
        BY <3>1, <4>1, <4>2 DEF AgentMessage, Messages
    <3> HIDE DEF m
    <3>3. /\ history' \in Seq(Messages)
          /\ history' # <<>>
          /\ Len(history) \in Nat
          /\ Len(history') = Len(history) + 1
          /\ history'[Len(history) + 1] = m
          /\ \A i \in 1..Len(history) : history'[i] = history[i]
      BY <2>1, <2>3, <3>2, Appended
    <3>4. /\ Len(history) > 0
          /\ history[Len(history)].role = "user"
          /\ history[Len(history)].turn = turn
      BY <2>1, <3>1, <1>1 DEF HistoryIsCurrent
    <3>5. HistoryAlternates'
      <4> SUFFICES ASSUME NEW i \in 1..Len(history')
                   PROVE  IF history'[i].role = "user"
                          THEN history'[i].turn = IF i = 1 THEN 1 ELSE history'[i - 1].turn + 1
                          ELSE /\ i > 1
                               /\ history'[i - 1].role = "user"
                               /\ history'[i - 1].turn = history'[i].turn
        BY DEF HistoryAlternates
      <4>1. CASE i \in 1..Len(history)
        <5>1. history'[i] = history[i] /\ (i > 1 => history'[i - 1] = history[i - 1])
          BY <4>1, <3>3
        <5> QED
          BY <4>1, <5>1, <2>1, <3>3 DEF HistoryAlternates
      <4>2. CASE i = Len(history) + 1
        BY <4>2, <3>2, <3>3, <3>4
      <4> QED
        BY <4>1, <4>2, <3>3
    <3> QED
      BY <2>1, <3>1, <3>2, <3>3, <3>5
  <2> QED
    BY <1>2, <2>2, <2>3
<1>4. TypeOK'
  BY <1>2, <1>3 DEF IInv, TypeOK, workerVars
<1>5. (/\ TurnsAreHeard /\ NothingBeforeRun /\ FutureIsIdle /\ CancelIsCurrent
       /\ StartIsSet /\ GreetingHasNoText /\ BufferedIsReceived /\ SendHasRoom
       /\ SpeakingIsLabelled /\ MetricsNameTheirTurn /\ HalfDuplex)'
  BY <1>1, <1>2
  DEF IInv, workerVars, TurnsAreHeard, NothingBeforeRun, FutureIsIdle,
      CancelIsCurrent, StartIsSet, GreetingHasNoText, BufferedIsReceived,
      SendHasRoom, SpeakingIsLabelled, MetricsNameTheirTurn, HalfDuplex
<1>6. (HistoryIsCurrent /\ ResultChannelIsCurrent)'
  BY <1>2, <1>3 DEF HistoryIsCurrent, ResultChannelIsCurrent
<1>7. OneLiveResponse'
  <2> SUFFICES ASSUME NEW u \in Turns, Live(u)' PROVE FALSE
    BY DEF OneLiveResponse
  <2>1. Live(u)
    BY <1>2 DEF Live, workerVars
  <2>2. u = turn
    BY <2>1 DEF IInv, OneLiveResponse
  <2> QED
    BY <2>1, <2>2, <1>2 DEF Live
<1> QED
  BY <1>3, <1>4, <1>5, <1>6, <1>7 DEF IInv

LEMMA RunStartPreserves == IInv /\ RunStart => IInv'
<1> SUFFICES ASSUME IInv, RunStart PROVE IInv'
  OBVIOUS
<1>1. /\ state = "listening" /\ ~userSpeaking /\ turn = 0 /\ heard = 0
      /\ pending = <<>> /\ responseDone = Nil
      /\ \A t \in Turns : pc[t] = "idle" /\ ~cancelled[t]
  BY DEF IInv, NothingBeforeRun, RunStart
<1>2. /\ loop' = "running"
      /\ UNCHANGED <<ctxDone, userSpeaking, pending, heard, turn, history,
                     marks, utteranceTurn, after, started, cancelled, full,
                     buffered, sent, completed>>
  BY DEF RunStart
<1>3. CASE ~Greeting
  <2>1. UNCHANGED <<convVars, workerVars>>
    BY <1>2, <1>3 DEF RunStart, convVars, workerVars
  <2>2. loop' \in {"starting", "running", "returned"} /\ ctxDone' \in BOOLEAN
    BY <1>2 DEF IInv, TypeOK
  <2> QED
    BY <1>2, <2>1, <2>2, ConversationUnchanged
<1>4. CASE Greeting
  <2>1. /\ state' = "responding" /\ turnStart' = 0
        /\ responseCancel' = 0 /\ responseDone' = 0
        /\ pc' = [pc EXCEPT ![0] = "speak"]
    BY <1>4 DEF RunStart, SpawnWorker
  <2>2. /\ pc' \in [Turns -> WorkerPC] /\ pc'[0] = "speak"
        /\ \A u \in Turns : u # 0 => pc'[u] = pc[u]
    BY <2>1, TurnsAreNumbers DEF IInv, TypeOK, WorkerPC
  <2>3. TypeOK'
    BY <1>2, <2>1, <2>2, TurnsAreNumbers DEF IInv, TypeOK
  <2>4. (/\ TurnsAreHeard /\ NothingBeforeRun /\ HistoryIsCurrent
         /\ SpeakingIsLabelled /\ MetricsNameTheirTurn /\ HalfDuplex
         /\ HistoryAlternates)'
    BY <1>1, <1>2, <2>1
    DEF IInv, TurnsAreHeard, NothingBeforeRun, HistoryIsCurrent,
        SpeakingIsLabelled, MetricsNameTheirTurn, HalfDuplex, HistoryAlternates
  <2>5. (/\ FutureIsIdle /\ CancelIsCurrent /\ StartIsSet /\ GreetingHasNoText
         /\ BufferedIsReceived /\ SendHasRoom /\ ResultChannelIsCurrent)'
    BY <1>1, <1>2, <2>1, <2>2, TurnsAreNumbers
    DEF IInv, FutureIsIdle, CancelIsCurrent, StartIsSet, GreetingHasNoText,
        BufferedIsReceived, SendHasRoom, ResultChannelIsCurrent
  <2>6. OneLiveResponse'
    BY <1>1, <1>2, <2>1, <2>2 DEF OneLiveResponse, Live
  <2> QED
    BY <2>3, <2>4, <2>5, <2>6 DEF IInv
<1> QED
  BY <1>3, <1>4

-----------------------------------------------------------------------------
(* Every step.                                                             *)

LEMMA NextPreserves == IInv /\ [Next]_vars => IInv'
<1> SUFFICES ASSUME IInv, [Next]_vars PROVE IInv'
  OBVIOUS
<1>0. /\ loop \in {"starting", "running", "returned"} /\ ctxDone \in BOOLEAN
  BY DEF IInv, TypeOK
<1>1. CASE RunStart
  BY <1>1, RunStartPreserves
<1>2. CASE RunFails
  BY <1>0, <1>2, ConversationUnchanged DEF RunFails
<1>3. CASE RunStops
  BY <1>0, <1>3, ConversationUnchanged DEF RunStops
<1>4. CASE ResultsClosed
  BY <1>0, <1>4, ConversationUnchanged DEF ResultsClosed
<1>5. CASE OnSpeechStart
  BY <1>5, SpeechStartPreserves
<1>6. CASE OnSpeechEnd
  BY <1>6, SpeechEndPreserves
<1>7. CASE OnInterim
  BY <1>7, InterimPreserves
<1>8. CASE OnFinal
  BY <1>8, FinalPreserves
<1>9. CASE OnResponseDone
  BY <1>9, ResponseDonePreserves
<1>10. CASE ContextDone
  BY <1>0, <1>10, ConversationUnchanged DEF ContextDone
<1>11. ASSUME NEW t \in Turns, Worker(t) PROVE IInv'
  BY <1>11, WorkerPreserves
<1>12. CASE UNCHANGED vars
  BY <1>0, <1>12, ConversationUnchanged DEF vars
<1> QED
  BY <1>1, <1>2, <1>3, <1>4, <1>5, <1>6, <1>7, <1>8, <1>9, <1>10, <1>11,
     <1>12 DEF Next, Loop

\* The inductive invariant holds in every reachable state.
THEOREM Inductive == Spec => []IInv
<1>1. Init => IInv
  BY InitIInv
<1>2. IInv /\ [Next]_vars => IInv'
  BY NextPreserves
<1> QED
  BY <1>1, <1>2, PTL DEF Spec

-----------------------------------------------------------------------------
(* What follows for the program, for any number of turns, deltas, frames.  *)

\* Every variable keeps its type: in particular turn numbers, which index the
\* workers, never outrun the final transcripts received.
THEOREM TypeCorrect == Spec => []TypeOK
<1>1. IInv => TypeOK
  BY DEF IInv
<1> QED
  BY <1>1, Inductive, PTL

\* Whatever the order of VAD events, transcripts, results and cancellations,
\* at most one reply is being produced, and the loop can still cancel it.
THEOREM OneReplyAtATime == Spec => []OneLiveResponse
<1>1. IInv => OneLiveResponse
  BY DEF IInv
<1> QED
  BY <1>1, Inductive, PTL

\* The loop never is responding while the user speaks.
THEOREM NeverTalksOver == Spec => []HalfDuplex
<1>1. IInv => HalfDuplex
  BY DEF IInv
<1> QED
  BY <1>1, Inductive, PTL

\* A result the loop can take is that of the current turn.
THEOREM NoStaleResult == Spec => []ResultChannelIsCurrent
<1>1. IInv => ResultChannelIsCurrent
  BY DEF IInv
<1> QED
  BY <1>1, Inductive, PTL

\* The prompt sent to the LLM alternates, turns numbered without a gap.
THEOREM PromptAlternates == Spec => []HistoryAlternates
<1>1. IInv => HistoryAlternates
  BY DEF IInv
<1> QED
  BY <1>1, Inductive, PTL

\* A latency mark is never read under the label of another turn.
THEOREM MetricsAreLabelled == Spec => []MetricsNameTheirTurn
<1>1. IInv => MetricsNameTheirTurn
  BY DEF IInv
<1> QED
  BY <1>1, Inductive, PTL

-----------------------------------------------------------------------------
(* The unsynchronised read of o.turnStart.                                 *)

\* While responding, turnStart is the start of the current turn: the turns
\* that could overwrite it only start after the state left responding.
StartIsCurrent == state = "responding" => turnStart = turn

RaceInv == OwnTurnStart /\ StartIsCurrent

\* A step that neither reads turnStart nor takes back a cancellation keeps
\* the race confined.
LEMMA NoRead ==
  ASSUME OwnTurnStart, UNCHANGED started,
         \A t \in Turns : cancelled[t] => cancelled'[t]
  PROVE  OwnTurnStart'
  BY DEF OwnTurnStart

\* A cancellation is never taken back.
LEMMA CancelsStay ==
  ASSUME IInv, InterruptResponse
  PROVE  \A t \in Turns : cancelled[t] => cancelled'[t]
<1>1. cancelled \in [Turns -> BOOLEAN]
  BY DEF IInv, TypeOK
<1>2. responseCancel # Nil => responseCancel \in Turns
  BY DEF IInv, TypeOK
<1> QED
  BY <1>1, <1>2 DEF InterruptResponse

\* The steps of the loop and the environment.
LEMMA LoopConfinesRace ==
  ASSUME IInv, RaceInv, Loop \/ ContextDone \/ UNCHANGED vars
  PROVE  RaceInv'
<1>1. UNCHANGED started
  BY DEF Loop, RunStart, RunFails, RunStops, ResultsClosed, OnSpeechStart,
         OnSpeechEnd, OnInterim, OnFinal, OnResponseDone, ContextDone,
         workerVars, vars
<1>2. \A t \in Turns : cancelled[t] => cancelled'[t]
  <2>1. CASE UNCHANGED cancelled
    BY <2>1
  <2>2. CASE InterruptResponse
    BY <2>2, CancelsStay
  <2> QED
    BY <2>1, <2>2
    DEF Loop, RunStart, RunFails, RunStops, ResultsClosed, OnSpeechStart,
        OnSpeechEnd, OnInterim, OnFinal, OnResponseDone, ContextDone,
        workerVars, vars
<1>3. StartIsCurrent'
  <2>1. CASE RunStart
    BY <2>1 DEF RaceInv, StartIsCurrent, RunStart, SpawnWorker, IInv,
                NothingBeforeRun
  <2>2. CASE RunFails \/ RunStops \/ ResultsClosed \/ ContextDone \/ UNCHANGED vars
    BY <2>2 DEF RaceInv, StartIsCurrent, RunFails, RunStops, ResultsClosed,
                ContextDone, convVars, vars
  <2>3. CASE OnSpeechStart
    BY <2>3 DEF RaceInv, StartIsCurrent, OnSpeechStart, InterruptResponse
  <2>4. CASE OnSpeechEnd
    BY <2>4 DEF RaceInv, StartIsCurrent, OnSpeechEnd, MaybeEndTurn, SpawnWorker
  <2>5. CASE OnInterim
    BY <2>5 DEF RaceInv, StartIsCurrent, OnInterim, InterruptResponse
  <2>6. CASE OnFinal
    BY <2>6 DEF RaceInv, StartIsCurrent, OnFinal, InterruptResponse,
                MaybeEndTurn, SpawnWorker
  <2>7. CASE OnResponseDone
    BY <2>7 DEF RaceInv, StartIsCurrent, OnResponseDone
  <2> QED
    BY <2>1, <2>2, <2>3, <2>4, <2>5, <2>6, <2>7 DEF Loop
<1> QED
  BY <1>1, <1>2, <1>3, NoRead DEF RaceInv

\* The steps of a worker: the one that reads turnStart and was not cancelled
\* is the live one, so the start it finds is its own.
LEMMA WorkerConfinesRace ==
  ASSUME IInv, RaceInv, NEW t \in Turns, Worker(t)
  PROVE  RaceInv'
<1>1. UNCHANGED <<state, turn, turnStart, cancelled>>
  BY DEF Worker, ReadTurnStart, OpenStream, OpenStreamFails, ReceiveDelta,
         StreamEnds, StreamAborts, Flush, CallWaitForPlayout, PlayoutReturns,
         PlayoutAborts, CallSetPendingTTS, Synthesize, SynthesizeFails,
         FrameReady, SendAccepted, SendAborts, SpeechQueued, SpeechAborts,
         Finish, convVars
<1>2. StartIsCurrent'
  BY <1>1 DEF RaceInv, StartIsCurrent
<1>3. CASE ReadTurnStart(t)
  <2>1. PICK s \in t..turnStart : started' = [started EXCEPT ![t] = s]
    BY <1>3 DEF ReadTurnStart
  <2>2. ~cancelled[t] => s = t
    <3> SUFFICES ASSUME ~cancelled[t] PROVE s = t
      OBVIOUS
    <3>1. Live(t)
      BY <1>3 DEF Live, ReadTurnStart, WorkerStep
    <3>2. t = turn /\ turnStart = turn
      BY <3>1 DEF IInv, OneLiveResponse, RaceInv, StartIsCurrent
    <3>3. t \in Nat /\ s \in t..t
      BY <2>1, <3>2, TurnsAreNumbers
    <3> QED
      BY <3>3
  <2>3. started \in [Turns -> Turns \cup {Nil}]
    BY DEF IInv, TypeOK
  <2>4. ASSUME NEW u \in Turns, started'[u] \notin {Nil, u} PROVE cancelled'[u]
    <3>1. CASE u = t
      BY <1>1, <2>1, <2>2, <2>3, <2>4, <3>1
    <3>2. CASE u # t
      BY <1>1, <2>1, <2>3, <2>4, <3>2 DEF RaceInv, OwnTurnStart
    <3> QED
      BY <3>1, <3>2
  <2> QED
    BY <1>2, <2>4 DEF RaceInv, OwnTurnStart
<1>4. CASE ~ReadTurnStart(t)
  <2>1. UNCHANGED started
    BY <1>4
    DEF Worker, OpenStream, OpenStreamFails, ReceiveDelta, StreamEnds,
        StreamAborts, Flush, CallWaitForPlayout, PlayoutReturns,
        PlayoutAborts, CallSetPendingTTS, Synthesize, SynthesizeFails,
        FrameReady, SendAccepted, SendAborts, SpeechQueued, SpeechAborts,
        Finish
  <2> QED
    BY <1>1, <1>2, <2>1, NoRead DEF RaceInv
<1> QED
  BY <1>3, <1>4

\* The race on o.turnStart is confined to responses that were interrupted: a
\* reply that is heard to its end measured from the start of its own turn.
THEOREM RaceIsConfined == Spec => []OwnTurnStart
<1>1. Init => RaceInv
  BY DEF Init, RaceInv, OwnTurnStart, StartIsCurrent
<1>2. IInv /\ RaceInv /\ [Next]_vars => RaceInv'
  BY LoopConfinesRace, WorkerConfinesRace DEF Next
<1>3. RaceInv => OwnTurnStart
  BY DEF RaceInv
<1> QED
  BY <1>1, <1>2, <1>3, Inductive, PTL DEF Spec

-----------------------------------------------------------------------------
(* The loop implements the half-duplex exchange of TurnTaking.             *)

\* The last turn of the abstract log is o.turn.
LEMMA LastTurnIsTurn == IInv => Abstract!LastTurn = turn
  BY DEF IInv, TypeOK, Turns, HistoryIsCurrent, Abstract!LastTurn

\* A step that leaves the conversation alone is a stutter of the exchange.
LEMMA Stutters ==
  ASSUME UNCHANGED <<state, userSpeaking, pending, heard, history>>
  PROVE  UNCHANGED Abstract!vars
  BY DEF Abstract!vars, Floor

\* When maybeEndTurn fires, the words become a message and the agent's floor.
LEMMA EndTurnCommits ==
  ASSUME IInv, NEW buffer, NEW newMarks, userSpeaking' = FALSE,
         EndsTurn(FALSE, buffer), MaybeEndTurn(FALSE, buffer, newMarks)
  PROVE  Abstract!Commit(buffer)
<1>1. /\ pending' = <<>> /\ state' = "responding"
      /\ history' = Append(history, UserMessage(turn + 1, buffer))
  BY DEF MaybeEndTurn, SpawnWorker
<1> QED
  BY <1>1, LastTurnIsTurn
  DEF Abstract!Commit, Floor, UserMessage, Abstract!UserMessage

LEMMA StepRefines == IInv /\ [Next]_vars => [Abstract!Next]_(Abstract!vars)
<1> SUFFICES ASSUME IInv, [Next]_vars
             PROVE  Abstract!Next \/ UNCHANGED Abstract!vars
  OBVIOUS
<1>0. /\ state \in {"listening", "responding"} /\ userSpeaking \in BOOLEAN
      /\ userSpeaking => state = "listening"
  BY DEF IInv, TypeOK, HalfDuplex
<1>1. CASE RunStart
  <2>1. /\ state = "listening" /\ ~userSpeaking /\ heard = 0
        /\ UNCHANGED <<userSpeaking, pending, heard, history>>
    BY <1>1 DEF IInv, NothingBeforeRun, RunStart
  <2>2. CASE Greeting
    BY <1>1, <2>1, <2>2 DEF RunStart, SpawnWorker, Floor, Abstract!Greet, Abstract!Next
  <2>3. CASE ~Greeting
    BY <1>1, <2>1, <2>3, Stutters DEF RunStart
  <2> QED
    BY <2>2, <2>3
<1>2. CASE RunFails \/ RunStops \/ ResultsClosed \/ ContextDone
  BY <1>2, Stutters DEF RunFails, RunStops, ResultsClosed, ContextDone, convVars
<1>3. CASE OnSpeechStart
  BY <1>0, <1>3 DEF OnSpeechStart, Floor, Abstract!UserTakesFloor, Abstract!Next
<1>4. CASE OnSpeechEnd
  <2>1. /\ userSpeaking /\ userSpeaking' = FALSE /\ state = "listening"
        /\ UNCHANGED heard
        /\ MaybeEndTurn(FALSE, pending, [marks EXCEPT !.end = TRUE])
    BY <1>0, <1>4 DEF OnSpeechEnd
  <2>2. CASE pending = <<>>
    <3>1. UNCHANGED <<state, pending, history>>
      BY <2>1, <2>2 DEF MaybeEndTurn, EndsTurn
    <3> QED
      BY <2>1, <2>2, <3>1 DEF Floor, Abstract!UserYieldsFloor, Abstract!Next
  <2>3. CASE pending # <<>>
    <3>1. EndsTurn(FALSE, pending)
      BY <2>1, <2>3 DEF EndsTurn
    <3>2. Abstract!Commit(pending)
      BY <2>1, <3>1, EndTurnCommits
    <3> QED
      BY <2>1, <2>3, <3>2 DEF Floor, Abstract!UserYieldsFloor, Abstract!Next
  <2> QED
    BY <2>2, <2>3
<1>5. CASE OnInterim
  BY <1>0, <1>5, Stutters DEF OnInterim
<1>6. CASE OnFinal
  <2> DEFINE buffer == Append(pending, heard + 1)
             hit == [marks EXCEPT !.hit = TRUE]
  <2>1. /\ heard < MaxFinals /\ heard' = heard + 1 /\ UNCHANGED userSpeaking
        /\ MaybeEndTurn(userSpeaking, buffer, hit)
        /\ buffer # <<>>
    <3>1. heard \in Nat /\ pending \in Seq(Nat)
      <4>1. heard \in 0..MaxFinals /\ pending \in Seq(1..MaxFinals)
        BY DEF IInv, TypeOK
      <4>2. 0..MaxFinals \subseteq Nat /\ 1..MaxFinals \subseteq Nat
        OBVIOUS
      <4> QED
        BY <4>1, <4>2, SeqMonotonic
    <3>2. buffer # <<>>
      <4>1. heard + 1 \in Nat
        BY <3>1
      <4>2. Append(pending, heard + 1) # <<>>
        <5> HIDE DEF buffer, hit
        <5> QED
          BY <3>1, <4>1, Appended
      <4> QED
        BY <4>2
    <3> QED
      BY <1>0, <1>6, <3>2 DEF OnFinal
  <2> HIDE DEF buffer, hit
  <2>2. CASE ~userSpeaking /\ state # "responding"
    <3>1. userSpeaking = FALSE /\ userSpeaking' = FALSE
      BY <1>0, <2>1, <2>2
    <3>2. EndsTurn(FALSE, buffer) /\ MaybeEndTurn(FALSE, buffer, hit)
      BY <2>1, <2>2, <3>1 DEF EndsTurn
    <3>3. Abstract!Commit(buffer)
      BY <3>1, <3>2, EndTurnCommits
    <3> QED
      BY <2>1, <2>2, <3>3 DEF buffer, Floor, Abstract!Hear, Abstract!Next
  <2>3. CASE userSpeaking \/ state = "responding"
    <3>1. pending' = buffer /\ UNCHANGED <<state, history>>
      BY <2>1, <2>3 DEF MaybeEndTurn, EndsTurn
    <3>2. Floor # "idle" /\ UNCHANGED Floor
      BY <2>1, <2>3, <3>1 DEF Floor
    <3> QED
      BY <2>1, <3>1, <3>2 DEF buffer, Abstract!Hear, Abstract!Next
  <2> QED
    BY <2>2, <2>3
<1>7. CASE OnResponseDone
  <2>1. /\ responseDone # Nil /\ responseDone = turn /\ turn \in Turns
        /\ turn \in Nat
    BY <1>7, TurnsAreNumbers DEF IInv, ResultChannelIsCurrent, OnResponseDone, TypeOK
  <2>2. /\ state' = "listening"
        /\ UNCHANGED <<userSpeaking, pending, heard>>
        /\ \/ UNCHANGED history
           \/ /\ history' = Append(history, AgentMessage(turn, ResultText(turn)))
              /\ completed[turn] /\ ResultText(turn) > 0
    BY <1>0, <1>7, <2>1 DEF OnResponseDone
  <2>3. CASE UNCHANGED history
    BY <1>0, <2>2, <2>3 DEF Floor, Abstract!AgentYieldsFloor, Abstract!Next, Abstract!vars
  <2>4. CASE /\ history' = Append(history, AgentMessage(turn, ResultText(turn)))
             /\ completed[turn] /\ ResultText(turn) > 0
    <3>1. full[turn] \in 1..MaxDeltas /\ ResultText(turn) = full[turn]
      BY <2>1, <2>4, ConfigAssumption DEF IInv, TypeOK, ResultText
    <3>2. turn # 0
      BY <3>1 DEF IInv, GreetingHasNoText
    <3>3. Abstract!Unanswered
      <4>1. turn > 0 /\ history # <<>> /\ history[Len(history)].role = "user"
        BY <2>1, <3>2 DEF IInv, HistoryIsCurrent
      <4> QED
        BY <4>1 DEF Abstract!Unanswered
    <3>4. AgentMessage(turn, ResultText(turn)) \in Abstract!AgentMessages(Abstract!LastTurn)
      BY <3>1, LastTurnIsTurn DEF AgentMessage, Abstract!AgentMessages
    <3>5. Floor' = IF Floor = "agent" THEN "idle" ELSE Floor
      BY <1>0, <2>2 DEF Floor
    <3> QED
      BY <2>2, <2>4, <3>3, <3>4, <3>5 DEF Abstract!Reply, Abstract!Next
  <2> QED
    BY <2>2, <2>3, <2>4
<1>8. ASSUME NEW t \in Turns, Worker(t) PROVE UNCHANGED Abstract!vars
  BY <1>8, Stutters
  DEF Worker, ReadTurnStart, OpenStream, OpenStreamFails, ReceiveDelta,
      StreamEnds, StreamAborts, Flush, CallWaitForPlayout, PlayoutReturns,
      PlayoutAborts, CallSetPendingTTS, Synthesize, SynthesizeFails,
      FrameReady, SendAccepted, SendAborts, SpeechQueued, SpeechAborts,
      Finish, convVars
<1>9. CASE UNCHANGED vars
  BY <1>9, Stutters DEF vars, convVars
<1> QED
  BY <1>1, <1>2, <1>3, <1>4, <1>5, <1>6, <1>7, <1>8, <1>9 DEF Next, Loop

\* The conversation loop, with its goroutines, contexts and result channels,
\* implements the half-duplex exchange: whoever holds the floor, words are
\* buffered in order and committed once, and at most one reply, to the last
\* turn, enters the history.
THEOREM Refinement == Spec => ImplementsTurnTaking
<1>1. Init => Abstract!Init
  BY DEF Init, Abstract!Init, Floor
<1>2. IInv /\ [Next]_vars => [Abstract!Next]_(Abstract!vars)
  BY StepRefines
<1> QED
  BY <1>1, <1>2, Inductive, PTL DEF Spec, ImplementsTurnTaking, Abstract!Spec

-----------------------------------------------------------------------------
(* What was heard is in the history, or waits in the buffer.               *)

\* The segments of each message of a history, one sequence per message.
Segments(h) ==
  [i \in 1..Len(h) |-> IF h[i].role = "user" THEN h[i].text ELSE <<>>]

\* They are sequences of numbers.
LEMMA SegmentsType ==
  ASSUME NEW h \in Seq(Messages) PROVE Segments(h) \in Seq(Seq(Nat))
<1>1. ASSUME NEW i \in 1..Len(h) PROVE h[i].text \in Seq(Nat)
  <2>1. h[i] \in Messages
    OBVIOUS
  <2> QED BY <2>1 DEF Messages
<1>2. <<>> \in Seq(Nat)
  OBVIOUS
<1> QED BY <1>1, <1>2 DEF Segments

\* A message appended adds its segments at the end.
LEMMA SegmentsAppend ==
  ASSUME NEW h \in Seq(Messages), NEW m \in Messages
  PROVE  FlattenSeq(Segments(Append(h, m)))
           = FlattenSeq(Segments(h)) \o (IF m.role = "user" THEN m.text ELSE <<>>)
<1> DEFINE x == IF m.role = "user" THEN m.text ELSE <<>>
<1>1. x \in Seq(Nat)
  BY DEF Messages
<1>2. Segments(Append(h, m)) = Append(Segments(h), x)
  BY DEF Segments
<1>3. Segments(h) \in Seq(Seq(Nat))
  BY SegmentsType
<1> QED BY <1>1, <1>2, <1>3, FlattenAppend

\* The messages of the loop are messages.
LEMMA MessageTypes ==
  ASSUME NEW t \in 1..MaxFinals
  PROVE  /\ \A s \in Seq(Nat) : UserMessage(t, s) \in Messages
         /\ \A n \in Nat : AgentMessage(t, n) \in Messages
<1>1. \A n \in Nat : [i \in 1..n |-> i] \in Seq(Nat)
  OBVIOUS
<1> QED BY <1>1 DEF UserMessage, AgentMessage, Messages

\* maybeEndTurn moves the buffer to the history, or leaves it where it is.
LEMMA EndTurnKeepsSegments ==
  ASSUME IInv, NEW buffer \in Seq(1..MaxFinals), NEW speaking, NEW newMarks,
         MaybeEndTurn(speaking, buffer, newMarks),
         EndsTurn(speaking, buffer) => turn + 1 \in 1..MaxFinals
  PROVE  UserSegments' \o pending' = UserSegments \o buffer
<1>1. history \in Seq(Messages) /\ buffer \in Seq(Nat)
  <2>1. 1..MaxFinals \subseteq Nat BY ConfigAssumption
  <2>2. buffer \in Seq(Nat) BY <2>1, SeqMonotonic
  <2> QED BY <2>2 DEF IInv, TypeOK
<1>2. UserSegments = FlattenSeq(Segments(history))
      /\ UserSegments' = FlattenSeq(Segments(history'))
  BY DEF UserSegments, Segments
<1>3. UserSegments \in Seq(Nat)
  BY <1>1, <1>2, SegmentsType, FlattenType
<1>4. CASE EndsTurn(speaking, buffer)
  <2> DEFINE m == UserMessage(turn + 1, buffer)
  <2>1. m \in Messages /\ m.role = "user" /\ m.text = buffer
    <3>1. m \in Messages BY <1>1, <1>4, MessageTypes
    <3> QED BY <3>1 DEF UserMessage
  <2>2. history' = Append(history, m) /\ pending' = <<>>
    BY <1>4 DEF MaybeEndTurn
  <2> HIDE DEF m
  <2>3. UserSegments' = UserSegments \o buffer
    BY <1>1, <1>2, <2>1, <2>2, SegmentsAppend
  <2> QED BY <1>1, <1>3, <2>2, <2>3
<1>5. CASE ~EndsTurn(speaking, buffer)
  BY <1>2, <1>5 DEF MaybeEndTurn
<1> QED BY <1>4, <1>5

\* What is heard is numbered as it comes.
LEMMA NumberNext ==
  ASSUME NEW s \in Seq(Nat), NEW b \in Seq(Nat), NEW n \in Nat
  PROVE  s \o b = [i \in 1..n |-> i] =>
           s \o Append(b, n + 1) = [i \in 1..(n + 1) |-> i]
<1>1. n + 1 \in Nat
  OBVIOUS
<1>2. s \o Append(b, n + 1) = Append(s \o b, n + 1)
  BY <1>1, AppendOut
<1>3. Append([i \in 1..n |-> i], n + 1) = [i \in 1..(n + 1) |-> i]
  OBVIOUS
<1> QED BY <1>2, <1>3, Zenon

\* A step that neither hears nor commits anything.
LEMMA SegmentsStay ==
  ASSUME NoTranscriptLost, UNCHANGED <<history, pending, heard>>
  PROVE  NoTranscriptLost'
BY DEF NoTranscriptLost, UserSegments

\* The reply taken into the history has no segments of the user.
LEMMA ReplyKeepsSegments ==
  ASSUME IInv, NoTranscriptLost, OnResponseDone PROVE NoTranscriptLost'
<1>1. responseDone = turn /\ turn \in Turns
  BY DEF IInv, ResultChannelIsCurrent, OnResponseDone, TypeOK
<1>2. UNCHANGED <<pending, heard>>
  BY DEF OnResponseDone
<1>3. CASE history' = history
  BY <1>2, <1>3, SegmentsStay
<1>4. CASE history' # history
  <2> DEFINE n == ResultText(turn)
  <2> DEFINE m == AgentMessage(turn, n)
  <2>1. history' = Append(history, m) /\ n > 0
    BY <1>1, <1>4 DEF OnResponseDone
  <2>2. n \in Nat /\ turn \in 1..MaxFinals
    <3>1. n \in 0..MaxDeltas
      BY <1>1, ConfigAssumption DEF ResultText, IInv, TypeOK
    <3>2. turn # 0
      BY <2>1 DEF ResultText, IInv, GreetingHasNoText
    <3> QED BY <1>1, <3>1, <3>2, ConfigAssumption DEF Turns
  <2>3. m \in Messages /\ m.role # "user"
    <3>1. m \in Messages BY <2>2, MessageTypes
    <3> QED BY <3>1 DEF AgentMessage
  <2> HIDE DEF m, n
  <2>4. history \in Seq(Messages) BY DEF IInv, TypeOK
  <2>5. FlattenSeq(Segments(history)) \in Seq(Nat)
    BY <2>4, SegmentsType, FlattenType
  <2>6. UserSegments' = UserSegments
    <3>1. FlattenSeq(Segments(history')) = FlattenSeq(Segments(history)) \o <<>>
      BY <2>1, <2>3, <2>4, SegmentsAppend
    <3> QED BY <2>5, <3>1 DEF UserSegments, Segments
  <2> QED BY <1>2, <2>6 DEF NoTranscriptLost
<1> QED BY <1>3, <1>4

\* The end of speech may commit the buffer.
LEMMA SpeechEndKeepsSegments ==
  ASSUME IInv, NoTranscriptLost, OnSpeechEnd PROVE NoTranscriptLost'
<1>1. pending \in Seq(1..MaxFinals) /\ UNCHANGED heard
      /\ MaybeEndTurn(FALSE, pending, [marks EXCEPT !.end = TRUE])
  BY DEF OnSpeechEnd, IInv, TypeOK
<1>2. EndsTurn(FALSE, pending) => turn + 1 \in 1..MaxFinals
  <2> SUFFICES ASSUME pending # <<>> PROVE turn + 1 \in 1..MaxFinals
    BY DEF EndsTurn
  <2>1. Len(pending) \in Nat /\ Len(pending) >= 1
    BY <1>1
  <2>2. turn \in Nat /\ heard \in 0..MaxFinals /\ turn + Len(pending) <= heard
    BY TurnsAreNumbers DEF IInv, TypeOK, TurnsAreHeard
  <2> QED BY <2>1, <2>2, ConfigAssumption
<1> QED BY <1>1, <1>2, EndTurnKeepsSegments DEF NoTranscriptLost

\* A final segment goes to the end of the buffer, and may commit it.
LEMMA FinalKeepsSegments ==
  ASSUME IInv, NoTranscriptLost, OnFinal PROVE NoTranscriptLost'
<1> DEFINE buffer == Append(pending, heard + 1)
<1>1. heard \in 0..MaxFinals /\ heard < MaxFinals /\ heard' = heard + 1
      /\ pending \in Seq(1..MaxFinals) /\ turn \in Nat
      /\ turn + Len(pending) <= heard
  BY TurnsAreNumbers DEF OnFinal, IInv, TypeOK, TurnsAreHeard
<1>2. MaybeEndTurn(userSpeaking, buffer, [marks EXCEPT !.hit = TRUE])
  BY DEF OnFinal, IInv, HalfDuplex
<1>3. buffer \in Seq(1..MaxFinals) /\ turn + 1 \in 1..MaxFinals
  <2>1. heard + 1 \in 1..MaxFinals /\ Len(pending) \in Nat
    BY <1>1, ConfigAssumption
  <2>2. buffer \in Seq(1..MaxFinals)
    BY <1>1, <2>1, AppendProperties
  <2> QED BY <1>1, <2>1, <2>2, ConfigAssumption
<1>4. UserSegments \in Seq(Nat)
  <2>1. FlattenSeq(Segments(history)) \in Seq(Nat)
    BY SegmentsType, FlattenType DEF IInv, TypeOK
  <2> QED BY <2>1 DEF UserSegments, Segments
<1>5. pending \in Seq(Nat)
  <2>1. 1..MaxFinals \subseteq Nat BY ConfigAssumption
  <2>2. pending \in Seq(1..MaxFinals) BY <1>1
  <2> QED BY <2>1, <2>2, SeqMonotonic
<1>6. UserSegments \o buffer = [i \in 1..(heard + 1) |-> i]
  <2>1. heard \in Nat BY <1>1, ConfigAssumption
  <2>2. UserSegments \o pending = [i \in 1..heard |-> i]
    BY DEF NoTranscriptLost
  <2> HIDE DEF buffer
  <2>3. UserSegments \o Append(pending, heard + 1)
          = [i \in 1..(heard + 1) |-> i]
    <3>1. \A s, b \in Seq(Nat), n \in Nat :
            s \o b = [i \in 1..n |-> i] =>
              s \o Append(b, n + 1) = [i \in 1..(n + 1) |-> i]
      BY NumberNext
    <3> QED BY <3>1, <1>4, <1>5, <2>1, <2>2, Zenon
  <2> QED BY <2>3 DEF buffer
<1> HIDE DEF buffer
<1>7. UserSegments' \o pending' = UserSegments \o buffer
  BY <1>2, <1>3, EndTurnKeepsSegments
<1> QED BY <1>1, <1>6, <1>7 DEF NoTranscriptLost

\* Every final segment the STT session delivers is in the history, in the order
\* of arrival and once, or still in the buffer of the turn to come, whatever
\* interruptions and responses come between.
THEOREM NothingHeardIsLost == Spec => []NoTranscriptLost
<1>1. Init => NoTranscriptLost
  <2> SUFFICES ASSUME Init PROVE NoTranscriptLost
    OBVIOUS
  <2>1. UserSegments = FlattenSeq(<<>>)
    BY DEF Init, UserSegments
  <2> QED BY <2>1, FlattenEmpty DEF Init, NoTranscriptLost
<1>2. IInv /\ NoTranscriptLost /\ [Next]_vars => NoTranscriptLost'
  <2> SUFFICES ASSUME IInv, NoTranscriptLost, [Next]_vars
               PROVE  NoTranscriptLost'
    OBVIOUS
  <2>1. CASE RunStart \/ RunFails \/ RunStops \/ ResultsClosed \/ OnSpeechStart
    BY <2>1, SegmentsStay DEF RunStart, RunFails, RunStops, ResultsClosed,
       OnSpeechStart, convVars
  <2>2. CASE OnInterim
    BY <2>2, SegmentsStay DEF OnInterim
  <2>3. ASSUME NEW t \in Turns, Worker(t) PROVE NoTranscriptLost'
    <3>1. UNCHANGED convVars
      BY <2>3 DEF Worker, ReadTurnStart, OpenStream, OpenStreamFails,
         ReceiveDelta, StreamEnds, StreamAborts, Flush, CallWaitForPlayout,
         PlayoutReturns, PlayoutAborts, CallSetPendingTTS, Synthesize,
         SynthesizeFails, FrameReady, SendAccepted, SendAborts, SpeechQueued,
         SpeechAborts, Finish
    <3> QED BY <3>1, SegmentsStay DEF convVars
  <2>4. CASE ContextDone \/ UNCHANGED vars
    BY <2>4, SegmentsStay DEF ContextDone, vars, convVars
  <2> QED
    BY <2>1, <2>2, <2>3, <2>4, ReplyKeepsSegments, SpeechEndKeepsSegments,
       FinalKeepsSegments DEF Next, Loop
<1> QED BY <1>1, <1>2, Inductive, PTL DEF Spec

-----------------------------------------------------------------------------
(* Part 2: the loop on top of the playout path.                            *)

\* The components' theorems, for the callers that the workers are.
PP == INSTANCE Playout_proofs WITH Callers <- Turns

-----------------------------------------------------------------------------
(* The playout path.                                                       *)

\* What Playout assumes of its constants.
LEMMA PlayoutConstants ==
  /\ FrameSize \in Nat \ {0}
  /\ PlaybackCap \in Nat \ {0}
  /\ OutCap \in Nat \ {0}
  /\ PrebufferFrames \in Nat \ {0}
  /\ StartTimeoutTicks \in Nat \ {0}
  /\ MaxAccFrames \in Nat /\ MaxAccFrames > 1
  /\ MaxUnits \in Nat
BY AgentConstants

\* Playout seen through its proof module is the same specification: its
\* initial states,
LEMMA PlayoutInit == P!Init => PP!Init
BY DEF P!Init, PP!Init

\* its callers' steps,
LEMMA PlayoutCaller == \A c \in Turns : P!Caller(c) => PP!Caller(c)
BY DEF P!Caller, PP!Caller,
     P!Send, PP!Send, P!CallWaitForDrain, PP!CallWaitForDrain,
     P!WaitForDrainReturns, PP!WaitForDrainReturns, P!WaitForDrainAborts,
     PP!WaitForDrainAborts, P!callerVars, PP!callerVars, P!pacerVars,
     PP!pacerVars

\* its pacer's steps,
LEMMA PlayoutPacer == P!Pacer => PP!Pacer
<1>Stop. P!Stop => PP!Stop
  BY DEF
     P!Stop, PP!Stop, P!callerVars, PP!callerVars, P!pacerVars, PP!pacerVars,
     P!PacerStep, PP!PacerStep, P!CloseWaiters, PP!CloseWaiters
<1>TakeClear. P!TakeClear => PP!TakeClear
  BY DEF
     P!TakeClear, PP!TakeClear, P!callerVars, PP!callerVars, P!pacerVars,
     PP!pacerVars, P!PacerStep, PP!PacerStep, P!ToSet, PP!ToSet
<1>DrainIn. P!DrainIn => PP!DrainIn
  BY DEF
     P!DrainIn, PP!DrainIn, P!callerVars, PP!callerVars, P!pacerVars,
     PP!pacerVars, P!PacerStep, PP!PacerStep, P!ToSet, PP!ToSet
<1>DrainInDone. P!DrainInDone => PP!DrainInDone
  BY DEF
     P!DrainInDone, PP!DrainInDone, P!callerVars, PP!callerVars, P!pacerVars,
     PP!pacerVars, P!PacerStep, PP!PacerStep, P!CloseWaiters,
     PP!CloseWaiters
<1>Tick. P!Tick => PP!Tick
  BY DEF
     P!Tick, PP!Tick, P!callerVars, PP!callerVars, P!PacerStep, PP!PacerStep
<1>TopUp. P!TopUp => PP!TopUp
  BY DEF
     P!TopUp, PP!TopUp, P!callerVars, PP!callerVars, P!MaxSamples,
     PP!MaxSamples
<1>Decide. P!Decide => PP!Decide
  BY DEF
     P!Decide, PP!Decide, P!callerVars, PP!callerVars, P!PacerStep,
     PP!PacerStep, P!MaxSamples, PP!MaxSamples, P!PrebufferSamples,
     PP!PrebufferSamples, P!StartsPlaying, PP!StartsPlaying
<1>Emit. P!Emit => PP!Emit
  BY DEF
     P!Emit, PP!Emit, P!PacerStep, PP!PacerStep, P!CloseWaiters,
     PP!CloseWaiters, P!AfterEmit, PP!AfterEmit
<1>EmitAborts. P!EmitAborts => PP!EmitAborts
  BY DEF
     P!EmitAborts, PP!EmitAborts, P!PacerStep, PP!PacerStep, P!CloseWaiters,
     PP!CloseWaiters, P!AfterEmit, PP!AfterEmit, P!ToSet, PP!ToSet
<1>TakeDrain. \A c \in Turns : P!TakeDrain(c) => PP!TakeDrain(c)
  BY DEF P!TakeDrain, PP!TakeDrain, P!callerVars, PP!callerVars
<1> QED
  BY <1>Stop, <1>TakeClear, <1>DrainIn, <1>DrainInDone, <1>Tick, <1>TopUp,
     <1>Decide, <1>Emit, <1>EmitAborts, <1>TakeDrain DEF P!Pacer, PP!Pacer

\* all of its steps,
LEMMA PlayoutNext == P!Next => PP!Next
<1>1. P!Clear => PP!Clear
  BY DEF P!Clear, PP!Clear, P!callerVars, PP!callerVars, P!pacerVars,
     PP!pacerVars
<1>2. P!ContextDone => PP!ContextDone
  BY DEF P!ContextDone, PP!ContextDone, P!callerVars, PP!callerVars,
     P!pacerVars, PP!pacerVars
<1>3. P!Outbound => PP!Outbound
  BY DEF P!Outbound, PP!Outbound,
     P!WriteSample, PP!WriteSample, P!WriteFails, PP!WriteFails,
     P!OutboundStops, PP!OutboundStops, P!callerVars, PP!callerVars,
     P!pacerVars, PP!pacerVars
<1> QED BY <1>1, <1>2, <1>3, PlayoutCaller, PlayoutPacer DEF P!Next, PP!Next

\* and its behaviours.
LEMMA PlayoutSpec == P!Spec => PP!Spec
<1>1. [P!Next]_P!vars => [PP!Next]_PP!vars
  BY PlayoutNext DEF P!vars, PP!vars, P!callerVars, PP!callerVars, P!pacerVars,
     PP!pacerVars
<1> QED BY <1>1, PlayoutInit, PTL DEF P!Spec, PP!Spec

\* The agent starts with an empty playout path.
LEMMA PlayoutStarts == AgentInit => P!Init
BY DEF AgentInit

\* Every step of the agent is a step of the playout path or invisible to it.
LEMMA AgentIsPlayout == [AgentNext]_agentVars => [P!Next]_P!vars
<1> SUFFICES ASSUME [AgentNext]_agentVars PROVE [P!Next]_P!vars
  OBVIOUS
<1> USE DEF playoutVars, P!vars, P!callerVars, P!pacerVars
<1>1. CASE LoopStep
  <2>1. UNCHANGED ctxDone
    BY <1>1 DEF LoopStep, Loop, RunStart, RunFails, RunStops,
       ResultsClosed, OnSpeechStart, OnSpeechEnd, OnInterim, OnFinal,
       OnResponseDone
  <2> QED BY <1>1, <2>1 DEF LoopStep, P!Next
<1>2. CASE AgentStop
  BY <1>2 DEF AgentStop, P!Next
<1>3. ASSUME NEW t \in Turns, WorkerOnly(t) PROVE UNCHANGED P!vars
  <2>1. UNCHANGED ctxDone
    BY <1>3 DEF WorkerOnly, ReadTurnStart, OpenStream, OpenStreamFails,
       ReceiveDelta, StreamEnds, StreamAborts, Flush, Synthesize,
       SynthesizeFails, FrameReady, SendAborts, SpeechQueued,
       SpeechAborts, Finish
  <2> QED BY <1>3, <2>1 DEF WorkerOnly
<1>4. ASSUME NEW t \in Turns, SendFrame(t) PROVE P!Next
  <2>1. FrameSize \in 1..FrameSize BY PlayoutConstants
  <2> QED BY <1>4, <2>1 DEF SendFrame, P!Next, P!Caller
<1>5. ASSUME NEW t \in Turns,
             WaitForPlayout(t) \/ WaitReturns(t) \/ WaitAborts(t)
      PROVE  P!Next
  BY <1>5 DEF WaitForPlayout, WaitReturns, WaitAborts, P!Next, P!Caller
<1>6. ASSUME NEW t \in Turns, SetPendingTTS(t) PROVE UNCHANGED P!vars
  BY <1>6 DEF SetPendingTTS, CallSetPendingTTS
<1>7. ASSUME NEW t \in Turns, AgentWorkerStep(t) PROVE [P!Next]_P!vars
  BY <1>3, <1>4, <1>5, <1>6, <1>7 DEF AgentWorkerStep
<1>8. CASE PacerDecides
  BY <1>8 DEF PacerDecides, P!Next, P!Pacer
<1>9. CASE PlayoutOnly
  BY <1>9 DEF PlayoutOnly, P!Next, P!Pacer
<1>10. CASE UNCHANGED agentVars
  BY <1>10 DEF agentVars
<1> QED BY <1>1, <1>2, <1>7, <1>8, <1>9, <1>10 DEF AgentNext

\* Seen from the playout path the agent is Playout: no handler of the loop and
\* no worker touches the transport's state but through Send, Clear and
\* WaitForPlayout, each under the conditions Playout gives it.
THEOREM AgentRunsPlayout == AgentSpec => P!Spec
BY PlayoutStarts, AgentIsPlayout, PTL DEF AgentSpec, P!Spec

\* The ceiling of the jitter buffer is part of Playout's invariant.
LEMMA CeilingFact == PP!IInv => BufferBounded
BY DEF BufferBounded, P!BufferBounded, PP!IInv, PP!BufferBounded,
   P!MaxSamples, PP!MaxSamples

\* Playout's invariant holds of the agent.
THEOREM AgentPlayoutInv == AgentSpec => []PP!IInv
BY AgentRunsPlayout, PlayoutSpec, PP!PlayoutInductive, PlayoutConstants, PTL

\* The jitter buffer holds at most its ceiling and the rest of one frame,
\* however many workers synthesise at a time.
THEOREM BufferIsBounded == AgentSpec => []BufferBounded
BY AgentPlayoutInv, CeilingFact, PTL

-----------------------------------------------------------------------------
(* The loop.                                                               *)

\* Every step of the agent is a step of the loop or invisible to it.
LEMMA AgentIsLoop == [AgentNext]_agentVars => [Next]_vars
<1> SUFFICES ASSUME [AgentNext]_agentVars PROVE [Next]_vars
  OBVIOUS
<1> USE DEF loopVars, vars, convVars, workerVars
<1>1. CASE LoopStep
  BY <1>1 DEF LoopStep, Next
<1>2. CASE AgentStop
  BY <1>2 DEF AgentStop, Next
<1>3. ASSUME NEW t \in Turns, AgentWorkerStep(t) PROVE Next
  <2>1. Worker(t)
    BY <1>3 DEF AgentWorkerStep, WorkerOnly, SendFrame, WaitForPlayout, WaitReturns,
       WaitAborts, SetPendingTTS, Worker
  <2> QED BY <2>1 DEF Next
<1>4. CASE PacerDecides
  BY <1>4 DEF PacerDecides, P!Decide
<1>5. CASE PlayoutOnly
  <2>1. UNCHANGED ctxDone
    BY <1>5 DEF PlayoutOnly, P!Stop, P!TakeDrain, P!TakeClear, P!DrainIn,
       P!DrainInDone, P!Tick, P!TopUp, P!Emit, P!EmitAborts, P!AfterEmit,
       P!Outbound, P!WriteSample, P!WriteFails, P!OutboundStops
  <2> QED BY <1>5, <2>1 DEF PlayoutOnly
<1>6. CASE UNCHANGED agentVars
  BY <1>6 DEF agentVars
<1> QED BY <1>1, <1>2, <1>3, <1>4, <1>5, <1>6 DEF AgentNext

\* The agent starts with the loop not running.
LEMMA LoopStarts == AgentInit => Init
BY DEF AgentInit

\* Seen from the loop the agent is Orchestrator: the playout path only decides
\* when a wait returns and when Send takes a frame.
THEOREM AgentRunsLoop == AgentSpec => Spec
BY LoopStarts, AgentIsLoop, PTL DEF AgentSpec, Spec

\* The loop's invariant holds of the agent.
THEOREM AgentLoopInv == AgentSpec => []IInv
BY AgentRunsLoop, Inductive, PTL

-----------------------------------------------------------------------------
(* The two components agree on how a reply ends.                           *)

\* A worker only reports its response as completed after the transport told it
\* that everything was played.
CompletedWasPlayed ==
  \A t \in Turns : completed[t] => wait[t] = "returned"

\* What the proof needs of the components' own invariants.
Types ==
  /\ completed \in [Turns -> BOOLEAN]
  /\ wait \in [Turns -> PP!Progress]
  /\ turn \in Turns

\* The components' type invariants give it.
LEMMA TypesFact == PP!IInv /\ IInv => Types
BY DEF PP!IInv, PP!TypeInv, IInv, TypeOK, Turns, Turns, Types

\* A handler of the loop touches neither a worker's result nor its wait.
LEMMA LoopKeepsPlayed ==
  ASSUME CompletedWasPlayed, LoopStep PROVE CompletedWasPlayed'
<1>1. UNCHANGED completed
  BY DEF LoopStep, Loop, RunStart, RunFails, RunStops,
     ResultsClosed, OnSpeechStart, OnSpeechEnd, OnInterim, OnFinal,
     OnResponseDone, workerVars
<1>2. UNCHANGED wait
  BY DEF LoopStep, P!Clear, P!callerVars, playoutVars
<1> QED BY <1>1, <1>2 DEF CompletedWasPlayed

\* Only the end of the wait completes a response.
LEMMA WorkerKeepsPlayed ==
  ASSUME Types, CompletedWasPlayed, NEW t \in Turns, AgentWorkerStep(t)
  PROVE  CompletedWasPlayed'
<1> USE DEF Types, CompletedWasPlayed, PP!Progress
<1>1. CASE WorkerOnly(t)
  <2>1. UNCHANGED wait
    BY <1>1 DEF WorkerOnly, playoutVars
  <2>2. completed' = completed \/ completed' = [completed EXCEPT ![t] = FALSE]
    BY <1>1 DEF WorkerOnly, ReadTurnStart, OpenStream, OpenStreamFails,
       ReceiveDelta, StreamEnds, StreamAborts, Flush, Synthesize,
       SynthesizeFails, FrameReady, SendAborts, SpeechQueued,
       SpeechAborts, Finish
  <2> QED BY <2>1, <2>2
<1>2. CASE SendFrame(t)
  BY <1>2 DEF SendFrame, SendAccepted, P!Send
<1>3. CASE WaitForPlayout(t)
  <2>1. wait[t] = "none" /\ wait' = [wait EXCEPT ![t] = "offering"]
    BY <1>3 DEF WaitForPlayout, P!CallWaitForDrain
  <2>2. UNCHANGED completed
    BY <1>3 DEF WaitForPlayout, CallWaitForPlayout
  <2> QED BY <2>1, <2>2
<1>4. CASE WaitReturns(t)
  <2>1. wait' = [wait EXCEPT ![t] = "returned"]
    BY <1>4 DEF WaitReturns, P!WaitForDrainReturns
  <2>2. completed' = [completed EXCEPT ![t] = TRUE]
    BY <1>4 DEF WaitReturns, PlayoutReturns, Finish
  <2> QED BY <2>1, <2>2
<1>5. CASE WaitAborts(t)
  <2>1. wait' = [wait EXCEPT ![t] = "aborted"]
    BY <1>5 DEF WaitAborts, P!WaitForDrainAborts
  <2>2. completed' = [completed EXCEPT ![t] = FALSE]
    BY <1>5 DEF WaitAborts, PlayoutAborts, Finish
  <2> QED BY <2>1, <2>2
<1>6. CASE SetPendingTTS(t)
  BY <1>6 DEF SetPendingTTS, CallSetPendingTTS, playoutVars
<1> QED BY <1>1, <1>2, <1>3, <1>4, <1>5, <1>6 DEF AgentWorkerStep

\* The pacer never takes back a wait that has returned.
LEMMA PacerKeepsPlayed ==
  ASSUME Types, CompletedWasPlayed, PacerDecides \/ PlayoutOnly
  PROVE  CompletedWasPlayed'
<1>1. UNCHANGED completed
  BY DEF PacerDecides, PlayoutOnly, loopVars, workerVars
<1>2. \A t \in Turns : wait[t] = "returned" => wait'[t] = "returned"
  BY DEF PacerDecides, PlayoutOnly, P!Decide, P!Stop, P!TakeDrain, P!TakeClear,
     P!DrainIn, P!DrainInDone, P!Tick, P!TopUp, P!Emit, P!EmitAborts,
     P!AfterEmit, P!CloseWaiters, P!Outbound, P!WriteSample, P!WriteFails,
     P!OutboundStops, P!callerVars, P!pacerVars, Types, PP!Progress
<1> QED BY <1>1, <1>2 DEF CompletedWasPlayed

\* A response that reports success has been played, in every reachable state.
THEOREM CompletedMeansPlayed == AgentSpec => []CompletedWasPlayed
<1>1. AgentInit => CompletedWasPlayed
  BY DEF AgentInit, Init, CompletedWasPlayed
<1>2. Types /\ CompletedWasPlayed /\ [AgentNext]_agentVars => CompletedWasPlayed'
  <2> SUFFICES ASSUME Types, CompletedWasPlayed, [AgentNext]_agentVars
               PROVE  CompletedWasPlayed'
    OBVIOUS
  <2>1. CASE AgentStop
    BY <2>1 DEF AgentStop, ContextDone, workerVars, P!ContextDone,
       P!callerVars, CompletedWasPlayed
  <2>2. CASE UNCHANGED agentVars
    BY <2>2 DEF agentVars, loopVars, workerVars, playoutVars,
     CompletedWasPlayed
  <2> QED
    BY <2>1, <2>2, LoopKeepsPlayed, WorkerKeepsPlayed, PacerKeepsPlayed DEF AgentNext
<1> QED BY <1>1, <1>2, TypesFact, AgentPlayoutInv, AgentLoopInv, PTL DEF AgentSpec

\* The loop takes the turn back, and is ready to listen, only when none of the
\* reply's audio is left before the pacer's output, whatever interruptions,
\* clears and drains came before and for any size of the buffers.
THEOREM TurnEndsAfterPlayout == AgentSpec => []HandBackAfterPlayout
<1>1. PP!IInv /\ Types /\ CompletedWasPlayed => HandBackAfterPlayout
  <2> SUFFICES ASSUME PP!IInv, Types, CompletedWasPlayed, ~ctxDone,
                      completed[turn], NEW i \in 1..Len(P!Queue),
                      owner[P!Queue[i]] = turn
               PROVE  FALSE
    BY DEF HandBackAfterPlayout, Queued
  <2>1. wait[turn] = "returned"
    BY DEF CompletedWasPlayed, Types
  <2>2. PP!QueueShape
    BY PP!QueueFacts, PlayoutConstants
  <2>3. P!Queue = PP!Queue
    BY DEF P!Queue, PP!Queue, P!FlattenSeq, PP!FlattenSeq
  <2>4. P!Queue[i] \in PP!Held
    <3>1. PP!Queue \in Seq(Nat) /\ PP!ToSet(PP!Queue) = PP!Held
      BY <2>2 DEF PP!QueueShape
    <3>2. PP!Queue[i] \in PP!ToSet(PP!Queue)
      BY <2>3, <3>1 DEF PP!ToSet
    <3> QED BY <2>3, <3>1, <3>2
  <2> QED BY <2>1, <2>4 DEF PP!IInv, PP!Drained
<1> QED
  BY <1>1, TypesFact, AgentPlayoutInv, AgentLoopInv, CompletedMeansPlayed, PTL

\* The agent as a whole keeps what each component promises by itself: the loop
\* is an exchange of turns, the playout path a queue.
THEOREM AgentKeepsPromises ==
  AgentSpec => ImplementsTurnTaking /\ PP!ImplementsPlayoutQueue
<1>1. AgentSpec => ImplementsTurnTaking
  BY AgentRunsLoop, Refinement, PTL
<1>2. AgentSpec => PP!ImplementsPlayoutQueue
  BY AgentRunsPlayout, PlayoutSpec, PP!PlayoutImplementsQueue, PlayoutConstants,
     PTL
<1> QED BY <1>1, <1>2

=============================================================================
