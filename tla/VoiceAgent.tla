----------------------------- MODULE VoiceAgent -----------------------------
(***************************************************************************)
(* The conversation loop on top of the playout path: what Agent.Start      *)
(* brings up.  The response workers of Orchestrator are the callers of     *)
(* Playout; a barge-in cancels the worker and, in the same call, signals   *)
(* the pacer to clear.  The agent's context is one variable of both.  The  *)
(* playoutBridge, which carries the turn of the pending TTS utterance from *)
(* the worker to the pacer's callback, lives here.                         *)
(***************************************************************************)
EXTENDS Orchestrator

CONSTANTS
  FrameSize, PlaybackCap, OutCap, PrebufferFrames, StartTimeoutTicks,
  MaxAccFrames, MaxUnits

\* What Playout assumes of its constants.
ASSUME AgentConstants ==
  /\ MaxUnits \in Nat
  /\ {FrameSize, PlaybackCap, OutCap, PrebufferFrames, StartTimeoutTicks}
       \subseteq Nat \ {0}
  /\ MaxAccFrames \in Nat /\ MaxAccFrames > 1

VARIABLES
  playback, acc, clear, waiters, wait, playing, wasPlay, bufTicks, pacer,
  emitting, out, outbound, written, dropped, owner,
  pendingTTS    \* playoutBridge.pending, as its turn

P == INSTANCE Playout WITH Callers <- Turns

loopVars == <<loop, convVars, workerVars>>
playoutVars == <<playback, acc, clear, waiters, wait, playing, wasPlay,
                 bufTicks, pacer, emitting, out, outbound, written, dropped,
                 owner>>
agentVars == <<ctxDone, loopVars, playoutVars, pendingTTS>>

AgentInit ==
  /\ Init
  /\ P!Init
  /\ pendingTTS = Nil

-----------------------------------------------------------------------------
(* Steps of the two components that are one step of the program.           *)

\* A handler of the loop; interruptResponse also calls ClearPlayout.
LoopStep ==
  /\ Loop
  /\ IF cancelled' # cancelled THEN P!Clear ELSE UNCHANGED playoutVars
  /\ UNCHANGED pendingTTS

\* Agent.Stop cancels the context of everything.
AgentStop ==
  /\ ContextDone
  /\ P!ContextDone
  /\ UNCHANGED pendingTTS

SendFrame(t) ==
  /\ SendAccepted(t)
  /\ P!Send(t, FrameSize)
  /\ UNCHANGED pendingTTS

WaitForPlayout(t) ==
  /\ CallWaitForPlayout(t)
  /\ P!CallWaitForDrain(t)
  /\ UNCHANGED pendingTTS

WaitReturns(t) ==
  /\ PlayoutReturns(t)
  /\ P!WaitForDrainReturns(t)
  /\ UNCHANGED pendingTTS

WaitAborts(t) ==
  /\ PlayoutAborts(t)
  /\ P!WaitForDrainAborts(t)
  /\ UNCHANGED pendingTTS

\* playoutBridge.setPending.
SetPendingTTS(t) ==
  /\ CallSetPendingTTS(t)
  /\ pendingTTS' = t
  /\ UNCHANGED playoutVars

\* The worker's steps that do not touch the transport.
WorkerOnly(t) ==
  /\ \/ ReadTurnStart(t)
     \/ OpenStream(t)
     \/ OpenStreamFails(t)
     \/ ReceiveDelta(t)
     \/ StreamEnds(t)
     \/ StreamAborts(t)
     \/ Flush(t)
     \/ Synthesize(t)
     \/ SynthesizeFails(t)
     \/ FrameReady(t)
     \/ SendAborts(t)
     \/ SpeechQueued(t)
     \/ SpeechAborts(t)
  /\ UNCHANGED <<playoutVars, pendingTTS>>

AgentWorkerStep(t) ==
  \/ WorkerOnly(t)
  \/ SendFrame(t)
  \/ WaitForPlayout(t)
  \/ WaitReturns(t)
  \/ WaitAborts(t)
  \/ SetPendingTTS(t)

\* A start of playout runs playoutBridge.onPlayoutStarted, which takes the
\* pending mark.
PacerDecides ==
  /\ P!Decide
  /\ pendingTTS' = IF P!FiresCallback THEN Nil ELSE pendingTTS
  /\ UNCHANGED loopVars

PlayoutOnly ==
  /\ \/ P!Stop
     \/ \E t \in Turns : P!TakeDrain(t)
     \/ P!TakeClear
     \/ P!DrainIn
     \/ P!DrainInDone
     \/ P!Tick
     \/ P!TopUp
     \/ P!Emit
     \/ P!EmitAborts
     \/ P!Outbound
  /\ UNCHANGED <<loopVars, pendingTTS>>

AgentNext ==
  \/ LoopStep
  \/ AgentStop
  \/ \E t \in Turns : AgentWorkerStep(t)
  \/ PacerDecides
  \/ PlayoutOnly

AgentSpec == AgentInit /\ [][AgentNext]_agentVars

\* A step of the playout path alone.
Alone(A) == A /\ UNCHANGED <<loopVars, pendingTTS>>

\* The fairness of the two components (see there).
Fairness ==
  /\ WF_agentVars(OnResponseDone /\ UNCHANGED <<playoutVars, pendingTTS>>)
  /\ WF_agentVars(PacerDecides \/ Alone(P!PacerRuns))
  /\ WF_agentVars(Alone(P!WriteSample))
  /\ SF_agentVars(Alone(P!TakeClear))
  /\ SF_agentVars(Alone(P!Stop))
  /\ \A t \in Turns : /\ WF_agentVars(AgentWorkerStep(t))
                      /\ SF_agentVars(Alone(P!TakeDrain(t)))

FairAgentSpec == AgentSpec /\ Fairness

-----------------------------------------------------------------------------
(* Properties.                                                             *)

\* The units of turn t the pacer has not emitted yet.
Queued(t) == \E i \in 1..Len(P!Queue) : owner[P!Queue[i]] = t

\* The jitter buffer is the only brake on synthesis: however many workers send,
\* a top-up stops at the ceiling and Send blocks.
BufferBounded == P!BufferBounded

\* The agent hands the turn back only after its reply left the queue: when the
\* loop rests in listening with a completed response, none of its audio is
\* still to be paced out, whatever barge-ins, clears and drains happened before.
HandBackAfterPlayout ==
  ~ctxDone /\ state = "listening" /\ completed[turn] => ~Queued(turn)

\* transport.go: ClearPlayout drops the queued audio of an interrupted reply.
\* Once the pacer has served the signal, it plays none of it.
ClearSilencesReply ==
  ~clear => \A i \in 1..Len(emitting) : ~cancelled[owner[emitting[i]]]

\* A cancelled worker does not linger, whatever it was blocked on, a full
\* playback channel or a drain, even if the track failed: the pacer then blocks
\* for ever on its output and serves neither.  (Both sides are stable and the
\* workers are finitely many, so this says cancelled[t] ~> pc[t] = "done".)
CancelledWorkersReturn ==
  []<>(\A t \in Turns : cancelled[t] => pc[t] = "done")

\* Every response ends, on top of the real playout path: the turn goes back to
\* the user, unless the loop returned or the track failed.
ResponseEnds ==
  state = "responding" ~> (state = "listening" \/ loop = "returned" \/ ~outbound)

=============================================================================
