------------------------------- MODULE Playout -------------------------------
(***************************************************************************)
(* The agent's outbound audio: transport.WebRTC.Send and its playback      *)
(* channel, the FramePacer with its jitter buffer, and Outbound, which     *)
(* writes the paced frames to the track (pkg/agent/transport, pkg/agent/   *)
(* audio/pacer.go and outbound.go).                                        *)
(*                                                                         *)
(* Callers of Send and WaitForPlayout are response workers: each sends its *)
(* frames and then waits once.  Audio is counted in units, FrameSize of    *)
(* them to a full 20 ms frame; a unit is its ordinal number among all the  *)
(* units the playback channel accepted, owner[u] the caller that sent it.  *)
(* A frame is a sequence of at most FrameSize units; silence is <<>>.      *)
(* Every caller sends 48 kHz frames and nobody closes the playback channel *)
(* (the two branches of the pacer for such frames and for a closed channel *)
(* are not reached).                                                       *)
(***************************************************************************)
EXTENDS Integers, Sequences, SequencesExt

CONSTANTS
  Callers,            \* response workers
  FrameSize,          \* SamplesPerFrame48k
  PlaybackCap,        \* capacity of the playback channel
  OutCap,             \* capacity of the pacer's out channel
  PrebufferFrames,    \* pacerPrebufferFrames
  StartTimeoutTicks,  \* pacerStartTimeoutTicks
  MaxAccFrames,       \* pacerMaxFrames
  MaxUnits            \* bound: units sent in one call

\* With a ceiling of one frame the pacer would fill its buffer before it has
\* emptied the channel, and a drain would be granted over the head of a frame
\* sent before it.  pacerMaxFrames is 50.
ASSUME PacerConstants ==
  /\ FrameSize \in Nat \ {0}
  /\ PlaybackCap \in Nat \ {0}
  /\ OutCap \in Nat \ {0}
  /\ PrebufferFrames \in Nat \ {0}
  /\ StartTimeoutTicks \in Nat \ {0}
  /\ MaxAccFrames \in Nat /\ MaxAccFrames > 1
  /\ MaxUnits \in Nat

VARIABLES
  ctxDone,      \* the agent's context is cancelled
  playback,     \* the playback channel: frames
  acc,          \* the jitter buffer: units
  clear,        \* the clear channel holds a signal
  waiters,      \* callers whose done channel is in the pacer's list
  wait,         \* caller: progress of WaitForDrain, "none", "offering",
                \* "registered", "released", "returned" or "aborted"
  playing, wasPlay, bufTicks,
  pacer,        \* where the pacer's goroutine is: "select", "topup", "emit",
                \* "drainin" or "stopped"
  emitting,     \* the frame it is about to put in out
  out,          \* the out channel: frames
  outbound,     \* Outbound.Run: TRUE until it returns
  written,      \* units Outbound took for the track, in order
  dropped,      \* units thrown away by Clear
  owner         \* the caller that sent each unit

callerVars == <<wait, owner>>
pacerVars == <<acc, waiters, playing, wasPlay, bufTicks, pacer, emitting>>
vars == <<ctxDone, playback, clear, callerVars, pacerVars, out, outbound,
          written, dropped>>

MaxSamples       == MaxAccFrames * FrameSize
PrebufferSamples == PrebufferFrames * FrameSize

Init ==
  /\ ctxDone = FALSE
  /\ playback = <<>>
  /\ acc = <<>>
  /\ clear = FALSE
  /\ waiters = {}
  /\ wait = [c \in Callers |-> "none"]
  /\ playing = FALSE /\ wasPlay = FALSE /\ bufTicks = 0
  /\ pacer = "select"
  /\ emitting = <<>>
  /\ out = <<>>
  /\ outbound = TRUE
  /\ written = <<>>
  /\ dropped = {}
  /\ owner = <<>>

-----------------------------------------------------------------------------
(* What the response workers call.                                         *)

\* Send: blocks while the playback channel is full.  The other branch of its
\* select, the caller's context, changes nothing here.
Send(c, size) ==
  /\ wait[c] = "none"
  /\ Len(owner) + size <= MaxUnits
  /\ Len(playback) < PlaybackCap
  /\ playback' = Append(playback, [i \in 1..size |-> Len(owner) + i])
  /\ owner' = owner \o [i \in 1..size |-> c]
  /\ UNCHANGED <<ctxDone, clear, wait, pacerVars, out, outbound, written,
                 dropped>>

\* WaitForDrain: offer a done channel, wait for it to be closed.
CallWaitForDrain(c) ==
  /\ wait[c] = "none"
  /\ wait' = [wait EXCEPT ![c] = "offering"]
  /\ UNCHANGED <<ctxDone, playback, clear, owner, pacerVars, out, outbound,
                 written, dropped>>

WaitForDrainReturns(c) ==
  /\ wait[c] = "released"
  /\ wait' = [wait EXCEPT ![c] = "returned"]
  /\ UNCHANGED <<ctxDone, playback, clear, owner, pacerVars, out, outbound,
                 written, dropped>>

\* Mutant: once its request is taken, a caller waits for the pacer alone.
WaitForDrainAbortsUnregistered(c) ==
  /\ wait[c] = "offering"
  /\ wait' = [wait EXCEPT ![c] = "aborted"]
  /\ UNCHANGED <<ctxDone, playback, clear, owner, pacerVars, out, outbound,
                 written, dropped>>

\* The caller's context ends either wait; a registered channel stays in the
\* pacer's list.
WaitForDrainAborts(c) ==
  /\ wait[c] \in {"offering", "registered", "released"}
  /\ wait' = [wait EXCEPT ![c] = "aborted"]
  /\ UNCHANGED <<ctxDone, playback, clear, owner, pacerVars, out, outbound,
                 written, dropped>>

\* Clear: a non-blocking send on a channel of capacity one.
Clear ==
  /\ clear' = TRUE
  /\ UNCHANGED <<ctxDone, playback, callerVars, pacerVars, out, outbound,
                 written, dropped>>

\* Agent.Stop.
ContextDone ==
  /\ ~ctxDone
  /\ ctxDone' = TRUE
  /\ UNCHANGED <<playback, clear, callerVars, pacerVars, out, outbound,
                 written, dropped>>

-----------------------------------------------------------------------------
(* The pacer's goroutine.                                                  *)

PacerStep(from, to) ==
  /\ pacer = from
  /\ pacer' = to

\* closeWaiters
CloseWaiters ==
  /\ waiters' = {}
  /\ wait' = [c \in Callers |->
                IF c \in waiters /\ wait[c] = "registered"
                THEN "released" ELSE wait[c]]

Stop ==
  /\ ctxDone
  /\ PacerStep("select", "stopped")
  /\ CloseWaiters
  /\ UNCHANGED <<ctxDone, playback, clear, owner, acc, playing, wasPlay,
                 bufTicks, emitting, out, outbound, written, dropped>>

\* Mutant: a drain request that finds the jitter buffer empty is granted.
TakeDrainWhenEmpty(c) ==
  /\ pacer = "select"
  /\ wait[c] = "offering"
  /\ IF acc = <<>>
     THEN wait' = [wait EXCEPT ![c] = "released"] /\ UNCHANGED waiters
     ELSE wait' = [wait EXCEPT ![c] = "registered"] /\ waiters' = waiters \cup {c}
  /\ UNCHANGED <<ctxDone, playback, clear, owner, acc, playing, wasPlay,
                 bufTicks, pacer, emitting, out, outbound, written, dropped>>

TakeDrain(c) ==
  /\ pacer = "select"
  /\ wait[c] = "offering"
  /\ waiters' = waiters \cup {c}
  /\ wait' = [wait EXCEPT ![c] = "registered"]
  /\ UNCHANGED <<ctxDone, playback, clear, owner, acc, playing, wasPlay,
                 bufTicks, pacer, emitting, out, outbound, written, dropped>>

\* The clear signal: empty the jitter buffer, then the channel until a receive
\* would block; senders that were blocked may slip frames in meanwhile.
TakeClear ==
  /\ clear
  /\ clear' = FALSE
  /\ PacerStep("select", "drainin")
  /\ dropped' = dropped \cup ToSet(acc)
  /\ acc' = <<>>
  /\ UNCHANGED <<ctxDone, playback, callerVars, waiters, playing, wasPlay,
                 bufTicks, emitting, out, outbound, written>>

DrainIn ==
  /\ pacer = "drainin"
  /\ playback # <<>>
  /\ dropped' = dropped \cup ToSet(Head(playback))
  /\ playback' = Tail(playback)
  /\ UNCHANGED <<ctxDone, clear, callerVars, pacerVars, out, outbound,
                 written>>

DrainInDone ==
  /\ playback = <<>>
  /\ PacerStep("drainin", "select")
  /\ playing' = FALSE
  /\ wasPlay' = FALSE
  /\ bufTicks' = 0
  /\ CloseWaiters
  /\ UNCHANGED <<ctxDone, playback, clear, owner, acc, emitting, out,
                 outbound, written, dropped>>

Tick ==
  /\ PacerStep("select", "topup")
  /\ UNCHANGED <<ctxDone, playback, clear, callerVars, acc, waiters, playing,
                 wasPlay, bufTicks, emitting, out, outbound, written, dropped>>

\* Mutant: the top-up ignores the ceiling.
TopUpUnbounded ==
  /\ pacer = "topup"
  /\ playback # <<>>
  /\ acc' = acc \o Head(playback)
  /\ playback' = Tail(playback)
  /\ UNCHANGED <<ctxDone, clear, callerVars, waiters, playing, wasPlay,
                 bufTicks, pacer, emitting, out, outbound, written, dropped>>

\* One turn of the topUp loop.
TopUp ==
  /\ pacer = "topup"
  /\ Len(acc) < MaxSamples
  /\ playback # <<>>
  /\ acc' = acc \o Head(playback)
  /\ playback' = Tail(playback)
  /\ UNCHANGED <<ctxDone, clear, callerVars, waiters, playing, wasPlay,
                 bufTicks, pacer, emitting, out, outbound, written, dropped>>

\* Does playout (re)start at this tick, with a drain requested or not?
StartsPlaying ==
  /\ ~playing
  /\ acc # <<>>
  /\ \/ waiters # {}
     \/ Len(acc) >= PrebufferSamples
     \/ bufTicks + 1 >= StartTimeoutTicks

\* Does this tick call onPlayoutStarted?
FiresCallback == (playing \/ StartsPlaying) /\ ~wasPlay

\* Mutant: the tail case also takes buffers longer than a frame, and resets acc.
DecideDropsRest ==
  /\ Len(acc) >= MaxSamples \/ playback = <<>>
  /\ PacerStep("topup", "emit")
  /\ LET on == playing \/ StartsPlaying
         size == IF Len(acc) < FrameSize THEN Len(acc) ELSE FrameSize
     IN  /\ playing' = (on /\ acc # <<>>)
         /\ wasPlay' = on
         /\ bufTicks' = IF playing THEN bufTicks
                        ELSE IF on \/ acc = <<>> THEN 0 ELSE bufTicks + 1
         /\ emitting' = IF on THEN SubSeq(acc, 1, size) ELSE <<>>
         /\ acc' = IF on THEN <<>> ELSE acc
  /\ UNCHANGED <<ctxDone, playback, clear, callerVars, waiters, out, outbound,
                 written, dropped>>

\* Mutant: the start timeout begins anew at every tick.
DecideRestartsTimeout ==
  /\ Len(acc) >= MaxSamples \/ playback = <<>>
  /\ PacerStep("topup", "emit")
  /\ LET on == playing \/ StartsPlaying
         size == IF Len(acc) < FrameSize THEN Len(acc) ELSE FrameSize
     IN  /\ playing' = (on /\ acc # <<>>)
         /\ wasPlay' = on
         /\ bufTicks' = 0
         /\ emitting' = IF on THEN SubSeq(acc, 1, size) ELSE <<>>
         /\ acc' = IF on THEN SubSeq(acc, size + 1, Len(acc)) ELSE acc
  /\ UNCHANGED <<ctxDone, playback, clear, callerVars, waiters, out, outbound,
                 written, dropped>>

\* The rest of the tick up to the emission: the playout decision and the frame
\* to emit (a short tail is padded with silence).
Decide ==
  /\ Len(acc) >= MaxSamples \/ playback = <<>>
  /\ PacerStep("topup", "emit")
  /\ LET on == playing \/ StartsPlaying
         size == IF Len(acc) < FrameSize THEN Len(acc) ELSE FrameSize
     IN  /\ playing' = (on /\ acc # <<>>)
         /\ wasPlay' = on
         /\ bufTicks' = IF playing THEN bufTicks
                        ELSE IF on \/ acc = <<>> THEN 0 ELSE bufTicks + 1
         /\ emitting' = IF on THEN SubSeq(acc, 1, size) ELSE <<>>
         /\ acc' = IF on THEN SubSeq(acc, size + 1, Len(acc)) ELSE acc
  /\ UNCHANGED <<ctxDone, playback, clear, callerVars, waiters, out, outbound,
                 written, dropped>>

\* Mutant: waiters are released on clear only.
AfterEmitKeepsWaiters ==
  /\ PacerStep("emit", "select")
  /\ emitting' = <<>>
  /\ UNCHANGED <<waiters, wait>>
  /\ UNCHANGED <<ctxDone, playback, clear, owner, acc, playing, wasPlay,
                 bufTicks, outbound, written>>

\* emit, which blocks while out is full, and the release of the waiters.
AfterEmit ==
  /\ PacerStep("emit", "select")
  /\ emitting' = <<>>
  /\ IF waiters # {} /\ acc = <<>>
     THEN CloseWaiters
     ELSE UNCHANGED <<waiters, wait>>
  /\ UNCHANGED <<ctxDone, playback, clear, owner, acc, playing, wasPlay,
                 bufTicks, outbound, written>>

Emit ==
  /\ Len(out) < OutCap
  /\ out' = Append(out, emitting)
  /\ UNCHANGED dropped
  /\ AfterEmit

\* ctx.Done wins the select in emit: the frame is lost.
EmitAborts ==
  /\ ctxDone
  /\ dropped' = dropped \cup ToSet(emitting)
  /\ UNCHANGED out
  /\ AfterEmit

-----------------------------------------------------------------------------
(* Outbound.Run: encode and write, until the context or the track ends.    *)

\* A frame the encoder refuses is skipped.
WriteSample ==
  /\ outbound
  /\ out # <<>>
  /\ written' = written \o Head(out)
  /\ out' = Tail(out)
  /\ UNCHANGED <<ctxDone, playback, clear, callerVars, pacerVars, outbound,
                 dropped>>

\* The track refuses the sample: the goroutine returns.
WriteFails ==
  /\ outbound
  /\ out # <<>>
  /\ written' = written \o Head(out)
  /\ out' = Tail(out)
  /\ outbound' = FALSE
  /\ UNCHANGED <<ctxDone, playback, clear, callerVars, pacerVars, dropped>>

\* ctx.Done is taken.
OutboundStops ==
  /\ outbound
  /\ ctxDone
  /\ outbound' = FALSE
  /\ UNCHANGED <<ctxDone, playback, clear, callerVars, pacerVars, out,
                 written, dropped>>

-----------------------------------------------------------------------------

Caller(c) ==
  \/ \E size \in 1..FrameSize : Send(c, size)
  \/ CallWaitForDrain(c)
  \/ WaitForDrainReturns(c)
  \/ WaitForDrainAborts(c)

Pacer ==
  \/ Stop
  \/ \E c \in Callers : TakeDrain(c)
  \/ TakeClear
  \/ DrainIn
  \/ DrainInDone
  \/ Tick
  \/ TopUp
  \/ Decide
  \/ Emit
  \/ EmitAborts

Outbound ==
  \/ WriteSample
  \/ WriteFails
  \/ OutboundStops

Next ==
  \/ \E c \in Callers : Caller(c)
  \/ Clear
  \/ ContextDone
  \/ Pacer
  \/ Outbound

Spec == Init /\ [][Next]_vars

\* The ticker keeps ticking and the pacer's goroutine is scheduled.  Of these
\* steps and Decide at most one is enabled at a time.
PacerRuns == Tick \/ TopUp \/ Emit \/ DrainIn \/ DrainInDone

\* Go's select chooses at random among the ready cases, so a case that is ready
\* again and again is taken: strong fairness for the other cases of the pacer's
\* select.  A caller whose wait is over notices it.
Fairness ==
  /\ WF_vars(PacerRuns \/ Decide)
  /\ SF_vars(TakeClear)
  /\ SF_vars(Stop)
  /\ WF_vars(WriteSample)
  /\ \A c \in Callers : /\ SF_vars(TakeDrain(c))
                        /\ WF_vars(WaitForDrainReturns(c))
                        /\ WF_vars(ctxDone /\ WaitForDrainAborts(c))

FairSpec == Spec /\ Fairness

-----------------------------------------------------------------------------
(* Properties.                                                             *)

Units == 1..Len(owner)

\* The jitter buffer is the backpressure: a top-up stops at the ceiling, so it
\* never holds more than the ceiling and the rest of one frame.
BufferBounded == Len(acc) <= MaxSamples + FrameSize - 1

\* The audio between the callers and the track, the oldest unit first.
Paced == written \o FlattenSeq(out)
Queue == emitting \o acc \o FlattenSeq(playback)

\* WaitForDrain returns, one way or the other, unless the track failed.
WaitForDrainEnds ==
  \A c \in Callers :
    wait[c] = "offering" ~> (wait[c] \in {"returned", "aborted"} \/ ~outbound)

\* Audio accepted does not rest in the jitter buffer for want of a cushion: it
\* is written or dropped, unless the session ends or the track fails.
AudioLeaves ==
  \A u \in 1..MaxUnits :
    u \in Units ~> (u \in ToSet(written) \cup dropped \/ ctxDone \/ ~outbound)

\* The path implements the abstract queue.
Abstract == INSTANCE PlayoutQueue WITH
  queue <- Queue, paced <- Paced, gone <- dropped, owner <- owner,
  waiting <- {c \in Callers : wait[c] # "returned"},
  down <- ctxDone

ImplementsPlayoutQueue == Abstract!Spec

=============================================================================
