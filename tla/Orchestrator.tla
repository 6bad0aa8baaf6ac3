---------------------------- MODULE Orchestrator ----------------------------
(***************************************************************************)
(* The conversation loop of the voice agent (pkg/agent/orchestrator.go).   *)
(*                                                                         *)
(* One goroutine, Run, selects over inbound audio, STT results and the     *)
(* result channel of the current response.  Every reply, and the greeting, *)
(* is produced by a goroutine of its own (a "worker"), which runs          *)
(* concurrently with Run and with any cancelled worker that has not        *)
(* returned yet.  The greeting is turn 0, the reply to the n-th turn of    *)
(* the user is turn n: a worker is identified by its turn, and so are its  *)
(* context (responseCancel) and its result channel (responseDone).         *)
(*                                                                         *)
(* Abstractions.  A final STT segment is its ordinal number, a user        *)
(* message the sequence of its segments, a reply the number of its LLM     *)
(* deltas.  Blank segments, the fixed system prompt at the head of the     *)
(* history, logging and the values of metrics are left out; the marks that *)
(* decide whether a metric is emitted, and the turn it is labelled with,   *)
(* are kept.  The speech and playout transports are the environment here;  *)
(* VoiceAgent composes this module with the playout path.                  *)
(***************************************************************************)
EXTENDS Integers, Sequences, SequencesExt

CONSTANTS
  Nil,          \* Go's nil, and a time.Time that was never set
  Greeting,     \* TRUE iff Settings.GreetingText is configured
  MaxFinals,    \* bound: final transcripts received in one call
  MaxDeltas,    \* bound: LLM deltas in one reply
  MaxFrames     \* bound: audio frames synthesised for one reply

ASSUME NilAssumption == Nil \notin Int
ASSUME ConfigAssumption ==
  /\ Greeting \in BOOLEAN
  /\ MaxFinals \in Nat
  /\ MaxDeltas \in Nat
  /\ MaxFrames \in Nat

VARIABLES
  loop,            \* Run: not yet called, in its select loop, or returned
  ctxDone,         \* the agent's context is cancelled
  state,           \* o.state
  userSpeaking,    \* o.userSpeaking
  pending,         \* o.pending: final segments of the turn in progress
  heard,           \* final segments received so far
  turn,            \* o.turn
  turnStart,       \* o.turnStart, as the turn whose start wrote it
  history,         \* o.history after the system prompt
  responseCancel,  \* o.responseCancel, as the turn whose context it cancels
  responseDone,    \* o.responseDone, as the turn whose worker writes to it
  marks,           \* speechStartAt / speechEndAt set?  firstTranscriptHit?
  utteranceTurn,   \* o.utteranceTurn
  pc,              \* worker: where it is
  after,           \* worker: where speak returns to
  started,         \* worker: the o.turnStart it read
  cancelled,       \* worker: its context was cancelled by interruptResponse
  full,            \* worker: deltas received
  buffered,        \* worker: deltas in the sentence chunker, not yet spoken
  sent,            \* worker: frames accepted by the transport
  completed        \* worker: result.completed, once pc is "done"

convVars == <<state, userSpeaking, pending, heard, turn, turnStart, history,
              responseCancel, responseDone, marks, utteranceTurn>>
workerVars == <<pc, after, started, cancelled, full, buffered, sent, completed>>
vars == <<loop, ctxDone, convVars, workerVars>>

Turns == 0..MaxFinals

WorkerPC == {"idle", "spawned", "llm", "stream", "speak", "synth", "tts",
             "send", "flush", "wait", "done"}

NoMarks == [start |-> FALSE, end |-> FALSE, hit |-> FALSE]

UserMessage(t, segments)  == [role |-> "user", turn |-> t, text |-> segments]
AgentMessage(t, n) == [role |-> "assistant", turn |-> t, text |-> [i \in 1..n |-> i]]

\* respCtx.Err() # nil: the response's context derives from the agent's.
Cancelled(t) == cancelled[t] \/ ctxDone

Init ==
  /\ loop = "starting"
  /\ ctxDone = FALSE
  /\ state = "listening"
  /\ userSpeaking = FALSE
  /\ pending = <<>>
  /\ heard = 0
  /\ turn = 0
  /\ turnStart = Nil
  /\ history = <<>>
  /\ responseCancel = Nil
  /\ responseDone = Nil
  /\ marks = NoMarks
  /\ utteranceTurn = 0
  /\ pc = [t \in Turns |-> "idle"]
  /\ after = [t \in Turns |-> "flush"]
  /\ started = [t \in Turns |-> Nil]
  /\ cancelled = [t \in Turns |-> FALSE]
  /\ full = [t \in Turns |-> 0]
  /\ buffered = [t \in Turns |-> 0]
  /\ sent = [t \in Turns |-> 0]
  /\ completed = [t \in Turns |-> FALSE]

-----------------------------------------------------------------------------
(* Helpers of the loop: what the handlers below call.                      *)

\* startResponse and startGreeting after turn t is settled: the response
\* owns a new context and a new result channel, overwriting the old ones.
SpawnWorker(t, at) ==
  /\ state' = "responding"
  /\ turnStart' = t
  /\ responseCancel' = t
  /\ responseDone' = t
  /\ pc' = [pc EXCEPT ![t] = at]

\* interruptResponse, its early return included.
InterruptResponse ==
  IF responseCancel = Nil
  THEN UNCHANGED <<cancelled, responseCancel, state>>
  ELSE /\ cancelled' = [cancelled EXCEPT ![responseCancel] = TRUE]
       /\ responseCancel' = Nil
       /\ state' = "listening"

\* Mutants: one of the early returns of maybeEndTurn is missing.
EndsTurnWhileResponding(speaking, buffer) ==
  ~speaking /\ buffer # <<>>

EndsTurnWhileSpeaking(speaking, buffer) ==
  buffer # <<>> /\ state # "responding"

\* maybeEndTurn, called with the buffer, the speaking flag and the marks the
\* handler has just computed.
EndsTurn(speaking, buffer) ==
  ~speaking /\ buffer # <<>> /\ state # "responding"

\* Mutant: resetUtteranceTiming is forgotten.
MaybeEndTurnKeepsMarks(speaking, buffer, newMarks) ==
  IF EndsTurn(speaking, buffer)
  THEN /\ turn' = turn + 1
       /\ pending' = <<>>
       /\ marks' = newMarks
       /\ history' = Append(history, UserMessage(turn + 1, buffer))
       /\ SpawnWorker(turn + 1, "spawned")
  ELSE /\ pending' = buffer
       /\ marks' = newMarks
       /\ UNCHANGED <<state, turn, turnStart, history, responseCancel,
                      responseDone, pc>>

MaybeEndTurn(speaking, buffer, newMarks) ==
  IF EndsTurn(speaking, buffer)
  THEN /\ turn' = turn + 1
       /\ pending' = <<>>
       /\ marks' = NoMarks
       /\ history' = Append(history, UserMessage(turn + 1, buffer))
       /\ SpawnWorker(turn + 1, "spawned")
  ELSE /\ pending' = buffer
       /\ marks' = newMarks
       /\ UNCHANGED <<state, turn, turnStart, history, responseCancel,
                      responseDone, pc>>

-----------------------------------------------------------------------------
(* The Run goroutine.                                                      *)

\* NewSession succeeds; the greeting, if any, is turn 0.
RunStart ==
  /\ loop = "starting"
  /\ loop' = "running"
  /\ IF Greeting
     THEN SpawnWorker(0, "speak")
     ELSE UNCHANGED <<state, turnStart, responseCancel, responseDone, pc>>
  /\ UNCHANGED <<ctxDone, userSpeaking, pending, heard, turn, history, marks,
                 utteranceTurn, after, started, cancelled, full, buffered,
                 sent, completed>>

\* NewSession fails.
RunFails ==
  /\ loop = "starting"
  /\ loop' = "returned"
  /\ UNCHANGED <<ctxDone, convVars, workerVars>>

\* Agent.Stop: every context of the agent's subtree is cancelled.
ContextDone ==
  /\ ~ctxDone
  /\ ctxDone' = TRUE
  /\ UNCHANGED <<loop, convVars, workerVars>>

\* The select takes ctx.Done.
RunStops ==
  /\ loop = "running"
  /\ ctxDone
  /\ loop' = "returned"
  /\ UNCHANGED <<ctxDone, convVars, workerVars>>

\* The STT session's result channel is closed.
ResultsClosed ==
  /\ loop = "running"
  /\ loop' = "returned"
  /\ UNCHANGED <<ctxDone, convVars, workerVars>>

\* Mutant: a new utterance starts with an empty buffer.
OnSpeechStartResetsPending ==
  /\ loop = "running"
  /\ ~userSpeaking
  /\ userSpeaking' = TRUE
  /\ pending' = <<>>
  /\ utteranceTurn' = turn + 1
  /\ marks' = [start |-> TRUE, end |-> FALSE, hit |-> FALSE]
  /\ IF state = "responding"
     THEN InterruptResponse
     ELSE UNCHANGED <<cancelled, responseCancel, state>>
  /\ UNCHANGED <<loop, ctxDone, heard, turn, turnStart, history,
                 responseDone, pc, after, started, full, buffered, sent,
                 completed>>

\* onAudio when the frame completes a VAD window that starts speech.  Inbound
\* frames are 20 ms, less than a VAD window: a frame carries at most one event.
\* A frame that carries none, or repeats the known state, changes nothing here.
OnSpeechStart ==
  /\ loop = "running"
  /\ ~userSpeaking
  /\ userSpeaking' = TRUE
  /\ utteranceTurn' = turn + 1
  /\ marks' = [start |-> TRUE, end |-> FALSE, hit |-> FALSE]
  /\ IF state = "responding"
     THEN InterruptResponse
     ELSE UNCHANGED <<cancelled, responseCancel, state>>
  /\ UNCHANGED <<loop, ctxDone, pending, heard, turn, turnStart, history,
                 responseDone, pc, after, started, full, buffered, sent,
                 completed>>

OnSpeechEnd ==
  /\ loop = "running"
  /\ userSpeaking
  /\ userSpeaking' = FALSE
  /\ MaybeEndTurn(FALSE, pending, [marks EXCEPT !.end = TRUE])
  /\ UNCHANGED <<loop, ctxDone, heard, utteranceTurn, after, started,
                 cancelled, full, buffered, sent, completed>>

\* onTranscript for an interim result.
OnInterim ==
  /\ loop = "running"
  /\ marks' = [marks EXCEPT !.hit = TRUE]
  /\ IF state = "responding" /\ userSpeaking
     THEN InterruptResponse
     ELSE UNCHANGED <<cancelled, responseCancel, state>>
  /\ UNCHANGED <<loop, ctxDone, userSpeaking, pending, heard, turn, turnStart,
                 history, responseDone, utteranceTurn, pc, after, started,
                 full, buffered, sent, completed>>

\* onTranscript for a final result.  After an interruption the user is still
\* speaking, so maybeEndTurn only buffers.
OnFinal ==
  /\ loop = "running"
  /\ heard < MaxFinals
  /\ heard' = heard + 1
  /\ IF state = "responding" /\ userSpeaking
     THEN /\ InterruptResponse
          /\ pending' = Append(pending, heard + 1)
          /\ marks' = [marks EXCEPT !.hit = TRUE]
          /\ UNCHANGED <<turn, turnStart, history, responseDone, pc>>
     ELSE /\ MaybeEndTurn(userSpeaking, Append(pending, heard + 1),
                          [marks EXCEPT !.hit = TRUE])
          /\ UNCHANGED cancelled
  /\ UNCHANGED <<loop, ctxDone, userSpeaking, utteranceTurn, after, started,
                 full, buffered, sent, completed>>

\* The assistant text of a result: runResponse returns "" unless it completed.
ResultText(t) == IF completed[t] THEN full[t] ELSE 0

\* Mutant: one result channel serves all responses, and a result is recorded
\* whatever turn it belongs to.
OnResponseDoneAnyTurn ==
  /\ loop = "running"
  /\ responseDone # Nil
  /\ \E t \in Turns :
       /\ pc[t] = "done"
       /\ history' = IF completed[t] /\ ResultText(t) > 0
                     THEN Append(history, AgentMessage(t, ResultText(t)))
                     ELSE history
       /\ responseCancel' = IF t = turn THEN Nil ELSE responseCancel
       /\ state' = IF t = turn /\ state = "responding"
                   THEN "listening" ELSE state
  /\ responseDone' = Nil
  /\ UNCHANGED <<loop, ctxDone, userSpeaking, pending, heard, turn, turnStart,
                 marks, utteranceTurn, workerVars>>

\* Mutant: only a completed response hands the turn back.
OnResponseDoneIfCompleted ==
  /\ loop = "running"
  /\ responseDone # Nil
  /\ LET t == responseDone
     IN  /\ pc[t] = "done"
         /\ history' = IF completed[t] /\ t = turn /\ ResultText(t) > 0
                       THEN Append(history, AgentMessage(t, ResultText(t)))
                       ELSE history
         /\ responseCancel' = IF t = turn THEN Nil ELSE responseCancel
         /\ state' = IF completed[t] /\ t = turn /\ state = "responding"
                     THEN "listening" ELSE state
  /\ responseDone' = Nil
  /\ UNCHANGED <<loop, ctxDone, userSpeaking, pending, heard, turn, turnStart,
                 marks, utteranceTurn, workerVars>>

\* onResponseDone, with the result of the worker whose channel is current.
OnResponseDone ==
  /\ loop = "running"
  /\ responseDone # Nil
  /\ LET t == responseDone
     IN  /\ pc[t] = "done"
         /\ history' = IF completed[t] /\ t = turn /\ ResultText(t) > 0
                       THEN Append(history, AgentMessage(t, ResultText(t)))
                       ELSE history
         /\ responseCancel' = IF t = turn THEN Nil ELSE responseCancel
         /\ state' = IF t = turn /\ state = "responding"
                     THEN "listening" ELSE state
  /\ responseDone' = Nil
  /\ UNCHANGED <<loop, ctxDone, userSpeaking, pending, heard, turn, turnStart,
                 marks, utteranceTurn, workerVars>>

-----------------------------------------------------------------------------
(* The worker of turn t: runResponse, or the greeting's goroutine.         *)

WorkerStep(t, from, to) ==
  /\ pc[t] = from
  /\ pc' = [pc EXCEPT ![t] = to]

\* The goroutine returns; its result waits in the channel of capacity one.
Finish(t, from, ok) ==
  /\ WorkerStep(t, from, "done")
  /\ completed' = [completed EXCEPT ![t] = ok]
  /\ UNCHANGED <<loop, ctxDone, convVars, after, started, cancelled, full,
                 buffered, sent>>

\* The goroutine evaluates o.turnStart.  The read is not ordered with the
\* writes of later turns, so it may return any of them.
ReadTurnStart(t) ==
  /\ WorkerStep(t, "spawned", "llm")
  /\ \E s \in t..turnStart : started' = [started EXCEPT ![t] = s]
  /\ UNCHANGED <<loop, ctxDone, convVars, after, cancelled, full, buffered,
                 sent, completed>>

\* StreamCompletion returns a stream, or an error.
OpenStream(t) ==
  /\ WorkerStep(t, "llm", "stream")
  /\ UNCHANGED <<loop, ctxDone, convVars, after, started, cancelled, full,
                 buffered, sent, completed>>

OpenStreamFails(t) == Finish(t, "llm", FALSE)

\* A delta goes to the chunker, which may release a sentence.  The context is
\* not consulted here: a cancelled worker keeps consuming its stream.
ReceiveDelta(t) ==
  /\ full[t] < MaxDeltas
  /\ full' = [full EXCEPT ![t] = @ + 1]
  /\ \/ /\ WorkerStep(t, "stream", "speak")
        /\ after' = [after EXCEPT ![t] = "stream"]
        /\ buffered' = [buffered EXCEPT ![t] = 0]
     \/ /\ WorkerStep(t, "stream", "stream")
        /\ buffered' = [buffered EXCEPT ![t] = @ + 1]
        /\ UNCHANGED after
  /\ UNCHANGED <<loop, ctxDone, convVars, started, cancelled, sent, completed>>

\* The stream is closed, says Done, or fails while the context is alive.
StreamEnds(t) ==
  /\ WorkerStep(t, "stream", "flush")
  /\ UNCHANGED <<loop, ctxDone, convVars, after, started, cancelled, full,
                 buffered, sent, completed>>

StreamAborts(t) == Cancelled(t) /\ Finish(t, "stream", FALSE)

\* The chunker's remainder is spoken.
Flush(t) ==
  /\ buffered[t] > 0
  /\ WorkerStep(t, "flush", "speak")
  /\ after' = [after EXCEPT ![t] = "flush"]
  /\ buffered' = [buffered EXCEPT ![t] = 0]
  /\ UNCHANGED <<loop, ctxDone, convVars, started, cancelled, full, sent,
                 completed>>

\* Everything is queued: wait for the transport to play it.
CallWaitForPlayout(t) ==
  /\ buffered[t] = 0
  /\ WorkerStep(t, "flush", "wait")
  /\ UNCHANGED <<loop, ctxDone, convVars, after, started, cancelled, full,
                 buffered, sent, completed>>

PlayoutReturns(t) == Finish(t, "wait", TRUE)

PlayoutAborts(t) == Cancelled(t) /\ Finish(t, "wait", FALSE)

\* speak: SetPendingTTS, then Synthesize, whose error only skips the sentence
\* unless the context is cancelled.
CallSetPendingTTS(t) ==
  /\ WorkerStep(t, "speak", "synth")
  /\ UNCHANGED <<loop, ctxDone, convVars, after, started, cancelled, full,
                 buffered, sent, completed>>

Synthesize(t) ==
  /\ WorkerStep(t, "synth", "tts")
  /\ UNCHANGED <<loop, ctxDone, convVars, after, started, cancelled, full,
                 buffered, sent, completed>>

SynthesizeFails(t) ==
  IF Cancelled(t)
  THEN Finish(t, "synth", FALSE)
  ELSE /\ WorkerStep(t, "synth", after[t])
       /\ UNCHANGED <<loop, ctxDone, convVars, after, started, cancelled,
                      full, buffered, sent, completed>>

\* The TTS stream yields audio: a frame is ready for the transport.
FrameReady(t) ==
  /\ sent[t] < MaxFrames
  /\ WorkerStep(t, "tts", "send")
  /\ UNCHANGED <<loop, ctxDone, convVars, after, started, cancelled, full,
                 buffered, sent, completed>>

\* Send selects between the playback channel and ctx.Done: when both are
\* ready, either may be taken.
SendAccepted(t) ==
  /\ WorkerStep(t, "send", "tts")
  /\ sent' = [sent EXCEPT ![t] = @ + 1]
  /\ UNCHANGED <<loop, ctxDone, convVars, after, started, cancelled, full,
                 buffered, completed>>

SendAborts(t) == Cancelled(t) /\ Finish(t, "send", FALSE)

\* The TTS stream ends (or fails while the context is alive): speak returns.
SpeechQueued(t) ==
  /\ WorkerStep(t, "tts", after[t])
  /\ UNCHANGED <<loop, ctxDone, convVars, after, started, cancelled, full,
                 buffered, sent, completed>>

SpeechAborts(t) == Cancelled(t) /\ Finish(t, "tts", FALSE)

-----------------------------------------------------------------------------

Loop ==
  \/ RunStart
  \/ RunFails
  \/ RunStops
  \/ ResultsClosed
  \/ OnSpeechStart
  \/ OnSpeechEnd
  \/ OnInterim
  \/ OnFinal
  \/ OnResponseDone

Worker(t) ==
  \/ ReadTurnStart(t)
  \/ OpenStream(t)
  \/ OpenStreamFails(t)
  \/ ReceiveDelta(t)
  \/ StreamEnds(t)
  \/ StreamAborts(t)
  \/ Flush(t)
  \/ CallWaitForPlayout(t)
  \/ PlayoutReturns(t)
  \/ PlayoutAborts(t)
  \/ CallSetPendingTTS(t)
  \/ Synthesize(t)
  \/ SynthesizeFails(t)
  \/ FrameReady(t)
  \/ SendAccepted(t)
  \/ SendAborts(t)
  \/ SpeechQueued(t)
  \/ SpeechAborts(t)

Next ==
  \/ Loop
  \/ ContextDone
  \/ \E t \in Turns : Worker(t)

Spec == Init /\ [][Next]_vars

-----------------------------------------------------------------------------
(* Properties.                                                             *)

Messages ==
  [role : {"user", "assistant"}, turn : 1..MaxFinals, text : Seq(Nat)]

\* Type invariant: every variable of the loop and of the workers holds a value
\* of its Go type, within the bounds.
TypeOK ==
  /\ loop \in {"starting", "running", "returned"}
  /\ ctxDone \in BOOLEAN
  /\ state \in {"listening", "responding"}
  /\ userSpeaking \in BOOLEAN
  /\ pending \in Seq(1..MaxFinals)
  /\ heard \in 0..MaxFinals
  /\ turn \in Turns
  /\ turnStart \in Turns \cup {Nil}
  /\ history \in Seq(Messages)
  /\ responseCancel \in Turns \cup {Nil}
  /\ responseDone \in Turns \cup {Nil}
  /\ marks \in [start : BOOLEAN, end : BOOLEAN, hit : BOOLEAN]
  /\ utteranceTurn \in 0..(MaxFinals + 1)
  /\ pc \in [Turns -> WorkerPC]
  /\ after \in [Turns -> {"stream", "flush"}]
  /\ started \in [Turns -> Turns \cup {Nil}]
  /\ cancelled \in [Turns -> BOOLEAN]
  /\ full \in [Turns -> 0..MaxDeltas]
  /\ buffered \in [Turns -> 0..MaxDeltas]
  /\ sent \in [Turns -> 0..MaxFrames]
  /\ completed \in [Turns -> BOOLEAN]

\* The goroutine of turn t runs and nobody asked it to stop.
Live(t) == pc[t] \notin {"idle", "done"} /\ ~cancelled[t]

\* At most one reply is being produced, it is the one the loop can still
\* cancel, and only while the state is responding: interruptResponse and
\* startResponse never leave behind a worker that keeps talking.
OneLiveResponse ==
  \A t \in Turns : Live(t) => /\ t = turn
                              /\ state = "responding"
                              /\ responseCancel = t
                              /\ responseDone = t

\* Half-duplex: while the user speaks the loop never is in the responding
\* state, in any order of VAD events, transcripts and results (so the branch of
\* onTranscript that interrupts a response is never taken).
HalfDuplex == userSpeaking => state = "listening"

\* While responding, the result channel is that of the current turn's worker:
\* a response can always finish or be interrupted, and a result that arrives
\* late, after its channel was replaced, is not taken for the current one.
ResultChannelIsCurrent ==
  /\ state = "responding" => responseDone = turn
  /\ responseDone # Nil => responseDone = turn /\ pc[turn] # "idle"

\* What the LLM is sent alternates: turns of the user numbered without a gap,
\* each followed by at most one reply, its own.
HistoryAlternates ==
  \A i \in 1..Len(history) :
    IF history[i].role = "user"
    THEN history[i].turn = IF i = 1 THEN 1 ELSE history[i - 1].turn + 1
    ELSE /\ i > 1
         /\ history[i - 1].role = "user"
         /\ history[i - 1].turn = history[i].turn

\* No final transcript is lost, doubled or reordered on its way from the STT
\* session to the history: the user messages and the buffer spell what was heard.
UserSegments ==
  FlattenSeq([i \in 1..Len(history) |->
                IF history[i].role = "user" THEN history[i].text ELSE <<>>])

NoTranscriptLost == UserSegments \o pending = [i \in 1..heard |-> i]

\* A latency metric is only emitted while a mark is set, and is then labelled
\* with the turn the words will become, or have just been committed as.
MetricsNameTheirTurn ==
  marks.start \/ marks.end => utteranceTurn = turn + 1

\* The comment of maybeEndTurn: once the user stopped speaking and there is
\* transcript, a turn fires, whichever signal came last.  At rest in listening,
\* with no result outstanding, nothing is left in the buffer.
TranscriptFiresTurn ==
  loop = "running" /\ state = "listening" /\ ~userSpeaking /\ responseDone = Nil
    => pending = <<>>

\* The goroutine of a response reads o.turnStart without synchronisation.  The
\* race is confined: only a response that was interrupted before it read the
\* field can take the start of a later turn for its own.
OwnTurnStart == \A t \in Turns : started[t] \notin {Nil, t} => cancelled[t]

\* The conversation as seen from outside is a half-duplex exchange.
Floor == IF userSpeaking THEN "user"
         ELSE IF state = "responding" THEN "agent" ELSE "idle"

Abstract == INSTANCE TurnTaking WITH
  floor <- Floor, buffer <- pending, heard <- heard, log <- history

ImplementsTurnTaking == Abstract!Spec

=============================================================================
