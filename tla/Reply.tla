-------------------------------- MODULE Reply --------------------------------
(***************************************************************************)
(* One response worker and the two provider streams it consumes            *)
(* (runResponse and speak of pkg/agent/orchestrator.go, StreamCompletion   *)
(* of plugins/llm/openai, Synthesize of plugins/tts/rime).  Text streamed  *)
(* by the language model is cut into phrases; each phrase becomes a stream *)
(* of bytes of the speech service, then samples, resampled samples, 20 ms  *)
(* frames, and calls of Send.                                              *)
(*                                                                         *)
(* The channels of both streams are unbuffered: a goroutine offers a chunk *)
(* until the worker takes it.  What the two services answer, and how fast  *)
(* the transport takes frames, is not determined here.  Bytes are numbered *)
(* within an utterance; module Pcm says what a sample is.                  *)
(***************************************************************************)
EXTENDS Chunker, Pcm

CONSTANTS
  Deltas,      \* pieces of text the model streams
  ByteCounts,  \* sizes of the speech service's audio messages
  FromRates,   \* rates the speech service may speak at ...
  To,          \* ... and the transport's, in the same unit
  FrameLen,    \* samples of a 20 ms frame at the transport's rate
  MaxText,     \* bound on the characters of the reply, and ...
  MaxWork      \* ... on their number times that of an utterance's bytes

ASSUME ReplyConstants ==
  /\ Deltas \subseteq Seq(STRING)
  /\ ByteCounts \subseteq Nat
  /\ To \in Nat \ {0}
  /\ FromRates \subseteq 1 .. 2 * To
  /\ FrameLen \in Nat \ {0}
  /\ MaxText \in Nat /\ MaxWork \in Nat

VARIABLES
  ctxDone,   \* the worker's context is cancelled
  worker,    \* where the worker is: "start", "receive", "listen", "queue",
             \* "tail", "release" or "returned"
  completed, \* what runResponse returned
  from,      \* SampleRate() of the speech service, asked for every phrase
  llm,       \* the goroutine of StreamCompletion: "none", "read", "select"
             \* (offers a chunk or sees the context), "send" (only offers it)
             \* or "ended"
  llmChunk,  \* the chunk it offers
  text,      \* full: what the worker took from the stream
  buf,       \* the chunker's buffer
  todo,      \* phrases it returned that are still to be spoken
  last,      \* the stream is over: runResponse left its loop
  spoken,    \* history: phrases handed to Synthesize
  cut,       \* history: a phrase was cut for its length
  tts,       \* the goroutine of Synthesize: "none", "read", "select" or "ended"
  ttsChunk,  \* the chunk it offers
  carry,     \* its pcmCarry
  bytes,     \* history: bytes the service sent for this phrase
  delivered, \* history: samples of it the worker took
  rs,        \* speak: the stream resampler
  reframe,   \* speak: the sample buffer
  frames,    \* speak: frames of the chunk that are not queued yet
  held,      \* speak: pendingFrame
  sent       \* history: frames of this phrase that Send took

llmVars == <<llm, llmChunk>>
textVars == <<text, buf, todo, last, spoken, cut>>
ttsVars == <<tts, ttsChunk, carry, bytes>>
pcmVars == <<delivered, rs, reframe, frames, held, sent>>
vars == <<ctxDone, worker, completed, from, llmVars, textVars, ttsVars, pcmVars>>

Silence == -1

Chunk(kind, data) == [kind |-> kind, data |-> data]
Nothing == Chunk("none", <<>>)

Init ==
  /\ ctxDone = FALSE
  /\ worker = "start" /\ completed = FALSE
  /\ from = To
  /\ llm = "none" /\ llmChunk = Nothing
  /\ text = <<>> /\ buf = <<>> /\ todo = <<>> /\ last = FALSE
  /\ spoken = <<>> /\ cut = FALSE
  /\ tts = "none" /\ ttsChunk = Nothing /\ carry = <<>> /\ bytes = 0
  /\ delivered = 0 /\ rs = NewResampler /\ reframe = <<>> /\ frames = <<>>
  /\ held = <<>> /\ sent = <<>>

WithinBounds(textLen, byteCount) ==
  textLen <= MaxText /\ textLen * byteCount <= MaxWork

-----------------------------------------------------------------------------
(* The goroutine of StreamCompletion.                                      *)

LlmOffers(state, chunk) ==
  /\ llm = "read"
  /\ llm' = state
  /\ llmChunk' = chunk
  /\ UNCHANGED <<ctxDone, worker, completed, from, textVars, ttsVars, pcmVars>>

\* A line of the stream with text.  Lines without are skipped.
LlmDelta(delta) ==
  /\ WithinBounds(Len(text) + Len(delta), bytes)
  /\ LlmOffers("select", Chunk("delta", delta))

\* [DONE], the usage, or the end of the body without either.
LlmDone == LlmOffers("select", Chunk("done", <<>>))

\* A line that does not parse.
LlmGarbled == LlmOffers("select", Chunk("err", <<>>))

\* The body cannot be read further, the client's timeout included: the error is
\* sent without a look at the context.  A reader the context cancelled takes
\* the last branch instead, the one for a stream that just ends.
LlmReadError ==
  IF ctxDone THEN LlmOffers("select", Chunk("done", <<>>))
             ELSE LlmOffers("send", Chunk("err", <<>>))

\* Mutant: a delta is offered without a look at the context.
LlmCancelledNot ==
  /\ FALSE
  /\ UNCHANGED vars

LlmCancelled ==
  /\ llm = "select"
  /\ ctxDone
  /\ llm' = "ended"
  /\ llmChunk' = Nothing
  /\ UNCHANGED <<ctxDone, worker, completed, from, textVars, ttsVars, pcmVars>>

\* Mutant: the goroutine reads on after the chunk that ends the stream.
LlmTakenReadsOn ==
  /\ llm' = "read"
  /\ llmChunk' = Nothing

\* The worker takes the chunk; every kind but a delta ends the goroutine.
LlmTaken ==
  /\ llm' = IF llmChunk.kind = "delta" THEN "read" ELSE "ended"
  /\ llmChunk' = Nothing

-----------------------------------------------------------------------------
(* runResponse.                                                            *)

Start ==
  /\ worker = "start"
  /\ worker' = "receive"
  /\ llm' = "read"
  /\ UNCHANGED <<ctxDone, completed, from, llmChunk, textVars, ttsVars, pcmVars>>

Return(ok) ==
  /\ worker' = "returned"
  /\ completed' = ok
  /\ UNCHANGED <<ctxDone, from, textVars, pcmVars>>

StartFails ==
  /\ worker = "start"
  /\ Return(FALSE)
  /\ UNCHANGED <<llmVars, ttsVars>>

Receiving == worker = "receive" /\ todo = <<>> /\ ~last

ReceiveDelta ==
  /\ Receiving
  /\ llm \in {"select", "send"} /\ llmChunk.kind = "delta"
  /\ LlmTaken
  /\ text' = text \o llmChunk.data
  /\ \E c \in {Push(buf, llmChunk.data)} : buf' = c.rest /\ todo' = c.chunks
  /\ cut' = (cut \/ CanCut(SplitSentences(buf \o llmChunk.data, FALSE).rest))
  /\ UNCHANGED <<ctxDone, worker, completed, from, last, spoken, ttsVars, pcmVars>>

\* Mutant: what the chunker holds is forgotten.
LeaveLoopUnflushed ==
  /\ last' = TRUE
  /\ UNCHANGED <<ctxDone, worker, completed, from, text, buf, todo, spoken, cut,
                 ttsVars, pcmVars>>

\* The loop ends: a Done chunk, an error with the context alive, or a channel
\* closed without either.  What the chunker holds is flushed.
LeaveLoop ==
  /\ last' = TRUE
  /\ \E c \in {Flush(buf)} : buf' = c.rest /\ todo' = c.chunks
  /\ UNCHANGED <<ctxDone, worker, completed, from, text, spoken, cut, ttsVars,
                 pcmVars>>

ReceiveEnd ==
  /\ Receiving
  /\ \/ /\ llm \in {"select", "send"}
        /\ llmChunk.kind = "done" \/ (llmChunk.kind = "err" /\ ~ctxDone)
        /\ LlmTaken
     \/ llm = "ended" /\ UNCHANGED llmVars
  /\ LeaveLoop

ReceiveErrorCancelled ==
  /\ Receiving
  /\ llm \in {"select", "send"} /\ llmChunk.kind = "err" /\ ctxDone
  /\ LlmTaken
  /\ Return(FALSE)
  /\ UNCHANGED ttsVars

\* WaitForPlayout: nil, or the context's error.
AllSpoken == worker = "receive" /\ todo = <<>> /\ last

WaitForPlayout ==
  /\ AllSpoken
  /\ \/ Return(TRUE)
     \/ ctxDone /\ Return(FALSE)
  /\ UNCHANGED <<llmVars, ttsVars>>

-----------------------------------------------------------------------------
(* speak.                                                                  *)

\* Synthesize dials, sends the phrase and starts its goroutine.
Synthesize ==
  /\ worker = "receive" /\ todo # <<>>
  /\ worker' = "listen"
  /\ todo' = Tail(todo)
  /\ spoken' = Append(spoken, Head(todo))
  /\ tts' = "read" /\ ttsChunk' = Nothing /\ carry' = <<>> /\ bytes' = 0
  /\ delivered' = 0 /\ rs' = NewResampler /\ reframe' = <<>> /\ frames' = <<>>
  /\ held' = <<>> /\ sent' = <<>>
  /\ from' \in FromRates
  /\ UNCHANGED <<ctxDone, completed, llmVars, text, buf, last, cut>>

\* It fails: the phrase is skipped, or the worker stops.
SynthesizeFails ==
  /\ worker = "receive" /\ todo # <<>>
  /\ IF ctxDone THEN Return(FALSE)
     ELSE /\ todo' = Tail(todo)
          /\ spoken' = Append(spoken, Head(todo))
          /\ UNCHANGED <<ctxDone, worker, completed, from, text, buf, last, cut,
                         pcmVars>>
  /\ UNCHANGED <<llmVars, ttsVars>>

\* A chunk of samples: resampled, reframed, and queued frame by frame.
ListenSamples ==
  /\ worker = "listen"
  /\ tts = "select" /\ ttsChunk.kind = "samples"
  /\ tts' = "read" /\ ttsChunk' = Nothing
  /\ \E p \in {Process(rs, ttsChunk.data, from, To)} :
       LET r == Reframe(reframe \o p.out, FrameLen)
       IN rs' = p.rs /\ reframe' = r.rest /\ frames' = r.frames
  /\ delivered' = delivered + Len(ttsChunk.data)
  /\ worker' = "queue"
  /\ UNCHANGED <<ctxDone, completed, from, llmVars, textVars, carry, bytes,
                 held, sent>>

\* The stream ends: the resampler's last sample, the rest padded to a frame.
ListenEnd ==
  /\ worker = "listen"
  /\ \/ /\ tts = "select"
        /\ ttsChunk.kind = "done" \/ (ttsChunk.kind = "err" /\ ~ctxDone)
        /\ tts' = "ended" /\ ttsChunk' = Nothing
     \/ tts = "ended" /\ UNCHANGED <<tts, ttsChunk>>
  /\ LET r == Reframe(reframe \o FlushResampler(rs, from, To), FrameLen)
     IN frames' = r.frames \o Padded(r.rest, FrameLen, Silence)
  /\ rs' = NewResampler
  /\ reframe' = <<>>
  /\ worker' = "tail"
  /\ UNCHANGED <<ctxDone, completed, from, llmVars, textVars, carry, bytes,
                 delivered, held, sent>>

ListenErrorCancelled ==
  /\ worker = "listen"
  /\ tts = "select" /\ ttsChunk.kind = "err" /\ ctxDone
  /\ tts' = "ended" /\ ttsChunk' = Nothing
  /\ Return(FALSE)
  /\ UNCHANGED <<llmVars, carry, bytes>>

\* queueFrame: the first frame fades in and is held back ...
QueueFirst ==
  /\ worker \in {"queue", "tail"} /\ frames # <<>> /\ held = <<>>
  /\ held' = <<[audio |-> Head(frames), fadeIn |-> TRUE, fadeOut |-> FALSE]>>
  /\ frames' = Tail(frames)
  /\ UNCHANGED <<ctxDone, worker, completed, from, llmVars, textVars, ttsVars,
                 delivered, rs, reframe, sent>>

\* ... and every later one sends the one before it.
QueueNext ==
  /\ worker \in {"queue", "tail"} /\ frames # <<>> /\ held # <<>>
  /\ sent' = sent \o held
  /\ held' = <<[audio |-> Head(frames), fadeIn |-> FALSE, fadeOut |-> FALSE]>>
  /\ frames' = Tail(frames)
  /\ UNCHANGED <<ctxDone, worker, completed, from, llmVars, textVars, ttsVars,
                 delivered, rs, reframe>>

Queued ==
  /\ worker \in {"queue", "tail"} /\ frames = <<>>
  /\ worker' = IF worker = "queue" THEN "listen" ELSE "release"
  /\ UNCHANGED <<ctxDone, completed, from, llmVars, textVars, ttsVars, pcmVars>>

\* Mutant: an utterance ends without the frame held back.
FlushFrameNever ==
  /\ worker = "release"
  /\ held' = <<>>
  /\ worker' = "receive"
  /\ UNCHANGED <<ctxDone, completed, from, llmVars, textVars, ttsVars, delivered, rs,
                 reframe, frames, sent>>

\* flushFrame: the frame held back fades out and is sent; speak returns.
FlushFrame ==
  /\ worker = "release"
  /\ sent' = sent \o [i \in DOMAIN held |-> [held[i] EXCEPT !.fadeOut = TRUE]]
  /\ held' = <<>>
  /\ worker' = "receive"
  /\ UNCHANGED <<ctxDone, completed, from, llmVars, textVars, ttsVars, delivered, rs,
                 reframe, frames>>

\* Send returns the context's error: speak and runResponse stop.
SendFails ==
  /\ \/ worker \in {"queue", "tail"} /\ frames # <<>>
     \/ worker = "release"
  /\ held # <<>>
  /\ ctxDone
  /\ Return(FALSE)
  /\ UNCHANGED <<llmVars, ttsVars>>

-----------------------------------------------------------------------------
(* The goroutine of Synthesize.                                            *)

TtsOffers(chunk) ==
  /\ tts' = "select"
  /\ ttsChunk' = chunk

TtsAudio(n) ==
  /\ tts = "read"
  /\ WithinBounds(Len(text), bytes + n)
  /\ bytes' = bytes + n
  /\ LET a == Align(carry, [i \in 1 .. n |-> bytes + i])
     IN /\ carry' = a.carry
        /\ IF Len(a.raw) < 2 THEN UNCHANGED <<tts, ttsChunk>>
           ELSE TtsOffers(Chunk("samples", Samples(a.raw)))
  /\ UNCHANGED <<ctxDone, worker, completed, from, llmVars, textVars, pcmVars>>

\* "done", or a normal closure without it; "error", or a failed read.
TtsEnds(kind) ==
  /\ tts = "read"
  /\ TtsOffers(Chunk(kind, <<>>))
  /\ UNCHANGED <<ctxDone, worker, completed, from, llmVars, textVars, carry,
                 bytes, pcmVars>>

\* The context ends the read, without a chunk, or the offer.
TtsCancelled ==
  /\ tts \in {"read", "select"}
  /\ ctxDone
  /\ tts' = "ended"
  /\ ttsChunk' = Nothing
  /\ UNCHANGED <<ctxDone, worker, completed, from, llmVars, textVars, carry,
                 bytes, pcmVars>>

-----------------------------------------------------------------------------
\* interruptResponse, or Agent.Stop.
Cancel ==
  /\ ~ctxDone
  /\ ctxDone' = TRUE
  /\ UNCHANGED <<worker, completed, from, llmVars, textVars, ttsVars, pcmVars>>

Worker ==
  \/ Start
  \/ StartFails
  \/ ReceiveDelta
  \/ ReceiveEnd
  \/ ReceiveErrorCancelled
  \/ WaitForPlayout
  \/ Synthesize
  \/ SynthesizeFails
  \/ ListenSamples
  \/ ListenEnd
  \/ ListenErrorCancelled
  \/ QueueFirst
  \/ QueueNext
  \/ Queued
  \/ FlushFrame
  \/ SendFails

Llm ==
  \/ \E d \in Deltas : LlmDelta(d)
  \/ LlmDone
  \/ LlmGarbled
  \/ LlmReadError
  \/ LlmCancelled

Tts ==
  \/ \E n \in ByteCounts : TtsAudio(n)
  \/ \E kind \in {"done", "err"} : TtsEnds(kind)
  \/ TtsCancelled

Next == Worker \/ Llm \/ Tts \/ Cancel

Spec == Init /\ [][Next]_vars

\* When the worker can take a step: ENABLED Worker, without computing the step.
WorkerReady ==
  /\ worker # "returned"
  /\ Receiving => llm \in {"select", "send", "ended"}
  /\ worker = "listen" => tts \in {"select", "ended"}

\* Weak fairness of the worker: each of its steps, and no other, changes one of
\* these variables.
WorkerRuns ==
  []<>~WorkerReady \/ []<><<TRUE>>_<<worker, text, todo, last, frames>>

\* The worker and the goroutines run, and a cancelled context ends a read; the
\* services promise nothing.  The playout path takes frames and drains, see
\* module Playout.
FairSpec ==
  /\ Spec
  /\ WorkerRuns
  /\ WF_vars(LlmCancelled \/ (ctxDone /\ LlmReadError))
  /\ WF_vars(TtsCancelled)

-----------------------------------------------------------------------------
NonBlank(s) ==
  FlattenSeq([i \in DOMAIN s |-> IF s[i] = Blank THEN <<>> ELSE <<s[i]>>])

\* What is on its way from the resampler to Send, and what Send took.
Audio(fs) == FlattenSeq([i \in DOMAIN fs |-> fs[i].audio])
Output == Audio(sent \o held) \o FlattenSeq(frames) \o reframe

\* However the stream is cut into deltas, the chunker neither loses nor repeats
\* nor reorders a character that is not blank; and when runResponse says it
\* completed, all of the reply was handed to the speech service
\* (push, flush, splitSentences, splitAtMax, runResponse).
TextConserved ==
  /\ NonBlank(FlattenSeq(spoken \o todo) \o buf) = NonBlank(text)
  /\ completed => NonBlank(FlattenSeq(spoken)) = NonBlank(text)

\* Where a text that can still grow may be cut: before a blank, after a run of
\* terminators with the closing characters that follow it, unless the run is
\* an ellipsis or the period of an abbreviation.
SentenceEnds(t) ==
  {e \in 1 .. Len(t) - 1 :
     /\ t[e + 1] = Blank
     /\ \E a, b \in 1 .. e :
          /\ a <= b
          /\ \A k \in a .. b : t[k] \in Terminators
          /\ a > 1 => t[a - 1] \notin Terminators
          /\ \A k \in b + 1 .. e : t[k] \in Closing
          /\ a < b => \E k \in a .. b : t[k] # "."
          /\ a = b /\ t[a] = "." => ~IsAbbreviation(t, a)}

\* The numbers of S in ascending order.
InOrder(S) ==
  [i \in 1 .. Cardinality(S) |->
     CHOOSE e \in S : Cardinality({x \in S : x <= e}) = i]

SentencesOf(t) == Pieces(t, InOrder(SentenceEnds(t)))

\* The chunker is stream-safe: as long as no phrase was cut for its length, the
\* phrases spoken so far are the sentences of the text received so far,
\* wherever the stream was cut: "9." is not spoken before it is clear that it
\* is not "9.99" (splitSentences' rule for a terminator at the edge).
StreamSafe == ~cut /\ ~last => spoken \o todo = SentencesOf(text)

\* How many of the transport's samples are due after n input samples, and the
\* positions they are due at.
DueCount(n) ==
  IF from = To THEN n
  ELSE Cardinality({i \in 0 .. n * To : (i * from) \div To + 2 <= n})

Due(n) == [i \in 1 .. DueCount(n) |-> (i - 1) * from]

\* What ends the stream: the last input sample, if the cursor is not past it.
Ending(n) ==
  IF from = To \/ (DueCount(n) * from) \div To >= n THEN <<>>
  ELSE <<(n - 1) * To>>

\* Whatever the sizes of the messages, bytes pair up to the samples they were,
\* the resampled stream has no gap, no repetition and no drift at the seams,
\* and at the end of a phrase only its last frame is padded
\* (alignPCMBytes, StreamResampler, SampleBuffer, speak).
AudioExact ==
  /\ tts \in {"read", "select"} =>
       2 * (delivered + Len(ttsChunk.data)) + Len(carry) = bytes
  /\ worker \in {"listen", "queue"} => Output = Due(delivered)
  /\ worker \in {"tail", "release"} =>
       LET audible == Due(delivered) \o Ending(delivered)
       IN /\ IsPrefix(audible, Output)
          /\ Len(Output) - Len(audible) < FrameLen
          /\ \A i \in Len(audible) + 1 .. Len(Output) : Output[i] = Silence
          /\ Len(Output) % FrameLen = 0

\* One frame is held back so that the last one of a phrase can fade out: in
\* what was sent only the first frame fades in, only the last one out, and a
\* phrase that was spoken to its end has left nothing behind (queueFrame,
\* flushFrame).
FadesAtTheEdges ==
  /\ \A i \in DOMAIN (sent \o held) :
       LET f == (sent \o held)[i]
       IN /\ f.fadeIn <=> i = 1
          /\ f.fadeOut => i = Len(sent) /\ held = <<>>
  /\ worker = "receive" /\ sent # <<>> => Last(sent).fadeOut
  /\ worker = "receive" => Output = Audio(sent)

\* A worker that goes on left no stream behind: the next phrase is not started
\* while the last one's goroutine still runs, and a reply ends with both
\* goroutines ended (the return paths of StreamCompletion, Synthesize, speak).
NoStreamLeftBehind ==
  /\ worker = "receive" => tts \in {"none", "ended"}
  /\ completed => llm = "ended" /\ tts \in {"none", "ended"}

\* A cancelled worker returns, whatever it was waiting for, and the goroutines
\* of its streams end with it, but for one: a read error is sent to a worker
\* that may have left (speak, send, StreamCompletion, Synthesize).
CancelEndsReply ==
  ctxDone ~> /\ worker = "returned"
             /\ tts \in {"none", "ended"}
             /\ llm \in {"none", "ended", "send"}
=============================================================================
