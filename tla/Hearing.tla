------------------------------ MODULE Hearing ------------------------------
(***************************************************************************)
(* How the agent hears: Inbound turns RTP packets into 20 ms frames        *)
(* (pkg/agent/audio/inbound.go and "pcm .go"), the orchestrator's loop     *)
(* forks every frame to the voice activity detector and to the speech      *)
(* service (onAudio), Silero turns windows of samples into start and end   *)
(* of speech (plugins/vad/silero), and a Deepgram session (plugins/stt/    *)
(* deepgram) brings the transcripts back.                                  *)
(*                                                                         *)
(* Decoded audio is a sequence of blocks of 10 ms, numbered as they are    *)
(* decoded; a frame is FrameBlocks of them.  What the model says of a      *)
(* window is "high" (at least speechThreshold), "low" (below               *)
(* silenceThreshold) or "mid"; running it may fail.  A packet that is      *)
(* empty or does not decode changes nothing.                               *)
(***************************************************************************)
EXTENDS Pcm, Integers, Sequences, SequencesExt, FiniteSets

CONSTANTS
  FrameBlocks,    \* blocks in a 20 ms frame
  PacketBlocks,   \* set of sizes of a decoded packet
  QueueCap,       \* defaultInboundQueue
  FrameSamples,   \* samples of a frame at the detector's rate
  WindowSize,     \* windowSize
  MinSilence,     \* minSilenceSamples
  ResultsCap,     \* capacity of a session's results channel
  MaxMessages,    \* bound: messages of the speech service
  MaxBlocks,      \* bound: blocks decoded ...
  MessageCost     \* ... of which every message takes this many

ASSUME HearingConstants ==
  /\ FrameBlocks \in Nat \ {0}
  /\ PacketBlocks \subseteq Nat \ {0}
  /\ QueueCap \in Nat \ {0}
  /\ FrameSamples \in Nat \ {0}
  /\ WindowSize \in Nat \ {0}
  /\ FrameSamples <= WindowSize
  /\ MinSilence \in Nat \ {0}
  /\ ResultsCap \in Nat \ {0}
  /\ MaxBlocks \in Nat
  /\ MaxMessages \in Nat
  /\ MessageCost \in Nat

VARIABLES
  ctxDone,       \* the agent's context is cancelled
  reader,        \* Inbound.Run: "read", "offer" or "stopped"
  pending,       \* SampleBuffer: blocks that do not fill a frame yet
  toOffer,       \* frames of the packet that Inbound.Run has not offered yet
  queue,         \* the channel of frames
  decoded,       \* history: blocks decoded
  dropped,       \* history: blocks of frames that found the channel full,
                 \*   after the last frame taken
  loop,          \* Orchestrator.Run: where it is, see LoopStates
  taken,         \* history: blocks of the last frame the loop took
  vadPending,    \* samples that do not fill a window yet
  currSample, triggered, tempEnd,
  events,        \* what Analyze found in this frame
  userSpeaking,  \* the orchestrator's flag
  verdict,       \* history: the last judgement of the model
  quiet,         \* history: windows judged since the first low one after the
                 \*   last high one
  session,       \* the read loop: "none", "read", "offer", "ended"
  sessCtxDone,   \* the session's context is cancelled
  results,       \* the results channel
  closed,        \* it is closed
  sent,          \* history: messages of the service, in order
  inTransit,     \* messages the read loop has not read yet
  offering,      \* the result it is about to put in results
  heard          \* history: results the loop took

inboundVars == <<reader, pending, toOffer, decoded>>
audioVars == <<inboundVars, queue, dropped, taken>>
vadVars == <<vadPending, currSample, triggered, tempEnd, events, verdict, quiet>>
sttVars == <<session, sessCtxDone, closed, sent, inTransit, offering>>
vars == <<ctxDone, audioVars, loop, vadVars, userSpeaking, sttVars, results,
          heard>>

Outcomes == {"high", "mid", "low"}
LoopStates == {"start", "select", "analyze", "handle", "stopped"}

\* What the service sends: a transcript, or something the read loop skips (an
\* unreadable message, no channel, an empty transcript).
Kinds == {"text", "skipped"}
Messages == [id : 1 .. MaxMessages, kind : Kinds]

Init ==
  /\ ctxDone = FALSE
  /\ reader = "read" /\ pending = <<>> /\ toOffer = <<>>
  /\ decoded = 0 /\ dropped = {}
  /\ queue = <<>>
  /\ loop = "start" /\ taken = <<>>
  /\ vadPending = 0 /\ currSample = 0 /\ triggered = FALSE /\ tempEnd = 0
  /\ events = <<>> /\ verdict = "none" /\ quiet = 0
  /\ userSpeaking = FALSE
  /\ session = "none" /\ sessCtxDone = FALSE /\ closed = FALSE
  /\ sent = <<>> /\ inTransit = <<>> /\ offering = <<>>
  /\ results = <<>> /\ heard = <<>>

-----------------------------------------------------------------------------
(* Inbound.Run.                                                            *)

\* The reader looks at its context before it blocks in ReadRTP: one more packet
\* may come after the cancellation.
ReadPacket(size) ==
  /\ reader = "read"
  /\ decoded + size + Len(sent) * MessageCost <= MaxBlocks
  /\ LET r == Reframe(pending \o [i \in 1 .. size |-> decoded + i],
                   FrameBlocks)
     IN /\ toOffer' = r.frames
        /\ pending' = r.rest
        /\ reader' = IF r.frames = <<>> THEN "read" ELSE "offer"
  /\ decoded' = decoded + size
  /\ UNCHANGED <<ctxDone, dropped, queue, loop, taken, vadVars, userSpeaking,
                 sttVars, results, heard>>

\* Offering the first frame left; afterwards the next one, or the next packet.
OfferedOne ==
  /\ toOffer' = Tail(toOffer)
  /\ reader' = IF Len(toOffer) = 1 THEN "read" ELSE "offer"

Enqueue ==
  /\ reader = "offer"
  /\ Len(queue) < QueueCap
  /\ queue' = Append(queue, Head(toOffer))
  /\ OfferedOne
  /\ UNCHANGED <<ctxDone, pending, decoded, dropped, loop, taken, vadVars,
                 userSpeaking, sttVars, results, heard>>

\* The default branch: neither the channel nor the context is ready.
DropFrame ==
  /\ reader = "offer"
  /\ Len(queue) = QueueCap
  /\ ~ctxDone
  /\ dropped' = dropped \cup ToSet(Head(toOffer))
  /\ OfferedOne
  /\ UNCHANGED <<ctxDone, pending, decoded, queue, loop, taken, vadVars,
                 userSpeaking, sttVars, results, heard>>

\* The context ends the loop, or ReadRTP fails: the track has ended.
ReaderStops ==
  /\ \/ reader = "read"
     \/ reader = "offer" /\ ctxDone
  /\ reader' = "stopped"
  /\ UNCHANGED <<ctxDone, pending, toOffer, decoded, dropped, queue, loop,
                 taken, vadVars, userSpeaking, sttVars, results, heard>>

-----------------------------------------------------------------------------
(* Orchestrator.Run as far as hearing goes.                                *)

\* NewSession dials the service, starts the read loop; Run then resets the VAD.
RunStarts ==
  /\ loop = "start"
  /\ ~ctxDone
  /\ loop' = "select"
  /\ session' = "read"
  /\ vadPending' = 0 /\ currSample' = 0 /\ triggered' = FALSE /\ tempEnd' = 0
  /\ UNCHANGED <<ctxDone, audioVars, events, verdict, quiet,
                 userSpeaking, sessCtxDone, closed, sent, inTransit, offering,
                 results, heard>>

\* NewSession fails: Run returns, and nothing reads the frames.
RunFails ==
  /\ loop = "start"
  /\ loop' = "stopped"
  /\ UNCHANGED <<ctxDone, audioVars, vadVars, userSpeaking, sttVars, results,
                 heard>>

\* onAudio, first part of Analyze: the frame's samples join the pending ones.
TakeFrame ==
  /\ loop = "select"
  /\ queue # <<>>
  /\ queue' = Tail(queue)
  /\ taken' = Head(queue)
  /\ dropped' = {b \in dropped : b > Last(Head(queue))}
  /\ vadPending' = vadPending + FrameSamples
  /\ events' = <<>>
  /\ loop' = IF vadPending' >= WindowSize THEN "analyze" ELSE "handle"
  /\ UNCHANGED <<ctxDone, inboundVars, currSample, triggered, tempEnd,
                 verdict, quiet, userSpeaking, sttVars, results, heard>>

\* One round of Analyze's loop: a window leaves the pending samples and the
\* model judges it, or fails.
TakeWindow ==
  /\ loop = "analyze"
  /\ vadPending' = vadPending - WindowSize
  /\ UNCHANGED <<ctxDone, audioVars, userSpeaking, sttVars, results, heard>>

Judged(outcome) ==
  /\ TakeWindow
  /\ currSample' = currSample + WindowSize
  /\ verdict' = outcome
  /\ quiet' = IF outcome = "high" \/ (outcome = "mid" /\ quiet = 0) THEN 0
              ELSE quiet + 1
  /\ loop' = IF vadPending' >= WindowSize THEN "analyze" ELSE "handle"

\* infer fails: Analyze returns what it found so far; the window is gone, and
\* currSample does not count it.
InferFails ==
  /\ TakeWindow
  /\ loop' = "handle"
  /\ UNCHANGED <<currSample, triggered, tempEnd, events, verdict, quiet>>

\* Mutant: the timer keeps running.
SpeechResumesInPause ==
  /\ tempEnd # 0
  /\ Judged("high")
  /\ UNCHANGED <<tempEnd, triggered, events>>

\* step, case by case.  Speech resumes before the silence was long enough.
SpeechResumes ==
  /\ tempEnd # 0
  /\ Judged("high")
  /\ tempEnd' = 0
  /\ UNCHANGED <<triggered, events>>

SpeechStarts ==
  /\ tempEnd = 0
  /\ ~triggered
  /\ Judged("high")
  /\ triggered' = TRUE
  /\ events' = Append(events, "SpeechStart")
  /\ UNCHANGED tempEnd

\* The timer starts with the first low window, whose end is at currSample'.
SilentSince == IF tempEnd = 0 THEN currSample' ELSE tempEnd

\* Mutant: every silent window starts the timer.
SilenceRestarts ==
  /\ triggered
  /\ Judged("low")
  /\ currSample' - SilentSince < MinSilence
  /\ tempEnd' = currSample'
  /\ UNCHANGED <<triggered, events>>

SilenceGoesOn ==
  /\ triggered
  /\ Judged("low")
  /\ currSample' - SilentSince < MinSilence
  /\ tempEnd' = SilentSince
  /\ UNCHANGED <<triggered, events>>

\* Mutant: triggered is not reset.
SpeechEndsStaysTriggered ==
  /\ triggered
  /\ Judged("low")
  /\ currSample' - SilentSince >= MinSilence
  /\ tempEnd' = 0
  /\ events' = Append(events, "SpeechEnd")
  /\ UNCHANGED triggered

SpeechEnds ==
  /\ triggered
  /\ Judged("low")
  /\ currSample' - SilentSince >= MinSilence
  /\ tempEnd' = 0
  /\ triggered' = FALSE
  /\ events' = Append(events, "SpeechEnd")

\* No case: speech goes on, or silence does, or the window is in between.
NothingHappens ==
  /\ \/ Judged("high") /\ tempEnd = 0 /\ triggered
     \/ Judged("low") /\ ~triggered
     \/ Judged("mid")
  /\ UNCHANGED <<triggered, tempEnd, events>>

Analyze ==
  \/ InferFails
  \/ SpeechResumes
  \/ SpeechStarts
  \/ SilenceGoesOn
  \/ SpeechEnds
  \/ NothingHappens

\* The rest of onAudio: the events in their order, then the frame goes to the
\* speech service, whose write may fail with a warning.
HandleEvents ==
  /\ loop = "handle"
  /\ userSpeaking' = IF events = <<>> THEN userSpeaking
                     ELSE Last(events) = "SpeechStart"
  /\ loop' = "select"
  /\ UNCHANGED <<ctxDone, audioVars, vadVars, sttVars, results, heard>>

\* A transcript: onTranscript is another component's affair.
TakeResult ==
  /\ loop = "select"
  /\ results # <<>>
  /\ results' = Tail(results)
  /\ heard' = Append(heard, Head(results))
  /\ UNCHANGED <<ctxDone, audioVars, loop, vadVars, userSpeaking, sttVars>>

\* Run returns and closes the session: Close asks the service to finish and
\* cancels the session's context at once.
RunReturns ==
  /\ loop = "select"
  /\ ctxDone \/ (closed /\ results = <<>>)
  /\ loop' = "stopped"
  /\ sessCtxDone' = TRUE
  /\ UNCHANGED <<ctxDone, audioVars, vadVars, userSpeaking, session, closed,
                 sent, inTransit, offering, results, heard>>

-----------------------------------------------------------------------------
(* The Deepgram session.                                                   *)

\* The service sends something.
ServiceSends(kind) ==
  /\ session \in {"read", "offer"}
  /\ Len(sent) < MaxMessages
  /\ decoded + (Len(sent) + 1) * MessageCost <= MaxBlocks
  /\ LET m == [id |-> Len(sent) + 1, kind |-> kind]
     IN sent' = Append(sent, m) /\ inTransit' = Append(inTransit, m)
  /\ UNCHANGED <<ctxDone, audioVars, loop, vadVars, userSpeaking, session,
                 sessCtxDone, closed, offering, results, heard>>

ReadMessage ==
  /\ session = "read"
  /\ inTransit # <<>>
  /\ inTransit' = Tail(inTransit)
  /\ IF Head(inTransit).kind = "text"
     THEN session' = "offer" /\ offering' = <<Head(inTransit)>>
     ELSE UNCHANGED <<session, offering>>
  /\ UNCHANGED <<ctxDone, audioVars, loop, vadVars, userSpeaking, sessCtxDone,
                 closed, sent, results, heard>>

\* Mutant: a full channel costs the result.
OfferResultDrops ==
  /\ session = "offer"
  /\ results' = IF Len(results) < ResultsCap THEN results \o offering ELSE results
  /\ offering' = <<>>
  /\ session' = "read"
  /\ UNCHANGED <<ctxDone, audioVars, loop, vadVars, userSpeaking, sessCtxDone,
                 closed, sent, inTransit, heard>>

OfferResult ==
  /\ session = "offer"
  /\ Len(results) < ResultsCap
  /\ results' = results \o offering
  /\ offering' = <<>>
  /\ session' = "read"
  /\ UNCHANGED <<ctxDone, audioVars, loop, vadVars, userSpeaking, sessCtxDone,
                 closed, sent, inTransit, heard>>

EndReadLoop ==
  /\ session' = "ended"
  /\ closed' = TRUE
  /\ UNCHANGED <<ctxDone, audioVars, loop, vadVars, userSpeaking, sessCtxDone,
                 sent, inTransit, offering, results, heard>>

\* Mutant: the read loop looks at its context only while it reads.
ReadLoopCancelledOnlyInRead ==
  /\ session = "read"
  /\ sessCtxDone
  /\ EndReadLoop

\* The context ends either wait of the read loop: Read, or the full channel.
ReadLoopCancelled ==
  /\ session \in {"read", "offer"}
  /\ sessCtxDone
  /\ EndReadLoop

\* The service closes the connection.
ReadFails ==
  /\ session = "read"
  /\ EndReadLoop

-----------------------------------------------------------------------------
\* Agent.Stop.
Cancel ==
  /\ ~ctxDone
  /\ ctxDone' = TRUE
  /\ sessCtxDone' = (session # "none" \/ sessCtxDone)
  /\ UNCHANGED <<audioVars, loop, vadVars, userSpeaking, session, closed, sent,
                 inTransit, offering, results, heard>>

Next ==
  \/ \E size \in PacketBlocks : ReadPacket(size)
  \/ Enqueue
  \/ DropFrame
  \/ ReaderStops
  \/ RunStarts
  \/ RunFails
  \/ TakeFrame
  \/ Analyze
  \/ HandleEvents
  \/ TakeResult
  \/ RunReturns
  \/ \E kind \in Kinds : ServiceSends(kind)
  \/ ReadMessage
  \/ OfferResult
  \/ ReadLoopCancelled
  \/ ReadFails
  \/ Cancel

Spec == Init /\ [][Next]_vars

\* The goroutines run; packets, the service, failures and Stop are not promised.
FairSpec ==
  /\ Spec
  /\ WF_vars(Enqueue \/ DropFrame \/ (reader = "offer" /\ ReaderStops))
  /\ WF_vars(ReadMessage \/ OfferResult \/ ReadLoopCancelled)

-----------------------------------------------------------------------------
\* Reframing and a full queue never repeat, reorder or tear audio: every block
\* decoded since the last frame taken is in exactly one place, the places are
\* in order, and only whole frames are missing (SampleBuffer.Push, Inbound.Run).
AudioAccounted ==
  LET kept  == taken \o FlattenSeq(queue) \o FlattenSeq(toOffer) \o pending
      after == IF taken = <<>> THEN 1 ELSE Head(taken)
      frameOf(b) == (b - 1) \div FrameBlocks
  IN /\ \A i, j \in DOMAIN kept : i < j => kept[i] < kept[j]
     /\ ToSet(kept) \cap dropped = {}
     /\ ToSet(kept) \cup dropped = after .. decoded
     /\ \A b \in dropped : \A c \in 1 .. decoded :
          frameOf(c) = frameOf(b) => c \in dropped

\* What the orchestrator takes for granted: after every frame its flag
\* userSpeaking says what the detector says, a frame brings at most one event,
\* and a failed window loses none (Analyze, onAudio).
FlagFollowsDetector ==
  /\ Len(events) <= 1
  /\ loop = "select" => userSpeaking = triggered

\* Speech is reported as ended only on a silent window, and only after
\* MinSilence samples without speech, counted from the end of the first silent
\* window: a pause that speech interrupts starts again (step).
EndOnlyAfterSilence ==
  [][ loop = "analyze" /\ triggered /\ ~triggered' =>
        verdict' = "low" /\ (quiet' - 1) * WindowSize >= MinSilence ]_vars

\* And it is reported as soon as that holds: windows in between, or windows the
\* model failed on, neither restart the pause nor end it.  Speech is reported
\* at its first window (step, infer).
DetectorIsPrompt ==
  /\ triggered /\ verdict = "low" => (quiet - 1) * WindowSize < MinSilence
  /\ verdict = "high" => triggered

\* The transcripts among the messages of the service.
Texts(messages) ==
  FlattenSeq([i \in 1 .. Len(messages) |->
                IF messages[i].kind = "text" THEN <<messages[i]>> ELSE <<>>])

\* Transcripts reach the loop in the order the service sent them, and none is
\* lost while the session lives (readLoop).
TranscriptsInOrder ==
  LET got == heard \o results \o offering
  IN /\ IsPrefix(got, Texts(sent))
     /\ session # "ended" => got \o Texts(inTransit) = Texts(sent)

\* Once the agent's loop has returned, the read loop ends and the results
\* channel is closed, whatever it was waiting for (Close, readLoop).
SessionEnds == loop = "stopped" /\ session # "none" ~> closed
=============================================================================
