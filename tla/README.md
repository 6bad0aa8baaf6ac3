# GoSFU voice agent: TLA+ models

GoSFU is a voice agent on a WebRTC server: a browser joins a room, its speech
goes through voice activity detection (VAD) and speech-to-text (STT), a
language model (LLM) streams a reply, text-to-speech (TTS) turns it into audio,
and a pacer plays that audio back in real time. This directory holds models of
the parts of the server and of its browser client where goroutines, tasks,
channels, contexts and timers meet, and of the algorithms between them, the
configurations that check them with TLC, and proofs checked by TLAPS.

Paths below are relative to the repository; `go/` stands for `sfu/pkg/`.

## 1. Inventory

| Component | Code | State it keeps | Operations |
| --- | --- | --- | --- |
| Conversation orchestrator | `go/agent/orchestrator.go` | state, user speaking, pending segments, turn, history, the response's cancel function and result channel, latency marks | Run's select loop: VAD start and end, interim and final transcripts, results; one goroutine per response |
| Playout path | `go/agent/audio/pacer.go`, `outbound.go`, `go/agent/transport/webrtc.go` | playback channel, jitter buffer, drain waiters, clear signal, playing/underrun flags, out channel | Send, WaitForDrain, Clear, the 20 ms tick, write to the track |
| Playout bridge | `go/agent/transport/transport.go` | the pending TTS mark | setPending, onPlayoutStarted |
| Agent | `go/agent/agent.go` | the context of the session | New, Start, Stop |
| Room | `go/room/room.go`, `go/server/handlers.go` | state, PeerConnection, agent, cancel, participants, session timer | HandleJoin, StopSession, Close, connection callbacks, expiry |
| Room manager and registry | `go/room/manager.go`, `go/redisroom/store.go` | map of rooms, Redis record with a TTL | Create, Get, Exists, Delete, onActivity, onWaiting |
| Room stream hub | `go/roomstream/hub.go`, `metrics.go` | per room history and subscriber channels, the Redis subscription of each | publish, Subscribe, ServeWS, ClearRoom |
| VAD | `sfu/plugins/vad/silero/silero.go` | window, triggered, tempEnd | Analyze, step, Reset |
| Sentence chunker | `go/agent/chunker.go` | buffer | push, flush |
| Audio framing and inbound audio | `go/agent/audio/pcm .go`, `resample.go`, `inbound.go` | pending samples, resampler phase, frame queue | Push, FlushPadded, Process, Run |
| Provider streams | `sfu/plugins/{llm/openai,stt/deepgram,tts/rime}` | a connection and a channel each | open, stream, close |
| Registries, options, stubs, logging, configuration, HTTP wiring | `sfu/plugins/*/regist*.go`, `go/logger`, `go/config`, `go/server` | set at start-up | look-ups, formatting, I/O |
| Browser client | `sfu-frontend/src/hooks`, `App.tsx` | connect generation, streams, PeerConnection, transcript list | connect, disconnect, stop, delete, camera, upsert |

How they interact. The HTTP handlers find a room in the manager and call it.
A join builds a PeerConnection and an agent; once connected, a callback starts
the agent: the pacer, Outbound and Run, all under one context. Run reads the
inbound frames and STT results, and starts one goroutine per response, which
calls the LLM and TTS providers and sends frames to the playback channel; the
pacer's goroutine buffers them and feeds Outbound. A barge-in cancels the
response's context and signals the pacer to clear. Room callbacks (timer,
connection state) end the session. Transcripts, metrics and debug events of all
of them are published to the hub, which fans them out to browsers.

What is hard, and what has to be right:

- *Orchestrator*: three event sources and up to several live or dying workers.
  One reply at a time; no segment lost; a late result never taken for another
  response's; a well formed LLM history; latency metrics labelled with their
  own turn; every response ends.
- *Playout*: three goroutines, asynchronous drain and clear requests,
  backpressure, underrun, start timeout, a track that fails. Audio in order,
  neither lost nor doubled; bounded buffer; a drain is granted only when the
  audio is gone; nothing stuck.
- *Room*: delayed callbacks and timers of sessions that are over, failures in
  the middle of a join, locks held across calls. No session left behind; a
  closed room stays empty; the registry follows; every session ends.
- *Hub*: a lock held across blocking sends, a replay without it, clients that
  leave. No gap, no duplicate, order; no send on a closed channel; publishers
  come back.
- *VAD, chunker, framing*: sequential algorithms at boundaries. Speech ends
  neither early nor late, and no event is lost to a failed window; no text lost,
  and phrases that do not depend on how the stream was cut; samples conserved
  across chunks that tear them.
- *Provider streams*: goroutines with unbuffered channels whose consumer may
  leave. Every one ends with its context, or when its consumer is done.
- *Browser client*: calls of connect that were superseded go on from whatever
  they awaited. No microphone and no connection left behind, nothing of an
  earlier call shown, and "connected" is true.

`PROJECT.json` lists each hazard at its line, with the properties that cover it.

## 2. Plan

| Module | Content |
| --- | --- |
| `TurnTaking` | what the conversation promises: a half-duplex exchange |
| `Orchestrator` | the loop and its workers; implements `TurnTaking` |
| `PlayoutQueue` | what the playout path promises: an ordered queue and a drain |
| `Playout` | pacer, channels and Outbound; implements `PlayoutQueue` |
| `VoiceAgent` | `Orchestrator`, extended with an instance of `Playout` and the bridge |
| `Pcm` | the arithmetic of sample streams: framing, resampling, bytes to samples |
| `Hearing` | inbound audio, the VAD, the STT session and the part of the loop that joins them; uses `Pcm` |
| `Chunker` | the sentence chunker, as operators and recursive functions |
| `Reply` | one response worker with the streams of the LLM and of the TTS; uses `Chunker` and `Pcm` |
| `Hub` | the room stream, with and without Redis |
| `Room` | a room, its sessions, its timer, its registry record, and the three locks its operations nest |
| `WebClient` | the browser's connect generations, against what `Room` promises |
| `Seqs_proofs` | induction on sets of numbers, what flattening and cutting sequences does, and what a scan of a sequence finds |
| `VoiceAgent_proofs`, `Playout_proofs`, `Hearing_proofs`, `Reply_proofs`, `Hub_proofs`, `Room_proofs`, `WebClient_proofs` | the theorems, section 5; `VoiceAgent_proofs` has those of the loop, too, and instantiates those of `Playout` |

`Orchestrator` is the core: it abstracts its providers to any behaviour of
their streams, and `Hearing` and `Reply` then open up what it takes for granted
on either side, with the same control points. All planned modules are written.
What would come next: the transcript list of `use-room-stream`, and `Room` with
two nodes on one registry.

## 3. The modules and the code

### Orchestrator

State. A worker (response goroutine) is identified by its turn: the greeting
is turn 0, the reply to the user's n-th turn is n. So `responseCancel` and
`responseDone`, a function and a channel in the code, are the number of the
turn they belong to. `heard` counts final segments; a segment is its number.
`pc[t]` says where `runResponse` or `speak` of turn t is; `cancelled[t]` is
what `interruptResponse` did to its context, `ctxDone` what `Agent.Stop` did to
all.

Actions. `OnSpeechStart`, `OnSpeechEnd` (`onAudio` with a VAD event),
`OnInterim`, `OnFinal` (`onTranscript`), `OnResponseDone`, `RunStart` with the
greeting, and the ways out of `Run` are one atomic step each: the loop is one
goroutine, and what it shares with workers are contexts and channels, plus the
field `turnStart`, which workers read without synchronisation: `ReadTurnStart`
is a step of its own. A data race on that field can only yield one of the
values written, whose monotonic word is what `time.Since` uses. Every place
where a worker can block or be cancelled is a step: opening the LLM stream,
each delta, synthesis, each frame's Send, the drain. `MaybeEndTurn`,
`InterruptResponse` and `SpawnWorker` are operators the handlers use, as in the
code.

Abstractions: text is counted (a reply is its number of deltas); the sentences
of one delta are spoken as one utterance; blank transcripts, the system prompt
and log lines are left out; of metrics, the marks that decide whether one is
emitted and the turn it names are kept.

### Playout

Audio is counted in units, `FrameSize` to a 20 ms frame, numbered in the order
the playback channel accepted them, so order, loss and duplication are visible.
The pacer's goroutine is `pacer`: in its select, topping up, emitting (a
blocking send to `out`), or draining the channel for a clear. `wait[c]` is the
progress of `WaitForDrain`. A tick is `Tick`, `TopUp`*, `Decide`, `Emit`, so
senders interleave inside it, as they do in the code. The branches for a frame
of another rate and for a closed playback channel cannot be reached (all
senders resample to 48 kHz, nobody closes it). A frame the encoder or the track
refuses counts as written: it has left the queue. Opus and RTP are external.

### VoiceAgent

Extends `Orchestrator` and instantiates `Playout` over variables they share: the
workers are the callers of Playout; `LoopStep` joins a barge-in with `Clear`,
`SendFrame` joins Send's two ends, `WaitForPlayout`, `WaitReturns` and
`WaitAborts` the drain's. It adds the bridge's single pending mark. The
specification of the whole is `AgentSpec`, with fairness `FairAgentSpec`.

### Hearing and Pcm

Three goroutines: `Inbound.Run` (`reader`), the loop as far as `onAudio` and
`onTranscript` go (`loop`), and the read loop of the Deepgram session
(`session`). Decoded audio is a sequence of numbered blocks of 10 ms, so a
frame that is torn, repeated or missing shows; packets of 10 and 40 ms straddle
frames. The detector keeps the code's numbers: windows of 512 samples, frames of 320,
1600 samples of silence. Each case of `step` is an action: `SpeechResumes`,
`SpeechStarts`, `SilenceGoesOn`, `SpeechEnds`, `NothingHappens`; `InferFails`
is a window on which the model fails. What the network says of a window is
arbitrary: "high", "low" or "mid", by the two thresholds. `quiet` and
`verdict` are history variables the properties count with. Messages of the
speech service are numbered; those the read loop skips are one kind.

### Reply, Chunker and Pcm

One worker, `runResponse` with `speak`, and the goroutines of the two streams
it consumes, as `worker`, `llm` and `tts`. Both channels are unbuffered: the
goroutine offers a chunk (`select`: until its context ends; `send`: whatever
happens), the worker takes it. Text is a sequence of characters of a
six-letter alphabet that has one member of each class the chunker tells apart;
`Chunker` holds `push` and `flush` as operators: `EndsFound` and `CutsFound` are
the two loops, as recursive functions that return the positions at which they
cut, and `Pieces` and `Remainder` what the code takes from the text there.
Audio is a sequence of numbered bytes, then samples, then positions: the
resampler's output names the input position it was interpolated at, with -2
for an interpolation between samples that are not neighbours, so a click or a
drift shows. The code's cursor is a float64, the model's is exact. Rates above twice the
transport's are excluded by an assumption, for there the cursor may pass the end
of the buffer and the slice of `resample.go:61` would panic (`RIME_SAMPLE_RATE`
would have to exceed 96 kHz).
`held` is `pendingFrame`; Send and WaitForPlayout are `Playout`'s affair, here
they may take any time, or return the context's error.

### Hub

One room; `redis` is chosen once. Without Redis, `mu` is the holder of `Hub.mu`, kept across the steps of a
publish, because it sends to each subscriber with the lock held. A client is
one ServeWS call: Subscribe registers and copies the history under the lock
(`Subscribe`), replays it without (`Replay`), publishes "connected", serves,
and after a failed write publishes "disconnected" and unsubscribes, in that
order, which is the order of the deferred calls. The browser may go away at any
time; a write may succeed for a while after. The server never reads from the
socket, so only a write notices. With Redis, `PublishRedis` hands the message to
every subscription that is in effect, or fails; each subscription has a feed
goroutine (`feed`, with `wire` what Redis still has for it) that copies to the
channel and drops what does not fit, and that ends with any error. Unsubscribe
cancels it, waits for it and then closes the channel.

### Room

Three locks nest: Room.mu, in it Manager.mu (`Close` calls `Manager.Delete`,
which keeps m.mu over ClearRoom, the Redis call and its own publish), and in
both Hub.mu, because nearly every operation publishes what it did with Room.mu
held. `mu` says that Room.mu is free or what its holder is about to do; `mgr`
says who has Manager.mu, the room or `Delete` of another one; `hub` is Hub.mu as
a publisher meets it. With Redis a publish never waits for Hub.mu. Without it
a transcript publisher may keep it while a subscriber's channel is full
(`HubTaken`), another room's `Delete` may wait for that with m.mu held
(`OtherDeletes`), and both go on when the channel is read (`HubReleased`):
that is what `Hub` shows in detail, reduced to what a room sees of it. A step
that publishes is enabled while the hub is free, and goes on to the next point
where its goroutine can wait for something else, so that an operation is cut
wherever it can be kept waiting: a join at its first publish, at ICE gathering
and at "session.room.active" (`JoinAdmitted`, `JoinBegins`, `JoinSucceeds`,
`SessionBegins`); `stopSessionLocked` at agent.Stop (`StopSessionLocked`,
`TearDown`); Close before the manager and inside it (`SessionClosed`,
`ForgetRoom`, `DeleteRoom`).

A request arrives, waits for Manager.mu to look the room up, and then for
Room.mu; what it asks for is chosen when it has that, where it first matters. So
it may act on a room closed in the meantime. A session is the number of the join
that built it; `conn`, `agent`, `cancelled` and the callbacks on their way
(`expiring`, `stopping`) are per session, because they outlive it: connection
callbacks run in goroutines of their own, publish before they do anything, and
`StopSession` and the timer's callback act on whatever session the room then
has. An agent starts when its connection comes up, however late. Redis may be
absent, every call may fail (the record is then `unknown`), and the record may
expire while it is not written; with the default limits an active room's record
cannot (`TTLCoversSession`).

### WebClient

JavaScript runs a task to its end, so the steps are the pieces of `connect`
and `toggleCamera` between two awaits; `at[c]` says what call c awaits. A call
names its microphone stream and its PeerConnection, too. `Release` is the body
of `disconnect`, which connect, stop, leave and the expiry share; every piece
that follows an await compares generations where the code does, and only
there: not after `setRemoteDescription`. A call that finds itself superseded
before it has a PeerConnection stops its own stream (`StopTracks`, which
`Release` uses, too). Each await may fail, which runs the catch block. `shown`
is what the page shows: connection state, state of the PeerConnection,
participant; the camera button (`isCameraOn`) is `cameraOn`, and apart. The server
is what `Room` promises of one room; its requests are served in any order.
The camera is asked for with the stream and the connection the click found.

## 4. What is checked

All runs set `CHECK_DEADLOCK FALSE`: a call ends (the context is cancelled,
the room is deleted), bounds are used up, and then nothing is left to do.

| Run | Result |
| --- | --- |
| `orchestrator_safety` | greeting, two final segments, up to three workers: one live reply at a time, and cancellable (`OneLiveResponse`); a history that alternates and holds every segment once (`HistoryAlternates`, `NoTranscriptLost`); metrics carry their own turn (`MetricsNameTheirTurn`); only an interrupted worker can read a later turn's start (`OwnTurnStart`); the loop implements `TurnTaking` (it never responds while the user speaks, and takes no stale result) |
| `hearing` | no packet size loses, doubles or tears audio, and a full queue costs whole frames only (`AudioAccounted`); speech is reported at its first window and its end after exactly the silence required (`EndOnlyAfterSilence`, `DetectorIsPrompt`); the loop's flag never drifts from the detector's (`FlagFollowsDetector`); transcripts keep their order (`TranscriptsInOrder`); the session ends after the loop, even with a full channel (`SessionEnds`) |
| `reply` | every text of up to five characters in every cut into deltas: nothing lost or repeated (`TextConserved`), phrases are the sentences of the text whatever the cuts (`StreamSafe`); torn samples are mended and the resampled stream has no gap, repetition or drift at a seam (`AudioExact`); fades at the edges of a phrase only (`FadesAtTheEdges`); no stream outlives its phrase or a completed reply (`NoStreamLeftBehind`); a cancelled worker returns, and its streams end, but for a pending read error (`CancelEndsReply`) |
| `playout` | clears, drains, partial frames, failing track: implements `PlayoutQueue`: audio keeps its order and is accounted for, and a drain is granted when the audio is gone; every drain is answered and no audio is stuck below the cushion, unless the track failed or the session ended |
| `voiceagent_safety` | overlapping workers fill the jitter buffer to its ceiling and no further (`BufferBounded`); the turn is handed back only after the reply left the queue, across barge-ins and late clears (`HandBackAfterPlayout`) |
| `voiceagent_liveness` | every response ends; a cancelled worker always returns, even from a pacer blocked for ever by a failed track |
| `hub_safety` | with and without Redis: what a browser gets has no duplicate and the order of publication, but for live messages that overtake the replay (`LiveInOrder`), no gap in transcripts and metrics without Redis (`NoGap`), a history within its limit (`TypeOK`); no send on a closed channel (`NoSendOnClosed`) |
| `room_safety` | no session left behind (`NoOrphanSession`), a closed room stays empty (`ClosedRoomIsEmpty`), the registry follows (`RecordTracksRoom`); as long as Hub.mu is given back again and again (`HubGoesOn`), every session ends (`SessionsEnd`) and every request is answered (`RequestsReturn`), although three locks nest and callbacks publish |
| `webclient` | three calls of connect that overlap, stops, a camera, an expiry, a closing tab: a live microphone is one disconnect will stop, and at most one PeerConnection is open and the page holds it (`NothingLeaks`), a camera gets out of disconnect's reach only if permission comes after the page let go of its stream (`CamerasReleased`), "idle" holds nothing (`IdleHoldsNothing`), nothing of an earlier call is held or shown (`LatestCallOnly`), "connecting" means that something will still happen (`ConnectingIsAtWork`), "connected" is true (`ConnectedIsTrue`) |

Three runs document a disagreement between the code and what it says of itself;
each checks the statement and ends in a counterexample:

| Run | Statement | What happens |
| --- | --- | --- |
| `orchestrator_late_final` | maybeEndTurn "works regardless of which signal arrives last" | a final transcript that arrives while a response is in flight waits for the next speech event |
| `voiceagent_stale_audio` | "ClearPlayout drops any buffered/queued audio" | a cancelled worker's Send may still win its select after the channel was drained |
| `hub_debug_blocks` | "Keep media/pipeline paths non-blocking if a debug client falls behind" | a transcript publisher holds the hub's lock on a full channel whose reader waits for that lock |

Also met while modelling:

- `pacer.go:147`: the clear of a barge-in closes the drain waiters, so
  WaitForDrain of the interrupted worker may return nil and its reply, cut off,
  enters the history as complete (`TakeClear`, then `WaitForDrainReturns`).
- `orchestrator.go:565`: one pending mark serves all workers, a cancelled one
  included; a start of playout can be reported for another turn (`pendingTTS`).
- `orchestrator.go:719`: an interrupted response never has a text
  (runResponse returns "" then), so this branch publishes nothing.
- `pacer.go:203`: when playout restarts on the tick after an underrun the
  callback is skipped.
- `room.go:171`, `213`: a spawned StopSession or a fired timer of an old session
  acts on the newer one; `104`: a failed CreatePeerConnection leaves the
  participant marked active.
- `room.go:99`, `194`, `264`, `296`, `manager.go:91`: what `hub_debug_blocks`
  means for rooms. Without Redis, a transcript publisher that is kept on a full
  channel keeps Hub.mu, so joins, stops and closes hang with Room.mu held, the
  session limit too (it publishes first, `room.go:214`); a `Delete` that waits
  there keeps Manager.mu, and with it every look-up of the node. TLC refutes
  `RequestsReturn` without its premise `HubGoesOn`: two requests arrive, the hub
  is taken, another room's `Delete` waits with m.mu, and nothing goes on.
- `orchestrator.go:165`: closed STT results end Run but not the room.
- `manager.go:51`: a room nobody joins is never removed from the manager; `105`:
  Delete publishes after ClearRoom, so the hub keeps one history for ever.
- `hub.go:277`: any Redis error ends a feed for good while its WebSocket stays
  open; `288`: with Redis, transcripts are dropped like debug events.
- `openai.go:165`: the goroutine stays when a read error meets a worker that
  has left.
- `chunker.go:209`: a remainder that begins with blanks before an over-long
  word is not cut.
- `use-webrtc.ts:331`: a camera granted after the session ended stays on, unless
  the call it belongs to is still to find itself superseded at `196`. If it was
  asked for before the PeerConnection existed, it also sets `isCameraOn` on a
  page that is idle: `IdleHoldsNothing` does not speak of the button. A second
  click before the first is answered adds a second track. `284`: a
  stop request that arrives late ends the next session. After an error the
  microphone stays open in state "failed" until the next disconnect.

### Bounds, and why they suffice

- Orchestrator: `MaxFinals = 2` gives the greeting, two turns, a segment that
  arrives during each phase of a response, and two cancelled workers next to a
  live one; a third turn meets no state of the loop the second did not. One
  delta and one frame already pass through every state of a worker.
- Playout: `FrameSize = 2` and frames of one or two units make partial frames
  and tails; capacities of one make every send block; the cushion of two frames
  is what makes the start timeout necessary; two ticks of timeout distinguish
  early from late. One caller suffices here: `voiceagent_safety` has two.
- Hearing: the detector's real numbers; 20 blocks are ten frames, six windows,
  enough for a start, a pause that speech interrupts and an end. A queue and a results
  channel of one overflow at once. Audio and messages share the bound
  (`MessageCost`), since a run that is long in both shows nothing new.
- Reply: five characters hold an abbreviation with its period and a blank, an
  ellipsis or two sentences, and reach the length at which a phrase is cut;
  messages of one to three bytes tear samples; six bytes are three samples, a seam
  on either side of one. `MaxWork` bounds the product of the two, so long
  texts meet little audio and the other way round.
- VoiceAgent: one turn after the greeting, one unit per frame, two frames per
  reply and three in all: an interrupted worker next to a live one, and a
  buffer that reaches its ceiling of two. `SessionUp` (a state constraint)
  leaves stop, the end of the STT session and track failure to the liveness run. The view leaves out the marks and labels of metrics, which no
  guard and no other variable reads.
- Hub: capacity two, histories of one to three, four published messages and
  the browser's own two: channels fill, the history is trimmed by each kind,
  the replay and live messages meet in a full channel.
- WebClient: three calls, two stops, one camera click: a call that is two
  generations late meets a stop between the others.
- Room: two sessions and two concurrent requests: a callback or timer of the
  first session meets the second, and a request waits for one that is inside.
  Other rooms and the hub are one holder each: a room cannot tell which of them
  keeps it waiting.

### Fairness

- `Playout`: the ticker ticks and the pacer is scheduled (weak fairness of its
  own steps); cases of its select that are ready again and again are taken,
  since Go's select picks at random (strong fairness of the drain, clear and
  stop cases). Senders and clears are not fair; the track's failure is never
  forced.
- `VoiceAgent`: the same, the workers' own steps (a provider's stream yields or
  ends: the code sets it no deadline, so this is the assumption that the
  provider does not hang), and the loop taking a result that is ready. Users,
  VAD and STT are not fair.
- `Hearing`: the reader's offer of a frame and the steps of the read loop;
  packets, the speech service, Stop and failures are not promised.
- `Reply`: the worker runs, and the streams' goroutines see that their context
  ended. `WorkerRuns` is weak fairness of the worker, spelled out with
  `WorkerReady` in place of ENABLED, which TLC would have to compute from
  actions with large choices. The services promise nothing.
- `Hub`: goroutines run, a write to a socket ends, with success or an error, and
  a cancelled feed returns.
  The counterexample of `hub_debug_blocks` needs no slow browser.
- `Room`: handlers and callbacks run, ICE gathering ends (successfully or not),
  and the mutex starves nobody (sync.Mutex's starvation mode), hence strong
  fairness of each request, of the holder of Room.mu and of the callbacks.
  Peers need not connect or leave, and nothing makes Hub.mu come back: that is
  the premise `HubGoesOn` of `SessionsEnd` and `RequestsReturn`, which always
  holds with Redis and without it unless a channel stays full.

## 5. What is proved

Every safety property the passing runs check is a theorem, and so are the
refinements. The table gives the theorem modules; each theorem holds for every
value of the constants its module's ASSUME admits.

| Module | Theorems (and the property they state) |
| --- | --- |
| `VoiceAgent_proofs`, the loop | `Inductive`, `TypeCorrect`, `OneReplyAtATime` (`OneLiveResponse`), `PromptAlternates` (`HistoryAlternates`), `NothingHeardIsLost` (`NoTranscriptLost`), `MetricsAreLabelled` (`MetricsNameTheirTurn`), `RaceIsConfined` (`OwnTurnStart`), `NeverTalksOver`, `NoStaleResult`, `Refinement` (`ImplementsTurnTaking`) |
| `Playout_proofs` | `PlayoutInductive`, `PlayoutImplementsQueue` (`ImplementsPlayoutQueue`) |
| `VoiceAgent_proofs`, the agent | `AgentRunsPlayout`, `AgentRunsLoop`, `AgentKeepsPromises`, `BufferIsBounded` (`BufferBounded`), `CompletedMeansPlayed`, `TurnEndsAfterPlayout` (`HandBackAfterPlayout`) |
| `Hearing_proofs` | `DetectorInductive`, `FlagIsRight` (`FlagFollowsDetector`), `PromptReports` (`DetectorIsPrompt`), `NoEarlyEnd` (`EndOnlyAfterSilence`), `TranscriptsArriveInOrder` (`TranscriptsInOrder`), `AudioIsAccountedFor` (`AudioAccounted`) |
| `Reply_proofs` | `FlowInductive`, `StreamsEnd` (`NoStreamLeftBehind`), `AudioInductive`, `PhraseFades` (`FadesAtTheEdges`), `NothingIsOffBeat` (`AudioExact`), `TextInductive`, `NothingIsLost` (`TextConserved`), `SentencesInductive`, `SpeaksSentences` (`StreamSafe`) |
| `Hub_proofs` | `HubInductive`, `NobodySendsOnClosed` (`NoSendOnClosed`), `HubIsTyped` (`TypeOK`), `MessagesComeInOrder` (`LiveInOrder`), `NothingIsSkipped` (`NoGap`) |
| `Room_proofs` | `RoomInductive`, `NoSessionIsOrphaned` (`NoOrphanSession`), `ClosedIsForGood` (`ClosedRoomIsEmpty`), `RecordIsTrue` (`RecordTracksRoom`) |
| `WebClient_proofs` | `PageInductive`, `PageLeaksNothing` (`NothingLeaks`), `NothingOfEarlierCalls` (`LatestCallOnly`), `IdleIsClean` (`IdleHoldsNothing`), `ConnectingEnds` (`ConnectingIsAtWork`), `ConnectedHolds` (`ConnectedIsTrue`), `CamerasAreReleased` (`CamerasReleased`) |
| `Seqs_proofs` | lemmas: induction, sums of lengths, `FlattenSeq`, scans |

### The loop

For the loop the proofs assume only that the bounds are natural numbers and that
Nil is not a number. None of the properties is inductive alone. What a handler
may assume about the response in flight depends on what workers can still do,
so `IInv` adds the bookkeeping: turns not yet begun have no worker
(`FutureIsIdle`), the cancel function is set exactly while responding and
belongs to the current, uncancelled turn (`CancelIsCurrent`), every turn
consumed a segment (`TurnsAreHeard`, which keeps turn numbers within bounds),
the history ends with the current turn, not answered while its result is
outstanding (`HistoryIsCurrent`), the label of an utterance cannot age while
the user speaks (`SpeakingIsLabelled`), and a few facts about workers. The
proof has one lemma per handler; the eighteen steps of a worker are covered by
three lemmas (it moves on, it jumps, it finishes), because none of them touches
the loop's variables. `MaybeEndTurn`, which three handlers share, has its own
(`TurnStarts`). `NothingHeardIsLost` needs only that entries are appended to
the history: the user's entries flattened, and the pending segments after them,
count from one to `heard`. `RaceIsConfined` adds one fact, that while
responding `turnStart` is the current turn's (`StartIsCurrent`). The refinement
maps each handler to the abstract action it performs, and each step of a worker
to a stutter.

### The playout path

`Playout_proofs` shows that the pacer's goroutine with its two channels is one
queue, for any number of callers, frame size, capacity, cushion and timeout.
The queue's content is what the channel, the jitter buffer and the frame being
emitted hold, in that order, and the drain's promise is that a caller that was
released, or has returned, owns none of it (`Drained`). That is not inductive:
`Decide` releases the waiters when the buffer is empty although the channel may
hold something again. What saves it is who sent that: `LateFrames` says
that between a tick's decision and its end the channel holds only units of
callers who have not asked to drain, for asking and then sending is not
in the code. Two more facts are about places: the pacer keeps no partial frame
between two turns of its loop, and the jitter buffer is empty while it drains
the channel for a clear (`PacerIsEmpty`).

The proof is the source of one assumption. With a ceiling of a single frame
(`MaxAccFrames = 1`) the property is false, and TLC shows it: a tick that fills
the buffer to the ceiling stops topping up, plays that frame, finds the buffer
empty and releases a waiter whose next frame is still in the channel.
The code has a ceiling of fifty frames (`pacer.go:19`), so the module assumes
that the ceiling is more than one.

### The agent

`VoiceAgent_proofs` does not prove anything twice. The composition is shown to
be a `Playout` whose callers are the workers (`AgentRunsPlayout`), and an
`Orchestrator` (`AgentRunsLoop`): each of its steps is a step of that component
or leaves it alone. The components' theorems then hold of the agent by
instantiation: its two refinements at once (`AgentKeepsPromises`), and
`BufferIsBounded`. What neither component can say is proved on top:
`CompletedMeansPlayed`, that a worker reports a completed response only after
the transport released it; with the drain's promise of `Playout`, that gives
`TurnEndsAfterPlayout`.

### Hearing

`Hearing_proofs` is for every window, frame and silence length with a frame no
longer than a window, and every size of packet and channel. It has three
inductive invariants, for three parts that share no variable but `loop`. `DetectorInv`
says what the timer means: while it runs, it holds the sample count at the end
of the first silent window, `quiet - 1` windows ago, and less than the silence
required has passed; while an event is not handled yet the loop's flag lags
behind by it. `SessionInv` says that what the loop took, the results channel,
the offer of the read loop and the texts in transit, in that order, are the
texts sent. `InboundInv` says that what the loop, the channel, the reader and
the sample buffer hold is increasing and, with the blocks that were dropped,
complete; that frames start at multiples of the frame size, and that the pending
blocks are the beginning of the next frame, which is why a full channel can
cost whole frames only.

### The reply

`Reply_proofs` is for every alphabet whose letters do not include the blank,
every set of abbreviations, length limit, pieces of text, sizes of messages and
of frames, and rates up to twice the transport's. It has four inductive
invariants.

`FlowInv` says where the worker and the goroutines can be together; from it
comes `NoStreamLeftBehind`.

`AudioInv` says where each buffer stands in terms of the samples the service
sent. `BytesInv` ties the torn byte to the parity of what came. For the
resampler, `ResamplerAt` says that after n input samples its cursor is at the
first output that is not due yet, and that its carried samples begin where the
cursor stands; that the outputs due up to n are a beginning of those due later
(`DueAreThoseThatFit`, `OrdinalsJoin`) is the arithmetic of part 2 of the
module. `Resampled` is the step: one chunk of any size brings exactly the
outputs that become due with it, none of them interpolated across a gap. With
what reframing does (`Framed`) and what fills the last frame (`PaddedIs`), the
output is, at every moment, what a single message would have given.

`TextInv` says that what is not blank of the phrases and the buffer is what is
not blank of the text. It rests on the two loops of the chunker. A loop that
cuts a text is a function defined by recursion from the end of the text
(`Stepping`, `ScanStep` of `Seqs_proofs`): such a function exists (`ScanExists`)
and what it yields is ascending (`ScanYields`), both by `DownwardInduction`; and
pieces cut at ascending positions, trimmed, keep all that is not blank
(`PiecesKeepText`).

`SentencesInv` says that the phrases are those of the *whole* text received,
although the chunker only ever sees what its buffer holds. Three facts make it
inductive. The loop finds all sentence ends and nothing else
(`EndsAreSentenceEnds`: `ScanIsRight`, `ScanIsComplete`), by the definition
`SentenceEnds` that does not mention the loop. Whether a sentence ends somewhere
can be seen from any window that begins at a blank or at the beginning of the
text (`SameSentence`, `SameAbbreviation`): a run of terminators, or the word
before a period, does not reach across a blank; and a buffer begins at one,
because a sentence in the middle of a text ends before a blank (`LastSentence`).
So a text that grows keeps its sentences, and the new ones are those of the
buffer with what came (`SentencesGrow`, `PiecesGrow`). This is where the rule for a
terminator at the edge is needed: without it an end would be found that a later
delta takes back.

### The hub

`Hub_proofs` is for any number of publishers and browsers, any capacity and
limits, in both modes; Nil may be neither a goroutine nor a number, since the
model uses it for "no message". `HubInv` says who may still send: a publisher
holds the lock for as long as it has subscribers to visit, these are
registered, a registered client has not unsubscribed or was removed by
ClearRoom, and a feed exists only between Connected and Unsubscribe. `HubTypes`
adds the types and that whoever holds the lock publishes the last message of
the log. `OrderInv` makes the order inductive: the history is always the end of
the log (`HistoryIsTail`), a browser's replay is a rising copy of a part of it,
a message of the replay has been sent only as far as the replay has got
(`ReplayGoesOn`), what Redis still has for a feed comes after what the browser
was sent (`WireInOrder`), and the message of a publish that visits a browser is
later than all it was sent (`LatestIsNew`). `NothingIsSkipped` then
needs nothing more: a message a browser lacks is newer than
all it has, or in the hands of the publish that holds the lock.

### The room

`Room_proofs` is for any number of requests and sessions, with a Redis that
fails whenever it likes or none, and for either relation of RoomTTL to the
session limit. `RoomInv` adds what holds while the locks are taken. They nest:
the room has Manager.mu just while it deletes itself, and a request is inside
only while Room.mu is taken (`LocksNest`). `StateMatches` says what the holder
knows at each point where it can be kept waiting, above all that a room that
waits with its lock free has no session, so a join, which tests just that
state, never builds one beside another. Sessions are numbered by the joins, and
those that are not the room's are closed and cancelled (`SessionsOfTheRoom`).
The record follows but for the steps between a change of state and its write
(`RecordFollows`). Whoever stops a session goes through the same two steps:
`StopEntered` says that it is cancelled with the lock taken, and `TornDown` what
is left when its PeerConnection is closed.

### The browser

`WebClient_proofs` is for any number of calls, stops and clicks. `PageInv` ties
what a call holds to the await it is in: generations grow with the calls, a
current call that is past the microphone has its stream in `localStreamRef`,
one past the configuration its PeerConnection in `pcRef`, and a call that is
not current has neither; `LaterSteps` gives the one place without a comparison
its reason: a call whose PeerConnection is still open is current.
`ShownIsTrue` lists, for the live call, the stages it can be in and what the
page shows in each, and "idle" if there is none: "connecting" and "connected"
are read off that. `CamerasHaveStreams` says that a camera that is on is in the
stream of some call, never in none; a microphone granted to the live call finds
`localStreamRef` empty, so the only step that lets go of a stream is
`disconnect`, which stops what is in it (`StoppedIsNotStray`), as does a
superseded call with its own. What is left is the grant itself, and
`CamerasReleased` says so: a step that puts a camera out of disconnect's reach
is a permission for a stream the page no longer has.

### Means

Where the proofs carry the types of a module (`Shape` of `Room_proofs` and
`WebClient_proofs`, `TypeInv` of `Playout_proofs`, `TypeCorrect`), they stand in
for a run of a type invariant, and hold for every instance. The inductive
invariants of `Playout`, `Hub` and `Room` (with either value of
`TTLCoversSession`) were run with TLC, on the instances of section 4 or smaller
ones, before they were proved; so were `TextInv` and
`SentencesInv` of `Reply`.

The library's induction theorems take an operator as a parameter, which the
provers cannot instantiate. `Seqs_proofs` therefore derives induction on a *set*
of natural numbers (`SetInduction`, `IntervalInduction`) from the
well-foundedness of strict inclusion, and with it builds, for a sequence of
sequences, the function of its prefixes' concatenations (`RunsExist`,
`RunsUnique`). `FlattenSeq` is that function's last value (`FlattenRuns`), from
which the other lemmas follow: what appending
to a sequence of frames, taking its head, or cutting a frame does to the
samples inside.

Only model-checked:

- the liveness properties (fairness and ENABLED are beyond the prover):
  `WaitForDrainEnds`, `AudioLeaves`, `ResponseEnds`, `CancelledWorkersReturn`,
  `SessionEnds`, `CancelEndsReply`, and, given `HubGoesOn`, `SessionsEnd` and
  `RequestsReturn`;
- the three counterexamples.

## 6. What is not modelled, and why

- `Exists` and rooms on other nodes: look-ups, which change no state of a room.
- `use-room-stream`, the session timer, createRoom, toggleMic and the device
  lists of the browser: what they show changes nothing on the server. The list of transcripts is
  replaced by key, so the inversion `LiveInOrder` allows can put an older
  interim text over a newer one until the next update.
- The contents of audio and text beyond what the properties tell apart: fade
  curves, RMS, float rounding, `Resample` of a single frame.
- WebRTC, Opus, ONNX inference, the three services and the Redis server:
  external.
- Logging, configuration, registries, stubs, routes, formatting, and the visual
  components: no state that changes in operation. The `Hub` types of
  `go/transcript` and `go/sessiondebug` are no longer constructed.
