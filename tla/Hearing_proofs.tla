--------------------------- MODULE Hearing_proofs ---------------------------
(***************************************************************************)
(* Proofs about the three parts of Hearing.                                *)
(*                                                                         *)
(* The detector, for every window, frame and silence length: its timer is  *)
(* kept in samples, with sample 0 for "not running"; what the properties   *)
(* say is counted in windows since the silence began.  The invariant ties  *)
(* the two together: while the timer runs, the samples it has seen are     *)
(* those windows, less the first.                                          *)
(*                                                                         *)
(* The session, for every number of messages: what the loop got, what the  *)
(* channel holds and what the read loop offers, followed by the texts      *)
(* still in transit, are the texts sent.                                   *)
(*                                                                         *)
(* The inbound audio, for every size of packet, frame and channel: frames  *)
(* start at multiples of FrameBlocks, the pending blocks are the beginning *)
(* of the next frame, and the last frame taken, the queue, the frames on   *)
(* offer and the pending blocks put together are increasing and, with the  *)
(* dropped blocks, complete.                                               *)
(***************************************************************************)
EXTENDS Hearing, Seqs_proofs, TLAPS

detectorVars == <<loop, vadVars, userSpeaking>>

\* Analyze runs only on a full window, and leaves less than one: the frame
\* that filled it cannot fill a second one.
WindowIsWhole ==
  /\ vadPending \in Nat
  /\ loop \in LoopStates
  /\ IF loop = "analyze"
     THEN WindowSize <= vadPending /\ vadPending < 2 * WindowSize
     ELSE vadPending < WindowSize

\* The orchestrator's flag lags behind the detector by the events of the frame
\* it is handling, and these are one at most.
FlagLagsByEvents ==
  /\ triggered \in BOOLEAN /\ userSpeaking \in BOOLEAN
  /\ events = <<>> \/ events = <<"SpeechStart">> \/ events = <<"SpeechEnd">>
  /\ loop \in {"start", "select", "analyze"} => userSpeaking = triggered
  /\ loop = "analyze" => events = <<>>
  /\ loop = "handle" =>
       triggered = IF events = <<>> THEN userSpeaking
                   ELSE events = <<"SpeechStart">>

\* The timer runs only during speech, from a silent window on, and has seen
\* the windows since then.
TimerCountsWindows ==
  /\ currSample \in Nat /\ tempEnd \in Nat /\ quiet \in Nat
  /\ tempEnd # 0 => /\ triggered
                    /\ quiet # 0
                    /\ currSample - tempEnd = (quiet - 1) * WindowSize
  /\ triggered /\ tempEnd = 0 => quiet = 0

\* Before Run starts the detector is as NewSession left it.
FreshAtStart == loop = "start" => verdict = "none" /\ ~triggered

DetectorInv ==
  /\ WindowIsWhole
  /\ FlagLagsByEvents
  /\ TimerCountsWindows
  /\ FreshAtStart
  /\ DetectorIsPrompt

-----------------------------------------------------------------------------
\* One window more is WindowSize samples more.
LEMMA OneWindowMore ==
  ASSUME NEW n \in Nat
  PROVE  /\ n # 0 => ((n + 1) - 1) * WindowSize
                       = (n - 1) * WindowSize + WindowSize
         /\ (1 - 1) * WindowSize = 0
BY HearingConstants

\* The initial state satisfies the invariant.
LEMMA DetectorInit == Init => DetectorInv
<1> SUFFICES ASSUME Init PROVE DetectorInv
  OBVIOUS
<1> USE DEF Init
<1>1. WindowIsWhole
  BY HearingConstants DEF WindowIsWhole, LoopStates
<1>2. FlagLagsByEvents
  BY DEF FlagLagsByEvents
<1>3. TimerCountsWindows /\ FreshAtStart /\ DetectorIsPrompt
  BY DEF TimerCountsWindows, FreshAtStart, DetectorIsPrompt
<1> QED
  BY <1>1, <1>2, <1>3 DEF DetectorInv

\* The reader, the session, results and Stop do not touch the detector.
LEMMA DetectorUntouched ==
  ASSUME DetectorInv, UNCHANGED detectorVars
  PROVE  DetectorInv'
BY DEF DetectorInv, detectorVars, vadVars, WindowIsWhole, FlagLagsByEvents,
       TimerCountsWindows, FreshAtStart, DetectorIsPrompt

\* Run returns, from where the flag follows the detector or has not to.
LEMMA LoopStops ==
  ASSUME DetectorInv, RunFails \/ RunReturns
  PROVE  DetectorInv'
<1> loop' = "stopped" /\ loop \in {"start", "select"}
    /\ UNCHANGED <<vadVars, userSpeaking>>
  BY DEF RunFails, RunReturns
<1> QED
  BY DEF DetectorInv, vadVars, WindowIsWhole, FlagLagsByEvents,
         TimerCountsWindows, FreshAtStart, DetectorIsPrompt, LoopStates

\* Run starts: Reset changes nothing the first time.
LEMMA LoopStarts ==
  ASSUME DetectorInv, RunStarts
  PROVE  DetectorInv'
<1> USE DEF DetectorInv, RunStarts
<1>1. WindowIsWhole'
  BY HearingConstants DEF WindowIsWhole, LoopStates
<1>2. FlagLagsByEvents'
  BY DEF FlagLagsByEvents, FreshAtStart
<1>3. TimerCountsWindows' /\ FreshAtStart' /\ DetectorIsPrompt'
  BY DEF TimerCountsWindows, FreshAtStart, DetectorIsPrompt
<1> QED
  BY <1>1, <1>2, <1>3

\* A frame joins the pending samples; two windows cannot come out of it.
LEMMA FrameTaken ==
  ASSUME DetectorInv, TakeFrame
  PROVE  DetectorInv'
<1> USE DEF DetectorInv, TakeFrame
<1>1. WindowIsWhole'
  BY HearingConstants DEF WindowIsWhole, LoopStates
<1>2. FlagLagsByEvents'
  BY DEF FlagLagsByEvents
<1>3. TimerCountsWindows' /\ FreshAtStart' /\ DetectorIsPrompt'
  BY DEF TimerCountsWindows, FreshAtStart, DetectorIsPrompt
<1> QED
  BY <1>1, <1>2, <1>3

\* The loop handles the events of a frame.
LEMMA EventsHandled ==
  ASSUME DetectorInv, HandleEvents
  PROVE  DetectorInv'
<1> USE DEF DetectorInv, HandleEvents, vadVars
<1>1. WindowIsWhole'
  BY DEF WindowIsWhole, LoopStates
<1>2. FlagLagsByEvents'
  <2>1. CASE events = <<>>
    BY <2>1 DEF FlagLagsByEvents
  <2>2. CASE events = <<"SpeechStart">>
    BY <2>2 DEF FlagLagsByEvents, Last
  <2>3. CASE events = <<"SpeechEnd">>
    BY <2>3 DEF FlagLagsByEvents, Last
  <2> QED
    BY <2>1, <2>2, <2>3 DEF FlagLagsByEvents
<1>3. TimerCountsWindows' /\ FreshAtStart' /\ DetectorIsPrompt'
  BY DEF TimerCountsWindows, FreshAtStart, DetectorIsPrompt
<1> QED
  BY <1>1, <1>2, <1>3

\* Whatever becomes of a window, less than one is left, and the frame is
\* ready to be handled.
LEMMA WindowTaken ==
  ASSUME DetectorInv, Analyze
  PROVE  /\ loop = "analyze" /\ loop' = "handle"
         /\ WindowIsWhole'
         /\ UNCHANGED userSpeaking
<1>1. /\ TakeWindow
      /\ loop' = "handle"
         \/ loop' = IF vadPending' >= WindowSize THEN "analyze" ELSE "handle"
  BY DEF Analyze, InferFails, SpeechResumes, SpeechStarts, SilenceGoesOn,
         SpeechEnds, NothingHappens, Judged
<1>2. vadPending' \in Nat /\ vadPending' < WindowSize
  BY <1>1, HearingConstants DEF TakeWindow, DetectorInv, WindowIsWhole
<1>3. loop' = "handle"
  BY <1>1, <1>2, HearingConstants
<1> QED
  BY <1>1, <1>2, <1>3 DEF TakeWindow, WindowIsWhole, LoopStates

\* How a judgement moves the sample counter and the count of windows.
LEMMA JudgedCounts ==
  ASSUME DetectorInv, NEW outcome \in Outcomes, Judged(outcome)
  PROVE  /\ currSample' = currSample + WindowSize
         /\ currSample' \in Nat /\ currSample' # 0
         /\ verdict' = outcome
         /\ quiet' \in Nat
         /\ quiet' = IF outcome = "high" \/ (outcome = "mid" /\ quiet = 0)
                     THEN 0 ELSE quiet + 1
BY HearingConstants DEF DetectorInv, TimerCountsWindows, Judged

\* Speech is reported as ended only after enough silent windows.
LEMMA EndIsLate ==
  ASSUME DetectorInv, SpeechEnds
  PROVE  verdict' = "low" /\ (quiet' - 1) * WindowSize >= MinSilence
<1>1. Judged("low") /\ triggered /\ currSample' - SilentSince >= MinSilence
  BY DEF SpeechEnds
<1>2. /\ currSample' = currSample + WindowSize /\ currSample' \in Nat
      /\ verdict' = "low" /\ quiet' = quiet + 1
  BY <1>1, JudgedCounts DEF Outcomes
<1>3. tempEnd # 0
  BY <1>1, <1>2, HearingConstants DEF SilentSince
<1>4. /\ quiet \in Nat /\ quiet # 0 /\ tempEnd \in Nat /\ currSample \in Nat
      /\ currSample - tempEnd = (quiet - 1) * WindowSize
  BY <1>3 DEF DetectorInv, TimerCountsWindows
<1>5. (quiet' - 1) * WindowSize = (quiet - 1) * WindowSize + WindowSize
  BY <1>2, <1>4, OneWindowMore
<1>6. currSample' - SilentSince = (quiet - 1) * WindowSize + WindowSize
  BY <1>2, <1>3, <1>4, HearingConstants DEF SilentSince
<1> QED
  BY <1>1, <1>2, <1>5, <1>6

\* While silence is too short the timer and the count of windows agree.
LEMMA SilenceIsCounted ==
  ASSUME DetectorInv, SilenceGoesOn
  PROVE  TimerCountsWindows' /\ DetectorIsPrompt'
<1>1. /\ Judged("low") /\ triggered /\ triggered'
      /\ tempEnd' = SilentSince /\ currSample' - SilentSince < MinSilence
  BY DEF SilenceGoesOn, DetectorInv, FlagLagsByEvents
<1>2. /\ currSample' = currSample + WindowSize /\ currSample' \in Nat
      /\ currSample' # 0 /\ verdict' = "low" /\ quiet' = quiet + 1
      /\ quiet' \in Nat
  BY <1>1, JudgedCounts DEF Outcomes
<1>3. /\ quiet \in Nat /\ tempEnd \in Nat /\ currSample \in Nat
      /\ tempEnd # 0 => /\ quiet # 0
                        /\ currSample - tempEnd = (quiet - 1) * WindowSize
      /\ tempEnd = 0 => quiet = 0
  BY <1>1 DEF DetectorInv, TimerCountsWindows
<1>4. /\ tempEnd' \in Nat /\ tempEnd' # 0 /\ quiet' # 0
      /\ currSample' - tempEnd' = (quiet' - 1) * WindowSize
  <2>1. CASE tempEnd = 0
    <3>1. tempEnd' = currSample' /\ quiet' = 1
      BY <1>1, <1>2, <1>3, <2>1 DEF SilentSince
    <3>2. (quiet' - 1) * WindowSize = 0
      BY <3>1, OneWindowMore
    <3> QED
      BY <1>2, <3>1, <3>2
  <2>2. CASE tempEnd # 0
    <3>1. tempEnd' = tempEnd
      BY <1>1, <2>2 DEF SilentSince
    <3>2. (quiet' - 1) * WindowSize = (quiet - 1) * WindowSize + WindowSize
      BY <1>2, <1>3, <2>2, OneWindowMore
    <3> QED
      BY <1>2, <1>3, <2>2, <3>1, <3>2, HearingConstants
  <2> QED
    BY <2>1, <2>2
<1>5. (quiet' - 1) * WindowSize < MinSilence
  BY <1>1, <1>4
<1> QED
  BY <1>1, <1>2, <1>4, <1>5 DEF TimerCountsWindows, DetectorIsPrompt

\* Every outcome of a window preserves the invariant.
LEMMA WindowJudged ==
  ASSUME DetectorInv, Analyze
  PROVE  DetectorInv'
<1>1. loop = "analyze" /\ loop' = "handle" /\ WindowIsWhole' /\ FreshAtStart'
      /\ UNCHANGED userSpeaking /\ events = <<>>
  BY WindowTaken DEF FreshAtStart, DetectorInv, FlagLagsByEvents
<1>2. triggered \in BOOLEAN /\ userSpeaking \in BOOLEAN
      /\ userSpeaking = triggered
  BY <1>1 DEF DetectorInv, FlagLagsByEvents
<1>3. /\ currSample \in Nat /\ tempEnd \in Nat /\ quiet \in Nat
      /\ tempEnd # 0 => triggered /\ quiet # 0
      /\ triggered /\ tempEnd = 0 => quiet = 0
  BY DEF DetectorInv, TimerCountsWindows
<1> SUFFICES FlagLagsByEvents' /\ TimerCountsWindows' /\ DetectorIsPrompt'
  BY <1>1 DEF DetectorInv
<1>4. CASE InferFails
  BY <1>1, <1>2, <1>4 DEF InferFails, DetectorInv, FlagLagsByEvents,
     TimerCountsWindows, DetectorIsPrompt
<1>5. CASE SpeechResumes
  <2>1. /\ currSample' \in Nat /\ verdict' = "high" /\ quiet' = 0
        /\ tempEnd' = 0 /\ triggered /\ triggered' /\ events' = events
    BY <1>3, <1>5, JudgedCounts DEF SpeechResumes, Outcomes
  <2> QED
    BY <1>1, <1>2, <2>1 DEF FlagLagsByEvents, TimerCountsWindows,
       DetectorIsPrompt
<1>6. CASE SpeechStarts
  <2>1. /\ currSample' \in Nat /\ verdict' = "high" /\ quiet' = 0
        /\ tempEnd' = 0 /\ ~triggered /\ triggered' = TRUE
        /\ events' = <<"SpeechStart">>
    BY <1>1, <1>6, JudgedCounts DEF SpeechStarts, Outcomes
  <2> QED
    BY <1>1, <1>2, <2>1 DEF FlagLagsByEvents, TimerCountsWindows,
       DetectorIsPrompt
<1>7. CASE SilenceGoesOn
  <2>1. FlagLagsByEvents'
    BY <1>1, <1>2, <1>7 DEF SilenceGoesOn, FlagLagsByEvents
  <2> QED
    BY <1>7, <2>1, SilenceIsCounted
<1>8. CASE SpeechEnds
  <2>1. /\ currSample' \in Nat /\ verdict' = "low" /\ quiet' \in Nat
        /\ tempEnd' = 0 /\ triggered /\ triggered' = FALSE
        /\ events' = <<"SpeechEnd">>
    BY <1>1, <1>8, JudgedCounts DEF SpeechEnds, Outcomes
  <2>2. events' # <<>> /\ events' # <<"SpeechStart">>
    BY <2>1
  <2> QED
    BY <1>1, <1>2, <2>1, <2>2 DEF FlagLagsByEvents, TimerCountsWindows,
       DetectorIsPrompt
<1>9. CASE NothingHappens
  <2>1. triggered' = triggered /\ tempEnd' = tempEnd /\ events' = events
    BY <1>9 DEF NothingHappens
  <2>2. FlagLagsByEvents'
    BY <1>1, <1>2, <2>1 DEF FlagLagsByEvents
  <2>3. CASE Judged("high") /\ tempEnd = 0 /\ triggered
    <3>1. currSample' \in Nat /\ verdict' = "high" /\ quiet' = 0
      BY <2>3, JudgedCounts DEF Outcomes
    <3> QED
      BY <2>1, <2>2, <2>3, <3>1 DEF TimerCountsWindows, DetectorIsPrompt
  <2>4. CASE Judged("low") /\ ~triggered
    <3>1. currSample' \in Nat /\ verdict' = "low" /\ quiet' \in Nat
      BY <2>4, JudgedCounts DEF Outcomes
    <3> QED
      BY <1>3, <2>1, <2>2, <2>4, <3>1 DEF TimerCountsWindows,
         DetectorIsPrompt
  <2>5. CASE Judged("mid")
    <3>1. /\ currSample' = currSample + WindowSize /\ currSample' \in Nat
          /\ verdict' = "mid" /\ quiet' \in Nat
          /\ quiet' = IF quiet = 0 THEN 0 ELSE quiet + 1
      BY <2>5, JudgedCounts DEF Outcomes
    <3>2. tempEnd # 0 => /\ quiet' # 0
                         /\ currSample' - tempEnd' = (quiet' - 1) * WindowSize
      <4> SUFFICES ASSUME tempEnd # 0
                   PROVE  /\ quiet' # 0
                          /\ currSample' - tempEnd'
                               = (quiet' - 1) * WindowSize
        OBVIOUS
      <4>1. quiet # 0 /\ currSample - tempEnd = (quiet - 1) * WindowSize
        BY DEF DetectorInv, TimerCountsWindows
      <4>2. quiet' = quiet + 1
        BY <3>1, <4>1
      <4>3. (quiet' - 1) * WindowSize = (quiet - 1) * WindowSize + WindowSize
        BY <1>3, <4>1, <4>2, OneWindowMore
      <4> QED
        BY <1>3, <2>1, <3>1, <4>1, <4>2, <4>3, HearingConstants
    <3> QED
      BY <1>3, <2>1, <2>2, <3>1, <3>2 DEF TimerCountsWindows,
         DetectorIsPrompt
  <2> QED
    BY <1>9, <2>3, <2>4, <2>5 DEF NothingHappens
<1> QED
  BY <1>4, <1>5, <1>6, <1>7, <1>8, <1>9 DEF Analyze

\* Every step preserves the invariant.
LEMMA DetectorNext ==
  ASSUME DetectorInv, [Next]_vars
  PROVE  DetectorInv'
<1>1. ASSUME NEW size \in PacketBlocks, ReadPacket(size) PROVE DetectorInv'
  BY <1>1, DetectorUntouched DEF ReadPacket, detectorVars
<1>2. CASE Enqueue \/ DropFrame \/ ReaderStops
  BY <1>2, DetectorUntouched DEF Enqueue, DropFrame, ReaderStops, detectorVars
<1>3. CASE RunStarts
  BY <1>3, LoopStarts
<1>4. CASE RunFails \/ RunReturns
  BY <1>4, LoopStops
<1>5. CASE TakeFrame
  BY <1>5, FrameTaken
<1>6. CASE Analyze
  BY <1>6, WindowJudged
<1>7. CASE HandleEvents
  BY <1>7, EventsHandled
<1>8. CASE TakeResult \/ ReadMessage \/ OfferResult
  BY <1>8, DetectorUntouched DEF TakeResult, ReadMessage, OfferResult,
     detectorVars
<1>9. ASSUME NEW kind \in Kinds, ServiceSends(kind) PROVE DetectorInv'
  BY <1>9, DetectorUntouched DEF ServiceSends, detectorVars
<1>10. CASE ReadLoopCancelled \/ ReadFails \/ Cancel
  BY <1>10, DetectorUntouched DEF ReadLoopCancelled, ReadFails, EndReadLoop,
     Cancel, detectorVars
<1>11. CASE UNCHANGED vars
  BY <1>11, DetectorUntouched DEF vars, detectorVars
<1> QED
  BY <1>1, <1>2, <1>3, <1>4, <1>5, <1>6, <1>7, <1>8, <1>9, <1>10, <1>11
     DEF Next

-----------------------------------------------------------------------------
\* The invariant of the detector holds in every reachable state, for every
\* length of window, frame and silence.
THEOREM DetectorInductive == Spec => []DetectorInv
BY DetectorInit, DetectorNext, PTL DEF Spec

\* At most one event comes out of a frame, and between frames the
\* orchestrator's userSpeaking is the detector's (Analyze, onAudio).
THEOREM FlagIsRight == Spec => []FlagFollowsDetector
<1>1. DetectorInv => FlagFollowsDetector
  <2> SUFFICES ASSUME FlagLagsByEvents PROVE FlagFollowsDetector
    BY DEF DetectorInv
  <2>1. Len(events) <= 1
    <3>1. events = <<>> \/ events = <<"SpeechStart">>
          \/ events = <<"SpeechEnd">>
      BY DEF FlagLagsByEvents
    <3> QED
      BY <3>1
  <2>2. loop = "select" => loop \in {"start", "select", "analyze"}
    OBVIOUS
  <2>3. loop = "select" => userSpeaking = triggered
    BY <2>2, Zenon DEF FlagLagsByEvents
  <2> QED
    BY <2>1, <2>3, Zenon DEF FlagFollowsDetector
<1> QED
  BY <1>1, DetectorInductive, PTL

\* An end of speech is reported as soon as the silence was long enough, and a
\* start with its first window (step).
THEOREM PromptReports == Spec => []DetectorIsPrompt
<1>1. DetectorInv => DetectorIsPrompt
  BY DEF DetectorInv
<1> QED
  BY <1>1, DetectorInductive, PTL

\* An end of speech is reported on a silent window only, and only after
\* MinSilence samples of silence (step).
THEOREM NoEarlyEnd == Spec => EndOnlyAfterSilence
<1> DEFINE A == loop = "analyze" /\ triggered /\ ~triggered' =>
                  verdict' = "low" /\ (quiet' - 1) * WindowSize >= MinSilence
<1>1. DetectorInv /\ [Next]_vars => [A]_vars
  <2> SUFFICES ASSUME DetectorInv, [Next]_vars,
                      loop = "analyze", triggered, ~triggered'
               PROVE  verdict' = "low"
                      /\ (quiet' - 1) * WindowSize >= MinSilence
    OBVIOUS
  <2>1. Analyze
    BY DEF Next, vars, vadVars, ReadPacket, Enqueue, DropFrame, ReaderStops,
       RunStarts, RunFails, TakeFrame, HandleEvents, TakeResult, RunReturns,
       ServiceSends, ReadMessage, OfferResult, ReadLoopCancelled, ReadFails,
       EndReadLoop, Cancel
  <2>2. SpeechEnds
    BY <2>1 DEF Analyze, InferFails, SpeechResumes, SpeechStarts,
       SilenceGoesOn, NothingHappens
  <2> QED
    BY <2>2, EndIsLate
<1> QED
  BY <1>1, DetectorInductive, PTL DEF Spec, EndOnlyAfterSilence

-----------------------------------------------------------------------------
(* The transcripts of a session.                                           *)

\* One sequence per message: the message, or nothing.
TextParts(messages) ==
  [i \in 1 .. Len(messages) |->
     IF messages[i].kind = "text" THEN <<messages[i]>> ELSE <<>>]

\* What one message adds.
TextPart(m) == IF m.kind = "text" THEN <<m>> ELSE <<>>

\* They are sequences of messages.
LEMMA TextPartsType ==
  ASSUME NEW s \in Seq(Messages)
  PROVE  /\ TextParts(s) \in Seq(Seq(Messages))
         /\ Texts(s) = FlattenSeq(TextParts(s))
         /\ Texts(s) \in Seq(Messages)
         /\ \A m \in Messages : TextPart(m) \in Seq(Messages)
<1>1. ASSUME NEW m \in Messages PROVE TextPart(m) \in Seq(Messages)
  BY <1>1 DEF TextPart
<1>2. TextParts(s) \in Seq(Seq(Messages))
  <2>1. \A i \in 1 .. Len(s) : s[i] \in Messages
    OBVIOUS
  <2> QED BY <1>1, <2>1 DEF TextParts, TextPart
<1>3. Texts(s) = FlattenSeq(TextParts(s))
  BY DEF Texts, TextParts
<1> QED BY <1>1, <1>2, <1>3, FlattenType

\* A message sent adds its text at the end.
LEMMA TextsAppend ==
  ASSUME NEW s \in Seq(Messages), NEW m \in Messages
  PROVE  Texts(Append(s, m)) = Texts(s) \o TextPart(m)
<1>1. Append(s, m) \in Seq(Messages)
  BY AppendProperties
<1>2. TextParts(Append(s, m)) = Append(TextParts(s), TextPart(m))
  BY DEF TextParts, TextPart
<1> QED BY <1>1, <1>2, TextPartsType, FlattenAppend

\* A message read takes its text from the front.
LEMMA TextsHead ==
  ASSUME NEW s \in Seq(Messages), s # <<>>
  PROVE  Texts(s) = TextPart(Head(s)) \o Texts(Tail(s))
<1>1. Tail(s) \in Seq(Messages) /\ Head(s) = s[1] /\ Len(s) # 0
  BY HeadTailProperties
<1>2. TextParts(s) # <<>> /\ Head(TextParts(s)) = TextPart(Head(s))
  BY <1>1 DEF TextParts, TextPart
<1>3. Tail(TextParts(s)) = TextParts(Tail(s))
  BY DEF TextParts
<1> QED BY <1>1, <1>2, <1>3, TextPartsType, FlattenHeadTail

\* What the loop took, what waits in the channel and what the read loop offers.
Got == heard \o results \o offering

\* The types, and what the read loop holds between two of its steps.
SessionTypes ==
  /\ sent \in Seq(Messages) /\ inTransit \in Seq(Messages)
  /\ heard \in Seq(Messages) /\ results \in Seq(Messages)
  /\ offering \in Seq(Messages)
  /\ session \in {"none", "read"} => offering = <<>>
  /\ loop = "start" => session = "none"

\* The transcripts still to come complete what the loop got.
NoneIsMissing ==
  /\ session # "ended" => Got \o Texts(inTransit) = Texts(sent)
  /\ \E rest \in Seq(Messages) : Got \o rest = Texts(sent)

\* The invariant of the session.
SessionInv == SessionTypes /\ NoneIsMissing

\* A step that leaves the messages where they are.
LEMMA SessionUntouched ==
  ASSUME SessionInv, UNCHANGED <<sent, inTransit, heard, results, offering>>,
         \/ session' = session
         \/ session = "none" /\ session' = "read"
         \/ session' = "ended" /\ session # "none",
         loop' = "start" => loop = "start" /\ session' = session
  PROVE  SessionInv'
BY DEF SessionInv, SessionTypes, NoneIsMissing, Got, Texts

\* The service sends: one message more in transit.
LEMMA SentKeepsOrder ==
  ASSUME SessionInv, NEW kind \in Kinds, ServiceSends(kind) PROVE SessionInv'
<1> DEFINE m == [id |-> Len(sent) + 1, kind |-> kind]
<1>1. /\ sent \in Seq(Messages) /\ inTransit \in Seq(Messages)
      /\ Got \in Seq(Messages) /\ session # "ended"
      /\ Got \o Texts(inTransit) = Texts(sent)
  <2>1. session # "ended"
    BY DEF ServiceSends
  <2> QED
    BY <2>1 DEF SessionInv, SessionTypes, NoneIsMissing, Got
<1>2. m \in Messages
  BY <1>1, HearingConstants DEF ServiceSends, Messages
<1>3. sent' = Append(sent, m) /\ inTransit' = Append(inTransit, m)
      /\ UNCHANGED <<Got, session, heard, results, offering, loop>>
  BY DEF ServiceSends, Got
<1> HIDE DEF m
<1>4. /\ Texts(sent)' = Texts(sent) \o TextPart(m)
      /\ Texts(inTransit)' = Texts(inTransit) \o TextPart(m)
  BY <1>1, <1>2, <1>3, TextsAppend
<1>5. /\ Texts(inTransit) \in Seq(Messages) /\ TextPart(m) \in Seq(Messages)
      /\ Texts(inTransit)' \in Seq(Messages)
  <2>1. inTransit' \in Seq(Messages) BY <1>1, <1>2, <1>3, AppendProperties
  <2>2. Texts(inTransit') \in Seq(Messages) BY <2>1, TextPartsType
  <2>3. Texts(inTransit)' = Texts(inTransit') BY DEF Texts
  <2> QED BY <1>1, <1>2, <2>2, <2>3, TextPartsType
<1>6. Got' \o Texts(inTransit)' = Texts(sent)'
  <2>1. Got \o (Texts(inTransit) \o TextPart(m))
          = (Got \o Texts(inTransit)) \o TextPart(m)
    <3> DEFINE x == Got  y == Texts(inTransit)  z == TextPart(m)
    <3>1. x \in Seq(Messages) /\ y \in Seq(Messages) /\ z \in Seq(Messages)
      BY <1>1, <1>5
    <3> HIDE DEF x, y, z
    <3>2. x \o (y \o z) = (x \o y) \o z
      BY <3>1, ConcatAssociative
    <3> QED
      BY <3>2 DEF x, y, z
  <2>2. Got' = Got
    BY <1>3
  <2> QED
    BY <1>1, <1>4, <2>1, <2>2
<1>7. SessionTypes'
  BY <1>1, <1>2, <1>3, AppendProperties DEF SessionInv, SessionTypes
<1> QED BY <1>5, <1>6, <1>7 DEF SessionInv, NoneIsMissing

\* A message is read: its text, if any, is offered next.
LEMMA ReadKeepsOrder ==
  ASSUME SessionInv, ReadMessage PROVE SessionInv'
<1> DEFINE m == Head(inTransit)
<1>1. /\ inTransit \in Seq(Messages) /\ inTransit # <<>>
      /\ inTransit' = Tail(inTransit) /\ session = "read" /\ offering = <<>>
      /\ heard \in Seq(Messages) /\ results \in Seq(Messages)
      /\ UNCHANGED <<sent, heard, results, loop>> /\ loop # "start"
  BY DEF SessionInv, SessionTypes, ReadMessage
<1>2. m \in Messages /\ inTransit' \in Seq(Messages)
  BY <1>1, HeadTailProperties
<1>3. Texts(inTransit) = TextPart(m) \o Texts(inTransit')
  BY <1>1, TextsHead
<1>4. offering' = TextPart(m)
      /\ session' = IF m.kind = "text" THEN "offer" ELSE "read"
  BY <1>1 DEF ReadMessage, TextPart
<1> HIDE DEF m
<1>5. TextPart(m) \in Seq(Messages) /\ Texts(inTransit') \in Seq(Messages)
  BY <1>1, <1>2, TextPartsType
<1>6. SessionTypes'
  BY <1>1, <1>2, <1>4, <1>5 DEF SessionInv, SessionTypes, TextPart
<1>7. Got' \o Texts(inTransit)' = Texts(sent)'
  <2> DEFINE a == heard \o results
  <2>1. a \in Seq(Messages) /\ Got = a \o <<>> /\ Got' = a \o TextPart(m)
    BY <1>1, <1>4 DEF Got
  <2>2. Got \o Texts(inTransit) = Texts(sent)
    BY <1>1 DEF SessionInv, NoneIsMissing
  <2> HIDE DEF a
  <2>3. Got = a
    BY <2>1
  <2>4. (a \o TextPart(m)) \o Texts(inTransit')
          = a \o (TextPart(m) \o Texts(inTransit'))
    BY <1>5, <2>1
  <2>5. Texts(sent)' = Texts(sent)
    BY <1>1 DEF Texts
  <2>6. Texts(inTransit)' = Texts(inTransit')
    BY DEF Texts
  <2> QED BY <1>3, <2>1, <2>2, <2>3, <2>4, <2>5, <2>6
<1>8. Texts(inTransit)' \in Seq(Messages)
  BY <1>5 DEF Texts
<1> QED BY <1>6, <1>7, <1>8 DEF SessionInv, NoneIsMissing

\* The result goes from the read loop into the channel, or from the channel to
\* the loop: what was got in all stays the same.
LEMMA HandedOn ==
  ASSUME SessionInv, OfferResult \/ TakeResult PROVE SessionInv'
<1>1. heard \in Seq(Messages) /\ results \in Seq(Messages)
      /\ offering \in Seq(Messages)
  BY DEF SessionInv, SessionTypes
<1>2. Got' = Got /\ SessionTypes'
  <2>1. CASE OfferResult
    <3>1. results' = results \o offering /\ offering' = <<>> /\ heard' = heard
          /\ UNCHANGED <<sent, inTransit, loop>> /\ session' = "read"
          /\ loop # "start"
      BY <2>1 DEF OfferResult, SessionInv, SessionTypes
    <3>2. results' \in Seq(Messages)
      BY <1>1, <3>1
    <3>3. Got' = Got
      BY <1>1, <3>1 DEF Got
    <3> QED BY <3>1, <3>2, <3>3 DEF SessionInv, SessionTypes
  <2>2. CASE TakeResult
    <3>1. /\ results # <<>> /\ results' = Tail(results)
          /\ heard' = Append(heard, Head(results))
          /\ UNCHANGED <<sent, inTransit, session, offering, loop>>
      BY <2>2 DEF TakeResult, sttVars
    <3>2. /\ results' \in Seq(Messages) /\ heard' \in Seq(Messages)
          /\ heard' \o results' = heard \o results
      BY <1>1, <3>1
    <3> QED BY <3>1, <3>2 DEF SessionInv, SessionTypes, Got
  <2> QED BY <2>1, <2>2
<1>3. UNCHANGED <<sent, inTransit>>
      /\ (session' = "ended" <=> session = "ended")
  BY DEF OfferResult, TakeResult, sttVars
<1> QED BY <1>2, <1>3 DEF SessionInv, NoneIsMissing, Texts

\* Every step keeps the transcripts in order.
LEMMA SessionNext == ASSUME SessionInv, [Next]_vars PROVE SessionInv'
<1>1. ASSUME NEW size \in PacketBlocks, ReadPacket(size) PROVE SessionInv'
  BY <1>1, SessionUntouched DEF ReadPacket, sttVars
<1>2. CASE Enqueue \/ DropFrame \/ ReaderStops \/ RunFails \/ TakeFrame
  BY <1>2, SessionUntouched DEF Enqueue, DropFrame, ReaderStops, RunFails,
     TakeFrame, sttVars
<1>3. CASE RunStarts
  <2>1. session = "none"
    BY <1>3 DEF RunStarts, SessionInv, SessionTypes
  <2> QED
    BY <1>3, <2>1, SessionUntouched DEF RunStarts
<1>4. CASE Analyze
  BY <1>4, SessionUntouched DEF Analyze, InferFails, SpeechResumes,
     SpeechStarts, SilenceGoesOn, SpeechEnds, NothingHappens, Judged,
     TakeWindow, sttVars
<1>5. CASE HandleEvents \/ RunReturns \/ Cancel
  BY <1>5, SessionUntouched DEF HandleEvents, RunReturns, Cancel, sttVars
<1>6. CASE ReadLoopCancelled \/ ReadFails
  <2>1. loop # "start" /\ session # "none"
    BY <1>6 DEF ReadLoopCancelled, ReadFails, SessionInv, SessionTypes
  <2> QED
    BY <1>6, <2>1, SessionUntouched DEF ReadLoopCancelled, ReadFails,
       EndReadLoop
<1>7. CASE UNCHANGED vars
  BY <1>7, SessionUntouched DEF vars, sttVars
<1> QED
  BY <1>1, <1>2, <1>3, <1>4, <1>5, <1>6, <1>7, SentKeepsOrder, ReadKeepsOrder,
     HandedOn DEF Next
\* At first there is nothing to be heard.
LEMMA SessionInit == Init => SessionInv
<1> SUFFICES ASSUME Init PROVE SessionInv
  OBVIOUS
<1>1. /\ sent = <<>> /\ inTransit = <<>> /\ heard = <<>> /\ results = <<>>
      /\ offering = <<>> /\ session = "none"
  BY DEF Init
<1>2. Got = <<>>
  BY <1>1 DEF Got
<1>3. Texts(<<>>) \in Seq(Messages)
  <2>1. <<>> \in Seq(Messages)
    OBVIOUS
  <2> QED
    BY <2>1, TextPartsType
<1>4. <<>> \o Texts(<<>>) = Texts(<<>>)
  BY <1>3
<1> QED
  BY <1>1, <1>2, <1>3, <1>4 DEF SessionInv, SessionTypes, NoneIsMissing

\* What a session has brought to the loop is always the beginning of what the
\* service has said, and all of it while the session lives: readLoop neither
\* reorders nor loses a transcript, however full its channel is.
THEOREM TranscriptsArriveInOrder == Spec => []TranscriptsInOrder
<1>1. SessionInv => TranscriptsInOrder
  <2> SUFFICES ASSUME SessionInv PROVE TranscriptsInOrder
    OBVIOUS
  <2> DEFINE got == heard \o results \o offering
  <2>1. got \in Seq(Messages) /\ got = Got
    BY DEF SessionInv, SessionTypes, Got
  <2>2. PICK rest \in Seq(Messages) : got \o rest = Texts(sent)
    BY <2>1 DEF SessionInv, NoneIsMissing
  <2>3. session # "ended" => got \o Texts(inTransit) = Texts(sent)
    BY <2>1 DEF SessionInv, NoneIsMissing
  <2> HIDE DEF got
  <2>4. IsPrefix(got, got \o rest)
    BY <2>1 DEF IsPrefix
  <2> QED
    BY <2>2, <2>3, <2>4 DEF TranscriptsInOrder, got
<1> QED
  BY <1>1, SessionInit, SessionNext, PTL DEF Spec

-----------------------------------------------------------------------------
(* The inbound audio.                                                      *)

\* The elements of s grow.
Increasing(s) == \A i, j \in 1..Len(s) : i < j => s[i] < s[j]

\* Two increasing sequences make one if the first ends before the second
\* begins, and only then.
LEMMA ConcatIncreasing ==
  ASSUME NEW s \in Seq(Nat), NEW t \in Seq(Nat)
  PROVE  Increasing(s \o t) <=>
           /\ Increasing(s) /\ Increasing(t)
           /\ \A a \in ToSet(s), b \in ToSet(t) : a < b
<1> DEFINE u == s \o t
<1>1. /\ u \in Seq(Nat) /\ Len(u) = Len(s) + Len(t)
      /\ \A i \in 1..Len(s) : u[i] = s[i]
      /\ \A i \in 1..Len(t) : u[Len(s) + i] = t[i]
      /\ Len(s) \in Nat /\ Len(t) \in Nat
  OBVIOUS
<1>2. ToSet(s) = {s[i] : i \in 1..Len(s)}
      /\ ToSet(t) = {t[i] : i \in 1..Len(t)}
  <2>1. DOMAIN s = 1..Len(s) /\ DOMAIN t = 1..Len(t)
    BY LenProperties
  <2> QED BY <2>1, Zenon DEF ToSet
<1> HIDE DEF u
<1>3. ASSUME Increasing(u) PROVE Increasing(s) /\ Increasing(t)
  <2>1. Increasing(s)
    BY <1>1, <1>3 DEF Increasing
  <2>2. ASSUME NEW i \in 1..Len(t), NEW j \in 1..Len(t), i < j
        PROVE t[i] < t[j]
    <3>1. Len(s) + i \in 1..Len(u) /\ Len(s) + j \in 1..Len(u)
          /\ Len(s) + i < Len(s) + j
      BY <1>1, <2>2
    <3>2. u[Len(s) + i] < u[Len(s) + j]
      BY <1>3, <3>1 DEF Increasing
    <3> QED BY <1>1, <3>2
  <2> QED BY <2>1, <2>2 DEF Increasing
<1>4. ASSUME Increasing(u), NEW a \in ToSet(s), NEW b \in ToSet(t) PROVE a < b
  <2>1. PICK i \in 1..Len(s) : a = s[i] BY <1>2
  <2>2. PICK j \in 1..Len(t) : b = t[j] BY <1>2
  <2>3. i \in 1..Len(u) /\ Len(s) + j \in 1..Len(u) /\ i < Len(s) + j
    <3>1. Len(s) \in Nat /\ Len(t) \in Nat /\ Len(u) = Len(s) + Len(t)
      BY <1>1
    <3>2. i \in 1..Len(s) /\ j \in 1..Len(t)
      OBVIOUS
    <3> QED
      BY <3>1, <3>2
  <2>4. u[i] < u[Len(s) + j]
    BY <1>4, <2>3 DEF Increasing
  <2> QED BY <1>1, <2>1, <2>2, <2>4
<1>5. ASSUME Increasing(s), Increasing(t),
             \A a \in ToSet(s), b \in ToSet(t) : a < b,
             NEW i \in 1..Len(u), NEW j \in 1..Len(u), i < j
      PROVE  u[i] < u[j]
  <2>1. CASE j \in 1..Len(s)
    <3>1. i \in 1..Len(s) BY <1>5, <2>1
    <3> QED BY <1>1, <1>5, <2>1, <3>1 DEF Increasing
  <2>2. CASE i \in 1..Len(s) /\ j \notin 1..Len(s)
    <3>1. j - Len(s) \in 1..Len(t) /\ j = Len(s) + (j - Len(s))
      BY <1>1, <2>2
    <3>2. u[j] = t[j - Len(s)] /\ u[i] = s[i]
      BY <1>1, <2>2, <3>1
    <3>3. u[j] \in ToSet(t) /\ u[i] \in ToSet(s)
      BY <1>2, <2>2, <3>1, <3>2
    <3> QED BY <1>5, <3>3
  <2>3. CASE i \notin 1..Len(s) /\ j \notin 1..Len(s)
    <3>1. /\ j - Len(s) \in 1..Len(t) /\ j = Len(s) + (j - Len(s))
          /\ i - Len(s) \in 1..Len(t) /\ i = Len(s) + (i - Len(s))
          /\ i - Len(s) < j - Len(s)
      BY <1>1, <1>5, <2>3
    <3>2. t[i - Len(s)] < t[j - Len(s)]
      BY <1>5, <3>1 DEF Increasing
    <3>3. u[j] = t[j - Len(s)] /\ u[i] = t[i - Len(s)]
      BY <1>1, <3>1
    <3> QED BY <3>2, <3>3
  <2> QED BY <2>1, <2>2, <2>3
<1> QED
  BY <1>3, <1>4, <1>5 DEF u, Increasing

-----------------------------------------------------------------------------
\* The blocks of frame number k.
Frame(k) == [i \in 1..FrameBlocks |-> k * FrameBlocks + i]
\* All frames.
Frames == {Frame(k) : k \in Nat}

\* Where frames start: consecutive ones FrameBlocks apart.
LEMMA FrameStart ==
  ASSUME NEW k \in Nat
  PROVE  /\ k * FrameBlocks \in Nat
         /\ (k + 1) * FrameBlocks = k * FrameBlocks + FrameBlocks
         /\ \A n \in Nat :
              (k + n) * FrameBlocks = k * FrameBlocks + n * FrameBlocks
         /\ \A n \in Nat : k <= n => k * FrameBlocks <= n * FrameBlocks
<1>1. FrameBlocks \in Nat BY HearingConstants
<1>2. k * FrameBlocks \in Nat BY <1>1
<1>3. \A n \in Nat : (k + n) * FrameBlocks = k * FrameBlocks + n * FrameBlocks
  BY <1>1
<1>4. (k + 1) * FrameBlocks = k * FrameBlocks + FrameBlocks
  BY <1>1
<1>5. ASSUME NEW n \in Nat, k <= n PROVE k * FrameBlocks <= n * FrameBlocks
  <2>1. (n - k) * FrameBlocks \in Nat BY <1>1, <1>5
  <2>2. n * FrameBlocks = k * FrameBlocks + (n - k) * FrameBlocks BY <1>1, <1>5
  <2> QED BY <1>2, <2>1, <2>2
<1> QED BY <1>2, <1>3, <1>4, <1>5

\* What a frame is.
LEMMA FrameBasics ==
  ASSUME NEW k \in Nat
  PROVE  /\ Frame(k) \in Seq(Nat) /\ Frame(k) # <<>>
         /\ Head(Frame(k)) = k * FrameBlocks + 1
         /\ Last(Frame(k)) = k * FrameBlocks + FrameBlocks
         /\ ToSet(Frame(k))
              = k * FrameBlocks + 1 .. k * FrameBlocks + FrameBlocks
         /\ Increasing(Frame(k))
<1> DEFINE m == k * FrameBlocks
<1>1. m \in Nat /\ FrameBlocks \in Nat \ {0}
      /\ Frame(k) = [i \in 1..FrameBlocks |-> m + i]
  BY FrameStart, HearingConstants DEF Frame
<1> HIDE DEF m
<1>2. /\ Frame(k) \in Seq(Nat) /\ Len(Frame(k)) = FrameBlocks
      /\ Frame(k) # <<>>
      /\ \A i \in 1..FrameBlocks : Frame(k)[i] = m + i
  BY <1>1
<1>3. ToSet(Frame(k)) = m + 1 .. m + FrameBlocks
  <2>1. ToSet(Frame(k)) = {Frame(k)[i] : i \in 1..FrameBlocks}
    BY <1>2 DEF ToSet
  <2>2. ASSUME NEW x \in m + 1 .. m + FrameBlocks PROVE x \in ToSet(Frame(k))
    <3>1. x - m \in 1..FrameBlocks /\ x = m + (x - m)
      BY <1>1
    <3>2. Frame(k)[x - m] = x
      BY <1>1, <1>2, <3>1
    <3> QED
      BY <2>1, <3>1, <3>2
  <2>3. ASSUME NEW x \in ToSet(Frame(k)) PROVE x \in m + 1 .. m + FrameBlocks
    BY <1>1, <1>2, <2>1
  <2> QED
    BY <2>2, <2>3
<1>4. Increasing(Frame(k))
  BY <1>1, <1>2 DEF Increasing
<1>5. Head(Frame(k)) = m + 1 /\ Last(Frame(k)) = m + FrameBlocks
  BY <1>1, <1>2 DEF Last
<1> QED BY <1>2, <1>3, <1>4, <1>5 DEF m

\* A block belongs to the frame its number says.
LEMMA FrameOf ==
  ASSUME NEW k \in Nat, NEW b \in Nat, b # 0
  PROVE  (b - 1) \div FrameBlocks = k <=> b \in ToSet(Frame(k))
<1> DEFINE F == FrameBlocks  q == (b - 1) \div F  r == (b - 1) % F
<1>1. F \in Nat \ {0} BY HearingConstants
<1>2. q \in Nat /\ r \in Nat /\ r < F /\ b - 1 = q * F + r
  BY <1>1
<1> HIDE DEF q, r
<1>3. ToSet(Frame(k)) = k * F + 1 .. k * F + F /\ k * F \in Nat
  BY FrameBasics, FrameStart
<1>4. CASE q = k BY <1>1, <1>2, <1>3, <1>4 DEF q
<1>5. CASE q < k
  <2>1. (q + 1) * F <= k * F /\ (q + 1) * F = q * F + F /\ q * F \in Nat
    BY <1>2, <1>5, FrameStart
  <2>2. b \notin ToSet(Frame(k)) BY <1>1, <1>2, <1>3, <2>1
  <2> QED BY <1>5, <2>2 , <1>2 DEF q
<1>6. CASE k < q
  <2>1. k + 1 \in Nat /\ k + 1 <= q
    BY <1>2, <1>6
  <2>2. (k + 1) * F <= q * F
    BY <1>2, <2>1, FrameStart
  <2>3. (k + 1) * F = k * F + F /\ q * F \in Nat
    BY <1>2, FrameStart
  <2>4. b \notin ToSet(Frame(k))
    BY <1>1, <1>2, <1>3, <2>2, <2>3
  <2> QED
    BY <1>6, <2>4, <1>2 DEF q
<1> QED BY <1>2, <1>4, <1>5, <1>6

-----------------------------------------------------------------------------
\* n blocks after block a.
Run(a, n) == [i \in 1..n |-> a + i]

\* Runs put together and cut.
LEMMA RunBasics ==
  ASSUME NEW a \in Nat, NEW n \in Nat
  PROVE  /\ Run(a, n) \in Seq(Nat) /\ Len(Run(a, n)) = n
         /\ \A m \in Nat : Run(a, n) \o Run(a + n, m) = Run(a, n + m)
         /\ \A x \in 0..n : \A y \in x..n :
              SubSeq(Run(a, n), x + 1, y) = Run(a + x, y - x)
<1>1. Run(a, n) \in Seq(Nat) /\ Len(Run(a, n)) = n
  BY DEF Run
<1>2. ASSUME NEW m \in Nat PROVE Run(a, n) \o Run(a + n, m) = Run(a, n + m)
  BY DEF Run
<1>3. ASSUME NEW x \in 0..n, NEW y \in x..n
      PROVE  SubSeq(Run(a, n), x + 1, y) = Run(a + x, y - x)
  BY DEF Run
<1> QED BY <1>1, <1>2, <1>3

\* Frames run on from one another.
LEMMA FrameIsRun == \A k \in Nat : Frame(k) = Run(k * FrameBlocks, FrameBlocks)
BY DEF Frame, Run

\* What Push makes of L blocks from frame n on.
Reframed(n, L) == Reframe(Run(n * FrameBlocks, L), FrameBlocks)

\* Reframing a run of blocks that begins with a frame: whole frames, in order,
\* and the beginning of the next one; nothing is lost or invented.
LEMMA ReframeRun ==
  ASSUME NEW n \in Nat, NEW L \in Nat
  PROVE  /\ Reframed(n, L).frames \in Seq(Frames)
         /\ FlattenSeq(Reframed(n, L).frames) \o Reframed(n, L).rest
              = Run(n * FrameBlocks, L)
         /\ \E m \in Nat, p \in 0 .. FrameBlocks - 1 :
              /\ L = m * FrameBlocks + p
              /\ Reframed(n, L).rest = Run((n + m) * FrameBlocks, p)
<1> DEFINE r == Reframed(n, L)
<1> DEFINE F == FrameBlocks  a == n * F  s == Run(a, L)
           m == L \div F  p == L % F
<1>1. F \in Nat \ {0}
  BY HearingConstants
<1>2. m \in Nat /\ p \in 0 .. F - 1 /\ L = m * F + p
  BY <1>1
<1>3. a \in Nat
  BY FrameStart
<1>4. s \in Seq(Nat) /\ Len(s) = L
  BY <1>3, RunBasics
<1>5. /\ r.frames = [i \in 1 .. m |-> SubSeq(s, (i - 1) * F + 1, i * F)]
      /\ r.rest = SubSeq(s, m * F + 1, L)
  BY <1>4 DEF Reframed, Reframe, FramesIn, FrameAt
<1> HIDE DEF m, p, r
<1>6. m * F \in 0 .. L
  BY <1>1, <1>2, FrameStart
<1>7. r.rest = Run((n + m) * F, p)
  <2>1. r.rest = Run(a + m * F, L - m * F)
    <3> DEFINE x == m * F
    <3>1. x \in 0 .. L /\ L \in x .. L /\ r.rest = SubSeq(Run(a, L), x + 1, L)
      BY <1>5, <1>6
    <3> HIDE DEF x
    <3>2. r.rest = Run(a + x, L - x)
      BY <1>3, <3>1, RunBasics
    <3> QED
      BY <3>2 DEF x
  <2>2. L - m * F = p /\ a + m * F = (n + m) * F
    BY <1>1, <1>2, <1>6, FrameStart
  <2> QED
    BY <2>1, <2>2
<1>8. ASSUME NEW i \in 1 .. m
      PROVE  /\ r.frames[i] = Frame(n + (i - 1)) /\ n + (i - 1) \in Nat
             /\ r.frames[i] = Run(a + (i - 1) * F, F)
             /\ (i - 1) * F \in Nat /\ i * F = (i - 1) * F + F
  <2>1. i - 1 \in Nat /\ i \in Nat /\ i <= m
    BY <1>2
  <2>2. i * F = (i - 1) * F + F /\ (i - 1) * F \in Nat /\ i * F <= m * F
    <3>1. ((i - 1) + 1) * F = (i - 1) * F + F /\ (i - 1) * F \in Nat
      BY <2>1, FrameStart
    <3>2. (i - 1) + 1 = i
      BY <2>1
    <3>3. i * F <= m * F
      BY <1>2, <2>1, FrameStart
    <3> QED
      BY <3>1, <3>2, <3>3
  <2>3. (i - 1) * F \in 0 .. L /\ i * F \in (i - 1) * F .. L
    BY <1>1, <1>6, <2>2
  <2>4. r.frames[i] = SubSeq(s, (i - 1) * F + 1, i * F)
    BY <1>5
  <2>5. r.frames[i] = Run(a + (i - 1) * F, i * F - (i - 1) * F)
    BY <1>3, <2>3, <2>4, RunBasics
  <2>6. i * F - (i - 1) * F = F /\ a + (i - 1) * F = (n + (i - 1)) * F
    BY <1>1, <2>1, <2>2, FrameStart
  <2>7. n + (i - 1) \in Nat
    BY <2>1
  <2> QED
    BY <2>2, <2>5, <2>6, <2>7, FrameIsRun
<1>9. r.frames \in Seq(Frames) /\ Len(r.frames) = m
  <2>1. \A i \in 1 .. m : r.frames[i] \in Frames
    BY <1>8 DEF Frames
  <2>2. r.frames \in [1 .. m -> Frames]
    BY <1>5, <2>1
  <2> HIDE DEF s
  <2> QED
    BY <1>2, <2>2
<1>10. FlattenSeq(r.frames) = Run(a, m * F)
  <2>1. CASE m = 0
    <3>1. r.frames = <<>>
      BY <1>9, <2>1
    <3>2. Run(a, m * F) = <<>>
      BY <1>1, <2>1 DEF Run
    <3> QED
      BY <3>1, <3>2, FlattenEmpty
  <2>2. CASE m # 0
    <3> DEFINE g == [i \in 1 .. m |-> Run(a, i * F)]
    <3>1. Frames \subseteq Seq(Nat)
      BY FrameBasics DEF Frames
    <3>2. r.frames \in Seq(Seq(Nat)) /\ r.frames # <<>>
      BY <1>9, <2>2, <3>1
    <3>3. ASSUME NEW i \in 1 .. m
          PROVE  g[i] = IF i = 1 THEN r.frames[i] ELSE g[i-1] \o r.frames[i]
      <4>1. CASE i = 1
        <5>1. (i - 1) * F = 0 /\ i * F = F /\ a + 0 = a
          BY <1>1, <1>3, <4>1
        <5> QED
          BY <1>8, <4>1, <5>1
      <4>2. CASE i # 1
        <5>1. i - 1 \in 1 .. m
          BY <1>2, <4>2
        <5>2. g[i-1] = Run(a, (i - 1) * F) /\ g[i] = Run(a, i * F)
          BY <5>1
        <5>3. Run(a, (i - 1) * F) \o Run(a + (i - 1) * F, F)
                = Run(a, (i - 1) * F + F)
          BY <1>1, <1>3, <1>8, RunBasics
        <5> QED
          BY <1>8, <4>2, <5>2, <5>3
      <4> QED
        BY <4>1, <4>2
    <3>4. Runs(r.frames, g)
      BY <1>9, <3>3 DEF Runs
    <3>5. FlattenSeq(r.frames) = g[m]
      <4> HIDE DEF g
      <4> QED
        BY <1>9, <3>2, <3>4, FlattenRuns
    <3> QED
      BY <1>2, <2>2, <3>5
  <2> QED
    BY <2>1, <2>2
<1>11. FlattenSeq(r.frames) \o r.rest = s
  <2>1. Run(a, m * F) \o Run(a + m * F, p) = Run(a, m * F + p)
    <3>1. m * F \in Nat /\ p \in Nat
      BY <1>1, <1>2, <1>6
    <3> QED
      BY <1>3, <3>1, RunBasics
  <2>2. a + m * F = (n + m) * F
    BY <1>2, FrameStart
  <2> QED
    BY <1>2, <1>7, <1>10, <2>1, <2>2
<1> QED
  BY <1>2, <1>7, <1>9, <1>11 DEF r

-----------------------------------------------------------------------------
\* The blocks first .. last are in kept, in order, or gone.
Accounted(kept, first, last, gone) ==
  /\ kept \in Seq(Nat) /\ Increasing(kept)
  /\ ToSet(kept) \cap gone = {}
  /\ ToSet(kept) \cup gone = first .. last

\* More blocks are decoded.
LEMMA AccountedMore ==
  ASSUME NEW kept, NEW last \in Nat, NEW first \in 1 .. last + 1, NEW gone,
         Accounted(kept, first, last, gone), NEW n \in Nat
  PROVE  Accounted(kept \o Run(last, n), first, last + n, gone)
<1> DEFINE r == Run(last, n)
<1>1. r \in Seq(Nat) /\ Len(r) = n /\ \A i \in 1 .. n : r[i] = last + i
  BY DEF Run
<1>2. ToSet(r) = last + 1 .. last + n
  <2>1. ToSet(r) = {r[i] : i \in 1 .. n}
    BY <1>1 DEF ToSet
  <2>2. ASSUME NEW x \in last + 1 .. last + n PROVE x \in ToSet(r)
    <3>1. x - last \in 1 .. n /\ last + (x - last) = x
      OBVIOUS
    <3>2. r[x - last] = x
      BY <1>1, <3>1
    <3> QED
      BY <2>1, <3>1, <3>2
  <2>3. ASSUME NEW x \in ToSet(r) PROVE x \in last + 1 .. last + n
    BY <1>1, <2>1
  <2> QED
    BY <2>2, <2>3
<1>3. Increasing(r)
  BY <1>1 DEF Increasing
<1> HIDE DEF r
<1>4. /\ kept \in Seq(Nat) /\ Increasing(kept)
      /\ ToSet(kept) \cap gone = {} /\ ToSet(kept) \cup gone = first .. last
  BY DEF Accounted
<1>5. ToSet(kept \o r) = ToSet(kept) \cup ToSet(r) /\ kept \o r \in Seq(Nat)
  BY <1>1, <1>4, ConcatElements
<1>6. Increasing(kept \o r)
  <2>1. ToSet(kept) \subseteq first .. last
    BY <1>4
  <2>2. \A a \in ToSet(kept), b \in ToSet(r) : a < b
    BY <1>2, <2>1
  <2> QED
    BY <1>1, <1>3, <1>4, <2>2, ConcatIncreasing
<1>7. ToSet(kept \o r) \cap gone = {}
  <2>1. gone \subseteq first .. last
    BY <1>4
  <2>2. ToSet(r) \cap gone = {}
    BY <1>2, <2>1
  <2> QED
    BY <1>4, <1>5, <2>2
<1>8. ToSet(kept \o r) \cup gone = first .. last + n
  <2>1. (first .. last) \cup (last + 1 .. last + n) = first .. last + n
    OBVIOUS
  <2> QED
    BY <1>2, <1>4, <1>5, <2>1
<1> QED
  BY <1>5, <1>6, <1>7, <1>8 DEF Accounted, r

\* Some of them are dropped.
LEMMA AccountedDrop ==
  ASSUME NEW a \in Seq(Nat), NEW h \in Seq(Nat), NEW b \in Seq(Nat),
         NEW first, NEW last, NEW gone,
         Accounted((a \o h) \o b, first, last, gone)
  PROVE  Accounted(a \o b, first, last, gone \cup ToSet(h))
<1>1. a \o h \in Seq(Nat) /\ (a \o h) \o b \in Seq(Nat) /\ a \o b \in Seq(Nat)
  OBVIOUS
<1>2. /\ ToSet(a \o h) = ToSet(a) \cup ToSet(h)
      /\ ToSet((a \o h) \o b) = ToSet(a \o h) \cup ToSet(b)
      /\ ToSet(a \o b) = ToSet(a) \cup ToSet(b)
  <2>1. ToSet((a \o h) \o b) = ToSet(a \o h) \cup ToSet(b)
    <3> DEFINE c == a \o h
    <3>1. c \in Seq(Nat) BY <1>1
    <3> HIDE DEF c
    <3>2. ToSet(c \o b) = ToSet(c) \cup ToSet(b) BY <3>1, ConcatElements
    <3> QED BY <3>2 DEF c
  <2> QED
    BY <2>1, ConcatElements
<1>3. /\ Increasing(a) /\ Increasing(h) /\ Increasing(b)
      /\ \A x \in ToSet(a), y \in ToSet(h) : x < y
      /\ \A x \in ToSet(a) \cup ToSet(h), y \in ToSet(b) : x < y
  <2>1. Increasing((a \o h) \o b)
    BY DEF Accounted
  <2>2. Increasing(a \o h) /\ Increasing(b)
        /\ \A x \in ToSet(a \o h), y \in ToSet(b) : x < y
    BY <1>1, <2>1, ConcatIncreasing
  <2> QED
    BY <1>2, <2>2, ConcatIncreasing
<1>4. Increasing(a \o b)
  BY <1>3, ConcatIncreasing
<1>5. ToSet(h) \subseteq Nat /\ ToSet(a) \subseteq Nat
      /\ ToSet(b) \subseteq Nat
  BY DEF ToSet
<1>6. ToSet(h) \cap ToSet(a \o b) = {}
  BY <1>2, <1>3, <1>5
<1> QED
  BY <1>1, <1>2, <1>4, <1>6 DEF Accounted

\* What comes before a frame is forgotten, and so is what was dropped
\* before it.
LEMMA AccountedTake ==
  ASSUME NEW a \in Seq(Nat), NEW k \in Nat, NEW b \in Seq(Nat),
         NEW first \in Nat, NEW last \in Nat, NEW gone,
         Accounted((a \o Frame(k)) \o b, first, last, gone)
  PROVE  /\ Accounted(Frame(k) \o b, k * FrameBlocks + 1, last,
                      {x \in gone : x > k * FrameBlocks + FrameBlocks})
         /\ k * FrameBlocks + 1 \in first .. last
<1> DEFINE h == Frame(k)  m == k * FrameBlocks
           later == {x \in gone : x > m + FrameBlocks}
<1>1. /\ h \in Seq(Nat) /\ ToSet(h) = m + 1 .. m + FrameBlocks
      /\ m \in Nat /\ FrameBlocks \in Nat \ {0}
  BY FrameBasics, FrameStart, HearingConstants
<1> HIDE DEF h, m
<1>2. a \o h \in Seq(Nat) /\ (a \o h) \o b \in Seq(Nat) /\ h \o b \in Seq(Nat)
  BY <1>1
<1>3. /\ ToSet(a \o h) = ToSet(a) \cup ToSet(h)
      /\ ToSet((a \o h) \o b) = ToSet(a \o h) \cup ToSet(b)
      /\ ToSet(h \o b) = ToSet(h) \cup ToSet(b)
  <2>1. ToSet((a \o h) \o b) = ToSet(a \o h) \cup ToSet(b)
    <3> DEFINE c == a \o h
    <3>1. c \in Seq(Nat) BY <1>2
    <3> HIDE DEF c
    <3>2. ToSet(c \o b) = ToSet(c) \cup ToSet(b) BY <3>1, ConcatElements
    <3> QED BY <3>2 DEF c
  <2>2. ToSet(a \o h) = ToSet(a) \cup ToSet(h)
    BY <1>1, ConcatElements
  <2>3. ToSet(h \o b) = ToSet(h) \cup ToSet(b)
    BY <1>1, ConcatElements
  <2> QED
    BY <2>1, <2>2, <2>3
<1>4. /\ Increasing(h) /\ Increasing(b)
      /\ \A x \in ToSet(a), y \in ToSet(h) : x < y
      /\ \A x \in ToSet(h), y \in ToSet(b) : x < y
  <2>1. Increasing((a \o h) \o b)
    BY DEF Accounted, h
  <2>2. Increasing(a \o h) /\ Increasing(b)
        /\ \A x \in ToSet(a \o h), y \in ToSet(b) : x < y
    BY <1>2, <2>1, ConcatIncreasing
  <2> QED
    BY <1>1, <1>3, <2>2, ConcatIncreasing
<1>5. Increasing(h \o b)
  BY <1>1, <1>4, ConcatIncreasing
<1>6. /\ (ToSet(a) \cup ToSet(h) \cup ToSet(b)) \cap gone = {}
      /\ ToSet(a) \cup ToSet(h) \cup ToSet(b) \cup gone = first .. last
  BY <1>3 DEF Accounted, h
<1>7. m + 1 \in first .. last /\ m + 1 \in ToSet(h)
      /\ m + FrameBlocks \in ToSet(h)
  <2>1. m + 1 \in ToSet(h) /\ m + FrameBlocks \in ToSet(h)
    BY <1>1
  <2> QED
    BY <1>6, <2>1
<1>8. ToSet(h \o b) \cap later = {}
  BY <1>3, <1>6
<1>9. ASSUME NEW x \in ToSet(h \o b) \cup later PROVE x \in m + 1 .. last
  <2>1. x \in first .. last
    BY <1>3, <1>6, <1>9
  <2>2. x >= m + 1
    <3>1. CASE x \in ToSet(h)
      BY <1>1, <3>1
    <3>2. CASE x \in ToSet(b)
      <4>1. m + 1 < x
        BY <1>4, <1>7, <3>2
      <4> QED
        BY <1>1, <2>1, <4>1
    <3>3. CASE x \in later
      BY <1>1, <2>1, <3>3
    <3> QED
      BY <1>3, <1>9, <3>1, <3>2, <3>3
  <2> QED
    BY <1>1, <2>1, <2>2
<1>10. ASSUME NEW x \in m + 1 .. last PROVE x \in ToSet(h \o b) \cup later
  <2>1. x \in first .. last
    BY <1>1, <1>7
  <2>2. x \notin ToSet(a)
    <3>1. x \in ToSet(a) => x < m + 1
      BY <1>4, <1>7
    <3> QED
      BY <1>1, <3>1
  <2>3. x \in gone => x \in later
    <3>1. x \in gone => x \notin ToSet(h)
      BY <1>6
    <3> QED
      BY <1>1, <3>1
  <2> QED
    BY <1>3, <1>6, <2>1, <2>2, <2>3
<1>11. Accounted(h \o b, m + 1, last, later)
  BY <1>2, <1>5, <1>8, <1>9, <1>10 DEF Accounted
<1> QED
  BY <1>7, <1>11 DEF h, m

-----------------------------------------------------------------------------
\* The last frame taken and everything on its way, oldest first.
Kept == taken \o FlattenSeq(queue) \o FlattenSeq(toOffer) \o pending
\* The first block the loop has not passed yet.
First == IF taken = <<>> THEN 1 ELSE Head(taken)

\* The channel and the reader hold whole frames, and the reader offers only
\* while it has some.
FramesOnTheWay ==
  /\ queue \in Seq(Frames) /\ toOffer \in Seq(Frames)
  /\ taken \in Frames \cup {<<>>}
  /\ reader = "read" => toOffer = <<>>
  /\ reader = "offer" => toOffer # <<>>

\* The pending blocks are the beginning of the next frame.
PendingBeginsFrame ==
  \E n \in Nat, p \in 0 .. FrameBlocks - 1 :
    pending = Run(n * FrameBlocks, p) /\ decoded = n * FrameBlocks + p

\* What a full channel costs is whole frames.
WholeFramesDropped ==
  \A b \in dropped : \E k \in Nat :
    b \in ToSet(Frame(k)) /\ ToSet(Frame(k)) \subseteq dropped

\* Every block since then is kept, in order, or dropped.
BlocksInOrder ==
  /\ First \in 1 .. decoded + 1
  /\ Accounted(Kept, First, decoded, dropped)

\* The invariant of the inbound audio.
InboundInv ==
  /\ FramesOnTheWay
  /\ PendingBeginsFrame
  /\ WholeFramesDropped
  /\ BlocksInOrder

\* Frames are sequences of blocks.
LEMMA FramesAreBlocks ==
  Frames \subseteq Seq(Nat) /\ \A s \in Seq(Frames) : s \in Seq(Seq(Nat))
<1>1. Frames \subseteq Seq(Nat)
  BY FrameBasics DEF Frames
<1>2. ASSUME NEW S, NEW T, S \subseteq T, NEW s \in Seq(S) PROVE s \in Seq(T)
  BY <1>2
<1> QED
  BY <1>1, <1>2

\* Three sequences of blocks may be put together in either order.
LEMMA Reassociate ==
  \A a, b, c \in Seq(Nat) :
    (a \o b) \o c = a \o (b \o c) /\ a \o b \in Seq(Nat)
BY ConcatAssociative

\* The same with the concatenation as an operator the provers do not expand.
LEMMA CatAssociates ==
  \A a, b, c \in Seq(Nat) :
    Cat(Cat(a, b), c) = Cat(a, Cat(b, c)) /\ Cat(a, b) \in Seq(Nat)
BY Reassociate DEF Cat

\* The rest is empty when one is left.
LEMMA LastOne ==
  ASSUME NEW S, NEW s \in Seq(S), s # <<>>
  PROVE  Tail(s) = <<>> <=> Len(s) = 1
<1>1. Len(s) \in Nat \ {0} /\ Len(Tail(s)) = Len(s) - 1 /\ Tail(s) \in Seq(S)
  OBVIOUS
<1>2. Tail(s) = <<>> <=> Len(Tail(s)) = 0
  BY <1>1, EmptySeq
<1> QED
  BY <1>1, <1>2

\* The types that follow.
LEMMA InboundTypes ==
  ASSUME InboundInv
  PROVE  /\ queue \in Seq(Seq(Nat)) /\ toOffer \in Seq(Seq(Nat))
         /\ FlattenSeq(queue) \in Seq(Nat) /\ FlattenSeq(toOffer) \in Seq(Nat)
         /\ taken \in Seq(Nat) /\ pending \in Seq(Nat) /\ decoded \in Nat
<1>1. queue \in Seq(Frames) /\ toOffer \in Seq(Frames)
      /\ taken \in Frames \cup {<<>>} /\ <<>> \in Seq(Nat)
  BY DEF InboundInv, FramesOnTheWay
<1>2. queue \in Seq(Seq(Nat)) /\ toOffer \in Seq(Seq(Nat))
      /\ taken \in Seq(Nat)
  BY <1>1, FramesAreBlocks
<1>3. pending \in Seq(Nat) /\ decoded \in Nat
  <2>1. PICK n \in Nat, p \in 0 .. FrameBlocks - 1 :
          pending = Run(n * FrameBlocks, p) /\ decoded = n * FrameBlocks + p
    BY DEF InboundInv, PendingBeginsFrame
  <2> DEFINE x == n * FrameBlocks
  <2>2. x \in Nat /\ p \in Nat /\ pending = Run(x, p) /\ decoded = x + p
    BY <2>1, FrameStart, HearingConstants
  <2> HIDE DEF x
  <2> QED
    BY <2>2, RunBasics
<1> QED
  BY <1>2, <1>3, FlattenType

\* The first frame of a channel.
LEMMA FirstFrame ==
  ASSUME NEW s \in Seq(Frames), s # <<>>
  PROVE  /\ Head(s) \in Frames /\ Head(s) \in Seq(Nat)
         /\ Tail(s) \in Seq(Frames) /\ FlattenSeq(Tail(s)) \in Seq(Nat)
         /\ FlattenSeq(s) = Head(s) \o FlattenSeq(Tail(s))
<1>1. Head(s) \in Frames /\ Tail(s) \in Seq(Frames)
  BY HeadTailProperties
<1>2. s \in Seq(Seq(Nat)) /\ Head(s) \in Seq(Nat) /\ Tail(s) \in Seq(Seq(Nat))
  BY <1>1, FramesAreBlocks
<1> QED
  BY <1>1, <1>2, FlattenType, FlattenHeadTail

\* A packet: the pending blocks and its own are reframed.
LEMMA PacketRead ==
  ASSUME InboundInv, NEW size \in PacketBlocks, ReadPacket(size)
  PROVE  InboundInv'
<1> DEFINE F == FrameBlocks  A == taken \o FlattenSeq(queue)
<1>1. PICK n \in Nat, p \in 0 .. F - 1 :
        pending = Run(n * F, p) /\ decoded = n * F + p
  BY DEF InboundInv, PendingBeginsFrame
<1>2. size \in Nat \ {0} /\ p \in Nat /\ n * F \in Nat /\ decoded \in Nat
      /\ p + size \in Nat
  BY <1>1, HearingConstants, FrameStart, InboundTypes
<1> DEFINE L == p + size  x == n * F  r == Reframed(n, L)
<1>3. pending \o [i \in 1 .. size |-> decoded + i] = Run(n * F, p + size)
  <2>1. [i \in 1 .. size |-> decoded + i] = Run(x + p, size)
    BY <1>1 DEF Run
  <2>2. pending = Run(x, p) /\ x \in Nat /\ p \in Nat /\ size \in Nat
    BY <1>1, <1>2
  <2> HIDE DEF x
  <2>3. Run(x, p) \o Run(x + p, size) = Run(x, p + size)
    BY <2>2, RunBasics
  <2> QED
    BY <2>1, <2>2, <2>3 DEF x
<1>4. /\ toOffer' = r.frames /\ pending' = r.rest
      /\ reader' = IF r.frames = <<>> THEN "read" ELSE "offer"
      /\ decoded' = decoded + size /\ toOffer = <<>>
      /\ UNCHANGED <<queue, dropped, taken>>
  BY <1>3 DEF ReadPacket, Reframed, InboundInv, FramesOnTheWay
<1>5. /\ r.frames \in Seq(Frames)
      /\ FlattenSeq(r.frames) \o r.rest = Run(n * F, L)
      /\ \E m \in Nat, q \in 0 .. F - 1 :
           L = m * F + q /\ r.rest = Run((n + m) * F, q)
  <2>1. L \in Nat
    BY <1>2
  <2> HIDE DEF L
  <2> QED
    BY <2>1, ReframeRun
<1> HIDE DEF r
<1>6. FramesOnTheWay'
  BY <1>4, <1>5 DEF InboundInv, FramesOnTheWay
<1>7. PendingBeginsFrame'
  <2>1. PICK m \in Nat, q \in 0 .. F - 1 :
          p + size = m * F + q /\ r.rest = Run((n + m) * F, q)
    BY <1>5
  <2>2. n + m \in Nat /\ (n + m) * F = n * F + m * F /\ m * F \in Nat
    <3>1. n + m \in Nat
      OBVIOUS
    <3>3. m * F \in Nat
      BY FrameStart
    <3>2. (n + m) * F = n * F + m * F
      BY FrameStart
    <3> QED
      BY <3>1, <3>2, <3>3
  <2>3. decoded' = (n + m) * F + q
    BY <1>1, <1>2, <1>4, <2>1, <2>2, HearingConstants
  <2> QED
    BY <1>4, <2>1, <2>2, <2>3 DEF PendingBeginsFrame
<1>8. WholeFramesDropped'
  BY <1>4 DEF InboundInv, WholeFramesDropped
<1>9. A \in Seq(Nat) /\ A' = A
  BY <1>4, InboundTypes
<1> HIDE DEF A
<1>10. Kept = A \o pending /\ Kept' = (A \o FlattenSeq(r.frames)) \o r.rest
  <2>1. FlattenSeq(toOffer) = <<>> /\ A \o <<>> = A
    BY <1>4, <1>9, FlattenEmpty
  <2> QED
    BY <1>4, <1>9, <2>1 DEF Kept, A
<1>11. Kept' = Kept \o Run(decoded, size)
  <2>1. FlattenSeq(r.frames) \in Seq(Nat) /\ r.rest \in Seq(Nat)
    <3>1. r.frames \in Seq(Seq(Nat))
      BY <1>5, FramesAreBlocks
    <3>2. PICK m \in Nat, q \in 0 .. F - 1 : r.rest = Run((n + m) * F, q)
      BY <1>5
    <3> DEFINE y == (n + m) * F
    <3>3. y \in Nat /\ q \in Nat /\ r.rest = Run(y, q)
      <4>1. n + m \in Nat
        OBVIOUS
      <4> QED
        BY <3>2, <4>1, FrameStart, HearingConstants
    <3> HIDE DEF y
    <3>4. Run(y, q) \in Seq(Nat)
      BY <3>3, RunBasics
    <3>5. FlattenSeq(r.frames) \in Seq(Nat)
      BY <3>1, FlattenType
    <3> QED
      BY <3>3, <3>4, <3>5
  <2>2. Kept' = A \o (FlattenSeq(r.frames) \o r.rest)
    BY <1>9, <1>10, <2>1, Reassociate
  <2>3. Run(n * F, p + size) = pending \o Run(decoded, size)
    BY <1>1, <1>2, RunBasics
  <2>4. pending \in Seq(Nat) /\ Run(decoded, size) \in Seq(Nat)
    BY <1>2, InboundTypes, RunBasics
  <2>5. A \o (pending \o Run(decoded, size))
          = (A \o pending) \o Run(decoded, size)
    BY <1>9, <2>4, Reassociate
  <2> QED
    BY <1>5, <1>10, <2>2, <2>3, <2>5
<1>12. BlocksInOrder'
  <2>1. First' = First /\ First \in 1 .. decoded + 1
        /\ Accounted(Kept, First, decoded, dropped)
    BY <1>4 DEF First, InboundInv, BlocksInOrder
  <2>2. Accounted(Kept \o Run(decoded, size), First, decoded + size, dropped)
    BY <1>2, <2>1, AccountedMore
  <2>3. First' \in 1 .. decoded' + 1
    BY <1>2, <1>4, <2>1
  <2> QED
    BY <1>4, <1>11, <2>1, <2>2, <2>3 DEF BlocksInOrder
<1> QED
  BY <1>6, <1>7, <1>8, <1>12 DEF InboundInv

\* A frame goes from the reader into the channel.
LEMMA FrameQueued ==
  ASSUME InboundInv, Enqueue
  PROVE  InboundInv'
<1> DEFINE h == Head(toOffer)  Q == FlattenSeq(queue)
           T == FlattenSeq(Tail(toOffer))
<1>1. /\ toOffer \in Seq(Frames) /\ toOffer # <<>> /\ queue \in Seq(Frames)
      /\ queue' = Append(queue, h) /\ toOffer' = Tail(toOffer)
      /\ reader' = IF Len(toOffer) = 1 THEN "read" ELSE "offer"
      /\ UNCHANGED <<pending, decoded, dropped, taken>>
  BY DEF InboundInv, FramesOnTheWay, Enqueue, OfferedOne
<1>2. /\ h \in Frames /\ h \in Seq(Nat) /\ Tail(toOffer) \in Seq(Frames)
      /\ T \in Seq(Nat) /\ FlattenSeq(toOffer) = h \o T
  BY <1>1, FirstFrame
<1>3. Q \in Seq(Nat) /\ taken \in Seq(Nat) /\ FlattenSeq(queue') = Q \o h
  BY <1>1, <1>2, InboundTypes, FlattenAppend
<1>4. FramesOnTheWay'
  <2>1. queue' \in Seq(Frames)
    BY <1>1, <1>2, AppendProperties
  <2>2. Tail(toOffer) = <<>> <=> Len(toOffer) = 1
    BY <1>1, LastOne
  <2> QED
    BY <1>1, <1>2, <2>1, <2>2 DEF InboundInv, FramesOnTheWay
<1>5. Kept' = Kept
  <2>1. Kept' = ((taken \o (Q \o h)) \o T) \o pending
    BY <1>1, <1>3 DEF Kept
  <2>2. Kept = ((taken \o Q) \o (h \o T)) \o pending
    BY <1>2 DEF Kept
  <2> HIDE DEF h, Q, T
  <2>3. (taken \o (Q \o h)) \o T = (taken \o Q) \o (h \o T)
    <3>1. taken \o (Q \o h) = (taken \o Q) \o h /\ taken \o Q \in Seq(Nat)
      BY <1>2, <1>3, Reassociate
    <3>2. ((taken \o Q) \o h) \o T = (taken \o Q) \o (h \o T)
      BY <1>2, <1>3, <3>1, Reassociate
    <3> QED
      BY <3>1, <3>2
  <2> QED
    BY <2>1, <2>2, <2>3
<1> QED
  BY <1>1, <1>4, <1>5 DEF InboundInv, PendingBeginsFrame, WholeFramesDropped,
     BlocksInOrder, First

\* The channel is full: a whole frame is gone.
LEMMA FrameDropped ==
  ASSUME InboundInv, DropFrame
  PROVE  InboundInv'
<1> DEFINE h == Head(toOffer)  A == taken \o FlattenSeq(queue)
           T == FlattenSeq(Tail(toOffer))
<1>1. /\ toOffer \in Seq(Frames) /\ toOffer # <<>>
      /\ toOffer' = Tail(toOffer) /\ dropped' = dropped \cup ToSet(h)
      /\ reader' = IF Len(toOffer) = 1 THEN "read" ELSE "offer"
      /\ UNCHANGED <<pending, decoded, queue, taken>>
  BY DEF InboundInv, FramesOnTheWay, DropFrame, OfferedOne
<1>2. /\ h \in Frames /\ h \in Seq(Nat) /\ Tail(toOffer) \in Seq(Frames)
      /\ T \in Seq(Nat) /\ FlattenSeq(toOffer) = h \o T
  BY <1>1, FirstFrame
<1>3. FramesOnTheWay'
  <2>1. Tail(toOffer) = <<>> <=> Len(toOffer) = 1
    BY <1>1, LastOne
  <2> QED
    BY <1>1, <1>2, <2>1 DEF InboundInv, FramesOnTheWay
<1>4. WholeFramesDropped'
  <2> SUFFICES ASSUME NEW b \in dropped'
               PROVE  \E k \in Nat : b \in ToSet(Frame(k))
                                     /\ ToSet(Frame(k)) \subseteq dropped'
    BY DEF WholeFramesDropped
  <2>1. CASE b \in dropped
    BY <1>1, <2>1 DEF InboundInv, WholeFramesDropped
  <2>2. CASE b \in ToSet(h)
    BY <1>1, <1>2, <2>2 DEF Frames
  <2> QED
    BY <1>1, <2>1, <2>2
<1>5. A \in Seq(Nat) /\ A' = A /\ pending \in Seq(Nat)
  BY <1>1, InboundTypes
<1>6. Kept = (A \o (h \o T)) \o pending /\ Kept' = (A \o T) \o pending
  BY <1>1, <1>2, <1>5 DEF Kept
<1> HIDE DEF A, h, T
<1>7. Kept = (A \o h) \o (T \o pending) /\ Kept' = A \o (T \o pending)
  <2>1. /\ A \in Seq(Nat) /\ h \in Seq(Nat) /\ T \in Seq(Nat)
        /\ pending \in Seq(Nat)
    BY <1>2, <1>5
  <2>2. /\ Kept = Cat(Cat(A, Cat(h, T)), pending)
        /\ Kept' = Cat(Cat(A, T), pending)
    BY <1>6 DEF Cat
  <2>3. /\ Kept = Cat(Cat(A, h), Cat(T, pending))
        /\ Kept' = Cat(A, Cat(T, pending))
    BY <2>1, <2>2, CatAssociates
  <2> QED
    BY <2>3 DEF Cat
<1>8. BlocksInOrder'
  <2>1. First' = First
    BY <1>1 DEF First
  <2>2. T \o pending \in Seq(Nat)
    BY <1>2, <1>5
  <2>3. Accounted(A \o (T \o pending), First, decoded, dropped \cup ToSet(h))
    BY <1>2, <1>5, <1>7, <2>2, AccountedDrop DEF InboundInv, BlocksInOrder
  <2> QED
    BY <1>1, <1>7, <2>1, <2>3 DEF InboundInv, BlocksInOrder
<1> QED
  BY <1>1, <1>3, <1>4, <1>8 DEF InboundInv, PendingBeginsFrame

\* The loop takes the oldest frame.
LEMMA FrameHeard ==
  ASSUME InboundInv, TakeFrame
  PROVE  InboundInv'
<1> DEFINE F == FrameBlocks  Q == FlattenSeq(Tail(queue))
           T == FlattenSeq(toOffer)
<1>1. /\ queue \in Seq(Frames) /\ queue # <<>>
      /\ queue' = Tail(queue) /\ taken' = Head(queue)
      /\ dropped' = {b \in dropped : b > Last(Head(queue))}
      /\ UNCHANGED <<reader, pending, toOffer, decoded>>
  BY DEF InboundInv, FramesOnTheWay, TakeFrame, inboundVars
<1>2. /\ Head(queue) \in Frames /\ Tail(queue) \in Seq(Frames)
      /\ Q \in Seq(Nat) /\ FlattenSeq(queue) = Head(queue) \o Q
  BY <1>1, FirstFrame
<1>3. PICK k \in Nat : Head(queue) = Frame(k)
  BY <1>2 DEF Frames
<1> DEFINE h == Frame(k)
<1>4. /\ h \in Seq(Nat) /\ h # <<>> /\ Head(h) = k * F + 1
      /\ dropped' = {b \in dropped : b > k * F + F}
  BY <1>1, <1>3, FrameBasics
<1>5. FramesOnTheWay'
  BY <1>1, <1>2 DEF InboundInv, FramesOnTheWay
<1>6. WholeFramesDropped'
  <2> SUFFICES ASSUME NEW b \in dropped'
               PROVE  \E n \in Nat : b \in ToSet(Frame(n))
                                     /\ ToSet(Frame(n)) \subseteq dropped'
    BY DEF WholeFramesDropped
  <2>1. b \in dropped /\ b > k * F + F
    BY <1>4
  <2>2. PICK n \in Nat : /\ b \in ToSet(Frame(n))
                        /\ ToSet(Frame(n)) \subseteq dropped
    BY <2>1 DEF InboundInv, WholeFramesDropped
  <2>3. ToSet(Frame(n)) = n * F + 1 .. n * F + F /\ n * F \in Nat
        /\ k * F \in Nat /\ F \in Nat
    BY FrameBasics, FrameStart, HearingConstants
  <2>4. k + 1 <= n
    <3>1. n <= k => n * F <= k * F
      BY FrameStart
    <3>2. ~(n <= k)
      BY <2>1, <2>2, <2>3, <3>1
    <3> QED
      BY <3>2
  <2>5. k * F + F <= n * F
    <3>1. k + 1 \in Nat /\ (k + 1) * F = k * F + F
      BY FrameStart
    <3> QED
      BY <2>4, <3>1, FrameStart
  <2>6. \A x \in ToSet(Frame(n)) : x > k * F + F
    BY <2>3, <2>5
  <2> QED
    BY <1>4, <2>2, <2>6
<1>7. taken \in Seq(Nat) /\ T \in Seq(Nat) /\ pending \in Seq(Nat)
      /\ decoded \in Nat
  BY InboundTypes
<1>8. /\ Kept = ((taken \o (h \o Q)) \o T) \o pending
      /\ Kept' = ((h \o Q) \o T) \o pending
  BY <1>1, <1>2, <1>3 DEF Kept
<1> HIDE DEF h, Q, T
<1> DEFINE B == (Q \o T) \o pending
<1>9. Kept = (taken \o h) \o B /\ Kept' = h \o B /\ B \in Seq(Nat)
  <2>1. /\ taken \in Seq(Nat) /\ h \in Seq(Nat) /\ Q \in Seq(Nat)
        /\ T \in Seq(Nat) /\ pending \in Seq(Nat)
    BY <1>2, <1>4, <1>7
  <2>2. /\ Kept = Cat(Cat(Cat(taken, Cat(h, Q)), T), pending)
        /\ Kept' = Cat(Cat(Cat(h, Q), T), pending)
    BY <1>8 DEF Cat
  <2>3. /\ Kept = Cat(Cat(taken, h), Cat(Cat(Q, T), pending))
        /\ Kept' = Cat(h, Cat(Cat(Q, T), pending))
        /\ Cat(Cat(Q, T), pending) \in Seq(Nat)
    BY <2>1, <2>2, CatAssociates
  <2> QED
    BY <2>3 DEF Cat, B
<1> HIDE DEF B
<1>10. BlocksInOrder'
  <2>1. First \in Nat
        /\ Accounted((taken \o Frame(k)) \o B, First, decoded, dropped)
    BY <1>7, <1>9 DEF InboundInv, BlocksInOrder, h
  <2>2. /\ Accounted(Frame(k) \o B, k * F + 1, decoded,
                     {x \in dropped : x > k * F + F})
        /\ k * F + 1 \in First .. decoded
    BY <1>7, <1>9, <2>1, AccountedTake
  <2>3. First' = k * F + 1
    BY <1>1, <1>3, <1>4 DEF First, h
  <2>4. First' \in 1 .. decoded' + 1
    BY <1>1, <1>7, <2>1, <2>2, <2>3 DEF InboundInv, BlocksInOrder
  <2> QED
    BY <1>1, <1>4, <1>9, <2>2, <2>3, <2>4 DEF BlocksInOrder, h
<1> QED
  BY <1>1, <1>5, <1>6, <1>10 DEF InboundInv, PendingBeginsFrame

\* A step that leaves the audio alone, but for a reader that stops.
LEMMA InboundUntouched ==
  ASSUME InboundInv,
         UNCHANGED <<pending, toOffer, decoded, dropped, queue, taken>>,
         reader' = reader \/ reader' = "stopped"
  PROVE  InboundInv'
<1>1. FramesOnTheWay'
  BY DEF InboundInv, FramesOnTheWay
<1>2. PendingBeginsFrame' /\ WholeFramesDropped'
  BY DEF InboundInv, PendingBeginsFrame, WholeFramesDropped
<1>3. Kept' = Kept /\ First' = First
  BY DEF Kept, First
<1>4. BlocksInOrder'
  BY <1>3 DEF InboundInv, BlocksInOrder
<1> QED
  BY <1>1, <1>2, <1>4 DEF InboundInv

\* At first no block is decoded.
LEMMA InboundInit == Init => InboundInv
<1> SUFFICES ASSUME Init PROVE InboundInv
  OBVIOUS
<1>1. /\ reader = "read" /\ pending = <<>> /\ toOffer = <<>> /\ queue = <<>>
      /\ decoded = 0 /\ dropped = {} /\ taken = <<>>
  BY DEF Init
<1>2. FramesOnTheWay
  BY <1>1 DEF FramesOnTheWay
<1>3. PendingBeginsFrame
  <2>1. Run(0 * FrameBlocks, 0) = <<>> /\ 0 * FrameBlocks + 0 = 0
    BY HearingConstants DEF Run
  <2>2. 0 \in Nat /\ 0 \in 0 .. FrameBlocks - 1
    BY HearingConstants
  <2> QED
    BY <1>1, <2>1, <2>2 DEF PendingBeginsFrame
<1>4. WholeFramesDropped
  BY <1>1 DEF WholeFramesDropped
<1>5. Kept = <<>> /\ First = 1
  BY <1>1, FlattenEmpty DEF Kept, First
<1>6. BlocksInOrder
  <2>1. Increasing(<<>>) /\ ToSet(<<>>) = {} /\ <<>> \in Seq(Nat)
    BY DEF Increasing, ToSet
  <2>2. 1 .. 0 = {} /\ 1 \in 1 .. 0 + 1
    OBVIOUS
  <2> QED
    BY <1>1, <1>5, <2>1, <2>2 DEF BlocksInOrder, Accounted
<1> QED
  BY <1>2, <1>3, <1>4, <1>6 DEF InboundInv

\* Every step accounts for every block.
LEMMA InboundNext ==
  ASSUME InboundInv, [Next]_vars
  PROVE  InboundInv'
<1>1. ASSUME NEW size \in PacketBlocks, ReadPacket(size) PROVE InboundInv'
  BY <1>1, PacketRead
<1>2. CASE Enqueue
  BY <1>2, FrameQueued
<1>3. CASE DropFrame
  BY <1>3, FrameDropped
<1>4. CASE TakeFrame
  BY <1>4, FrameHeard
<1>5. CASE ReaderStops \/ RunStarts \/ RunFails
  BY <1>5, InboundUntouched DEF ReaderStops, RunStarts, RunFails, audioVars,
     inboundVars
<1>6. CASE Analyze
  BY <1>6, InboundUntouched DEF Analyze, InferFails, SpeechResumes,
     SpeechStarts, SilenceGoesOn, SpeechEnds, NothingHappens, Judged,
     TakeWindow, audioVars, inboundVars
<1>7. CASE HandleEvents \/ TakeResult \/ RunReturns \/ ReadMessage
           \/ OfferResult
  BY <1>7, InboundUntouched DEF HandleEvents, TakeResult, RunReturns,
     ReadMessage, OfferResult, audioVars, inboundVars
<1>8. ASSUME NEW kind \in Kinds, ServiceSends(kind) PROVE InboundInv'
  BY <1>8, InboundUntouched DEF ServiceSends, audioVars, inboundVars
<1>9. CASE ReadLoopCancelled \/ ReadFails \/ Cancel
  BY <1>9, InboundUntouched DEF ReadLoopCancelled, ReadFails, EndReadLoop,
     Cancel, audioVars, inboundVars
<1>10. CASE UNCHANGED vars
  BY <1>10, InboundUntouched DEF vars, audioVars, inboundVars
<1> QED
  BY <1>1, <1>2, <1>3, <1>4, <1>5, <1>6, <1>7, <1>8, <1>9, <1>10 DEF Next

\* Whatever the sizes of packets, frames and channel: every block decoded since
\* the last frame taken is pending, offered, queued or in a frame that was
\* dropped as a whole, in one of these places only, and those on their way are
\* in order (SampleBuffer.Push, Inbound.Run).
THEOREM AudioIsAccountedFor == Spec => []AudioAccounted
<1>1. InboundInv => AudioAccounted
  <2> SUFFICES ASSUME InboundInv PROVE AudioAccounted
    OBVIOUS
  <2>1. /\ Kept \in Seq(Nat) /\ Increasing(Kept)
        /\ ToSet(Kept) \cap dropped = {}
        /\ ToSet(Kept) \cup dropped = First .. decoded
        /\ First \in 1 .. decoded + 1 /\ decoded \in Nat
    BY InboundTypes DEF InboundInv, BlocksInOrder, Accounted
  <2>2. \A i, j \in DOMAIN Kept : i < j => Kept[i] < Kept[j]
    <3>1. DOMAIN Kept = 1 .. Len(Kept)
      BY <2>1
    <3> QED
      BY <2>1, <3>1 DEF Increasing
  <2>3. ASSUME NEW b \in dropped, NEW c \in 1 .. decoded,
               (c - 1) \div FrameBlocks = (b - 1) \div FrameBlocks
        PROVE  c \in dropped
    <3>1. b \in Nat /\ b # 0 /\ c \in Nat /\ c # 0
      BY <2>1
    <3>2. PICK k \in Nat : b \in ToSet(Frame(k))
                           /\ ToSet(Frame(k)) \subseteq dropped
      BY DEF InboundInv, WholeFramesDropped
    <3>3. (b - 1) \div FrameBlocks = k
      BY <3>1, <3>2, FrameOf
    <3>4. c \in ToSet(Frame(k))
      BY <2>3, <3>1, <3>3, FrameOf
    <3> QED
      BY <3>2, <3>4
  <2> QED
    BY <2>1, <2>2, <2>3 DEF AudioAccounted, Kept, First
<1> QED
  BY <1>1, InboundInit, InboundNext, PTL DEF Spec

=============================================================================
