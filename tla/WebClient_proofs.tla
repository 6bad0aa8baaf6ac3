-------------------------- MODULE WebClient_proofs --------------------------
(***************************************************************************)
(* Proofs about the browser's calls of connect, for every number of calls, *)
(* stops and camera clicks.  The code compares a number, the generation,   *)
(* after most awaits; the proofs show that this is enough, also where it   *)
(* does not look (setRemoteDescription).  The argument: generations are    *)
(* given in the order of the calls, so at most one call is current, what   *)
(* the page holds is that call's, and a call that has not got that far     *)
(* yet finds its place empty.  On top of that, what the page shows is told *)
(* by how far the live call has got (ShownIsTrue), and a camera that is on *)
(* belongs to the stream of a call, which disconnect stops.                *)
(***************************************************************************)
EXTENDS WebClient, TLAPS

Shown == [state : {"idle", "connecting", "connected", "failed"},
          peer : PcStates \cup {"idle"}, participant : Calls \cup {Nil}]

Shape ==
  /\ generation \in Nat /\ gen \in [Calls -> Nat]
  /\ at \in [Calls -> Awaits]
  /\ mic \in [Calls -> Tracks] /\ pc \in [Calls -> PcStates]
  /\ localStream \in Calls \cup {Nil} /\ pcRef \in Calls \cup {Nil}
  /\ shown \in Shown

\* Calls get their generations in order, when they begin.
GenerationsInOrder ==
  /\ \A c \in Calls : gen[c] <= generation
  /\ \A c \in Calls : gen[c] = 0 <=> at[c] = "none"
  /\ \A c, d \in Calls : c < d /\ gen[d] # 0 => gen[c] # 0 /\ gen[c] < gen[d]

\* A call that began and was not superseded.
Live(c) == gen[c] # 0 /\ gen[c] = generation

\* What the page holds and shows is the live call's.
HeldIsLive ==
  \A c \in Calls : c \in {localStream, pcRef, shown.participant} => Live(c)

\* The live call finds its place empty, and has a PeerConnection from then on.
PlaceIsEmpty ==
  \A c \in Calls :
    /\ Live(c) /\ at[c] = "microphone" => localStream = Nil
    /\ Live(c) /\ at[c] \in {"microphone", "config"} => pcRef = Nil
    /\ at[c] \in {"offer", "join", "answer"} => pc[c] # "none"

\* While a call is live the page does not show "idle".
IdleMeansNoCall ==
  shown.state = "idle" => shown.peer = "idle" /\ \A c \in Calls : ~Live(c)

PageInv ==
  /\ Shape
  /\ GenerationsInOrder
  /\ HeldIsLive
  /\ PlaceIsEmpty
  /\ IdleMeansNoCall
  /\ MicrophoneReleased
  /\ OneConnection

\* Numbers of calls are numbers, and Nil is none.
LEMMA CallsAreNumbers ==
  /\ Nil \notin Calls
  /\ \A c \in Calls : c \in Nat
  /\ \A c, d \in Calls : c < d \/ d < c \/ c = d
BY WebClientConstants DEF Calls

\* No two calls are live.
LEMMA OneLiveCall ==
  ASSUME Shape, GenerationsInOrder, NEW c \in Calls, NEW d \in Calls,
         Live(c), Live(d)
  PROVE  c = d
<1>1. gen[c] \in Nat /\ gen[d] \in Nat
  BY DEF Shape
<1> QED
  BY <1>1, CallsAreNumbers DEF GenerationsInOrder, Live

\* The initial state satisfies the invariant.
LEMMA PageInit == Init => PageInv
<1> SUFFICES ASSUME Init PROVE PageInv
  OBVIOUS
<1> USE CallsAreNumbers DEF Init, Idle
<1>1. Shape
  BY DEF Shape, Shown, Awaits, Tracks, PcStates
<1>2. GenerationsInOrder /\ HeldIsLive /\ PlaceIsEmpty /\ IdleMeansNoCall
  BY DEF GenerationsInOrder, HeldIsLive, PlaceIsEmpty, IdleMeansNoCall, Live
<1>3. MicrophoneReleased /\ OneConnection
  BY DEF MicrophoneReleased, OneConnection
<1> QED
  BY <1>1, <1>2, <1>3 DEF PageInv

\* disconnect's release leaves no live microphone and no open connection.
LEMMA Released ==
  ASSUME PageInv, Release
  PROVE  /\ localStream' = Nil /\ pcRef' = Nil
         /\ mic' \in [Calls -> Tracks] /\ pc' \in [Calls -> PcStates]
         /\ MicrophoneReleased' /\ OneConnection'
         /\ \A c \in Calls : pc[c] # "none" => pc'[c] # "none"
<1> USE DEF PageInv, Shape, Release, StopTracks
<1>1. mic' \in [Calls -> Tracks] /\ pc' \in [Calls -> PcStates]
  BY DEF Tracks, PcStates
<1>2. MicrophoneReleased'
  BY DEF MicrophoneReleased
<1>3. OneConnection' /\ \A c \in Calls : pc[c] # "none" => pc'[c] # "none"
  BY DEF OneConnection
<1> QED
  BY <1>1, <1>2, <1>3

\* A disconnect supersedes every call.
LEMMA Disconnected ==
  ASSUME PageInv, Disconnect, UNCHANGED callVars
  PROVE  PageInv'
<1> USE CallsAreNumbers DEF callVars
<1>1. /\ Release /\ shown' = Idle /\ generation' = generation + 1
  BY DEF Disconnect
<1>2. Shape'
  BY <1>1, Released DEF PageInv, Shape, Shown, Idle
<1>3. GenerationsInOrder' /\ \A c \in Calls : ~Live(c)'
  BY <1>1 DEF PageInv, Shape, GenerationsInOrder, Live
<1>4. HeldIsLive' /\ IdleMeansNoCall'
  BY <1>1, <1>3, Released DEF HeldIsLive, IdleMeansNoCall, Idle
<1>5. PlaceIsEmpty'
  BY <1>3, <1>1, Released DEF PageInv, PlaceIsEmpty
<1> QED
  BY <1>1, <1>2, <1>3, <1>4, <1>5, Released DEF PageInv

\* The tab closes.
LEMMA Hidden ==
  ASSUME PageInv, PageHides
  PROVE  PageInv'
<1> USE CallsAreNumbers
<1>1. /\ Release
      /\ at' = [c \in Calls |-> IF at[c] = "none" THEN "none" ELSE "done"]
      /\ UNCHANGED <<gen, generation, shown>>
  BY DEF PageHides
<1>2. Shape'
  BY <1>1, Released DEF PageInv, Shape, Awaits
<1>3. GenerationsInOrder'
  BY <1>1 DEF PageInv, GenerationsInOrder
<1>4. HeldIsLive' /\ IdleMeansNoCall'
  BY <1>1, Released DEF PageInv, HeldIsLive, IdleMeansNoCall, Live
<1>5. PlaceIsEmpty'
  BY <1>1 DEF PlaceIsEmpty
<1> QED
  BY <1>1, <1>2, <1>3, <1>4, <1>5, Released DEF PageInv

\* A call begins: it is live, and no other is.
LEMMA Started ==
  ASSUME PageInv, NEW c \in Calls, Start(c)
  PROVE  PageInv'
<1> USE CallsAreNumbers
<1>1. /\ Release /\ at[c] = "none"
      /\ \A d \in Calls : d < c => at[d] # "none"
      /\ generation' = generation + 1
      /\ gen' = [gen EXCEPT ![c] = generation + 1]
      /\ shown' = [Idle EXCEPT !.state = "connecting"]
      /\ at' = [at EXCEPT ![c] = "microphone"]
  BY DEF Start
<1>2. Shape'
  BY <1>1, Released DEF PageInv, Shape, Shown, Idle, Awaits
<1>3. /\ generation \in Nat /\ gen \in [Calls -> Nat]
      /\ at \in [Calls -> Awaits]
      /\ \A d \in Calls : gen[d] <= generation
      /\ \A d \in Calls : gen[d] = 0 <=> at[d] = "none"
      /\ \A d, e \in Calls :
           d < e /\ gen[e] # 0 => gen[d] # 0 /\ gen[d] < gen[e]
  BY DEF PageInv, Shape, GenerationsInOrder
<1>4. GenerationsInOrder'
  <2>1. \A d \in Calls : gen'[d] <= generation'
    BY <1>1, <1>3
  <2>2. \A d \in Calls : gen'[d] = 0 <=> at'[d] = "none"
    BY <1>1, <1>3
  <2>3. ASSUME NEW d \in Calls, NEW e \in Calls, d < e, gen'[e] # 0
        PROVE  gen'[d] # 0 /\ gen'[d] < gen'[e]
    <3>1. CASE e = c
      BY <1>1, <1>3, <2>3, <3>1
    <3>2. CASE e # c /\ d = c
      BY <1>1, <1>3, <2>3, <3>2
    <3>3. CASE e # c /\ d # c
      BY <1>1, <1>3, <2>3, <3>3
    <3> QED
      BY <3>1, <3>2, <3>3
  <2> QED
    BY <2>1, <2>2, <2>3 DEF GenerationsInOrder
<1>5. HeldIsLive' /\ IdleMeansNoCall'
  BY <1>1, Released DEF HeldIsLive, IdleMeansNoCall, Idle
<1>6. PlaceIsEmpty'
  BY <1>1, Released, <1>3 DEF PageInv, PlaceIsEmpty
<1> QED
  BY <1>1, <1>2, <1>4, <1>5, <1>6, Released DEF PageInv

\* What a step of a call's own looks like: no generation changes, and the call
\* goes on from one await to a later one.
CallGoesOn(c) ==
  /\ UNCHANGED <<generation, gen>>
  /\ \E what \in Awaits \ {"none", "microphone"} :
       at[c] # "none" /\ at' = [at EXCEPT ![c] = what]

LEMMA OrderKept ==
  ASSUME PageInv, NEW c \in Calls, CallGoesOn(c)
  PROVE  /\ GenerationsInOrder'
         /\ \A d \in Calls : Live(d)' = Live(d)
         /\ at' \in [Calls -> Awaits]
BY DEF PageInv, Shape, GenerationsInOrder, CallGoesOn, Live

\* A call that awaits something began.
LEMMA AtWork ==
  ASSUME PageInv, NEW c \in Calls, at[c] # "none", Current(c)
  PROVE  Live(c)
BY DEF PageInv, GenerationsInOrder, Current, Live

\* The microphone is granted: it becomes the page's, or is stopped.
LEMMA MicrophoneKept ==
  ASSUME PageInv, NEW c \in Calls, MicrophoneGranted(c)
  PROVE  PageInv'
<1> USE CallsAreNumbers
<1>1. at[c] = "microphone" /\ CallGoesOn(c)
      /\ UNCHANGED <<pc, pcRef, shown>>
      /\ at' = [at EXCEPT ![c] = at'[c]] /\ at'[c] \in {"config", "done"}
      /\ (at'[c] = "config" => Current(c))
  BY DEF MicrophoneGranted, CallGoesOn, Await, Awaits, PageInv, Shape
<1>2. CASE Current(c)
  <2>1. Live(c) /\ localStream = Nil /\ localStream' = c
        /\ mic' = [mic EXCEPT ![c] = "live"]
    BY <1>1, <1>2, AtWork DEF MicrophoneGranted, PageInv, PlaceIsEmpty
  <2>2. \A d \in Calls : Live(d) => d = c
    BY <2>1, OneLiveCall DEF PageInv
  <2>3. Shape'
    BY <1>1, <2>1, OrderKept DEF PageInv, Shape, CallGoesOn, Tracks
  <2>4. HeldIsLive'
    BY <1>1, <2>1, OrderKept DEF PageInv, HeldIsLive
  <2>5. PlaceIsEmpty'
    BY <1>1, <2>1, <2>2, OrderKept DEF PageInv, PlaceIsEmpty, Shape
  <2>6. MicrophoneReleased' /\ OneConnection' /\ IdleMeansNoCall'
    BY <1>1, <2>1, OrderKept DEF PageInv, MicrophoneReleased, OneConnection,
       IdleMeansNoCall, Shape
  <2> QED
    BY <1>1, <2>3, <2>4, <2>5, <2>6, OrderKept DEF PageInv
<1>3. CASE ~Current(c)
  <2>1. ~Live(c) /\ UNCHANGED localStream
        /\ mic' = [mic EXCEPT ![c] = "stopped"]
    BY <1>3 DEF MicrophoneGranted, Current, Live
  <2>2. Shape' /\ HeldIsLive'
    BY <1>1, <2>1, OrderKept DEF PageInv, Shape, CallGoesOn, Tracks,
       HeldIsLive
  <2>3. PlaceIsEmpty'
    BY <1>1, <2>1, OrderKept DEF PageInv, PlaceIsEmpty, Shape
  <2>4. MicrophoneReleased' /\ OneConnection' /\ IdleMeansNoCall'
    BY <1>1, <2>1, OrderKept DEF PageInv, MicrophoneReleased, OneConnection,
       IdleMeansNoCall, Shape
  <2> QED
    BY <1>1, <2>2, <2>3, <2>4, OrderKept DEF PageInv
<1> QED
  BY <1>2, <1>3

\* The PeerConnection is made by a current call only, which finds none.
LEMMA ConnectionMade ==
  ASSUME PageInv, NEW c \in Calls, ConfigFetched(c)
  PROVE  PageInv'
<1> USE CallsAreNumbers
<1>1. at[c] = "config" /\ CallGoesOn(c)
      /\ UNCHANGED localStream
      /\ at' = [at EXCEPT ![c] = at'[c]] /\ at'[c] \in {"offer", "done"}
  BY DEF ConfigFetched, CallGoesOn, Await, Awaits, PageInv, Shape
<1>2. CASE Current(c)
  <2>1. /\ Live(c) /\ pcRef = Nil /\ pcRef' = c /\ mic' = mic
        /\ pc' = [pc EXCEPT ![c] = "new"]
        /\ shown' = [shown EXCEPT !.peer = "new"]
    BY <1>1, <1>2, AtWork DEF ConfigFetched, PageInv, PlaceIsEmpty
  <2>2. \A d \in Calls : Live(d) => d = c
    BY <2>1, OneLiveCall DEF PageInv
  <2>3. shown \in Shown /\ shown.state # "idle"
        /\ shown' \in Shown /\ shown'.state = shown.state
        /\ shown'.participant = shown.participant
    BY <2>1 DEF PageInv, Shape, Shown, PcStates, IdleMeansNoCall
  <2>4. Shape'
    BY <1>1, <2>1, <2>3, OrderKept DEF PageInv, Shape, CallGoesOn, PcStates
  <2>5. HeldIsLive' /\ IdleMeansNoCall'
    BY <1>1, <2>1, <2>3, OrderKept DEF PageInv, HeldIsLive, IdleMeansNoCall
  <2>6. PlaceIsEmpty'
    BY <1>1, <2>1, <2>2, OrderKept DEF PageInv, PlaceIsEmpty, Shape
  <2>7. MicrophoneReleased' /\ OneConnection'
    BY <1>1, <2>1 DEF PageInv, MicrophoneReleased, OneConnection, Shape
  <2> QED
    BY <1>1, <2>4, <2>5, <2>6, <2>7, OrderKept DEF PageInv
<1>3. CASE ~Current(c)
  <2>1. /\ UNCHANGED <<pc, pcRef, shown>> /\ at'[c] = "done"
        /\ mic' = [d \in Calls |-> IF d = c THEN "stopped" ELSE mic[d]]
    BY <1>3, <1>1 DEF ConfigFetched, StopTracks, Await, PageInv, Shape
  <2>2. Shape' /\ HeldIsLive' /\ IdleMeansNoCall'
    BY <1>1, <2>1, OrderKept DEF PageInv, Shape, CallGoesOn, HeldIsLive,
       IdleMeansNoCall, Tracks
  <2>3. PlaceIsEmpty'
    BY <1>1, <2>1, OrderKept DEF PageInv, PlaceIsEmpty, Shape
  <2>4. MicrophoneReleased' /\ OneConnection'
    BY <1>1, <2>1 DEF PageInv, MicrophoneReleased, OneConnection
  <2> QED
    BY <1>1, <2>2, <2>3, <2>4, OrderKept DEF PageInv
<1> QED
  BY <1>2, <1>3

\* A call stays where it is, or goes on from its offer to the end, or ends.
Advances(d) ==
  \/ at'[d] = at[d]
  \/ /\ at[d] # "none"
     /\ at'[d] \in {"join", "answer", "done"}
     /\ at'[d] # "done" => at[d] \in {"offer", "join", "answer"}

\* The later awaits of a call touch neither the media nor the references; the
\* state of a PeerConnection that exists may change.
LaterStep(c) ==
  /\ UNCHANGED <<mic, localStream, pcRef, generation, gen>>
  /\ at' \in [Calls -> Awaits]
  /\ \A d \in Calls : Advances(d)
  /\ pc' \in [Calls -> PcStates]
  /\ \A d \in Calls : \/ pc'[d] = pc[d]
                      \/ pc[d] \notin {"none", "closed"} /\ pc'[d] # "none"
  /\ shown' \in Shown
  /\ shown' # shown => /\ Live(c)
                       /\ shown'.state # "idle"
                       /\ shown'.participant \in {shown.participant, c}

LEMMA LaterSteps ==
  ASSUME PageInv, NEW c \in Calls, LaterStep(c)
  PROVE  PageInv'
<1> USE CallsAreNumbers DEF LaterStep, Advances
<1>1. Shape'
  BY DEF PageInv, Shape
<1>2. GenerationsInOrder' /\ \A d \in Calls : Live(d)' = Live(d)
  BY DEF PageInv, GenerationsInOrder, Live
<1>3. HeldIsLive'
  BY <1>2 DEF PageInv, HeldIsLive
<1>4. PlaceIsEmpty'
  BY <1>2 DEF PageInv, PlaceIsEmpty
<1>5. IdleMeansNoCall'
  <2>1. CASE shown' = shown
    BY <1>2, <2>1 DEF PageInv, IdleMeansNoCall
  <2>2. CASE shown' # shown
    BY <2>2 DEF IdleMeansNoCall
  <2> QED
    BY <2>1, <2>2
<1>6. MicrophoneReleased' /\ OneConnection'
  BY DEF PageInv, MicrophoneReleased, OneConnection
<1> QED
  BY <1>1, <1>2, <1>3, <1>4, <1>5, <1>6 DEF PageInv

\* A PeerConnection that is not closed is the live call's.
LEMMA ConnectionIsLive ==
  ASSUME PageInv, NEW c \in Calls, pc[c] \notin {"none", "closed"}
  PROVE  Live(c)
BY DEF PageInv, OneConnection, HeldIsLive

\* A call that awaits the next thing, or ends.
LEMMA AwaitStep ==
  ASSUME PageInv, NEW c \in Calls, at[c] # "none",
         NEW what \in {"join", "answer", "done"}, Await(c, what),
         what # "done" => at[c] \in {"offer", "join", "answer"}
  PROVE  /\ at' \in [Calls -> Awaits]
         /\ \A d \in Calls : Advances(d)
BY DEF PageInv, Shape, Await, Awaits, Advances

\* A call that goes on and leaves its PeerConnection alone.
LEMMA QuietStep ==
  ASSUME PageInv, NEW c \in Calls, at[c] # "none",
         NEW what \in {"join", "answer", "done"}, Await(c, what),
         what # "done" => at[c] \in {"offer", "join", "answer"},
         UNCHANGED <<mic, pc, localStream, pcRef, generation, gen>>,
         shown' \in Shown,
         shown' # shown => /\ Live(c)
                           /\ shown'.state # "idle"
                           /\ shown'.participant \in {shown.participant, c}
  PROVE  LaterStep(c)
<1>1. pc' \in [Calls -> PcStates]
  BY DEF PageInv, Shape
<1> QED
  BY <1>1, AwaitStep DEF LaterStep

\* The rest of connect, and what the PeerConnection reports.
LEMMA CallSteps ==
  ASSUME PageInv, NEW c \in Calls,
         \/ OfferReady(c) \/ JoinAnswered(c) \/ AnswerApplied(c)
         \/ CallFails(c) \/ \E state \in PcStates : PcChanges(c, state)
  PROVE  LaterStep(c)
<1>1. /\ at \in [Calls -> Awaits] /\ pc \in [Calls -> PcStates]
      /\ shown \in Shown
  BY DEF PageInv, Shape
<1>2. Live(c) => shown.state # "idle"
  BY DEF PageInv, IdleMeansNoCall
<1>3. CASE OfferReady(c)
  <2>1. /\ at[c] = "offer" /\ (Await(c, "join") \/ Await(c, "done"))
        /\ UNCHANGED <<mic, pc, localStream, pcRef, generation, gen, shown>>
    BY <1>3 DEF OfferReady, mediaVars, refVars
  <2> QED
    BY <1>1, <2>1, QuietStep
<1>4. CASE JoinAnswered(c)
  <2>1. /\ at[c] = "join"
        /\ UNCHANGED <<mic, pc, localStream, pcRef, generation, gen>>
    BY <1>4 DEF JoinAnswered, mediaVars
  <2>2. CASE Current(c)
    <3>1. Live(c)
      BY <2>1, <2>2, AtWork
    <3>2. Await(c, "answer") /\ shown' = [shown EXCEPT !.participant = c]
      BY <1>4, <2>2 DEF JoinAnswered
    <3>3. /\ shown' \in Shown /\ shown'.state # "idle"
          /\ shown'.participant = c
      BY <1>1, <1>2, <3>1, <3>2 DEF Shown
    <3> QED
      BY <2>1, <3>1, <3>2, <3>3, QuietStep
  <2>3. CASE ~Current(c)
    <3>1. Await(c, "done") /\ UNCHANGED shown
      BY <1>4, <2>3 DEF JoinAnswered
    <3> QED
      BY <1>1, <2>1, <3>1, QuietStep
  <2> QED
    BY <2>2, <2>3
<1>5. CASE AnswerApplied(c)
  <2>1. at[c] = "answer" /\ pc[c] # "closed" /\ pc[c] # "none"
    BY <1>5 DEF AnswerApplied, PageInv, PlaceIsEmpty
  <2>2. Live(c)
    BY <2>1, ConnectionIsLive
  <2>3. /\ shown' \in Shown /\ shown'.state # "idle"
        /\ shown'.participant = shown.participant
    BY <1>1, <1>5 DEF AnswerApplied, Shown
  <2>4. /\ pc' \in [Calls -> PcStates]
        /\ \A d \in Calls : d # c => pc'[d] = pc[d]
        /\ pc'[c] # "none"
    BY <1>1, <1>5, <2>1 DEF AnswerApplied, PcStates
  <2>5. /\ Await(c, "done")
        /\ UNCHANGED <<mic, localStream, pcRef, generation, gen>>
    BY <1>5 DEF AnswerApplied
  <2> QED
    BY <2>1, <2>2, <2>3, <2>4, <2>5, AwaitStep DEF LaterStep
<1>6. CASE CallFails(c)
  <2>1. /\ at[c] # "none" /\ Await(c, "done")
        /\ UNCHANGED <<mic, pc, localStream, pcRef, generation, gen>>
    BY <1>6 DEF CallFails, mediaVars
  <2>2. CASE Current(c)
    <3>1. Live(c)
      BY <2>1, <2>2, AtWork
    <3>2. shown' = [state |-> "failed", peer |-> "failed",
                    participant |-> shown.participant]
      BY <1>6, <2>2 DEF CallFails
    <3>3. /\ shown' \in Shown /\ shown'.state # "idle"
          /\ shown'.participant = shown.participant
      BY <1>1, <3>2 DEF Shown, PcStates
    <3> QED
      BY <2>1, <3>1, <3>3, QuietStep
  <2>3. CASE ~Current(c)
    <3>1. UNCHANGED shown
      BY <1>6, <2>3 DEF CallFails
    <3> QED
      BY <1>1, <2>1, <3>1, QuietStep
  <2> QED
    BY <2>2, <2>3
<1>7. ASSUME NEW state \in PcStates, PcChanges(c, state) PROVE LaterStep(c)
  <2>1. /\ pc[c] \notin {"none", "closed"}
        /\ state \in {"connected", "disconnected", "failed"}
    BY <1>7 DEF PcChanges
  <2>2. Live(c)
    BY <2>1, ConnectionIsLive
  <2>3. shown' = [state |-> IF state \in {"connected", "failed"} THEN state
                            ELSE shown.state,
                  peer |-> state, participant |-> shown.participant]
    BY <1>7, <2>2 DEF PcChanges, Current, Live
  <2>4. /\ shown' \in Shown /\ shown'.state # "idle"
        /\ shown'.participant = shown.participant
    BY <1>1, <1>2, <2>1, <2>2, <2>3 DEF Shown
  <2>5. /\ pc' = [pc EXCEPT ![c] = state]
        /\ UNCHANGED <<at, mic, localStream, pcRef, generation, gen>>
    BY <1>7 DEF PcChanges, callVars
  <2>6. /\ pc' \in [Calls -> PcStates]
        /\ \A d \in Calls : d # c => pc'[d] = pc[d]
        /\ pc'[c] # "none"
    BY <1>1, <2>1, <2>5 DEF PcStates
  <2> QED
    BY <1>1, <2>1, <2>2, <2>4, <2>5, <2>6 DEF LaterStep, Advances
<1> QED
  BY <1>3, <1>4, <1>5, <1>6, <1>7

\* The camera, the server and a toggled track change nothing of it.
LEMMA HeldUntouched ==
  ASSUME PageInv,
         UNCHANGED <<callVars, mic, pc, generation, localStream, pcRef, shown>>
  PROVE  PageInv'
BY DEF PageInv, callVars, Shape, GenerationsInOrder, HeldIsLive, Live,
       PlaceIsEmpty, IdleMeansNoCall, MicrophoneReleased, OneConnection

\* Every step preserves the invariant.
LEMMA PageNext ==
  ASSUME PageInv, [Next]_vars
  PROVE  PageInv'
<1> USE DEF mediaVars, refVars
<1>1. ASSUME NEW c \in Calls, Connect(c) PROVE PageInv'
  BY <1>1, Started, MicrophoneKept, ConnectionMade, CallSteps, LaterSteps
     DEF Connect
<1>2. ASSUME NEW c \in Calls, NEW state \in PcStates, PcChanges(c, state)
      PROVE  PageInv'
  BY <1>2, CallSteps, LaterSteps
<1>3. ASSUME NEW k \in Clicks, Camera(k) PROVE PageInv'
  BY <1>3, HeldUntouched DEF Camera, AskForCamera, CameraGranted,
     CameraRefused
<1>4. CASE ToggleTrack
  BY <1>4, HeldUntouched DEF ToggleTrack
<1>5. CASE StopSession \/ LeavePage \/ SessionExpired
  BY <1>5, Disconnected DEF StopSession, LeavePage, SessionExpired
<1>6. CASE PageHides
  BY <1>6, Hidden
<1>7. CASE Server
  BY <1>7, HeldUntouched DEF Server, ServeJoin, ServeStop, ServeClose,
     SessionLost, SessionLimit
<1>8. CASE UNCHANGED vars
  BY <1>8, HeldUntouched DEF vars
<1> QED
  BY <1>1, <1>2, <1>3, <1>4, <1>5, <1>6, <1>7, <1>8 DEF Next

-----------------------------------------------------------------------------
\* The invariant holds in every reachable state.
THEOREM PageInductive == Spec => []PageInv
BY PageInit, PageNext, PTL DEF Spec

\* A live microphone and a PeerConnection that is not closed are always those
\* the page holds, and disconnect will stop them (connect).
THEOREM PageLeaksNothing == Spec => []NothingLeaks
<1>1. PageInv => NothingLeaks
  BY DEF PageInv, NothingLeaks
<1> QED
  BY <1>1, PageInductive, PTL

\* What the page holds and shows is the latest call's (connect, disconnect).
THEOREM NothingOfEarlierCalls == Spec => []LatestCallOnly
<1>1. PageInv => LatestCallOnly
  <2> SUFFICES ASSUME PageInv, NEW c \in Calls, NEW d \in Calls, d > c, Live(c)
               PROVE  gen[d] = 0
    BY DEF PageInv, HeldIsLive, LatestCallOnly
  <2>1. gen[d] \in Nat /\ gen[c] = generation /\ gen[d] <= generation
    BY DEF PageInv, Shape, GenerationsInOrder, Live
  <2>2. gen[d] # 0 => gen[c] < gen[d]
    BY CallsAreNumbers DEF PageInv, GenerationsInOrder
  <2>3. generation \in Nat
    BY DEF PageInv, Shape
  <2> QED
    BY <2>1, <2>2, <2>3
<1> QED
  BY <1>1, PageInductive, PTL

\* A page that shows "idle" holds nothing, whatever superseded calls still do
\* (disconnect).
THEOREM IdleIsClean == Spec => []IdleHoldsNothing
<1>1. PageInv => IdleHoldsNothing
  <2> SUFFICES ASSUME PageInv, shown.state = "idle"
               PROVE  shown = Idle /\ localStream = Nil /\ pcRef = Nil
    BY DEF IdleHoldsNothing
  <2>1. shown \in Shown /\ shown.peer = "idle" /\ shown.participant = Nil
    BY DEF PageInv, Shape, Shown, IdleMeansNoCall, HeldIsLive
  <2>2. localStream = Nil /\ pcRef = Nil
    BY DEF PageInv, Shape, IdleMeansNoCall, HeldIsLive
  <2> QED
    BY <2>1, <2>2 DEF Shown, Idle
<1> QED
  BY <1>1, PageInductive, PTL

-----------------------------------------------------------------------------
(* What the page shows: it keeps pace with the live call, from the click   *)
(* on.                                                                     *)

\* How far the live call has got, and what the page shows of it: "connecting"
\* until its peer is found, "connected" from then on, and "failed" only when
\* nothing of the call will report any more or the peer was lost.
Stage(c) ==
  \/ at[c] \in {"microphone", "config"} /\ shown.state = "connecting"
  \/ at[c] \in {"offer", "join"} /\ pc[c] = "new"
     /\ shown.state = "connecting"
  \/ at[c] = "answer" /\ pc[c] = "new" /\ shown.state = "connecting"
  \/ at[c] = "answer" /\ pc[c] = "connected" /\ shown.state = "connected"
  \/ at[c] = "done" /\ pc[c] = "negotiated" /\ shown.state = "connecting"
  \/ at[c] = "done" /\ pc[c] \in {"connected", "disconnected"}
     /\ shown.state = "connected"
  \/ at[c] = "done" /\ pc[c] # "negotiated" /\ shown.state = "failed"

\* A call whose join was answered is the participant the page shows.
Participates(c) ==
  at[c] = "answer" \/ pc[c] \in {"negotiated", "connected", "disconnected"}
    => shown.participant = c

\* What the page shows is where the live call is; without one it is "idle".
ShownIsTrue ==
  page # "gone" =>
    /\ (\A c \in Calls : ~Live(c)) => shown.state = "idle"
    /\ \A c \in Calls : Live(c) => Stage(c) /\ Participates(c)

\* At first there is no call.
LEMMA ShownInit == Init => ShownIsTrue
BY DEF Init, ShownIsTrue, Live, Idle

\* The camera, the server and a toggled track show nothing else.
LEMMA ShownUntouched ==
  ASSUME ShownIsTrue, UNCHANGED <<callVars, pc, generation, shown>>,
         page' = page
  PROVE  ShownIsTrue'
BY DEF ShownIsTrue, callVars, Live, Stage, Participates

\* After a disconnect no call is live.
LEMMA ShownDisconnected ==
  ASSUME PageInv, Disconnect, UNCHANGED callVars
  PROVE  ShownIsTrue'
<1>1. shown' = Idle /\ generation' = generation + 1 /\ gen' = gen
  BY DEF Disconnect, callVars
<1>2. \A c \in Calls : ~Live(c)'
  BY <1>1 DEF PageInv, Shape, GenerationsInOrder, Live
<1> QED
  BY <1>1, <1>2 DEF ShownIsTrue, Idle

\* A call begins: it is the live one.
LEMMA ShownStarted ==
  ASSUME PageInv, NEW c \in Calls, Start(c)
  PROVE  ShownIsTrue'
<1>1. /\ generation' = generation + 1
      /\ gen' = [gen EXCEPT ![c] = generation + 1]
      /\ shown'.state = "connecting"
      /\ at' = [at EXCEPT ![c] = "microphone"]
      /\ at[c] = "none"
  BY DEF Start, Idle
<1>2. PageInv'
  BY Started
<1>3. Live(c)' /\ Stage(c)'
  BY <1>1 DEF PageInv, Shape, Live, Stage
<1>4. Participates(c)'
  <2>1. pcRef' = Nil /\ at'[c] = "microphone"
    BY <1>1, <1>2, <1>3 DEF PageInv, PlaceIsEmpty, Shape
  <2>2. pc'[c] \in {"none", "closed"}
    BY <1>2, <2>1, CallsAreNumbers DEF PageInv, OneConnection
  <2> QED
    BY <2>1, <2>2 DEF Participates
<1>5. ASSUME NEW d \in Calls, d # c PROVE ~Live(d)'
  <2>1. gen'[d] = gen[d]
    BY <1>1, <1>5 DEF PageInv, Shape
  <2>2. gen[d] <= generation /\ generation \in Nat /\ gen[d] \in Nat
    BY DEF PageInv, Shape, GenerationsInOrder
  <2> QED
    BY <1>1, <2>1, <2>2 DEF Live
<1> QED
  BY <1>3, <1>4, <1>5 DEF ShownIsTrue

\* A superseded call goes on: nothing of it is shown.
LEMMA ShownOfOthers ==
  ASSUME ShownIsTrue, NEW c \in Calls, ~Live(c),
         UNCHANGED <<page, gen, generation, shown>>,
         \A d \in Calls : d # c => at'[d] = at[d] /\ pc'[d] = pc[d]
  PROVE  ShownIsTrue'
BY DEF ShownIsTrue, Live, Stage, Participates

\* The live call goes on: only its stage matters.
LEMMA ShownOfLive ==
  ASSUME PageInv, NEW c \in Calls, Live(c),
         UNCHANGED <<gen, generation>>, Stage(c)', Participates(c)'
  PROVE  ShownIsTrue'
<1>1. \A d \in Calls : Live(d) => d = c
  BY OneLiveCall DEF PageInv
<1>2. \A d \in Calls : Live(d)' = Live(d)
  BY DEF Live
<1> QED
  BY <1>1, <1>2 DEF ShownIsTrue

\* One await of a call after the other.
LEMMA ShownNext ==
  ASSUME PageInv, ShownIsTrue, NEW c \in Calls, page # "gone",
         \/ MicrophoneGranted(c) \/ ConfigFetched(c) \/ OfferReady(c)
         \/ JoinAnswered(c) \/ AnswerApplied(c) \/ CallFails(c)
         \/ \E state \in PcStates : PcChanges(c, state)
  PROVE  ShownIsTrue'
<1> USE DEF pageVars, mediaVars, refVars, callVars, Await
<1>1. /\ at \in [Calls -> Awaits] /\ pc \in [Calls -> PcStates]
      /\ shown \in Shown
  BY DEF PageInv, Shape
<1>2. UNCHANGED <<page, gen, generation>>
  BY DEF MicrophoneGranted, ConfigFetched, OfferReady, JoinAnswered,
     AnswerApplied, CallFails, PcChanges
<1>3. Live(c) => Stage(c) /\ Participates(c)
  BY DEF ShownIsTrue
<1>4. CASE ~Live(c)
  <2>1. pc[c] \in {"none", "closed"}
    BY <1>4, ConnectionIsLive
  <2>2. ~AnswerApplied(c)
    BY <2>1 DEF AnswerApplied, PageInv, PlaceIsEmpty
  <2>3. \A state \in PcStates : ~PcChanges(c, state)
    BY <2>1 DEF PcChanges
  <2>4. at[c] # "none" => ~Current(c)
    BY <1>4, AtWork
  <2>5. UNCHANGED shown
    BY <2>2, <2>3, <2>4 DEF MicrophoneGranted, ConfigFetched, OfferReady,
       JoinAnswered, CallFails
  <2>6. \A d \in Calls : d # c => at'[d] = at[d] /\ pc'[d] = pc[d]
    BY <1>1, <2>2, <2>3, <2>4 DEF MicrophoneGranted, ConfigFetched,
       OfferReady, JoinAnswered, CallFails
  <2> QED
    BY <1>2, <1>4, <2>5, <2>6, ShownOfOthers
<1>5. CASE Live(c)
  <2> SUFFICES Stage(c)' /\ Participates(c)'
    BY <1>2, <1>5, ShownOfLive
  <2>0. Stage(c)
    BY <1>3, <1>5
  <2>0a. at[c] \in {"microphone", "config"} => pc[c] \in {"none", "closed"}
    BY <1>5, CallsAreNumbers DEF PageInv, PlaceIsEmpty, OneConnection
  <2>1. Current(c)
    BY <1>5 DEF Live, Current
  <2>2. CASE MicrophoneGranted(c)
    <3>1. /\ at[c] = "microphone" /\ at'[c] = "config"
          /\ UNCHANGED <<pc, shown>>
      BY <1>1, <2>1, <2>2 DEF MicrophoneGranted
    <3> QED
      BY <1>3, <1>5, <3>1 DEF Stage, Participates
  <2>3. CASE ConfigFetched(c)
    <3>1. /\ at[c] = "config" /\ at'[c] = "offer" /\ pc'[c] = "new"
          /\ shown'.state = shown.state
      BY <1>1, <2>1, <2>3 DEF ConfigFetched, Shown
    <3> QED
      BY <1>3, <1>5, <3>1 DEF Stage, Participates
  <2>4. CASE OfferReady(c)
    <3>1. /\ at[c] = "offer" /\ at'[c] = "join"
          /\ UNCHANGED <<pc, shown>>
      BY <1>1, <2>1, <2>4 DEF OfferReady
    <3> QED
      BY <1>3, <1>5, <3>1 DEF Stage, Participates
  <2>5. CASE JoinAnswered(c)
    <3>1. /\ at[c] = "join" /\ at'[c] = "answer" /\ pc' = pc
          /\ shown'.state = shown.state /\ shown'.participant = c
      BY <1>1, <2>1, <2>5 DEF JoinAnswered, Shown
    <3> QED
      BY <1>3, <1>5, <3>1 DEF Stage, Participates
  <2>6. CASE AnswerApplied(c)
    <3>1. /\ at[c] = "answer" /\ at'[c] = "done"
          /\ shown'.state = IF pc[c] = "connected" THEN "connected"
                            ELSE "connecting"
          /\ shown'.participant = shown.participant
          /\ pc'[c] = IF pc[c] = "new" THEN "negotiated" ELSE pc[c]
      BY <1>1, <2>6 DEF AnswerApplied, Shown
    <3> QED
      BY <1>3, <1>5, <3>1 DEF Stage, Participates
  <2>7. CASE CallFails(c)
    <3>1. /\ at[c] \notin {"none", "done"} /\ at'[c] = "done" /\ pc' = pc
          /\ shown'.state = "failed"
          /\ shown'.participant = shown.participant
      BY <1>1, <2>1, <2>7 DEF CallFails
    <3>2. Stage(c) /\ Participates(c) /\ pc[c] # "negotiated"
      BY <1>3, <1>5, <2>0a, <3>1 DEF Stage
    <3> QED
      BY <3>1, <3>2 DEF Stage, Participates
  <2>8. ASSUME NEW state \in PcStates, PcChanges(c, state)
        PROVE  Stage(c)' /\ Participates(c)'
    <3>1. /\ pc'[c] = state /\ at' = at
          /\ shown'.state = IF state \in {"connected", "failed"} THEN state
                            ELSE shown.state
          /\ shown'.participant = shown.participant
      BY <1>1, <2>1, <2>8 DEF PcChanges
    <3>2. CASE state = "connected"
      <4>1. \/ at[c] = "answer" /\ pc[c] = "new"
            \/ pc[c] \in {"negotiated", "disconnected"}
        BY <2>8, <3>2 DEF PcChanges
      <4>2. shown.participant = c
        BY <1>3, <1>5, <4>1 DEF Participates
      <4>3. at[c] \in {"answer", "done"}
        BY <2>0, <2>0a, <4>1 DEF Stage
      <4> QED
        BY <3>1, <3>2, <4>2, <4>3 DEF Stage, Participates
    <3>3. CASE state = "disconnected"
      <4>1. pc[c] = "connected" /\ at[c] = "done"
        BY <2>8, <3>3 DEF PcChanges
      <4> QED
        BY <1>3, <1>5, <3>1, <3>3, <4>1 DEF Stage, Participates
    <3>4. CASE state = "failed"
      <4>1. pc[c] \in {"negotiated", "disconnected"}
        BY <2>8, <3>4 DEF PcChanges
      <4>2. at[c] = "done"
        BY <2>0, <2>0a, <4>1 DEF Stage
      <4> QED
        BY <3>1, <3>4, <4>2 DEF Stage, Participates
    <3> QED
      BY <2>8, <3>2, <3>3, <3>4 DEF PcChanges
  <2> QED
    BY <2>2, <2>3, <2>4, <2>5, <2>6, <2>7, <2>8
<1> QED
  BY <1>4, <1>5

\* Every step shows the truth.
LEMMA ShownSteps ==
  ASSUME PageInv, ShownIsTrue, [Next]_vars
  PROVE  ShownIsTrue'
<1> USE DEF pageVars, mediaVars, refVars
<1> SUFFICES ASSUME page' # "gone" PROVE ShownIsTrue'
  BY DEF ShownIsTrue
<1>1. page # "gone"
  BY DEF Next, Connect, Start, MicrophoneGranted, ConfigFetched, OfferReady,
     JoinAnswered, AnswerApplied, CallFails, PcChanges, Camera, AskForCamera,
     CameraGranted, CameraRefused, ToggleTrack, StopSession, LeavePage,
     SessionExpired, PageHides, Server, ServeJoin, ServeStop, ServeClose,
     SessionLost, SessionLimit, vars
<1>2. ASSUME NEW c \in Calls, Connect(c) PROVE ShownIsTrue'
  BY <1>1, <1>2, ShownStarted, ShownNext DEF Connect
<1>3. ASSUME NEW c \in Calls, NEW state \in PcStates, PcChanges(c, state)
      PROVE  ShownIsTrue'
  BY <1>1, <1>3, ShownNext
<1>4. ASSUME NEW k \in Clicks, Camera(k) PROVE ShownIsTrue'
  BY <1>4, ShownUntouched DEF Camera, AskForCamera, CameraGranted,
     CameraRefused
<1>5. CASE ToggleTrack
  BY <1>5, ShownUntouched DEF ToggleTrack
<1>6. CASE StopSession \/ LeavePage \/ SessionExpired
  BY <1>6, ShownDisconnected DEF StopSession, LeavePage, SessionExpired
<1>7. ~PageHides
  BY DEF PageHides
<1>8. CASE Server
  BY <1>8, ShownUntouched DEF Server, ServeJoin, ServeStop, ServeClose,
     SessionLost, SessionLimit
<1>9. CASE UNCHANGED vars
  BY <1>9, ShownUntouched DEF vars
<1> QED
  BY <1>2, <1>3, <1>4, <1>5, <1>6, <1>7, <1>8, <1>9 DEF Next

\* The page shows where the live call is, in every reachable state.
THEOREM ShownIsAlwaysTrue == Spec => []ShownIsTrue
BY PageInductive, ShownInit, ShownSteps, PTL DEF Spec

\* "connecting" is shown only while a current call is on its way or its
\* PeerConnection will still report (connect, onconnectionstatechange).
THEOREM ConnectingEnds == Spec => []ConnectingIsAtWork
<1>1. PageInv /\ ShownIsTrue => ConnectingIsAtWork
  <2> SUFFICES ASSUME PageInv, ShownIsTrue, page # "gone",
                      shown.state = "connecting"
               PROVE  \E c \in Calls : /\ Current(c)
                                       /\ \/ at[c] \notin {"none", "done"}
                                          \/ pc[c] = "negotiated"
    BY DEF ConnectingIsAtWork
  <2>1. PICK c \in Calls : Live(c)
    BY DEF ShownIsTrue
  <2>2. Stage(c)
    BY <2>1 DEF ShownIsTrue
  <2> QED
    BY <2>1, <2>2 DEF Stage, Live, Current
<1> QED
  BY <1>1, PageInductive, ShownIsAlwaysTrue, PTL

\* "connected" is shown only of the PeerConnection the page holds, whose join
\* the server answered and whose peer was found (connect).
THEOREM ConnectedHolds == Spec => []ConnectedIsTrue
<1>1. PageInv /\ ShownIsTrue => ConnectedIsTrue
  <2> SUFFICES ASSUME PageInv, ShownIsTrue, page # "gone",
                      shown.state = "connected"
               PROVE  /\ pcRef # Nil /\ shown.participant = pcRef
                      /\ pc[pcRef] \in {"connected", "disconnected"}
    BY DEF ConnectedIsTrue
  <2>1. PICK c \in Calls : Live(c)
    BY DEF ShownIsTrue
  <2>2. Stage(c) /\ Participates(c)
    BY <2>1 DEF ShownIsTrue
  <2>3. pc[c] \in {"connected", "disconnected"}
    BY <2>2 DEF Stage
  <2>4. pcRef = c /\ shown.participant = c
    BY <2>2, <2>3 DEF PageInv, OneConnection, Participates
  <2> QED
    BY <2>3, <2>4, CallsAreNumbers
<1> QED
  BY <1>1, PageInductive, ShownIsAlwaysTrue, PTL

-----------------------------------------------------------------------------
(* The camera.                                                             *)

\* What a click waits with, and a camera that is on, belong to a call's stream.
CamerasHaveStreams ==
  /\ camera \in [Clicks -> [stream : Calls \cup {Nil}, track : Tracks]]
  /\ DOMAIN asking = Clicks
  /\ \A k \in Clicks :
       /\ asking[k] # Nil => asking[k] \in [stream : Calls,
                                            pc : Calls \cup {Nil}]
       /\ camera[k].track = "live" => camera[k].stream \in Calls

LEMMA CamerasInit == Init => CamerasHaveStreams
BY DEF Init, CamerasHaveStreams, Tracks

\* A camera that is stopped keeps its stream.
LEMMA CamerasReleasedKeep ==
  ASSUME CamerasHaveStreams, NEW stream, StopTracks(stream),
         \/ UNCHANGED asking
         \/ asking' = [k \in Clicks |-> Nil]
  PROVE  CamerasHaveStreams'
<1>1. ASSUME NEW k \in Clicks
      PROVE  /\ camera'[k] \in [stream : Calls \cup {Nil}, track : Tracks]
             /\ camera'[k].track = "live" => camera'[k].stream \in Calls
  BY DEF CamerasHaveStreams, StopTracks, Tracks
<1>2. camera' \in [Clicks -> [stream : Calls \cup {Nil}, track : Tracks]]
  BY <1>1 DEF StopTracks
<1> QED
  BY <1>1, <1>2 DEF CamerasHaveStreams

\* Every step keeps the cameras with their streams.
LEMMA CamerasNext ==
  ASSUME PageInv, CamerasHaveStreams, [Next]_vars
  PROVE  CamerasHaveStreams'
<1> USE DEF mediaVars, refVars
<1>1. ASSUME UNCHANGED <<camera, asking>> PROVE CamerasHaveStreams'
  BY <1>1 DEF CamerasHaveStreams
<1>2. ASSUME NEW c \in Calls, Connect(c) PROVE CamerasHaveStreams'
  <2>1. CASE Start(c)
    BY <2>1, CamerasReleasedKeep DEF Start, Release
  <2>2. CASE ConfigFetched(c)
    BY <1>1, <2>2, CamerasReleasedKeep DEF ConfigFetched
  <2> QED
    BY <1>1, <1>2, <2>1, <2>2 DEF Connect, MicrophoneGranted, OfferReady,
       JoinAnswered, AnswerApplied, CallFails
<1>3. ASSUME NEW c \in Calls, NEW state \in PcStates, PcChanges(c, state)
      PROVE  CamerasHaveStreams'
  BY <1>1, <1>3 DEF PcChanges
<1>4. ASSUME NEW k \in Clicks, AskForCamera(k) PROVE CamerasHaveStreams'
  <2>1. localStream \in Calls /\ pcRef \in Calls \cup {Nil}
    BY <1>4 DEF AskForCamera, PageInv, Shape
  <2> QED
    BY <1>4, <2>1 DEF AskForCamera, CamerasHaveStreams
<1>5. ASSUME NEW k \in Clicks, CameraGranted(k) PROVE CamerasHaveStreams'
  <2>1. asking[k].stream \in Calls
    BY <1>5 DEF CameraGranted, CamerasHaveStreams
  <2> QED
    BY <1>5, <2>1 DEF CameraGranted, CamerasHaveStreams, Tracks
<1>6. ASSUME NEW k \in Clicks, CameraRefused(k) PROVE CamerasHaveStreams'
  BY <1>6 DEF CameraRefused, CamerasHaveStreams, Tracks
<1>7. CASE ToggleTrack
  BY <1>1, <1>7 DEF ToggleTrack
<1>8. CASE StopSession \/ LeavePage \/ SessionExpired \/ PageHides
  BY <1>8, CamerasReleasedKeep DEF StopSession, LeavePage, SessionExpired,
     PageHides, Disconnect, Release
<1>9. CASE Server
  BY <1>1, <1>9 DEF Server, ServeJoin, ServeStop, ServeClose, SessionLost,
     SessionLimit
<1>10. CASE UNCHANGED vars
  BY <1>1, <1>10 DEF vars
<1> QED
  BY <1>2, <1>3, <1>4, <1>5, <1>6, <1>7, <1>8, <1>9, <1>10 DEF Next, Camera

\* What a step may do to a camera.
CameraStep == \A k \in Clicks : StrayOnlyIfLate(k)

\* Stopping a stream brings no camera out of reach.
LEMMA StoppedIsNotStray ==
  ASSUME CamerasHaveStreams, NEW stream, StopTracks(stream),
         localStream' = localStream \/ stream = localStream
  PROVE  CameraStep
BY DEF StopTracks, CameraStep, StrayOnlyIfLate, CamerasHaveStreams, Stray

\* The page lets go of a stream in disconnect only, which stops what is in it.
LEMMA CamerasStop ==
  ASSUME PageInv, CamerasHaveStreams, [Next]_vars
  PROVE  CameraStep
<1> USE DEF mediaVars, refVars
<1>1. ASSUME UNCHANGED <<camera, localStream>> PROVE CameraStep
  BY <1>1 DEF CameraStep, StrayOnlyIfLate, Stray
<1>2. ASSUME Release PROVE CameraStep
  BY <1>2, StoppedIsNotStray DEF Release
<1>3. ASSUME NEW c \in Calls, MicrophoneGranted(c) PROVE CameraStep
  <2>1. CASE Current(c)
    <3>1. localStream = Nil
      BY <1>3, <2>1, AtWork DEF MicrophoneGranted, PageInv, PlaceIsEmpty
    <3>2. \A k \in Clicks : camera[k].track = "live" => Stray(k)
      BY <3>1, CallsAreNumbers DEF CamerasHaveStreams, Stray
    <3> QED
      BY <1>3, <3>2 DEF MicrophoneGranted, CameraStep, StrayOnlyIfLate, Stray
  <2>2. CASE ~Current(c)
    BY <1>1, <1>3, <2>2 DEF MicrophoneGranted
  <2> QED
    BY <2>1, <2>2
<1>4. ASSUME NEW c \in Calls, Connect(c) PROVE CameraStep
  <2>1. CASE ConfigFetched(c)
    BY <1>1, <2>1, StoppedIsNotStray DEF ConfigFetched
  <2> QED
    BY <1>1, <1>2, <1>3, <1>4, <2>1 DEF Connect, Start, OfferReady,
       JoinAnswered, AnswerApplied, CallFails
<1>5. ASSUME NEW c \in Calls, NEW state \in PcStates, PcChanges(c, state)
      PROVE  CameraStep
  BY <1>1, <1>5 DEF PcChanges
<1>6. ASSUME NEW k \in Clicks, Camera(k) PROVE CameraStep
  <2>1. CASE AskForCamera(k)
    BY <1>1, <2>1 DEF AskForCamera
  <2>2. CASE CameraGranted(k)
    <3>1. /\ asking[k] # Nil /\ localStream' = localStream
          /\ camera' = [camera EXCEPT ![k] = [stream |-> asking[k].stream,
                                              track |-> "live"]]
      BY <2>2 DEF CameraGranted
    <3>2. \A l \in Clicks \ {k} : camera'[l] = camera[l]
      BY <3>1 DEF CamerasHaveStreams
    <3>3. camera'[k].stream = asking[k].stream
      BY <3>1 DEF CamerasHaveStreams
    <3> QED
      BY <3>1, <3>2, <3>3 DEF CameraStep, StrayOnlyIfLate, Stray
  <2>3. CASE CameraRefused(k)
    <3>1. /\ localStream' = localStream
          /\ camera' = [camera EXCEPT ![k].track = "stopped"]
      BY <2>3 DEF CameraRefused
    <3>2. \A l \in Clicks \ {k} : camera'[l] = camera[l]
      BY <3>1 DEF CamerasHaveStreams
    <3>3. camera'[k].track = "stopped"
      BY <3>1 DEF CamerasHaveStreams
    <3> QED
      BY <3>1, <3>2, <3>3 DEF CameraStep, StrayOnlyIfLate, Stray
  <2> QED
    BY <1>6, <2>1, <2>2, <2>3 DEF Camera
<1>7. CASE ToggleTrack
  BY <1>1, <1>7 DEF ToggleTrack
<1>8. CASE StopSession \/ LeavePage \/ SessionExpired \/ PageHides
  BY <1>2, <1>8 DEF StopSession, LeavePage, SessionExpired, PageHides,
     Disconnect
<1>9. CASE Server
  BY <1>1, <1>9 DEF Server, ServeJoin, ServeStop, ServeClose, SessionLost,
     SessionLimit
<1>10. CASE UNCHANGED vars
  BY <1>1, <1>10 DEF vars
<1> QED
  BY <1>4, <1>5, <1>6, <1>7, <1>8, <1>9, <1>10 DEF Next

\* A camera gets out of reach of disconnect only by a permission given after
\* the page let go of its stream (disconnect, connect, toggleCamera).
THEOREM CamerasAreReleased == Spec => CamerasReleased
<1>1. Spec => []CamerasHaveStreams
  BY CamerasInit, CamerasNext, PageInductive, PTL DEF Spec
<1>2. PageInv /\ CamerasHaveStreams /\ [Next]_vars => [CameraStep]_vars
  BY CamerasStop
<1>3. Spec => [][CameraStep]_vars
  BY <1>1, <1>2, PageInductive, PTL DEF Spec
<1> QED
  BY <1>3 DEF CamerasReleased, CameraStep

=============================================================================
