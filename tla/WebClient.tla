----------------------------- MODULE WebClient -----------------------------
(***************************************************************************)
(* The browser's side of a session: the hook useWebRTC                     *)
(* (sfu-frontend/src/hooks/use-webrtc.ts) and the handlers of the room     *)
(* page that call it (src/App.tsx), against one room of a server.          *)
(*                                                                         *)
(* JavaScript runs one task at a time, so what interleaves are the pieces  *)
(* between two awaits of connect and of toggleCamera.  Every call of       *)
(* connect has a number; the same number names its microphone stream, its  *)
(* PeerConnection and the server's session.  Calls that were superseded by *)
(* a disconnect or a later connect go on: they find out by comparing their *)
(* generation with connectGenerationRef.                                   *)
(*                                                                         *)
(* The server is what Room promises of one room: it waits, has one         *)
(* session, or is closed.  Requests are served in any order, and every     *)
(* await may fail.                                                         *)
(***************************************************************************)
EXTENDS Integers, FiniteSets

CONSTANTS
  MaxCalls,      \* bound: calls of connect
  MaxReleases,   \* bound: clicks on Stop
  MaxCameras,    \* bound: clicks on the camera button
  Nil

ASSUME WebClientConstants ==
  /\ MaxCalls \in Nat /\ MaxReleases \in Nat /\ MaxCameras \in Nat
  /\ Nil \notin Nat

Calls == 1 .. MaxCalls
Stops == 1 .. MaxReleases
Clicks == 1 .. MaxCameras

VARIABLES
  page,         \* the room page is "open", was "left", or the tab is "gone"
  generation,   \* connectGenerationRef
  gen,          \* call: its generation
  at,           \* call: what it awaits, see Awaits
  mic,          \* call: the track of its microphone
  camera,       \* click: the stream its video track belongs to, and the track
  asking,       \* click: the stream and PeerConnection it waits with
  pc,           \* call: the state of its PeerConnection
  localStream,  \* localStreamRef
  pcRef,        \* pcRef
  shown,        \* what the page shows: the state variables of the hook
  cameraOn,     \* isCameraOn
  stops,        \* clicks on Stop so far
  requests,     \* requests on their way to the server
  answer,       \* call: the server's answer to its join
  room,         \* the server's room: "waiting", "active" or "closed"
  session,      \* its session: the call that joined
  expired       \* session.room.expired is on its way to the page

pageVars == <<page, stops, expired>>
callVars == <<gen, at>>
mediaVars == <<mic, camera, asking, pc>>
refVars == <<generation, localStream, pcRef, shown, cameraOn>>
roomVars == <<room, session>>
serverVars == <<requests, answer, roomVars>>
vars == <<pageVars, callVars, mediaVars, refVars, serverVars>>

Awaits == {"none", "microphone", "config", "offer", "join", "answer", "done"}
Tracks == {"none", "live", "stopped"}
\* "negotiated" is not a state of its own in the browser: both descriptions are
\* set, and nothing was reported yet.
PcStates == {"none", "new", "negotiated", "connected", "disconnected",
             "failed", "closed"}
Requests ==
  [kind : {"join"}, id : Calls] \cup [kind : {"stop"}, id : Stops]
    \cup [kind : {"close"}, id : {0}]

Idle == [state |-> "idle", peer |-> "idle", participant |-> Nil]

Init ==
  /\ page = "open" /\ stops = 0 /\ expired = FALSE
  /\ generation = 0 /\ gen = [c \in Calls |-> 0]
  /\ at = [c \in Calls |-> "none"]
  /\ mic = [c \in Calls |-> "none"]
  /\ camera = [k \in Clicks |-> [stream |-> Nil, track |-> "none"]]
  /\ asking = [k \in Clicks |-> Nil]
  /\ pc = [c \in Calls |-> "none"]
  /\ localStream = Nil /\ pcRef = Nil
  /\ shown = Idle /\ cameraOn = FALSE
  /\ requests = {} /\ answer = [c \in Calls |-> "none"]
  /\ room = "waiting" /\ session = Nil

Current(c) == gen[c] = generation

-----------------------------------------------------------------------------
(* disconnect.                                                             *)

\* Mutant: only the audio tracks are stopped.
ReleaseAudio ==
  /\ pc' = [c \in Calls |-> IF c = pcRef THEN "closed" ELSE pc[c]]
  /\ mic' = [c \in Calls |-> IF c = localStream THEN "stopped" ELSE mic[c]]
  /\ pcRef' = Nil /\ localStream' = Nil
  /\ cameraOn' = FALSE
  /\ UNCHANGED camera

\* getTracks().forEach((track) => track.stop())
StopTracks(stream) ==
  /\ mic' = [c \in Calls |-> IF c = stream THEN "stopped" ELSE mic[c]]
  /\ camera' = [k \in Clicks |->
                  IF camera[k].track = "live" /\ camera[k].stream = stream
                  THEN [camera[k] EXCEPT !.track = "stopped"] ELSE camera[k]]

Release ==
  /\ pc' = [c \in Calls |-> IF c = pcRef THEN "closed" ELSE pc[c]]
  /\ StopTracks(localStream)
  /\ pcRef' = Nil /\ localStream' = Nil
  /\ cameraOn' = FALSE

\* Mutant: the generation stays.
DisconnectKeepsGeneration ==
  /\ Release
  /\ shown' = Idle
  /\ UNCHANGED generation

Disconnect ==
  /\ Release
  /\ shown' = Idle
  /\ generation' = generation + 1

-----------------------------------------------------------------------------
(* connect, await by await.                                                *)

\* handleStartSession.  disconnect counts the generation up once more, and
\* connect sets it back to its own.
Start(c) ==
  /\ page = "open" /\ shown.state \in {"idle", "failed"}
  /\ at[c] = "none" /\ \A d \in Calls : d < c => at[d] # "none"
  /\ Release
  /\ generation' = generation + 1
  /\ gen' = [gen EXCEPT ![c] = generation + 1]
  /\ shown' = [Idle EXCEPT !.state = "connecting"]
  /\ at' = [at EXCEPT ![c] = "microphone"]
  /\ UNCHANGED <<pageVars, asking, serverVars>>

Await(c, what) == at' = [at EXCEPT ![c] = what]

\* Mutant: a microphone granted too late is kept.
MicrophoneGrantedKept(c) ==
  /\ at[c] = "microphone"
  /\ mic' = [mic EXCEPT ![c] = "live"]
  /\ IF Current(c)
     THEN localStream' = c /\ Await(c, "config")
     ELSE UNCHANGED localStream /\ Await(c, "done")
  /\ UNCHANGED <<pageVars, gen, camera, asking, pc, generation, pcRef, shown,
                 cameraOn, serverVars>>

MicrophoneGranted(c) ==
  /\ at[c] = "microphone"
  /\ IF Current(c)
     THEN /\ mic' = [mic EXCEPT ![c] = "live"]
          /\ localStream' = c
          /\ Await(c, "config")
     ELSE /\ mic' = [mic EXCEPT ![c] = "stopped"]
          /\ Await(c, "done")
          /\ UNCHANGED localStream
  /\ UNCHANGED <<pageVars, gen, camera, asking, pc, generation, pcRef, shown,
                 cameraOn, serverVars>>

\* Mutant: the PeerConnection is made without a look at the generation.
ConfigFetchedBlindly(c) ==
  /\ at[c] = "config"
  /\ pc' = [pc EXCEPT ![c] = "new"]
  /\ pcRef' = c
  /\ shown' = [shown EXCEPT !.peer = "new"]
  /\ Await(c, "offer")
  /\ UNCHANGED <<pageVars, gen, mic, camera, asking, generation, localStream,
                 cameraOn, serverVars>>

\* refreshDevices and fetchIceServers; then the PeerConnection.  A superseded
\* call stops its stream, with a camera that joined it meanwhile.
ConfigFetched(c) ==
  /\ at[c] = "config"
  /\ IF Current(c)
     THEN /\ pc' = [pc EXCEPT ![c] = "new"]
          /\ pcRef' = c
          /\ shown' = [shown EXCEPT !.peer = "new"]
          /\ Await(c, "offer")
          /\ UNCHANGED <<mic, camera>>
     ELSE /\ StopTracks(c)
          /\ Await(c, "done")
          /\ UNCHANGED <<pc, pcRef, shown>>
  /\ UNCHANGED <<pageVars, gen, asking, generation, localStream, cameraOn,
                 serverVars>>

\* createOffer, setLocalDescription, and candidates gathered or the timeout;
\* then the join is sent.
OfferReady(c) ==
  /\ at[c] = "offer"
  /\ IF Current(c)
     THEN /\ requests' = requests \cup {[kind |-> "join", id |-> c]}
          /\ Await(c, "join")
     ELSE Await(c, "done") /\ UNCHANGED requests
  /\ UNCHANGED <<pageVars, gen, mediaVars, refVars, answer, roomVars>>

\* Mutant: the answer is taken without a look at the generation.
JoinAnsweredBlindly(c) ==
  /\ at[c] = "join" /\ answer[c] = "ok"
  /\ shown' = [shown EXCEPT !.participant = c]
  /\ Await(c, "answer")
  /\ UNCHANGED <<pageVars, gen, mediaVars, generation, localStream, pcRef,
                 cameraOn, serverVars>>

JoinAnswered(c) ==
  /\ at[c] = "join" /\ answer[c] = "ok"
  /\ IF Current(c)
     THEN /\ shown' = [shown EXCEPT !.participant = c]
          /\ Await(c, "answer")
     ELSE Await(c, "done") /\ UNCHANGED shown
  /\ UNCHANGED <<pageVars, gen, mediaVars, generation, localStream, pcRef,
                 cameraOn, serverVars>>

\* Mutant: a joined session counts as connected.
AnswerAppliedConnected(c) ==
  /\ at[c] = "answer" /\ pc[c] # "closed"
  /\ shown' = [shown EXCEPT !.state = "connected"]
  /\ pc' = [pc EXCEPT ![c] = IF @ = "new" THEN "negotiated" ELSE @]
  /\ Await(c, "done")
  /\ UNCHANGED <<pageVars, gen, mic, camera, asking, generation, localStream, pcRef,
                 cameraOn, serverVars>>

\* setRemoteDescription, which never resolves on a PeerConnection that was
\* closed meanwhile: the code does not look at the generation again.
AnswerApplied(c) ==
  /\ at[c] = "answer" /\ pc[c] # "closed"
  /\ shown' = [shown EXCEPT !.state = IF pc[c] = "connected" THEN "connected"
                                      ELSE "connecting"]
  /\ pc' = [pc EXCEPT ![c] = IF @ = "new" THEN "negotiated" ELSE @]
  /\ Await(c, "done")
  /\ UNCHANGED <<pageVars, gen, mic, camera, asking, generation, localStream, pcRef,
                 cameraOn, serverVars>>

\* Mutant: the error is only logged.
CallFailsQuietly(c) ==
  /\ at[c] \notin {"none", "done"}
  /\ Await(c, "done")
  /\ UNCHANGED <<pageVars, gen, mediaVars, refVars, serverVars>>

\* Whatever the call awaits is rejected: no permission, no answer, an answer
\* that is not ok.
CallFails(c) ==
  /\ at[c] \notin {"none", "done"}
  /\ Await(c, "done")
  /\ shown' = IF Current(c)
              THEN [state |-> "failed", peer |-> "failed",
                    participant |-> shown.participant]
              ELSE shown
  /\ UNCHANGED <<pageVars, gen, mediaVars, generation, localStream, pcRef,
                 cameraOn, serverVars>>

\* The state of a PeerConnection changes, and in the same task its handler
\* runs.  It may connect while its description is being set; to lose the peer
\* takes it seconds.  Closing it is not reported.
PcChanges(c, state) ==
  /\ \/ /\ state = "connected" /\ session = c
        /\ \/ at[c] = "answer" /\ pc[c] = "new"
           \/ pc[c] \in {"negotiated", "disconnected"}
     \/ state = "disconnected" /\ pc[c] = "connected" /\ at[c] = "done"
     \/ state = "failed" /\ pc[c] \in {"negotiated", "disconnected"}
  /\ pc' = [pc EXCEPT ![c] = state]
  /\ shown' = IF ~Current(c) THEN shown
              ELSE [state |-> IF state \in {"connected", "failed"} THEN state
                              ELSE shown.state,
                    peer |-> state,
                    participant |-> shown.participant]
  /\ UNCHANGED <<pageVars, callVars, mic, camera, asking, generation,
                 localStream, pcRef, cameraOn, serverVars>>

-----------------------------------------------------------------------------
(* toggleCamera.                                                           *)

VideoTracks(stream) == {k \in Clicks : camera[k].stream = stream}

\* With a track, the first one is switched on or off.
ToggleTrack ==
  /\ localStream # Nil /\ VideoTracks(localStream) # {}
  /\ cameraOn' = ~cameraOn
  /\ UNCHANGED <<pageVars, callVars, mediaVars, generation, localStream, pcRef,
                 shown, serverVars>>

AskForCamera(k) ==
  /\ asking[k] = Nil /\ camera[k].track = "none"
  /\ \A l \in Clicks : l < k => asking[l] # Nil \/ camera[l].track # "none"
  /\ localStream # Nil /\ VideoTracks(localStream) = {}
  /\ asking' = [asking EXCEPT ![k] = [stream |-> localStream, pc |-> pcRef]]
  /\ UNCHANGED <<pageVars, callVars, mic, camera, pc, refVars, serverVars>>

\* The track joins the stream the call began with, whatever became of it.
\* addTrack of a closed PeerConnection throws after that.
CameraGranted(k) ==
  /\ asking[k] # Nil
  /\ camera' = [camera EXCEPT ![k] = [stream |-> asking[k].stream,
                                      track |-> "live"]]
  /\ cameraOn' = IF asking[k].pc # Nil /\ pc[asking[k].pc] = "closed"
                 THEN cameraOn ELSE TRUE
  /\ asking' = [asking EXCEPT ![k] = Nil]
  /\ UNCHANGED <<pageVars, callVars, mic, pc, generation, localStream, pcRef,
                 shown, serverVars>>

CameraRefused(k) ==
  /\ asking[k] # Nil
  /\ asking' = [asking EXCEPT ![k] = Nil]
  /\ camera' = [camera EXCEPT ![k].track = "stopped"]
  /\ UNCHANGED <<pageVars, callVars, mic, pc, refVars, serverVars>>

-----------------------------------------------------------------------------
(* The page's handlers.                                                    *)

\* handleStopSession.
StopSession ==
  /\ page = "open" /\ shown.state \in {"connecting", "connected"}
  /\ stops < MaxReleases
  /\ stops' = stops + 1
  /\ Disconnect
  /\ requests' = requests \cup {[kind |-> "stop", id |-> stops + 1]}
  /\ UNCHANGED <<page, expired, callVars, asking, answer, roomVars>>

CloseRequest == [kind |-> "close", id |-> 0]

\* handleDisconnect.  The clean-up of the page's effect disconnects once more,
\* which changes nothing.
LeavePage ==
  /\ page = "open"
  /\ page' = "left"
  /\ Disconnect
  /\ requests' = requests \cup {CloseRequest}
  /\ UNCHANGED <<stops, expired, callVars, asking, answer, roomVars>>

\* The page hears that the session's time is over.
SessionExpired ==
  /\ page = "open" /\ expired
  /\ page' = "left"
  /\ Disconnect
  /\ UNCHANGED <<stops, expired, callVars, asking, serverVars>>

\* The tab closes: the beacon of the pagehide handler, and the end of every
\* task, track and connection.
PageHides ==
  /\ page = "open"
  /\ page' = "gone"
  /\ requests' = IF shown.state \in {"connecting", "connected"}
                 THEN requests \cup {CloseRequest} ELSE requests
  /\ at' = [c \in Calls |-> IF at[c] = "none" THEN "none" ELSE "done"]
  /\ Release
  /\ asking' = [k \in Clicks |-> Nil]
  /\ UNCHANGED <<stops, expired, gen, generation, shown, answer, roomVars>>

-----------------------------------------------------------------------------
(* The server.                                                             *)

Taken(r) == requests' = requests \ {r}

RoomBecomes(state, call) == room' = state /\ session' = call

\* A join finds the room waiting, or is refused; it may also fail.
ServeJoin(c) ==
  LET r == [kind |-> "join", id |-> c]
  IN /\ r \in requests
     /\ Taken(r)
     /\ \/ /\ room = "waiting"
           /\ RoomBecomes("active", c)
           /\ answer' = [answer EXCEPT ![c] = "ok"]
        \/ UNCHANGED <<roomVars, answer>>
     /\ UNCHANGED <<pageVars, callVars, mediaVars, refVars>>

ServeStop(n) ==
  LET r == [kind |-> "stop", id |-> n]
  IN /\ r \in requests
     /\ Taken(r)
     /\ IF room = "closed" THEN UNCHANGED roomVars
        ELSE RoomBecomes("waiting", Nil)
     /\ UNCHANGED <<pageVars, callVars, mediaVars, refVars, answer>>

ServeClose ==
  /\ CloseRequest \in requests
  /\ Taken(CloseRequest)
  /\ RoomBecomes("closed", Nil)
  /\ UNCHANGED <<pageVars, callVars, mediaVars, refVars, answer>>

\* The session's PeerConnection is lost.
SessionLost ==
  /\ room = "active"
  /\ RoomBecomes("waiting", Nil)
  /\ UNCHANGED <<pageVars, callVars, mediaVars, refVars, requests, answer>>

SessionLimit ==
  /\ room = "active"
  /\ RoomBecomes("closed", Nil)
  /\ expired' = TRUE
  /\ UNCHANGED <<page, stops, callVars, mediaVars, refVars, requests, answer>>

-----------------------------------------------------------------------------
Connect(c) ==
  \/ Start(c)
  \/ MicrophoneGranted(c)
  \/ ConfigFetched(c)
  \/ OfferReady(c)
  \/ JoinAnswered(c)
  \/ AnswerApplied(c)
  \/ CallFails(c)

Camera(k) == AskForCamera(k) \/ CameraGranted(k) \/ CameraRefused(k)

Server ==
  \/ \E c \in Calls : ServeJoin(c)
  \/ \E n \in Stops : ServeStop(n)
  \/ ServeClose
  \/ SessionLost
  \/ SessionLimit

Next ==
  \/ \E c \in Calls : Connect(c)
  \/ \E c \in Calls, state \in PcStates : PcChanges(c, state)
  \/ \E k \in Clicks : Camera(k)
  \/ ToggleTrack
  \/ StopSession
  \/ LeavePage
  \/ SessionExpired
  \/ PageHides
  \/ Server

Spec == Init /\ [][Next]_vars

-----------------------------------------------------------------------------
\* No microphone stays open behind the page's back: a live one is the one
\* disconnect will stop, although permission may be given long after the call
\* that asked was superseded (connect, disconnect).
MicrophoneReleased == \A c \in Calls : mic[c] = "live" => localStream = c

\* Out of reach of disconnect.
Stray(k) == camera[k].track = "live" /\ camera[k].stream # localStream

\* Only a late permission brings a camera out of reach.
StrayOnlyIfLate(k) ==
  Stray(k)' =>
    Stray(k) \/ (asking[k] # Nil /\ asking[k].stream # localStream)

\* The only camera that disconnect will not stop is one whose permission was
\* given after the page had let go of the stream the click found: toggleCamera
\* compares no generation.  None that was on before is left behind, whatever
\* ends or replaces the call, and no stream is replaced with a camera in it.
CamerasReleased == [][\A k \in Clicks : StrayOnlyIfLate(k)]_vars

\* At most one PeerConnection is not closed, and disconnect will find it,
\* although superseded calls go on from any of their awaits.
OneConnection == \A c \in Calls : pc[c] \notin {"none", "closed"} => pcRef = c

\* What a call acquired, however late, is stopped or disconnect will find it.
NothingLeaks == MicrophoneReleased /\ OneConnection

\* A page that shows "idle" holds no stream and no PeerConnection, and shows
\* no peer and no participant: no call of connect that was superseded, and no
\* late event of its PeerConnection, brings them back.  (The camera button is
\* not part of this: a late permission may switch isCameraOn on.)
IdleHoldsNothing ==
  shown.state = "idle" => shown = Idle /\ localStream = Nil /\ pcRef = Nil

\* Everything the page holds and shows is the latest call's, however the
\* pieces of the earlier calls fall between its own.
LatestCallOnly ==
  \A c \in Calls :
    c \in {localStream, pcRef, shown.participant} =>
      \A d \in Calls : d > c => gen[d] = 0

\* "connecting" never stays for good without anybody at work: a call goes on,
\* or its PeerConnection will still report.
ConnectingIsAtWork ==
  page # "gone" /\ shown.state = "connecting" =>
    \E c \in Calls : /\ Current(c)
                    /\ \/ at[c] \notin {"none", "done"}
                       \/ pc[c] = "negotiated"

\* "connected" is said of the PeerConnection the page holds, after the server
\* had answered its join and the peers had found each other.
ConnectedIsTrue ==
  page # "gone" /\ shown.state = "connected" =>
    /\ pcRef # Nil /\ shown.participant = pcRef
    /\ pc[pcRef] \in {"connected", "disconnected"}
=============================================================================
