-------------------------------- MODULE Room --------------------------------
(***************************************************************************)
(* One room of a node: room.Room, its entry in room.Manager and its record *)
(* in the Redis registry (pkg/room, pkg/redisroom/store.go), called by the *)
(* HTTP handlers (pkg/server/handlers.go), by the callbacks of each        *)
(* session's PeerConnection and by the session timer.                      *)
(*                                                                         *)
(* Three locks nest: Room.mu, Manager.mu inside it (Close calls Delete)    *)
(* and Hub.mu inside both, for nearly every operation publishes what it    *)
(* did with Room.mu held.  With Redis a publish never waits for Hub.mu;    *)
(* without, a transcript publisher may hold it for as long as a browser's  *)
(* channel stays full (module Hub).  A step that publishes is enabled      *)
(* while the hub is free, and goes on to the next point where its          *)
(* goroutine can wait for something else: no step needs the hub to be      *)
(* busy, so whoever took it in between might as well take it after.        *)
(*                                                                         *)
(* A session is the number of the join that built its PeerConnection.  The *)
(* room's id is only known to callers once Create has returned, so a       *)
(* behaviour starts there.  A Redis call may fail: the code logs that and  *)
(* goes on.                                                                *)
(***************************************************************************)
EXTENDS Integers

CONSTANTS
  Requests,          \* concurrent HTTP requests for the room
  MaxJoins,          \* bound: sessions
  TTLCoversSession,  \* RoomTTL is longer than the session limit, as by default
  Nil

Sessions == 1..MaxJoins

ASSUME RoomConstants ==
  /\ MaxJoins \in Nat \ {0}
  /\ TTLCoversSession \in BOOLEAN
  /\ Nil \notin Sessions /\ Nil \notin {"wait_for_user", "active", "unknown"}

VARIABLES
  mu,          \* Room.mu: "free", or what its holder is about to do
  mgr,         \* Manager.mu: "free", held by this "room", by "other" rooms
  hub,         \* Hub.mu, as publishers meet it: "free" or "busy"
  state,       \* Room.State
  current,     \* the session in r.pc, r.agent and r.cancel
  occupied,    \* a participant is marked active
  joins,       \* sessions so far
  conn,        \* session: its PeerConnection
  agent,       \* session: its agent
  cancelled,   \* sessions whose context is cancelled
  timer,       \* the session r.sessionTimer was armed for
  expiring,    \* sessions whose timer fired and has not closed the room yet
  stopping,    \* callbacks that go on to StopSession: <<session, why>>
  registered,  \* the manager has the room
  redis,       \* the node has a Redis client
  record,      \* the room's record in Redis; "unknown" after a failed call
  req          \* request: what it waits for; "inside": it holds Room.mu

locks       == <<mu, mgr, hub>>
sessionVars == <<current, occupied, joins, conn, agent, cancelled>>
callbacks   == <<timer, expiring, stopping>>
registry    == <<registered, redis, record>>
vars == <<locks, state, sessionVars, callbacks, registry, req>>

Init ==
  /\ mu = "free" /\ mgr = "free" /\ hub = "free"
  /\ state = "wait_for_user"
  /\ current = Nil /\ occupied = FALSE
  /\ joins = 0
  /\ conn = [s \in Sessions |-> "none"]
  /\ agent = [s \in Sessions |-> "none"]
  /\ cancelled = {}
  /\ timer = Nil /\ expiring = {} /\ stopping = {}
  /\ registered = TRUE
  /\ redis \in BOOLEAN
  /\ record \in IF redis THEN {"wait_for_user", "unknown"} ELSE {Nil}
  /\ req = [q \in Requests |-> "idle"]

-----------------------------------------------------------------------------
(* The locks.                                                              *)

\* A request that found the room gets Room.mu and keeps it over this step.
Enter(q) ==
  /\ req[q] = "found" /\ mu = "free"
  /\ req' = [req EXCEPT ![q] = "inside"]

\* The deferred unlock of Room.mu; a request that held it is answered.
Unlock ==
  /\ mu' = "free"
  /\ req' = [q \in Requests |-> IF req[q] = "inside" THEN "idle" ELSE req[q]]

\* A transcript publisher holds Hub.mu while a subscriber's channel is full,
HubTaken ==
  /\ hub = "free" /\ ~redis
  /\ hub' = "busy"
  /\ UNCHANGED <<mu, mgr, state, sessionVars, callbacks, registry, req>>

\* another room's Delete holds m.mu while it waits for that publisher,
OtherDeletes ==
  /\ hub = "busy" /\ mgr = "free"
  /\ mgr' = "other"
  /\ UNCHANGED <<mu, hub, state, sessionVars, callbacks, registry, req>>

\* and both go on when the channel is read.
HubReleased ==
  /\ hub = "busy"
  /\ hub' = "free"
  /\ mgr' = IF mgr = "other" THEN "free" ELSE mgr
  /\ UNCHANGED <<mu, state, sessionVars, callbacks, registry, req>>

-----------------------------------------------------------------------------
(* The registry.                                                           *)

\* UpdateState writes the record, registering the room again if it expired.
\* A call that failed may have been carried out, or not.
UpdateState(st) ==
  /\ IF redis THEN record' \in {st, "unknown"} ELSE UNCHANGED record
  /\ UNCHANGED <<registered, redis>>

DeleteRecord ==
  /\ IF redis THEN record' \in {Nil, "unknown"} ELSE UNCHANGED record
  /\ UNCHANGED <<registered, redis>>

\* RoomTTL passes without a write.  A session begins with one and lasts at
\* most sessionMax.
RecordExpires ==
  /\ \/ record = "wait_for_user"
     \/ record = "active" /\ ~TTLCoversSession
  /\ record' = Nil
  /\ UNCHANGED <<locks, state, sessionVars, callbacks, registered, redis, req>>

-----------------------------------------------------------------------------
(* Session teardown.                                                       *)

Torn == {current} \ {Nil}

\* stopSessionLocked up to agent.Stop, which publishes before it cancels.
StopSessionLocked ==
  /\ mu' = "stopping"
  /\ timer' = Nil
  /\ cancelled' = cancelled \cup Torn
  /\ UNCHANGED <<mgr, hub, current, occupied, joins, conn, agent, registry>>

\* The rest of it.  An AfterFunc timer that already fired is not stopped by
\* Stop, and closing the PeerConnection makes its callback run once more.
TearDown ==
  /\ mu = "stopping"
  /\ current' = Nil /\ occupied' = FALSE
  /\ conn' = [s \in Sessions |-> IF s \in Torn THEN "closed" ELSE conn[s]]
  /\ stopping' = stopping \cup (Torn \X {"closed"})
  /\ UNCHANGED <<mgr, hub, joins, agent, cancelled, timer, expiring>>

\* StopSession, or a join that fails, ends: "session.room.waiting" is
\* published and onWaiting called, if there was something to stop.
SessionStopped ==
  /\ state # "closed"
  /\ TearDown
  /\ state' = "wait_for_user"
  /\ Unlock
  /\ \/ /\ Torn # {} \/ occupied
        /\ hub = "free"
        /\ UpdateState("wait_for_user")
     \/ /\ Torn = {} /\ ~occupied
        /\ UNCHANGED registry

\* Close, entered with the lock held.
CloseLocked ==
  /\ state' = "closed"
  /\ StopSessionLocked

\* Close goes on; without an agent there was nothing to publish yet.
SessionClosed ==
  /\ state = "closed"
  /\ TearDown
  /\ current # Nil => hub = "free"
  /\ mu' = "closing"
  /\ UNCHANGED <<state, registry, req>>

\* It publishes "session.room.closed" and calls Manager.Delete, which takes
\* m.mu and forgets the room ...
ForgetRoom ==
  /\ mu = "closing" /\ hub = "free" /\ mgr = "free"
  /\ mgr' = "room"
  /\ registered' = FALSE
  /\ mu' = "deleting"
  /\ UNCHANGED <<hub, state, sessionVars, callbacks, redis, record, req>>

\* Mutant: Delete does not unlock m.mu.
DeleteRoomLocked ==
  /\ mu = "deleting" /\ hub = "free"
  /\ DeleteRecord
  /\ Unlock
  /\ UNCHANGED <<mgr, hub, state, sessionVars, callbacks>>

\* ... clears its stream, deletes its record and publishes
\* "session.room.deleted"; both locks are given back.
DeleteRoom ==
  /\ mu = "deleting" /\ hub = "free"
  /\ DeleteRecord
  /\ mgr' = "free"
  /\ Unlock
  /\ UNCHANGED <<hub, state, sessionVars, callbacks>>

-----------------------------------------------------------------------------
(* HTTP requests.  What a request asks for is chosen when it gets Room.mu, *)
(* where it first matters.                                                 *)

Arrive(q) ==
  /\ req[q] = "idle"
  /\ req' = [req EXCEPT ![q] = "arrived"]
  /\ UNCHANGED <<locks, state, sessionVars, callbacks, registry>>

\* The handler finds the room in the manager.
Get(q) ==
  /\ req[q] = "arrived" /\ mgr = "free" /\ registered
  /\ req' = [req EXCEPT ![q] = "found"]
  /\ UNCHANGED <<locks, state, sessionVars, callbacks, registry>>

Return(q) == req' = [req EXCEPT ![q] = "idle"]

\* The manager has no such room.
NotFound(q) ==
  /\ req[q] = "arrived" /\ mgr = "free" /\ ~registered
  /\ Return(q)
  /\ UNCHANGED <<locks, state, sessionVars, callbacks, registry>>

\* A closed room turns all requests away, an active one a join.
TurnedAway(q) ==
  /\ req[q] = "found" /\ mu = "free"
  /\ state \in {"closed", "active"}
  /\ Return(q)
  /\ UNCHANGED <<locks, state, sessionVars, callbacks, registry>>

\* Mutant: a join tests for a closed room only.
JoinAdmittedUnlessClosed(q) ==
  /\ Enter(q) /\ state # "closed"
  /\ joins < MaxJoins
  /\ mu' = "admitting"
  /\ occupied' = TRUE
  /\ UNCHANGED <<mgr, hub, state, current, joins, conn, agent, cancelled,
                 callbacks, registry>>

\* Mutant: a join tests for an active room only.
JoinAdmittedUnlessActive(q) ==
  /\ Enter(q) /\ state # "active"
  /\ joins < MaxJoins
  /\ mu' = "admitting"
  /\ occupied' = TRUE
  /\ UNCHANGED <<mgr, hub, state, current, joins, conn, agent, cancelled,
                 callbacks, registry>>

\* A join marks its participant and publishes "session.participant.joined".
\* MaxJoins bounds the joins.
JoinAdmitted(q) ==
  /\ Enter(q) /\ state = "wait_for_user"
  /\ joins < MaxJoins
  /\ mu' = "admitting"
  /\ occupied' = TRUE
  /\ UNCHANGED <<mgr, hub, state, current, joins, conn, agent, cancelled,
                 callbacks, registry>>

\* No PeerConnection: the participant stays, and nothing is torn down.
JoinFailsEarly ==
  /\ mu = "admitting" /\ hub = "free"
  /\ Unlock
  /\ UNCHANGED <<mgr, hub, state, sessionVars, callbacks, registry>>

\* The transport or the agent's configuration fails: the PeerConnection has
\* no callback yet, and there is no agent.
JoinFailsUnwired ==
  /\ mu = "admitting" /\ hub = "free"
  /\ joins' = joins + 1
  /\ conn' = [conn EXCEPT ![joins + 1] = "closed"]
  /\ occupied' = FALSE
  /\ UpdateState("wait_for_user")
  /\ Unlock
  /\ UNCHANGED <<mgr, hub, state, current, agent, cancelled, callbacks>>

\* The session is wired up; the join now waits for ICE gathering.
JoinBegins ==
  /\ mu = "admitting" /\ hub = "free"
  /\ joins' = joins + 1
  /\ current' = joins + 1
  /\ conn' = [conn EXCEPT ![joins + 1] = "open"]
  /\ agent' = [agent EXCEPT ![joins + 1] = "built"]
  /\ mu' = "joining"
  /\ UNCHANGED <<mgr, hub, state, occupied, cancelled, callbacks, registry,
                 req>>

\* An error of the SDP exchange.
JoinFails ==
  /\ mu = "joining"
  /\ StopSessionLocked
  /\ UNCHANGED <<state, expiring, stopping, req>>

\* Gathering is complete: "session.room.active" is published.
JoinSucceeds ==
  /\ mu = "joining"
  /\ state' = "active"
  /\ mu' = "activating"
  /\ UNCHANGED <<mgr, hub, sessionVars, callbacks, registry, req>>

\* Mutant: onActivity only refreshes the record.
SessionBeginsRefreshing ==
  /\ mu = "activating" /\ hub = "free"
  /\ timer' = current
  /\ agent' = [agent EXCEPT ![current] = "answered"]
  /\ Unlock
  /\ UNCHANGED <<mgr, hub, state, current, occupied, joins, conn, cancelled,
                 expiring, stopping, registry>>

\* Mutant: the session limit is not armed.
SessionBeginsUntimed ==
  /\ mu = "activating" /\ hub = "free"
  /\ UpdateState("active")
  /\ agent' = [agent EXCEPT ![current] = "answered"]
  /\ Unlock
  /\ UNCHANGED <<mgr, hub, state, current, occupied, joins, conn, cancelled,
                 callbacks>>

\* onActivity is called, the session limit runs, and the join is answered.
SessionBegins ==
  /\ mu = "activating" /\ hub = "free"
  /\ UpdateState("active")
  /\ timer' = current
  /\ agent' = [agent EXCEPT ![current] = "answered"]
  /\ Unlock
  /\ UNCHANGED <<mgr, hub, state, current, occupied, joins, conn, cancelled,
                 expiring, stopping>>

\* handleStopSession.
Stop(q) ==
  /\ Enter(q) /\ state # "closed"
  /\ StopSessionLocked
  /\ UNCHANGED <<state, expiring, stopping>>

\* handleDeleteRoom, handleLeaveRoom.
Close(q) ==
  /\ Enter(q) /\ state # "closed"
  /\ CloseLocked
  /\ UNCHANGED <<expiring, stopping>>

-----------------------------------------------------------------------------
(* The PeerConnection's callbacks, each in a goroutine of its own, and the *)
(* timer.  Each publishes what happened before it does anything.           *)

\* A session that was answered connects, and agentStarted.Do(ag.Start) runs,
\* however late: nothing looks whether the session was stopped meanwhile.
AgentStarts(s) ==
  /\ agent[s] = "answered" /\ hub = "free"
  /\ agent' = [agent EXCEPT ![s] = "started"]
  /\ UNCHANGED <<locks, state, current, occupied, joins, conn, cancelled,
                 callbacks, registry, req>>

\* Failed or disconnected.
ConnectionLost(s) ==
  /\ conn[s] = "open"
  /\ conn' = [conn EXCEPT ![s] = "lost"]
  /\ stopping' = stopping \cup {<<s, "lost">>}
  /\ UNCHANGED <<locks, state, current, occupied, joins, agent, cancelled,
                 timer, expiring, registry, req>>

\* go r.StopSession(), after the callback has published the state: it stops
\* the room's session, whichever it is.
SpawnedStop(x) ==
  /\ x \in stopping /\ hub = "free" /\ mu = "free"
  /\ stopping' = stopping \ {x}
  /\ IF state = "closed"
     THEN UNCHANGED <<locks, sessionVars, timer, registry>>
     ELSE StopSessionLocked
  /\ UNCHANGED <<state, expiring, req>>

\* The session limit: time.AfterFunc's goroutine starts ...
TimerFires(s) ==
  /\ timer = s /\ s \notin expiring
  /\ expiring' = expiring \cup {s}
  /\ UNCHANGED <<locks, state, sessionVars, timer, stopping, registry, req>>

\* ... publishes "session.room.expired" and closes the room, whichever
\* session it now has.
Expire(s) ==
  /\ s \in expiring /\ hub = "free" /\ mu = "free"
  /\ expiring' = expiring \ {s}
  /\ IF state = "closed"
     THEN UNCHANGED <<locks, state, sessionVars, timer, registry>>
     ELSE CloseLocked
  /\ UNCHANGED <<stopping, req>>

-----------------------------------------------------------------------------
Serve(q) ==
  \/ Get(q) \/ NotFound(q) \/ TurnedAway(q)
  \/ JoinAdmitted(q) \/ Stop(q) \/ Close(q)

\* What the holder of Room.mu does.
Holder ==
  \/ JoinFailsEarly \/ JoinFailsUnwired \/ JoinBegins
  \/ JoinFails \/ JoinSucceeds \/ SessionBegins
  \/ SessionStopped \/ SessionClosed \/ ForgetRoom \/ DeleteRoom

Callback(s) ==
  \/ AgentStarts(s) \/ TimerFires(s) \/ Expire(s)
  \/ \E why \in {"lost", "closed"} : SpawnedStop(<<s, why>>)

Others == HubTaken \/ OtherDeletes \/ HubReleased

Next ==
  \/ \E q \in Requests : Arrive(q) \/ Serve(q)
  \/ Holder
  \/ \E s \in Sessions : ConnectionLost(s) \/ Callback(s)
  \/ Others
  \/ RecordExpires

Spec == Init /\ [][Next]_vars

\* Goroutines run, ICE gathering completes or fails, and a mutex starves
\* nobody.  When peers go and when Hub.mu is given back is left open.
FairSpec ==
  /\ Spec
  /\ \A q \in Requests : SF_vars(Serve(q))
  /\ SF_vars(Holder)
  /\ SF_vars(\E s \in Sessions : Callback(s))

-----------------------------------------------------------------------------
(* Properties.                                                             *)

\* Whatever joins, stops, lost connections and timers interleave, the only
\* agent that can still run, and the only PeerConnection not closed, are
\* those the room can stop: two joins never leave one behind.
NoOrphanSession ==
  \A s \in Sessions \ {current} :
    /\ agent[s] # "none" => s \in cancelled
    /\ conn[s] \in {"none", "closed"}

\* A closed room has no timer and, once its session is torn down, no session
\* and no participant; nothing that arrives late (a join that had found the
\* room, a StopSession, the timer) gives it one, and it is out of the manager
\* when its lock is free.
ClosedRoomIsEmpty ==
  state = "closed" =>
    /\ timer = Nil
    /\ mu # "stopping" => current = Nil /\ ~occupied
    /\ mu = "free" => ~registered

\* After a Redis call that succeeded, other nodes see an active room as
\* active, although its record may have expired while it waited, a waiting
\* one not as active, and a room that is gone not at all: no late call brings
\* its record back.
RecordTracksRoom ==
  (redis /\ record # "unknown" /\ mu = "free") =>
    /\ ~registered => record = Nil
    /\ (state = "active" /\ TTLCoversSession) => record = "active"
    /\ state = "wait_for_user" => record # "active"

\* Hub.mu is given back again and again: with Redis always, without it unless
\* a subscriber's channel stays full.
HubGoesOn == []<>(hub = "free")

\* Every session ends, with its connection, by a request or at its limit,
\* although the timer publishes before it closes the room.
SessionsEnd == HubGoesOn => (state = "active" ~> state # "active")

\* Every request is answered, although operations publish with Room.mu held,
\* Close takes Manager.mu with it, the deletes of other rooms hold Manager.mu
\* while they publish, and look-ups wait for that: the three locks are never
\* waited for in a circle, and none is kept.
RequestsReturn ==
  HubGoesOn => \A q \in Requests : req[q] # "idle" ~> req[q] = "idle"
=============================================================================
