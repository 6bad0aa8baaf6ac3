---------------------------- MODULE Room_proofs ----------------------------
(***************************************************************************)
(* Proofs about one room, for any requests and any number of sessions,     *)
(* with a Redis that fails whenever it likes, or none, and whatever RoomTTL *)
(* is.  The argument: a room that waits with its lock free has no session, *)
(* so a join, which tests just that, never builds one beside another;      *)
(* every way to stop the session cancels it and tears down all of it under *)
(* the lock; and a closed room is never opened again.                      *)
(***************************************************************************)
EXTENDS Room, TLAPS

Phases  == {"free", "admitting", "joining", "activating", "stopping",
            "closing", "deleting"}
States  == {"wait_for_user", "active", "closed"}
Conns   == {"none", "open", "lost", "closed"}
Agents  == {"none", "built", "answered", "started"}
Records == {"wait_for_user", "active", "unknown", Nil}

Shape ==
  /\ mu \in Phases /\ mgr \in {"free", "room", "other"}
  /\ hub \in {"free", "busy"}
  /\ state \in States
  /\ current \in Sessions \cup {Nil} /\ timer \in {current, Nil}
  /\ occupied \in BOOLEAN /\ registered \in BOOLEAN /\ redis \in BOOLEAN
  /\ joins \in 0..MaxJoins
  /\ conn \in [Sessions -> Conns] /\ agent \in [Sessions -> Agents]
  /\ cancelled \subseteq Sessions /\ expiring \subseteq Sessions
  /\ stopping \subseteq Sessions \X {"lost", "closed"}
  /\ record \in Records
  /\ req \in [Requests -> {"idle", "arrived", "found", "inside"}]

\* Manager.mu is only taken by the room that holds Room.mu, and a request
\* that is inside holds that.
LocksNest ==
  /\ mgr = "room" <=> mu = "deleting"
  /\ \A q \in Requests : req[q] = "inside" => mu # "free"

\* What the holder of Room.mu knows of the room, and what it leaves behind.
StateMatches ==
  /\ mu = "admitting" => /\ state = "wait_for_user" /\ current = Nil
                         /\ joins < MaxJoins
  /\ mu = "joining" => state = "wait_for_user" /\ current # Nil
  /\ mu = "activating" => state = "active"
  /\ mu = "stopping" => timer = Nil /\ (current # Nil => current \in cancelled)
  /\ mu \in {"closing", "deleting"} => state = "closed"
  /\ state = "wait_for_user" /\ mu = "free" => current = Nil
  /\ state = "active" => current # Nil
  /\ state = "closed" => timer = Nil
  /\ state = "closed" /\ mu # "stopping" => current = Nil /\ ~occupied
  /\ registered <=> ~(state = "closed" /\ mu \in {"free", "deleting"})

SessionsOfTheRoom ==
  /\ \A s \in Sessions : s > joins => conn[s] = "none" /\ agent[s] = "none"
  /\ current # Nil => current <= joins
  /\ NoOrphanSession

\* RecordTracksRoom, also while the lock is held.
RecordFollows ==
  redis /\ record # "unknown" =>
    /\ ~registered /\ mu # "deleting" => record = Nil
    /\ state = "active" /\ mu # "activating" /\ TTLCoversSession
         => record = "active"
    /\ state = "wait_for_user" => record # "active"

RoomInv ==
  /\ Shape
  /\ LocksNest
  /\ StateMatches
  /\ SessionsOfTheRoom
  /\ RecordFollows

-----------------------------------------------------------------------------
(* The initial state, and steps that leave the room's session alone.       *)

\* The initial state satisfies the invariant.
LEMMA RoomInit == Init => RoomInv
<1> SUFFICES ASSUME Init PROVE RoomInv
  OBVIOUS
<1>1. Shape
  <2>1. record \in Records /\ redis \in BOOLEAN
    BY DEF Init, Records
  <2>2. conn \in [Sessions -> Conns] /\ agent \in [Sessions -> Agents]
    BY DEF Init, Conns, Agents
  <2>3. /\ mu \in Phases /\ mgr \in {"free", "room", "other"}
        /\ hub \in {"free", "busy"} /\ state \in States
        /\ current \in Sessions \cup {Nil} /\ timer \in {current, Nil}
        /\ occupied \in BOOLEAN /\ registered \in BOOLEAN
    BY DEF Init, Phases, States
  <2>4. joins \in 0..MaxJoins
    BY RoomConstants DEF Init
  <2>5. /\ cancelled \subseteq Sessions /\ expiring \subseteq Sessions
        /\ stopping \subseteq Sessions \X {"lost", "closed"}
        /\ req \in [Requests -> {"idle", "arrived", "found", "inside"}]
    BY DEF Init
  <2> QED
    BY <2>1, <2>2, <2>3, <2>4, <2>5 DEF Shape
<1>2. LocksNest /\ StateMatches /\ RecordFollows
  BY RoomConstants DEF Init, LocksNest, StateMatches, RecordFollows
<1>3. SessionsOfTheRoom
  BY DEF Init, SessionsOfTheRoom, NoOrphanSession
<1> QED
  BY <1>1, <1>2, <1>3 DEF RoomInv

\* Requests come, look the room up and are turned away, and others take and
\* release their locks: nobody is inside who was not.
LEMMA RoomUntouched ==
  ASSUME RoomInv,
         UNCHANGED <<mu, state, sessionVars, callbacks, registry>>,
         mgr' \in {"free", "room", "other"}, mgr' = "room" <=> mgr = "room",
         hub' \in {"free", "busy"},
         req' \in [Requests -> {"idle", "arrived", "found", "inside"}],
         \A q \in Requests : req'[q] = "inside" => req[q] = "inside"
  PROVE  RoomInv'
<1>1. Shape'
  BY DEF RoomInv, Shape, sessionVars, callbacks, registry
<1>2. LocksNest'
  BY DEF RoomInv, LocksNest
<1>3. StateMatches'
  BY DEF RoomInv, StateMatches, sessionVars, callbacks, registry
<1>4. SessionsOfTheRoom'
  BY DEF RoomInv, SessionsOfTheRoom, NoOrphanSession, sessionVars
<1>5. RecordFollows'
  BY DEF RoomInv, RecordFollows, registry
<1> QED
  BY <1>1, <1>2, <1>3, <1>4, <1>5 DEF RoomInv

\* The steps of requests that do not hold the lock, and of others.
LEMMA Comings ==
  ASSUME RoomInv,
         \/ Others
         \/ \E q \in Requests :
              Arrive(q) \/ Get(q) \/ NotFound(q) \/ TurnedAway(q)
  PROVE  RoomInv'
<1>1. CASE Others
  <2>1. /\ UNCHANGED <<mu, state, sessionVars, callbacks, registry, req>>
        /\ mgr' \in {"free", "room", "other"}
        /\ mgr' = "room" <=> mgr = "room"
        /\ hub' \in {"free", "busy"}
    BY <1>1 DEF Others, HubTaken, OtherDeletes, HubReleased, RoomInv, Shape
  <2> QED
    BY <2>1, RoomUntouched DEF RoomInv, Shape
<1>2. CASE \E q \in Requests :
             Arrive(q) \/ Get(q) \/ NotFound(q) \/ TurnedAway(q)
  <2>1. PICK q \in Requests :
          Arrive(q) \/ Get(q) \/ NotFound(q) \/ TurnedAway(q)
    BY <1>2
  <2>2. /\ UNCHANGED <<mu, mgr, hub, state, sessionVars, callbacks, registry>>
        /\ \E x \in {"idle", "arrived", "found"} :
             req' = [req EXCEPT ![q] = x]
    BY <2>1 DEF Arrive, Get, NotFound, TurnedAway, Return, locks
  <2>3. /\ req' \in [Requests -> {"idle", "arrived", "found", "inside"}]
        /\ \A p \in Requests : req'[p] = "inside" => req[p] = "inside"
    BY <2>2 DEF RoomInv, Shape
  <2> QED
    BY <2>2, <2>3, RoomUntouched DEF RoomInv, Shape
<1> QED
  BY <1>1, <1>2

\* A step of a PeerConnection, of an agent, of the timer or of the registry
\* that neither takes the lock nor tears anything down.
LEMMA LockUntouched ==
  ASSUME RoomInv,
         UNCHANGED <<locks, state, timer, current, occupied, joins, cancelled,
                     registered, redis, req>>,
         SessionsOfTheRoom',
         conn' \in [Sessions -> Conns], agent' \in [Sessions -> Agents],
         expiring' \subseteq Sessions,
         stopping' \subseteq Sessions \X {"lost", "closed"},
         record' \in Records, RecordFollows'
  PROVE  RoomInv'
<1>1. Shape'
  BY DEF RoomInv, Shape, locks
<1>2. LocksNest' /\ StateMatches'
  BY DEF RoomInv, LocksNest, StateMatches, locks
<1> QED
  BY <1>1, <1>2 DEF RoomInv

\* A connection is lost: it is the room's, the others are closed.
LEMMA PeerGoes ==
  ASSUME RoomInv, NEW s \in Sessions, ConnectionLost(s)
  PROVE  RoomInv'
<1>1. /\ conn[s] = "open" /\ conn' = [conn EXCEPT ![s] = "lost"]
      /\ stopping' = stopping \cup {<<s, "lost">>}
      /\ UNCHANGED <<locks, state, current, occupied, joins, agent, cancelled,
                     timer, expiring, registered, redis, record, req>>
  BY DEF ConnectionLost, registry
<1>2. s = current /\ ~(s > joins)
  BY <1>1 DEF RoomInv, SessionsOfTheRoom, NoOrphanSession
<1>3. \A t \in Sessions : conn'[t] = IF t = s THEN "lost" ELSE conn[t]
  BY <1>1 DEF RoomInv, Shape
<1>4. SessionsOfTheRoom'
  BY <1>1, <1>2, <1>3 DEF RoomInv, SessionsOfTheRoom, NoOrphanSession
<1>5. RecordFollows'
  BY <1>1 DEF RoomInv, RecordFollows, locks
<1>6. /\ conn' \in [Sessions -> Conns] /\ agent' \in [Sessions -> Agents]
      /\ expiring' \subseteq Sessions /\ record' \in Records
      /\ stopping' \subseteq Sessions \X {"lost", "closed"}
  BY <1>1 DEF RoomInv, Shape, Conns
<1> QED
  BY <1>1, <1>4, <1>5, <1>6, LockUntouched

\* An agent starts, late or not: the context it runs under says whether it may.
LEMMA AgentRuns ==
  ASSUME RoomInv, NEW s \in Sessions, AgentStarts(s)
  PROVE  RoomInv'
<1>1. /\ agent[s] = "answered" /\ agent' = [agent EXCEPT ![s] = "started"]
      /\ UNCHANGED <<locks, state, current, occupied, joins, conn, cancelled,
                     timer, expiring, stopping, registered, redis, record,
                     req>>
  BY DEF AgentStarts, callbacks, registry
<1>2. \A t \in Sessions : agent'[t] = "none" <=> agent[t] = "none"
  BY <1>1 DEF RoomInv, Shape
<1>3. SessionsOfTheRoom'
  BY <1>1, <1>2 DEF RoomInv, SessionsOfTheRoom, NoOrphanSession
<1>4. RecordFollows'
  BY <1>1 DEF RoomInv, RecordFollows, locks
<1>5. /\ conn' \in [Sessions -> Conns] /\ agent' \in [Sessions -> Agents]
      /\ expiring' \subseteq Sessions /\ record' \in Records
      /\ stopping' \subseteq Sessions \X {"lost", "closed"}
  BY <1>1 DEF RoomInv, Shape, Agents
<1> QED
  BY <1>1, <1>3, <1>4, <1>5, LockUntouched

\* The timer's goroutine starts, or finds the room closed; so does a spawned
\* StopSession.
LEMMA CallbackGoes ==
  ASSUME RoomInv,
         UNCHANGED <<locks, state, sessionVars, timer, registry, req>>,
         expiring' \subseteq Sessions,
         stopping' \subseteq Sessions \X {"lost", "closed"}
  PROVE  RoomInv'
<1>1. SessionsOfTheRoom'
  BY DEF RoomInv, SessionsOfTheRoom, NoOrphanSession, sessionVars
<1>2. RecordFollows'
  BY DEF RoomInv, RecordFollows, locks, registry
<1> QED
  BY <1>1, <1>2, LockUntouched DEF RoomInv, Shape, sessionVars, registry

\* The record expires.
LEMMA RecordGoes ==
  ASSUME RoomInv, RecordExpires
  PROVE  RoomInv'
<1>1. UNCHANGED <<locks, state, sessionVars, callbacks, registered, redis,
                  req>>
  BY DEF RecordExpires
<1>2. record' \in Records /\ RecordFollows'
  BY RoomConstants DEF RecordExpires, RoomInv, RecordFollows, Records, locks
<1>3. SessionsOfTheRoom'
  BY <1>1 DEF RoomInv, SessionsOfTheRoom, NoOrphanSession, sessionVars
<1> QED
  BY <1>1, <1>2, <1>3, LockUntouched
     DEF RoomInv, Shape, sessionVars, callbacks

-----------------------------------------------------------------------------
(* Steps with Room.mu.                                                     *)

\* A stop or a close has the lock: the session is cancelled and the timer
\* stopped, and both still belong to the room.
LEMMA StopEntered ==
  ASSUME RoomInv, mu \in {"free", "joining"}, state # "closed",
         StopSessionLocked, state' \in {state, "closed"},
         expiring' \subseteq Sessions,
         stopping' \subseteq Sessions \X {"lost", "closed"},
         req' \in [Requests -> {"idle", "arrived", "found", "inside"}]
  PROVE  RoomInv'
<1>1. /\ mu' = "stopping" /\ timer' = Nil /\ cancelled' = cancelled \cup Torn
      /\ UNCHANGED <<mgr, hub, current, occupied, joins, conn, agent,
                     registered, redis, record>>
  BY DEF StopSessionLocked, registry
<1>2. /\ Torn \subseteq Sessions
      /\ current # Nil => current \in Torn
  BY DEF RoomInv, Shape, Torn
<1>3. Shape'
  BY <1>1, <1>2 DEF RoomInv, Shape, States, Phases
<1>4. LocksNest'
  BY <1>1 DEF RoomInv, LocksNest
<1>5. StateMatches'
  BY <1>1, <1>2 DEF RoomInv, StateMatches
<1>6. SessionsOfTheRoom'
  BY <1>1 DEF RoomInv, SessionsOfTheRoom, NoOrphanSession
<1>7. registered
  BY DEF RoomInv, StateMatches
<1>8. RecordFollows'
  BY <1>1, <1>7 DEF RoomInv, RecordFollows
<1> QED
  BY <1>3, <1>4, <1>5, <1>6, <1>8 DEF RoomInv

\* A goroutine that gets the lock stops the session or closes the room.
LEMMA StopBegins ==
  ASSUME RoomInv,
         \/ \E q \in Requests : Stop(q) \/ Close(q)
         \/ JoinFails
         \/ state # "closed" /\ \E x : SpawnedStop(x)
         \/ state # "closed" /\ \E s \in Sessions : Expire(s)
  PROVE  RoomInv'
<1>1. CASE \E q \in Requests : Stop(q) \/ Close(q)
  <2>1. PICK q \in Requests : Stop(q) \/ Close(q)
    BY <1>1
  <2>2. /\ mu = "free" /\ state # "closed" /\ StopSessionLocked
        /\ state' \in {state, "closed"}
        /\ req' = [req EXCEPT ![q] = "inside"]
        /\ UNCHANGED <<expiring, stopping>>
    BY <2>1 DEF Stop, Close, CloseLocked, Enter
  <2>3. req' \in [Requests -> {"idle", "arrived", "found", "inside"}]
    BY <2>2 DEF RoomInv, Shape
  <2> QED
    BY <2>2, <2>3, StopEntered DEF RoomInv, Shape
<1>2. CASE JoinFails
  <2>1. /\ mu = "joining" /\ StopSessionLocked
        /\ UNCHANGED <<state, expiring, stopping, req>>
    BY <1>2 DEF JoinFails
  <2>2. state # "closed"
    BY <2>1 DEF RoomInv, StateMatches
  <2> QED
    BY <2>1, <2>2, StopEntered DEF RoomInv, Shape
<1>3. CASE state # "closed" /\ \E x : SpawnedStop(x)
  <2>1. PICK x : SpawnedStop(x)
    BY <1>3
  <2>2. /\ mu = "free" /\ StopSessionLocked /\ stopping' = stopping \ {x}
        /\ UNCHANGED <<state, expiring, req>>
    BY <1>3, <2>1 DEF SpawnedStop
  <2> QED
    BY <1>3, <2>2, StopEntered DEF RoomInv, Shape
<1>4. CASE state # "closed" /\ \E s \in Sessions : Expire(s)
  <2>1. PICK s \in Sessions : Expire(s)
    BY <1>4
  <2>2. /\ mu = "free" /\ StopSessionLocked /\ state' = "closed"
        /\ expiring' = expiring \ {s} /\ UNCHANGED <<stopping, req>>
    BY <1>4, <2>1 DEF Expire, CloseLocked
  <2> QED
    BY <1>4, <2>2, StopEntered DEF RoomInv, Shape
<1> QED
  BY <1>1, <1>2, <1>3, <1>4

\* What stopSessionLocked leaves behind, whoever called it.
LEMMA TornDown ==
  ASSUME RoomInv, TearDown
  PROVE  /\ conn' \in [Sessions -> Conns]
         /\ stopping' \subseteq Sessions \X {"lost", "closed"}
         /\ SessionsOfTheRoom'
<1>1. /\ mu = "stopping" /\ current' = Nil
      /\ conn' = [s \in Sessions |-> IF s \in Torn THEN "closed" ELSE conn[s]]
      /\ stopping' = stopping \cup (Torn \X {"closed"})
      /\ UNCHANGED <<joins, agent, cancelled>>
  BY DEF TearDown
<1>2. Torn \subseteq Sessions /\ \A s \in Sessions : s \in Torn <=> s = current
  BY RoomConstants DEF RoomInv, Shape, Torn
<1>3. current # Nil => current \in cancelled
  BY <1>1 DEF RoomInv, StateMatches
<1>4. \A s \in Sessions : s > joins => s # current
  BY RoomConstants DEF RoomInv, SessionsOfTheRoom, Shape, Sessions
<1>5. conn' \in [Sessions -> Conns]
  BY <1>1 DEF RoomInv, Shape, Conns
<1>6. stopping' \subseteq Sessions \X {"lost", "closed"}
  BY <1>1, <1>2 DEF RoomInv, Shape
<1>7. \A s \in Sessions : s > joins => conn'[s] = "none" /\ agent'[s] = "none"
  BY <1>1, <1>2, <1>4 DEF RoomInv, SessionsOfTheRoom
<1>8. NoOrphanSession'
  BY <1>1, <1>2, <1>3 DEF RoomInv, SessionsOfTheRoom, NoOrphanSession
<1> QED
  BY <1>1, <1>5, <1>6, <1>7, <1>8 DEF SessionsOfTheRoom

\* Whoever unlocks Room.mu has answered the request that was inside.
LEMMA Unlocked ==
  ASSUME RoomInv, Unlock
  PROVE  /\ mu' = "free"
         /\ req' \in [Requests -> {"idle", "arrived", "found", "inside"}]
         /\ \A q \in Requests : req'[q] # "inside"
BY DEF Unlock, RoomInv, Shape

\* A stop is complete: the room waits again.
LEMMA Stops == ASSUME RoomInv, SessionStopped PROVE RoomInv'
<1>1. /\ mu = "stopping" /\ state # "closed" /\ state' = "wait_for_user"
      /\ current' = Nil /\ occupied' = FALSE
      /\ UNCHANGED <<mgr, hub, joins, agent, cancelled, timer, expiring,
                     registered, redis>>
  BY DEF SessionStopped, TearDown, UpdateState, registry
<1>2. timer = Nil /\ registered
  BY <1>1 DEF RoomInv, StateMatches
<1>3. /\ record' \in Records
      /\ redis /\ record' # "unknown" => record' # "active"
  <2>1. CASE UpdateState("wait_for_user")
    BY <2>1, RoomConstants DEF UpdateState, RoomInv, Shape, Records
  <2>2. CASE Torn = {} /\ UNCHANGED registry
    <3>1. current = Nil
      BY <2>2 DEF RoomInv, Shape, Torn
    <3>2. state = "wait_for_user"
      BY <1>1, <3>1 DEF RoomInv, Shape, States, StateMatches
    <3> QED
      BY <2>2, <3>2 DEF registry, RoomInv, Shape, RecordFollows
  <2> QED
    BY <2>1, <2>2 DEF SessionStopped
<1>4. TearDown /\ Unlock
  BY DEF SessionStopped
<1>5. Shape'
  BY <1>1, <1>2, <1>3, <1>4, TornDown, Unlocked
     DEF RoomInv, Shape, Phases, States
<1>6. LocksNest'
  BY <1>1, <1>4, Unlocked DEF RoomInv, LocksNest
<1>7. StateMatches'
  BY <1>1, <1>2, <1>4, Unlocked DEF StateMatches
<1>8. RecordFollows'
  BY <1>1, <1>2, <1>3 DEF RecordFollows
<1> QED
  BY <1>4, <1>5, <1>6, <1>7, <1>8, TornDown DEF RoomInv

\* Close has torn the session down, and keeps the lock.
LEMMA Closes == ASSUME RoomInv, SessionClosed PROVE RoomInv'
<1>1. /\ mu = "stopping" /\ state = "closed" /\ mu' = "closing"
      /\ current' = Nil /\ occupied' = FALSE
      /\ UNCHANGED <<mgr, hub, joins, agent, cancelled, timer, expiring, state,
                     registered, redis, record, req>>
  BY DEF SessionClosed, TearDown, registry
<1>2. timer = Nil /\ registered
  BY <1>1 DEF RoomInv, StateMatches
<1>3. TearDown
  BY DEF SessionClosed
<1>4. Shape'
  BY <1>1, <1>2, <1>3, TornDown DEF RoomInv, Shape, Phases
<1>5. LocksNest'
  BY <1>1 DEF RoomInv, LocksNest
<1>6. StateMatches'
  BY <1>1, <1>2 DEF StateMatches
<1>7. RecordFollows'
  BY <1>1, <1>2 DEF RecordFollows
<1> QED
  BY <1>3, <1>4, <1>5, <1>6, <1>7, TornDown DEF RoomInv

\* The manager forgets the closed room, with both locks.
LEMMA Forgets == ASSUME RoomInv, ForgetRoom PROVE RoomInv'
<1>1. /\ mu = "closing" /\ mu' = "deleting" /\ mgr' = "room"
      /\ registered' = FALSE
      /\ UNCHANGED <<hub, state, sessionVars, callbacks, redis, record, req>>
  BY DEF ForgetRoom
<1>2. state = "closed"
  BY <1>1 DEF RoomInv, StateMatches
<1>3. Shape'
  BY <1>1 DEF RoomInv, Shape, Phases, sessionVars, callbacks
<1>4. LocksNest'
  BY <1>1 DEF RoomInv, LocksNest
<1>5. StateMatches'
  BY <1>1, <1>2 DEF RoomInv, StateMatches, sessionVars, callbacks
<1>6. SessionsOfTheRoom'
  BY <1>1 DEF RoomInv, SessionsOfTheRoom, NoOrphanSession, sessionVars
<1>7. RecordFollows'
  BY <1>1, <1>2 DEF RecordFollows
<1> QED
  BY <1>3, <1>4, <1>5, <1>6, <1>7 DEF RoomInv

\* The room is gone, and both locks are given back.
LEMMA Deletes == ASSUME RoomInv, DeleteRoom PROVE RoomInv'
<1>1. /\ mu = "deleting" /\ mgr' = "free" /\ DeleteRecord /\ Unlock
      /\ UNCHANGED <<hub, state, sessionVars, callbacks>>
  BY DEF DeleteRoom
<1>2. state = "closed" /\ ~registered
  BY <1>1 DEF RoomInv, StateMatches
<1>3. /\ record' \in Records /\ UNCHANGED <<registered, redis>>
      /\ redis /\ record' # "unknown" => record' = Nil
  BY <1>1 DEF DeleteRecord, RoomInv, Shape, Records
<1>4. Shape'
  BY <1>1, <1>3, Unlocked DEF RoomInv, Shape, Phases, sessionVars, callbacks
<1>5. LocksNest'
  BY <1>1, Unlocked DEF LocksNest
<1>6. StateMatches'
  BY <1>1, <1>2, <1>3, Unlocked
     DEF RoomInv, StateMatches, sessionVars, callbacks
<1>7. SessionsOfTheRoom'
  BY <1>1 DEF RoomInv, SessionsOfTheRoom, NoOrphanSession, sessionVars
<1>8. RecordFollows'
  BY <1>1, <1>2, <1>3 DEF RecordFollows
<1> QED
  BY <1>4, <1>5, <1>6, <1>7, <1>8 DEF RoomInv

-----------------------------------------------------------------------------
(* Joins.                                                                  *)

\* A join is admitted to a room that waits, and so has no session.
LEMMA Admits ==
  ASSUME RoomInv, NEW q \in Requests, JoinAdmitted(q) PROVE RoomInv'
<1>1. /\ mu = "free" /\ mu' = "admitting" /\ state = "wait_for_user"
      /\ joins < MaxJoins /\ occupied' = TRUE
      /\ req' = [req EXCEPT ![q] = "inside"]
      /\ UNCHANGED <<mgr, hub, state, current, joins, conn, agent, cancelled,
                     callbacks, registry>>
  BY DEF JoinAdmitted, Enter
<1>2. Shape'
  BY <1>1 DEF RoomInv, Shape, Phases, callbacks, registry
<1>3. LocksNest'
  BY <1>1 DEF RoomInv, LocksNest
<1>4. StateMatches'
  BY <1>1 DEF RoomInv, StateMatches, callbacks, registry
<1>5. SessionsOfTheRoom'
  BY <1>1 DEF RoomInv, SessionsOfTheRoom, NoOrphanSession
<1>6. RecordFollows'
  BY <1>1 DEF RoomInv, RecordFollows, registry
<1> QED
  BY <1>2, <1>3, <1>4, <1>5, <1>6 DEF RoomInv

\* A join fails before it has wired a session up.
LEMMA FailsEarly ==
  ASSUME RoomInv, JoinFailsEarly \/ JoinFailsUnwired PROVE RoomInv'
<1>1. /\ mu = "admitting" /\ Unlock /\ occupied' \in BOOLEAN
      /\ UNCHANGED <<mgr, hub, state, current, agent, cancelled, callbacks,
                     registered, redis>>
  BY DEF JoinFailsEarly, JoinFailsUnwired, UpdateState, sessionVars, registry,
         RoomInv, Shape
<1>2. /\ state = "wait_for_user" /\ current = Nil /\ joins < MaxJoins
      /\ registered
  BY <1>1 DEF RoomInv, StateMatches
<1>3. /\ record' \in Records
      /\ redis /\ record' # "unknown" => record' # "active"
  BY <1>2, RoomConstants DEF JoinFailsEarly, JoinFailsUnwired, UpdateState,
     registry, RoomInv, Shape, Records, RecordFollows
<1>4. joins \in 0..MaxJoins /\ joins + 1 \in Sessions
  BY <1>2, RoomConstants DEF RoomInv, Shape, Sessions
<1>5. /\ joins' \in {joins, joins + 1} /\ conn' \in [Sessions -> Conns]
      /\ \A s \in Sessions : /\ s > joins' => conn'[s] = "none"
                             /\ conn'[s] \in {conn[s], "closed"}
  <2>1. \A s \in Sessions : s > joins => conn[s] = "none"
    BY DEF RoomInv, SessionsOfTheRoom
  <2>2. CASE UNCHANGED <<joins, conn>>
    BY <2>1, <2>2 DEF RoomInv, Shape
  <2>3. CASE /\ joins' = joins + 1
             /\ conn' = [conn EXCEPT ![joins + 1] = "closed"]
    <3>1. \A s \in Sessions :
            conn'[s] = IF s = joins + 1 THEN "closed" ELSE conn[s]
      BY <2>3 DEF RoomInv, Shape
    <3>2. conn' \in [Sessions -> Conns]
      BY <2>3 DEF RoomInv, Shape, Conns
    <3>3. \A s \in Sessions : s > joins' => s > joins /\ s # joins + 1
      BY <1>4, <2>3 DEF Sessions
    <3> QED
      BY <2>1, <2>3, <3>1, <3>2, <3>3
  <2> QED
    BY <2>2, <2>3 DEF JoinFailsEarly, JoinFailsUnwired, sessionVars
<1>6. Shape'
  BY <1>1, <1>2, <1>3, <1>4, <1>5, Unlocked, RoomConstants
     DEF RoomInv, Shape, Phases, callbacks
<1>7. LocksNest'
  BY <1>1, Unlocked DEF RoomInv, LocksNest
<1>8. StateMatches'
  BY <1>1, <1>2, Unlocked DEF StateMatches
<1>9. SessionsOfTheRoom'
  BY <1>1, <1>2, <1>4, <1>5
     DEF RoomInv, SessionsOfTheRoom, NoOrphanSession, Sessions
<1>10. RecordFollows'
  BY <1>1, <1>2, <1>3 DEF RecordFollows
<1> QED
  BY <1>6, <1>7, <1>8, <1>9, <1>10 DEF RoomInv

\* A join wires its session up, beside no other.
LEMMA Begins == ASSUME RoomInv, JoinBegins PROVE RoomInv'
<1>1. /\ mu = "admitting" /\ mu' = "joining" /\ joins' = joins + 1
      /\ current' = joins + 1
      /\ conn' = [conn EXCEPT ![joins + 1] = "open"]
      /\ agent' = [agent EXCEPT ![joins + 1] = "built"]
      /\ UNCHANGED <<mgr, hub, state, occupied, cancelled, callbacks,
                     registry, req>>
  BY DEF JoinBegins
<1>2. state = "wait_for_user" /\ current = Nil /\ joins < MaxJoins
  BY <1>1 DEF RoomInv, StateMatches
<1>3. /\ joins \in 0..MaxJoins /\ joins + 1 \in Sessions
      /\ joins + 1 \in 0..MaxJoins /\ joins + 1 # Nil
      /\ timer = Nil /\ registered
  BY <1>1, <1>2, RoomConstants DEF RoomInv, Shape, Sessions, StateMatches
<1>4. conn' \in [Sessions -> Conns] /\ agent' \in [Sessions -> Agents]
  BY <1>1 DEF RoomInv, Shape, Conns, Agents
<1>5. Shape'
  BY <1>1, <1>3, <1>4 DEF RoomInv, Shape, Phases, callbacks, registry
<1>6. LocksNest'
  BY <1>1 DEF RoomInv, LocksNest
<1>7. StateMatches'
  BY <1>1, <1>2, <1>3 DEF StateMatches, registry
<1>8. \A s \in Sessions \ {joins + 1} : /\ conn'[s] = conn[s]
                                       /\ agent'[s] = agent[s]
  BY <1>1, <1>3 DEF RoomInv, Shape
<1>9. SessionsOfTheRoom'
  <2>1. \A s \in Sessions :
          s > joins' => conn'[s] = "none" /\ agent'[s] = "none"
    BY <1>1, <1>3, <1>8 DEF RoomInv, SessionsOfTheRoom, Sessions
  <2>2. NoOrphanSession'
    BY <1>1, <1>2, <1>8, RoomConstants
       DEF RoomInv, SessionsOfTheRoom, NoOrphanSession
  <2> QED
    BY <1>1, <1>3, <2>1, <2>2 DEF SessionsOfTheRoom
<1>10. RecordFollows'
  BY <1>1, <1>2, <1>3 DEF RoomInv, RecordFollows, registry
<1> QED
  BY <1>5, <1>6, <1>7, <1>9, <1>10 DEF RoomInv

\* The SDP exchange is done, and the room is active.
LEMMA Activates == ASSUME RoomInv, JoinSucceeds PROVE RoomInv'
<1>1. /\ mu = "joining" /\ mu' = "activating" /\ state' = "active"
      /\ UNCHANGED <<mgr, hub, sessionVars, callbacks, registry, req>>
  BY DEF JoinSucceeds
<1>2. state = "wait_for_user" /\ current # Nil /\ registered
  BY <1>1 DEF RoomInv, StateMatches
<1>3. Shape'
  BY <1>1 DEF RoomInv, Shape, Phases, States, sessionVars, callbacks, registry
<1>4. LocksNest'
  BY <1>1 DEF RoomInv, LocksNest
<1>5. StateMatches'
  BY <1>1, <1>2 DEF StateMatches, sessionVars, registry
<1>6. SessionsOfTheRoom'
  BY <1>1 DEF RoomInv, SessionsOfTheRoom, NoOrphanSession, sessionVars
<1>7. RecordFollows'
  BY <1>1, <1>2 DEF RecordFollows, registry
<1> QED
  BY <1>3, <1>4, <1>5, <1>6, <1>7 DEF RoomInv

\* The session has its timer, and the record says active.
LEMMA Runs == ASSUME RoomInv, SessionBegins PROVE RoomInv'
<1>1. /\ mu = "activating" /\ UpdateState("active") /\ timer' = current
      /\ agent' = [agent EXCEPT ![current] = "answered"] /\ Unlock
      /\ UNCHANGED <<mgr, hub, state, current, occupied, joins, conn,
                     cancelled, expiring, stopping, registered, redis>>
  BY DEF SessionBegins, UpdateState
<1>2. state = "active" /\ current # Nil /\ registered
  BY <1>1 DEF RoomInv, StateMatches
<1>3. current \in Sessions /\ current <= joins
  BY <1>2 DEF RoomInv, Shape, SessionsOfTheRoom
<1>4. /\ record' \in Records
      /\ redis /\ record' # "unknown" => record' = "active"
  BY <1>1 DEF UpdateState, RoomInv, Shape, Records
<1>5. agent' \in [Sessions -> Agents]
  BY <1>1 DEF RoomInv, Shape, Agents
<1>6. Shape'
  BY <1>1, <1>4, <1>5, Unlocked DEF RoomInv, Shape, Phases
<1>7. LocksNest'
  BY <1>1, Unlocked DEF RoomInv, LocksNest
<1>8. StateMatches'
  BY <1>1, <1>2, Unlocked DEF StateMatches
<1>9. \A s \in Sessions \ {current} : agent'[s] = agent[s]
  BY <1>1 DEF RoomInv, Shape
<1>10. SessionsOfTheRoom'
  <2>1. \A s \in Sessions : s > joins => s # current
    BY <1>3, RoomConstants DEF Sessions, RoomInv, Shape
  <2> QED
    BY <1>1, <1>9, <2>1 DEF RoomInv, SessionsOfTheRoom, NoOrphanSession
<1>11. RecordFollows'
  BY <1>1, <1>2, <1>4 DEF RecordFollows
<1> QED
  BY <1>6, <1>7, <1>8, <1>10, <1>11 DEF RoomInv

-----------------------------------------------------------------------------
(* Every step, and the theorems.                                           *)

\* The steps of whoever holds Room.mu.
LEMMA Holds == ASSUME RoomInv, Holder PROVE RoomInv'
<1>1. CASE JoinFailsEarly \/ JoinFailsUnwired
  BY <1>1, FailsEarly
<1>2. CASE JoinBegins
  BY <1>2, Begins
<1>3. CASE JoinFails
  BY <1>3, StopBegins
<1>4. CASE JoinSucceeds
  BY <1>4, Activates
<1>5. CASE SessionBegins
  BY <1>5, Runs
<1>6. CASE SessionStopped
  BY <1>6, Stops
<1>7. CASE SessionClosed
  BY <1>7, Closes
<1>8. CASE ForgetRoom
  BY <1>8, Forgets
<1>9. CASE DeleteRoom
  BY <1>9, Deletes
<1> QED
  BY <1>1, <1>2, <1>3, <1>4, <1>5, <1>6, <1>7, <1>8, <1>9 DEF Holder

\* The steps of a session's callbacks and of its timer.
LEMMA CallsBack ==
  ASSUME RoomInv, NEW s \in Sessions, Callback(s) PROVE RoomInv'
<1>1. CASE AgentStarts(s)
  BY <1>1, AgentRuns
<1>2. CASE TimerFires(s)
  <2>1. /\ UNCHANGED <<locks, state, sessionVars, timer, registry, req>>
        /\ expiring' = expiring \cup {s} /\ stopping' = stopping
    BY <1>2 DEF TimerFires
  <2> QED
    BY <2>1, CallbackGoes DEF RoomInv, Shape
<1>3. CASE Expire(s)
  <2>1. CASE state = "closed"
    <3>1. /\ UNCHANGED <<locks, state, sessionVars, timer, registry, req>>
          /\ expiring' = expiring \ {s} /\ stopping' = stopping
      BY <1>3, <2>1 DEF Expire
    <3> QED
      BY <3>1, CallbackGoes DEF RoomInv, Shape
  <2> QED
    BY <1>3, <2>1, StopBegins
<1>4. CASE \E why \in {"lost", "closed"} : SpawnedStop(<<s, why>>)
  <2>1. PICK why \in {"lost", "closed"} : SpawnedStop(<<s, why>>)
    BY <1>4
  <2>2. CASE state = "closed"
    <3>1. /\ UNCHANGED <<locks, state, sessionVars, timer, registry, req>>
          /\ expiring' = expiring /\ stopping' = stopping \ {<<s, why>>}
      BY <2>1, <2>2 DEF SpawnedStop
    <3> QED
      BY <3>1, CallbackGoes DEF RoomInv, Shape
  <2> QED
    BY <2>1, <2>2, StopBegins
<1> QED
  BY <1>1, <1>2, <1>3, <1>4 DEF Callback

\* Every step preserves the invariant.
LEMMA RoomNext == RoomInv /\ [Next]_vars => RoomInv'
<1> SUFFICES ASSUME RoomInv, [Next]_vars PROVE RoomInv'
  OBVIOUS
<1>1. CASE \E q \in Requests : Arrive(q) \/ Serve(q)
  <2>1. PICK q \in Requests : Arrive(q) \/ Serve(q)
    BY <1>1
  <2>2. CASE Arrive(q) \/ Get(q) \/ NotFound(q) \/ TurnedAway(q)
    BY <2>2, Comings
  <2>3. CASE JoinAdmitted(q)
    BY <2>3, Admits
  <2>4. CASE Stop(q) \/ Close(q)
    BY <2>4, StopBegins
  <2> QED
    BY <2>1, <2>2, <2>3, <2>4 DEF Serve
<1>2. CASE Holder
  BY <1>2, Holds
<1>3. CASE \E s \in Sessions : ConnectionLost(s) \/ Callback(s)
  BY <1>3, PeerGoes, CallsBack
<1>4. CASE Others
  BY <1>4, Comings
<1>5. CASE RecordExpires
  BY <1>5, RecordGoes
<1>6. CASE UNCHANGED vars
  BY <1>6, CallbackGoes DEF vars, callbacks, RoomInv, Shape
<1> QED
  BY <1>1, <1>2, <1>3, <1>4, <1>5, <1>6 DEF Next

\* The invariant holds in every reachable state.
THEOREM RoomInductive == Spec => []RoomInv
BY RoomInit, RoomNext, PTL DEF Spec

\* No session is ever left running behind the room's back (HandleJoin,
\* stopSessionLocked).
THEOREM NoSessionIsOrphaned == Spec => []NoOrphanSession
<1>1. RoomInv => NoOrphanSession
  BY DEF RoomInv, SessionsOfTheRoom
<1> QED
  BY <1>1, RoomInductive, PTL

\* Nothing comes back to a closed room, however late it arrives (Close).
THEOREM ClosedIsForGood == Spec => []ClosedRoomIsEmpty
<1>1. RoomInv => ClosedRoomIsEmpty
  BY DEF RoomInv, StateMatches, ClosedRoomIsEmpty
<1> QED
  BY <1>1, RoomInductive, PTL

\* The registry agrees with the room as long as Redis answers (onActivity,
\* UpdateState, Delete).
THEOREM RecordIsTrue == Spec => []RecordTracksRoom
<1>1. RoomInv => RecordTracksRoom
  BY DEF RoomInv, RecordFollows, RecordTracksRoom
<1> QED
  BY <1>1, RoomInductive, PTL
=============================================================================
