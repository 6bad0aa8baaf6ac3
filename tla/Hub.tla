-------------------------------- MODULE Hub --------------------------------
(***************************************************************************)
(* One room of roomstream.Hub (pkg/roomstream/hub.go): server goroutines   *)
(* publish transcripts, metrics and debug events; every browser is served  *)
(* by a ServeWS call, which subscribes a channel and copies it to the      *)
(* WebSocket.  Without Redis, publish records the message and sends it to  *)
(* every channel with Hub.mu held, and Subscribe replays the history; the  *)
(* model keeps the holder of Hub.mu wherever the code can block with it.   *)
(* With Redis, publish hands the message to Redis, and a goroutine of each *)
(* subscription, its feed, moves what Redis delivers into the channel.     *)
(*                                                                         *)
(* A message is the number of its publication, log[m] the channel it was   *)
(* published on.                                                           *)
(***************************************************************************)
EXTENDS Integers, Sequences, FiniteSets, SequencesExt

CONSTANTS
  Publishers,     \* server goroutines that publish
  Clients,        \* ServeWS calls
  Cap,            \* capacity of a subscriber's channel
  HistoryLimit,   \* historyLimit: channel -> length
  MaxPublished,   \* bound: messages the server goroutines publish
  Nil

Channels == {"transcript", "metrics", "debug"}
Procs    == Publishers \cup Clients

ASSUME HubConstants ==
  /\ Publishers \cap Clients = {}
  /\ Nil \notin Procs \cup Nat
  /\ Cap \in Nat \ {0}
  /\ HistoryLimit \in [Channels -> Nat \ {0}]
  /\ MaxPublished \in Nat

VARIABLES
  redis,        \* h.redisEnabled()
  mu,           \* who holds Hub.mu across steps
  history,      \* h.history[room]
  subscribers,  \* h.subscribers[room]
  log,          \* the channel of each published message
  pc,           \* where each goroutine is
  topic,        \* the channel it publishes on
  msg,          \* the message it holds the lock for
  sendTo,       \* subscribers publish still has to visit
  ch, closed,   \* each client's channel, and whether it was closed
  replay,       \* Subscribe's copy of the history
  replayed,     \* how much of it is in the channel
  writing,      \* what ServeWS took from its channel
  written,      \* what it wrote to the WebSocket
  gone,         \* the browser went away
  leaving,      \* ServeWS left its loop
  feed,         \* the goroutine that receives from Redis
  wire          \* what Redis still has for it

publishVars == <<history, log, topic, msg, sendTo>>
clientVars  == <<closed, replay, replayed, writing, written, gone,
                 leaving>>
redisVars   == <<redis, feed, wire>>
vars == <<mu, subscribers, pc, ch, publishVars, clientVars, redisVars>>

PCs == {"idle", "accepted", "replaying", "publish", "sending", "serve",
        "write", "unsubscribe", "done"}

Feeds == {"none", "asked", "on", "ended"}

Init ==
  /\ mu = Nil /\ history = <<>> /\ subscribers = {} /\ log = <<>>
  /\ pc = [p \in Procs |-> IF p \in Clients THEN "accepted" ELSE "idle"]
  /\ topic = [p \in Procs |-> "debug"]
  /\ msg = [p \in Procs |-> 0]
  /\ sendTo = [p \in Procs |-> {}]
  /\ ch = [c \in Clients |-> <<>>]
  /\ closed = [c \in Clients |-> FALSE]
  /\ replay = [c \in Clients |-> <<>>]
  /\ replayed = [c \in Clients |-> 0]
  /\ writing = [c \in Clients |-> Nil]
  /\ written = [c \in Clients |-> <<>>]
  /\ gone = [c \in Clients |-> FALSE]
  /\ leaving = [c \in Clients |-> FALSE]
  /\ redis \in BOOLEAN
  /\ feed = [c \in Clients |-> "none"]
  /\ wire = [c \in Clients |-> <<>>]

-----------------------------------------------------------------------------
(* publish.                                                                *)

LastN(s, n) == IF Len(s) <= n THEN s ELSE SubSeq(s, Len(s) - n + 1, Len(s))

\* Mutant: transcripts are dropped like debug events.
EverythingDroppable(m) == log[m] \in Channels

Droppable(m) == log[m] = "debug"

\* A server goroutine enters publish; MaxPublished bounds how often.
Call(p, channel) ==
  /\ pc[p] = "idle"
  /\ Cardinality({q \in Publishers : pc[q] = "publish"}) + Len(log)
       < MaxPublished
  /\ pc' = [pc EXCEPT ![p] = "publish"]
  /\ topic' = [topic EXCEPT ![p] = channel]
  /\ UNCHANGED <<mu, history, subscribers, log, msg, sendTo, ch, clientVars,
                 redisVars>>

\* Mutant: the history is only ever appended to.
RecordUntrimmed(p) ==
  /\ pc[p] = "publish" /\ ~redis /\ mu = Nil
  /\ mu' = p
  /\ log' = Append(log, topic[p])
  /\ msg' = [msg EXCEPT ![p] = Len(log')]
  /\ history' = Append(history, Len(log'))
  /\ sendTo' = [sendTo EXCEPT ![p] = subscribers]
  /\ pc' = [pc EXCEPT ![p] = "sending"]
  /\ UNCHANGED <<subscribers, topic, ch, clientVars, redisVars>>

\* Mutant: the subscribers are copied and the lock released before the sends.
RecordUnlocks(p) ==
  /\ pc[p] = "publish" /\ ~redis /\ mu = Nil
  /\ log' = Append(log, topic[p])
  /\ msg' = [msg EXCEPT ![p] = Len(log')]
  /\ history' = LastN(Append(history, Len(log')), HistoryLimit[topic[p]])
  /\ sendTo' = [sendTo EXCEPT ![p] = subscribers]
  /\ pc' = [pc EXCEPT ![p] = "sending"]
  /\ UNCHANGED <<mu, subscribers, topic, ch, clientVars, redisVars>>

\* Take the lock, add the message to the history and trim it to the limit of
\* the channel being published.
Record(p) ==
  /\ pc[p] = "publish" /\ ~redis /\ mu = Nil
  /\ mu' = p
  /\ log' = Append(log, topic[p])
  /\ msg' = [msg EXCEPT ![p] = Len(log')]
  /\ history' = LastN(Append(history, Len(log')), HistoryLimit[topic[p]])
  /\ sendTo' = [sendTo EXCEPT ![p] = subscribers]
  /\ pc' = [pc EXCEPT ![p] = "sending"]
  /\ UNCHANGED <<subscribers, topic, ch, clientVars, redisVars>>

\* The body of the range over the subscribers, in any order: a send that
\* blocks while the channel is full, or for a droppable message is skipped.
SendTo(p, c) ==
  /\ pc[p] = "sending" /\ c \in sendTo[p]
  /\ \/ /\ Len(ch[c]) < Cap
        /\ ch' = [ch EXCEPT ![c] = Append(@, msg[p])]
     \/ /\ Len(ch[c]) = Cap /\ Droppable(msg[p])
        /\ UNCHANGED ch
  /\ sendTo' = [sendTo EXCEPT ![p] = @ \ {c}]
  /\ UNCHANGED <<mu, history, subscribers, log, pc, topic, msg, clientVars,
                 redisVars>>

\* What follows PublishEvent in ServeWS: its loop after "connected", the
\* deferred unsubscribe after "disconnected".
AfterPublish(p) ==
  CASE p \in Publishers -> "idle"
    [] p \in Clients -> IF leaving[p] THEN "unsubscribe" ELSE "serve"

Published(p) ==
  /\ pc[p] = "sending" /\ sendTo[p] = {}
  /\ mu' = Nil
  /\ pc' = [pc EXCEPT ![p] = AfterPublish(p)]
  /\ msg' = [msg EXCEPT ![p] = 0]
  /\ topic' = [topic EXCEPT ![p] = "debug"]
  /\ UNCHANGED <<history, subscribers, log, sendTo, ch, clientVars,
                 redisVars>>

\* With Redis the message goes to every feed Redis has subscribed, or the
\* call fails and it is lost; there is no history and no lock.
PublishRedis(p) ==
  /\ pc[p] = "publish" /\ redis
  /\ \/ /\ log' = Append(log, topic[p])
        /\ wire' = [c \in Clients |-> IF feed[c] = "on"
                                    THEN Append(wire[c], Len(log'))
                                    ELSE wire[c]]
     \/ UNCHANGED <<log, wire>>
  /\ pc' = [pc EXCEPT ![p] = AfterPublish(p)]
  /\ topic' = [topic EXCEPT ![p] = "debug"]
  /\ UNCHANGED <<mu, history, subscribers, msg, sendTo, ch, clientVars,
                 redis, feed>>

\* Manager.Delete -> ClearRoom.
ClearRoom ==
  /\ mu = Nil
  /\ history' = <<>> /\ subscribers' = {}
  /\ UNCHANGED <<mu, log, pc, topic, msg, sendTo, ch, clientVars, redisVars>>

-----------------------------------------------------------------------------
(* Subscribe and ServeWS.                                                  *)

\* Subscribe registers the channel and copies the history in one critical
\* section, then keeps what fits the channel; with Redis there is none.
Subscribe(c) ==
  /\ pc[c] = "accepted" /\ mu = Nil
  /\ subscribers' = subscribers \cup {c}
  /\ replay' = [replay EXCEPT ![c] = LastN(history, Cap)]
  /\ pc' = [pc EXCEPT ![c] = "replaying"]
  /\ UNCHANGED <<mu, publishVars, ch, closed, replayed, writing, written,
                 gone, leaving, redisVars>>

\* The replay: sends that block, without the lock, while nobody receives.
Replay(c) ==
  /\ pc[c] = "replaying" /\ replayed[c] < Len(replay[c])
  /\ Len(ch[c]) < Cap
  /\ ch' = [ch EXCEPT ![c] = Append(@, replay[c][replayed[c] + 1])]
  /\ replayed' = [replayed EXCEPT ![c] = @ + 1]
  /\ UNCHANGED <<mu, subscribers, pc, publishVars, closed, replay, writing,
                 written, gone, leaving, redisVars>>

\* Subscribe starts the feed and returns; ServeWS publishes "connected".
Connected(c) ==
  /\ pc[c] = "replaying" /\ replayed[c] = Len(replay[c])
  /\ pc' = [pc EXCEPT ![c] = "publish"]
  /\ feed' = [feed EXCEPT ![c] = IF redis THEN "asked" ELSE @]
  /\ UNCHANGED <<mu, subscribers, ch, publishVars, clientVars, redis, wire>>

\* Only this goroutine closes the channel, after the loop: it is open here.
Receive(c) ==
  /\ pc[c] = "serve" /\ ch[c] # <<>>
  /\ writing' = [writing EXCEPT ![c] = Head(ch[c])]
  /\ ch' = [ch EXCEPT ![c] = Tail(@)]
  /\ pc' = [pc EXCEPT ![c] = "write"]
  /\ UNCHANGED <<mu, subscribers, publishVars, closed, replay, replayed,
                 written, gone, leaving, redisVars>>

\* conn.Write succeeds, which for a while it also does when the browser has
\* gone.
WriteSucceeds(c) ==
  /\ pc[c] = "write"
  /\ written' = [written EXCEPT ![c] = Append(@, writing[c])]
  /\ writing' = [writing EXCEPT ![c] = Nil]
  /\ pc' = [pc EXCEPT ![c] = "serve"]
  /\ UNCHANGED <<mu, subscribers, ch, publishVars, closed, replay, replayed,
                 gone, leaving, redisVars>>

\* The deferred calls run last to first: publish "disconnected", then
\* unsubscribe.
Leave(c) ==
  /\ leaving' = [leaving EXCEPT ![c] = TRUE]
  /\ pc' = [pc EXCEPT ![c] = "publish"]
  /\ UNCHANGED <<mu, subscribers, ch, publishVars, closed, replay, replayed,
                 writing, written, gone, redisVars>>

WriteFails(c) == pc[c] = "write" /\ gone[c] /\ Leave(c)

\* The request's context ends.
ContextDone(c) == pc[c] = "serve" /\ gone[c] /\ Leave(c)

\* Redis confirms the subscription: it delivers from now on.
FeedConfirmed(c) ==
  /\ feed[c] = "asked"
  /\ feed' = [feed EXCEPT ![c] = "on"]
  /\ UNCHANGED <<mu, subscribers, pc, ch, publishVars, clientVars, redis,
                 wire>>

\* The feed receives a message and drops it, whatever its kind, when the
\* channel is full.
FeedDelivers(c) ==
  /\ feed[c] = "on" /\ wire[c] # <<>>
  /\ ch' = IF Len(ch[c]) < Cap
           THEN [ch EXCEPT ![c] = Append(@, Head(wire[c]))] ELSE ch
  /\ wire' = [wire EXCEPT ![c] = Tail(@)]
  /\ UNCHANGED <<mu, subscribers, pc, publishVars, clientVars, redis, feed>>

\* ReceiveMessage fails, because the subscription was cancelled or because of
\* Redis, and the goroutine returns.  Nothing starts it again.
FeedEnds(c) ==
  /\ feed[c] \in {"asked", "on"}
  /\ feed' = [feed EXCEPT ![c] = "ended"]
  /\ wire' = [wire EXCEPT ![c] = <<>>]
  /\ UNCHANGED <<mu, subscribers, pc, ch, publishVars, clientVars, redis>>

\* Mutant: unsubscribe does not wait for the feed it cancelled.
UnsubscribeAtOnce(c) ==
  /\ pc[c] = "unsubscribe" /\ mu = Nil
  /\ subscribers' = subscribers \ {c}
  /\ closed' = [closed EXCEPT ![c] = TRUE]
  /\ pc' = [pc EXCEPT ![c] = "done"]
  /\ UNCHANGED <<mu, ch, publishVars, replay, replayed, writing, written,
                 gone, leaving, redisVars>>

\* Mutant: unsubscribe closes the channel without the lock.
UnsubscribeUnlocked(c) ==
  /\ pc[c] = "unsubscribe" /\ feed[c] \notin {"asked", "on"}
  /\ subscribers' = subscribers \ {c}
  /\ closed' = [closed EXCEPT ![c] = TRUE]
  /\ pc' = [pc EXCEPT ![c] = "done"]
  /\ UNCHANGED <<mu, ch, publishVars, replay, replayed, writing, written,
                 gone, leaving, redisVars>>

\* Cancel the feed and wait for it, then leave the set and close the channel.
Unsubscribe(c) ==
  /\ pc[c] = "unsubscribe" /\ feed[c] \notin {"asked", "on"} /\ mu = Nil
  /\ subscribers' = subscribers \ {c}
  /\ closed' = [closed EXCEPT ![c] = TRUE]
  /\ pc' = [pc EXCEPT ![c] = "done"]
  /\ UNCHANGED <<mu, ch, publishVars, replay, replayed, writing, written,
                 gone, leaving, redisVars>>

\* The browser goes away.
Disconnect(c) ==
  /\ ~gone[c] /\ pc[c] # "done"
  /\ gone' = [gone EXCEPT ![c] = TRUE]
  /\ UNCHANGED <<mu, subscribers, pc, ch, publishVars, closed, replay,
                 replayed, writing, written, leaving, redisVars>>

-----------------------------------------------------------------------------
Publish(p) ==
  \/ Record(p) \/ (\E c \in Clients : SendTo(p, c)) \/ Published(p)
  \/ PublishRedis(p)

ServeWS(c) ==
  \/ Subscribe(c) \/ Replay(c) \/ Connected(c) \/ Publish(c)
  \/ Receive(c) \/ WriteSucceeds(c) \/ WriteFails(c)
  \/ Unsubscribe(c)

Feed(c) == FeedConfirmed(c) \/ FeedDelivers(c) \/ FeedEnds(c)

Next ==
  \/ \E p \in Publishers, channel \in Channels : Call(p, channel)
  \/ \E p \in Publishers : Publish(p)
  \/ \E c \in Clients : ServeWS(c) \/ ContextDone(c) \/ Disconnect(c)
  \/ \E c \in Clients : Feed(c)
  \/ ClearRoom

Spec == Init /\ [][Next]_vars

\* Goroutines run, a browser's writes end, with success or an error, and a
\* feed that was cancelled returns.
FairSpec ==
  /\ Spec
  /\ \A p \in Publishers : WF_vars(Publish(p))
  /\ \A c \in Clients : /\ WF_vars(ServeWS(c))
                        /\ WF_vars(pc[c] = "unsubscribe" /\ FeedEnds(c))

-----------------------------------------------------------------------------
(* Properties.                                                             *)

\* The history never outgrows the largest of the three limits, a channel
\* never its capacity, the lock is held exactly by a publish at work, and
\* with Redis neither the history nor the lock is used by publish.
TypeOK ==
  /\ mu \in Procs \cup {Nil}
  /\ \A p \in Procs : pc[p] = "sending" <=> mu = p
  /\ log \in Seq(Channels)
  /\ history \in Seq(1..Len(log))
  /\ \E channel \in Channels : Len(history) <= HistoryLimit[channel]
  /\ subscribers \subseteq Clients
  /\ pc \in [Procs -> PCs]
  /\ topic \in [Procs -> Channels]
  /\ msg \in [Procs -> 0..Len(log)]
  /\ sendTo \in [Procs -> SUBSET Clients]
  /\ \A c \in Clients :
       /\ ch[c] \in Seq(1..Len(log)) /\ Len(ch[c]) <= Cap
       /\ replay[c] \in Seq(1..Len(log)) /\ Len(replay[c]) <= Cap
       /\ replayed[c] \in 0..Len(replay[c])
       /\ writing[c] \in 1..Len(log) \cup {Nil}
       /\ written[c] \in Seq(1..Len(log))
  /\ closed \in [Clients -> BOOLEAN]
  /\ gone \in [Clients -> BOOLEAN]
  /\ leaving \in [Clients -> BOOLEAN]
  /\ redis \in BOOLEAN /\ (redis => history = <<>> /\ mu = Nil)
  /\ feed \in [Clients -> IF redis THEN Feeds ELSE {"none"}]
  /\ \A c \in Clients : wire[c] \in Seq(1..Len(log))

\* What a client was sent, in order, and what Subscribe will still send it.
Received(c) ==
  written[c] \o (IF writing[c] = Nil THEN <<>> ELSE <<writing[c]>>) \o ch[c]

ToReplay(c) == SubSeq(replay[c], replayed[c] + 1, Len(replay[c]))

\* A publish that holds the lock has message m for client c.
InFlight(m, c) == \E p \in Procs : /\ pc[p] = "sending" /\ msg[p] = m
                                   /\ c \in sendTo[p]

\* A subscriber that got some message gets every transcript and metric
\* published after it, whichever of them came by replay: only debug events
\* are ever skipped, and the history is trimmed at its old end.  It is
\* promised without Redis only.
NoGap ==
  ~redis => \A c \in subscribers :
    LET got == ToSet(Received(c) \o ToReplay(c)) IN
    \A m \in got, n \in 1..Len(log) :
      (m < n /\ log[n] # "debug") => (n \in got \/ InFlight(n, c))

\* No message reaches a client twice, by replay and live or by its channel and
\* Redis, for registration and the copy of the history are one step; and they
\* come in the order of their publication, except that a live one may overtake
\* the replay (Subscribe replays without the lock).
LiveInOrder ==
  \A c \in Clients :
    LET got == Received(c)
        live(i) == got[i] \notin ToSet(replay[c])
    IN \A i, j \in 1..Len(got) :
         (i < j /\ got[j] <= got[i]) => (live(i) /\ ~live(j))

\* Nobody sends on a channel unsubscribe has closed, which would panic:
\* publish and unsubscribe hold the lock, unsubscribe also leaves the set, and
\* it waits for the feed.
NoSendOnClosed ==
  /\ \A p \in Procs : \A c \in sendTo[p] : ~closed[c]
  /\ \A c \in Clients : closed[c] => feed[c] \notin {"asked", "on"}

\* A goroutine that publishes a debug event gets on with its work, even when
\* a browser falls behind or goes away.
DebugPublishReturns ==
  \A p \in Publishers :
    (pc[p] = "publish" /\ topic[p] = "debug") ~> (pc[p] = "idle")
=============================================================================
