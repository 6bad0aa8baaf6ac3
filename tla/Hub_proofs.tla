----------------------------- MODULE Hub_proofs -----------------------------
(***************************************************************************)
(* Proofs about one room of Hub, for every number of goroutines and        *)
(* browsers, every capacity and history limit, and both ways of fan-out.   *)
(*                                                                         *)
(* Nobody sends on a channel that unsubscribe has closed: a publish holds  *)
(* the lock as long as it has subscribers left to visit, so unsubscribe,   *)
(* which needs the lock, finds none; and it closes the channel only after  *)
(* its feed has returned, which nothing starts again (HubInv).             *)
(*                                                                         *)
(* Messages come in order and none twice: the history is always the end of *)
(* the log, a browser's replay is a copy of it, and what publish sends it  *)
(* is later than all that was ever published (OrderInv).  Nothing but      *)
(* debug events is skipped: what a browser lacks after the first message   *)
(* it got is in the hands of the publish that holds the lock (GapFree).    *)
(***************************************************************************)
EXTENDS Hub, Seqs_proofs, TLAPS

\* The lock is held exactly by a publish that visits the subscribers.
LockIsHeld ==
  /\ \A p \in Procs : pc[p] = "sending" => mu = p
  /\ \A p \in Procs : pc[p] # "sending" => sendTo[p] = {}

\* A subscriber has subscribed and not left; publish visits subscribers.
SubscribersAreServed ==
  /\ subscribers \subseteq Clients
  /\ \A c \in subscribers : pc[c] \notin {"accepted", "done"}
  /\ \A p \in Procs : sendTo[p] \subseteq Clients
  /\ \A p \in Procs : \A c \in sendTo[p] : pc[c] \notin {"accepted", "done"}

\* A feed runs only between Subscribe and the end of unsubscribe.
FeedIsOwned ==
  \A c \in Clients :
    feed[c] \in {"asked", "on"} => pc[c] \notin {"accepted", "replaying",
                                                 "done"}

ClosedIsDone == \A c \in Clients : closed[c] => pc[c] = "done"

HubInv ==
  /\ pc \in [Procs -> PCs]
  /\ sendTo \in [Procs -> SUBSET Clients]
  /\ feed \in [Clients -> Feeds]
  /\ closed \in [Clients -> BOOLEAN]
  /\ LockIsHeld
  /\ SubscribersAreServed
  /\ FeedIsOwned
  /\ ClosedIsDone

USE DEF Procs

\* The initial state satisfies the invariant.
LEMMA HubInit == Init => HubInv
<1> SUFFICES ASSUME Init PROVE HubInv
  OBVIOUS
<1>1. pc \in [Procs -> PCs] /\ sendTo \in [Procs -> SUBSET Clients]
  BY DEF Init, PCs
<1>2. feed \in [Clients -> Feeds] /\ closed \in [Clients -> BOOLEAN]
  BY DEF Init, Feeds
<1>3. LockIsHeld
  BY DEF Init, LockIsHeld
<1>4. SubscribersAreServed /\ FeedIsOwned /\ ClosedIsDone
  BY DEF Init, SubscribersAreServed, FeedIsOwned, ClosedIsDone
<1> QED
  BY <1>1, <1>2, <1>3, <1>4 DEF HubInv

\* A goroutine that moves between two places where it holds no lock, and that
\* neither starts, ends nor leaves.
LEMMA MovesOn ==
  ASSUME HubInv, NEW p \in Procs, NEW where \in PCs,
         pc' = [pc EXCEPT ![p] = where],
         pc[p] \notin {"accepted", "sending", "done"},
         where \notin {"accepted", "replaying", "sending", "done"},
         UNCHANGED <<mu, subscribers, sendTo, closed>>,
         \/ UNCHANGED feed
         \/ \E c \in Clients : c = p /\ feed' \in [Clients -> Feeds]
                               /\ feed' = [feed EXCEPT ![c] = feed'[c]]
  PROVE  HubInv'
<1>1. pc' \in [Procs -> PCs] /\ feed' \in [Clients -> Feeds]
  BY DEF HubInv
<1>2. LockIsHeld'
  BY DEF HubInv, LockIsHeld
<1>3. SubscribersAreServed'
  BY DEF HubInv, SubscribersAreServed
<1>4. FeedIsOwned'
  BY DEF HubInv, FeedIsOwned
<1>5. ClosedIsDone'
  BY DEF HubInv, ClosedIsDone
<1> QED
  BY <1>1, <1>2, <1>3, <1>4, <1>5 DEF HubInv

\* A step that moves no goroutine and takes no lock, and starts no feed.
LEMMA StaysPut ==
  ASSUME HubInv,
         UNCHANGED <<mu, pc, closed>>,
         subscribers' \subseteq subscribers,
         sendTo' \in [Procs -> SUBSET Clients],
         \A p \in Procs : sendTo'[p] \subseteq sendTo[p],
         feed' \in [Clients -> Feeds],
         \A c \in Clients : feed'[c] \in {"asked", "on"}
                              => feed[c] \in {"asked", "on"}
  PROVE  HubInv'
<1>1. LockIsHeld'
  BY DEF HubInv, LockIsHeld
<1>2. SubscribersAreServed'
  BY DEF HubInv, SubscribersAreServed
<1>3. FeedIsOwned' /\ ClosedIsDone'
  BY DEF HubInv, FeedIsOwned, ClosedIsDone
<1> QED
  BY <1>1, <1>2, <1>3 DEF HubInv

\* publish takes the lock and copies the set of subscribers.
LEMMA Recorded ==
  ASSUME HubInv, NEW p \in Procs, Record(p)
  PROVE  HubInv'
<1>1. /\ pc[p] = "publish" /\ mu = Nil /\ mu' = p
      /\ sendTo' = [sendTo EXCEPT ![p] = subscribers]
      /\ pc' = [pc EXCEPT ![p] = "sending"]
      /\ UNCHANGED <<subscribers, closed, feed>>
  BY DEF Record, clientVars, redisVars
<1>2. \A q \in Procs : pc[q] # "sending"
  BY <1>1, HubConstants DEF HubInv, LockIsHeld
<1>3. subscribers \subseteq Clients
  BY DEF HubInv, SubscribersAreServed
<1>4. pc' \in [Procs -> PCs] /\ sendTo' \in [Procs -> SUBSET Clients]
  BY <1>1, <1>3 DEF HubInv, PCs
<1>5. LockIsHeld'
  BY <1>1, <1>2 DEF HubInv, LockIsHeld
<1>6. SubscribersAreServed'
  BY <1>1, <1>3 DEF HubInv, SubscribersAreServed
<1>7. FeedIsOwned' /\ ClosedIsDone'
  BY <1>1 DEF HubInv, FeedIsOwned, ClosedIsDone
<1> QED
  BY <1>1, <1>4, <1>5, <1>6, <1>7 DEF HubInv

\* publish is done with its subscribers and gives the lock back.
LEMMA PublishReturns ==
  ASSUME HubInv, NEW p \in Procs, Published(p)
  PROVE  HubInv'
<1> DEFINE where == AfterPublish(p)
<1>1. /\ pc[p] = "sending" /\ sendTo[p] = {} /\ mu' = Nil
      /\ pc' = [pc EXCEPT ![p] = where]
      /\ UNCHANGED <<subscribers, closed, feed, sendTo>>
  BY DEF Published, clientVars, redisVars
<1>2. where \in PCs /\ where \in {"idle", "unsubscribe", "serve"}
  BY HubConstants DEF AfterPublish, PCs
<1> HIDE DEF where
<1>3. \A q \in Procs : q # p => pc[q] # "sending"
  BY <1>1 DEF HubInv, LockIsHeld
<1>4. pc' \in [Procs -> PCs]
  BY <1>1, <1>2 DEF HubInv
<1>5. LockIsHeld'
  BY <1>1, <1>2, <1>3 DEF HubInv, LockIsHeld
<1>6. SubscribersAreServed'
  BY <1>1, <1>2 DEF HubInv, SubscribersAreServed
<1>7. FeedIsOwned' /\ ClosedIsDone'
  BY <1>1, <1>2 DEF HubInv, FeedIsOwned, ClosedIsDone
<1> QED
  BY <1>1, <1>4, <1>5, <1>6, <1>7 DEF HubInv

\* A browser subscribes.
LEMMA Subscribed ==
  ASSUME HubInv, NEW c \in Clients, Subscribe(c)
  PROVE  HubInv'
<1>1. /\ pc[c] = "accepted"
      /\ subscribers' = subscribers \cup {c}
      /\ pc' = [pc EXCEPT ![c] = "replaying"]
      /\ UNCHANGED <<mu, sendTo, closed, feed>>
  BY DEF Subscribe, publishVars, redisVars
<1>2. pc' \in [Procs -> PCs]
  BY <1>1 DEF HubInv, PCs
<1>3. LockIsHeld'
  BY <1>1 DEF HubInv, LockIsHeld
<1>4. SubscribersAreServed'
  BY <1>1 DEF HubInv, SubscribersAreServed
<1>5. FeedIsOwned' /\ ClosedIsDone'
  BY <1>1 DEF HubInv, FeedIsOwned, ClosedIsDone
<1> QED
  BY <1>1, <1>2, <1>3, <1>4, <1>5 DEF HubInv

\* A browser's channel is closed: nobody has it to visit, and its feed is over.
LEMMA Unsubscribed ==
  ASSUME HubInv, NEW c \in Clients, Unsubscribe(c)
  PROVE  HubInv'
<1>1. /\ pc[c] = "unsubscribe" /\ feed[c] \notin {"asked", "on"} /\ mu = Nil
      /\ subscribers' = subscribers \ {c}
      /\ closed' = [closed EXCEPT ![c] = TRUE]
      /\ pc' = [pc EXCEPT ![c] = "done"]
      /\ UNCHANGED <<mu, sendTo, feed>>
  BY DEF Unsubscribe, publishVars, redisVars
<1>2. \A p \in Procs : pc[p] # "sending" /\ sendTo[p] = {}
  BY <1>1, HubConstants DEF HubInv, LockIsHeld
<1>3. pc' \in [Procs -> PCs] /\ closed' \in [Clients -> BOOLEAN]
  BY <1>1 DEF HubInv, PCs
<1>4. LockIsHeld'
  BY <1>1, <1>2 DEF HubInv, LockIsHeld
<1>5. SubscribersAreServed'
  BY <1>1, <1>2 DEF HubInv, SubscribersAreServed
<1>6. FeedIsOwned' /\ ClosedIsDone'
  BY <1>1 DEF HubInv, FeedIsOwned, ClosedIsDone
<1> QED
  BY <1>1, <1>3, <1>4, <1>5, <1>6 DEF HubInv

\* Every step of a publish preserves the invariant.
LEMMA PublishKeeps ==
  ASSUME HubInv, NEW p \in Procs, Publish(p)
  PROVE  HubInv'
<1>1. CASE Record(p)
  BY <1>1, Recorded
<1>2. ASSUME NEW c \in Clients, SendTo(p, c) PROVE HubInv'
  <2>1. /\ UNCHANGED <<mu, pc, closed, subscribers, feed>>
        /\ sendTo' = [sendTo EXCEPT ![p] = @ \ {c}]
    BY <1>2 DEF SendTo, clientVars, redisVars
  <2>2. /\ sendTo' \in [Procs -> SUBSET Clients]
        /\ \A q \in Procs : sendTo'[q] \subseteq sendTo[q]
    BY <2>1 DEF HubInv
  <2> QED
    BY <2>1, <2>2, StaysPut DEF HubInv
<1>3. CASE Published(p)
  BY <1>3, PublishReturns
<1>4. CASE PublishRedis(p)
  <2>1. AfterPublish(p) \in PCs
        /\ AfterPublish(p) \in {"idle", "unsubscribe", "serve"}
    BY HubConstants DEF AfterPublish, PCs
  <2>2. /\ pc[p] = "publish" /\ pc' = [pc EXCEPT ![p] = AfterPublish(p)]
        /\ UNCHANGED <<mu, subscribers, sendTo, closed, feed>>
    BY <1>4 DEF PublishRedis, clientVars
  <2> QED
    BY <2>1, <2>2, MovesOn
<1> QED
  BY <1>1, <1>2, <1>3, <1>4 DEF Publish

\* ServeWS gets on with its work.
LEMMA ServeKeeps ==
  ASSUME HubInv, NEW c \in Clients,
         \/ Replay(c) \/ Connected(c) \/ Receive(c) \/ WriteSucceeds(c)
         \/ WriteFails(c) \/ ContextDone(c) \/ Disconnect(c)
  PROVE  HubInv'
<1> USE DEF clientVars, publishVars, redisVars
<1>1. CASE Replay(c) \/ Disconnect(c)
  <2>1. UNCHANGED <<mu, pc, closed, subscribers, sendTo, feed>>
    BY <1>1 DEF Replay, Disconnect
  <2> QED
    BY <2>1, StaysPut DEF HubInv
<1>2. CASE Connected(c)
  <2>1. /\ pc[c] = "replaying" /\ pc' = [pc EXCEPT ![c] = "publish"]
        /\ feed' = [feed EXCEPT ![c] = IF redis THEN "asked" ELSE @]
        /\ UNCHANGED <<mu, subscribers, sendTo, closed>>
    BY <1>2 DEF Connected
  <2>2. feed' \in [Clients -> Feeds]
        /\ feed' = [feed EXCEPT ![c] = feed'[c]]
    BY <2>1 DEF HubInv, Feeds
  <2> QED
    BY <2>1, <2>2, MovesOn DEF PCs
<1>3. CASE Receive(c)
  BY <1>3, MovesOn DEF Receive, PCs
<1>4. CASE WriteSucceeds(c)
  BY <1>4, MovesOn DEF WriteSucceeds, PCs
<1>5. CASE WriteFails(c) \/ ContextDone(c)
  BY <1>5, MovesOn DEF WriteFails, ContextDone, Leave, PCs
<1> QED
  BY <1>1, <1>2, <1>3, <1>4, <1>5

\* A feed starts only with Connected.
LEMMA FeedKeeps ==
  ASSUME HubInv, NEW c \in Clients, Feed(c)
  PROVE  HubInv'
<1>1. /\ UNCHANGED <<mu, pc, closed, subscribers, sendTo>>
      /\ \/ UNCHANGED feed
         \/ /\ feed[c] \in {"asked", "on"}
            /\ \E f \in Feeds : feed' = [feed EXCEPT ![c] = f]
  BY DEF Feed, FeedConfirmed, FeedDelivers, FeedEnds, clientVars, publishVars,
         Feeds
<1>2. /\ feed' \in [Clients -> Feeds]
      /\ \A d \in Clients : feed'[d] \in {"asked", "on"}
                              => feed[d] \in {"asked", "on"}
  BY <1>1 DEF HubInv
<1> QED
  BY <1>1, <1>2, StaysPut DEF HubInv

\* Every step preserves the invariant.
LEMMA HubNext ==
  ASSUME HubInv, [Next]_vars
  PROVE  HubInv'
<1>1. ASSUME NEW p \in Publishers, NEW channel \in Channels, Call(p, channel)
      PROVE  HubInv'
  BY <1>1, MovesOn DEF Call, clientVars, redisVars, PCs
<1>2. ASSUME NEW p \in Publishers, Publish(p) PROVE HubInv'
  BY <1>2, PublishKeeps
<1>3. ASSUME NEW c \in Clients, ServeWS(c) \/ ContextDone(c) \/ Disconnect(c)
      PROVE  HubInv'
  BY <1>3, Subscribed, Unsubscribed, PublishKeeps, ServeKeeps DEF ServeWS
<1>4. ASSUME NEW c \in Clients, Feed(c) PROVE HubInv'
  BY <1>4, FeedKeeps
<1>5. CASE ClearRoom
  BY <1>5, StaysPut DEF ClearRoom, clientVars, redisVars, HubInv
<1>6. CASE UNCHANGED vars
  BY <1>6, StaysPut DEF vars, clientVars, publishVars, redisVars, HubInv
<1> QED
  BY <1>1, <1>2, <1>3, <1>4, <1>5, <1>6 DEF Next

-----------------------------------------------------------------------------
\* The invariant holds in every reachable state.
THEOREM HubInductive == Spec => []HubInv
BY HubInit, HubNext, PTL DEF Spec

\* Neither publish nor the goroutine that receives from Redis sends on a
\* channel that unsubscribe has closed (publish, Subscribe).
THEOREM NobodySendsOnClosed == Spec => []NoSendOnClosed
<1>1. HubInv => NoSendOnClosed
  BY DEF HubInv, SubscribersAreServed, FeedIsOwned, ClosedIsDone,
         NoSendOnClosed
<1> QED
  BY <1>1, HubInductive, PTL

-----------------------------------------------------------------------------
(* Types.                                                                  *)

\* A sequence of S is a sequence of every set that includes S.
LEMMA SeqOfMore ==
  ASSUME NEW S, NEW T, S \subseteq T, NEW s \in Seq(S)
  PROVE  s \in Seq(T)
OBVIOUS

\* What LastN keeps.
LEMMA LastNKeeps ==
  ASSUME NEW S, NEW s \in Seq(S), NEW n \in Nat
  PROVE  /\ LastN(s, n) \in Seq(S)
         /\ Len(LastN(s, n)) <= n /\ Len(LastN(s, n)) <= Len(s)
         /\ \A i \in 1 .. Len(LastN(s, n)) :
              LastN(s, n)[i] = s[Len(s) - Len(LastN(s, n)) + i]
<1>1. CASE Len(s) <= n
  BY <1>1 DEF LastN
<1>2. CASE ~(Len(s) <= n)
  <2>1. LastN(s, n) = SubSeq(s, Len(s) - n + 1, Len(s))
    BY <1>2 DEF LastN
  <2>2. /\ SubSeq(s, Len(s) - n + 1, Len(s)) \in Seq(S)
        /\ Len(SubSeq(s, Len(s) - n + 1, Len(s))) = n
        /\ \A i \in 1 .. n :
             SubSeq(s, Len(s) - n + 1, Len(s))[i] = s[Len(s) - n + i]
    BY <1>2
  <2> QED
    BY <1>2, <2>1, <2>2
<1> QED
  BY <1>1, <1>2

\* The messages published so far.
Ids == 1 .. Len(log)

\* What publish keeps: the log, the history and the goroutines' messages.
PublishShape ==
  /\ redis \in BOOLEAN /\ mu \in Procs \cup {Nil}
  /\ redis => history = <<>> /\ mu = Nil
  /\ log \in Seq(Channels) /\ history \in Seq(Ids)
  /\ \E channel \in Channels : Len(history) <= HistoryLimit[channel]
  /\ topic \in [Procs -> Channels] /\ msg \in [Procs -> 0 .. Len(log)]

\* What Subscribe and ServeWS keep of each browser.
ClientShape ==
  /\ ch \in [Clients -> Seq(Ids)] /\ replay \in [Clients -> Seq(Ids)]
  /\ written \in [Clients -> Seq(Ids)] /\ wire \in [Clients -> Seq(Ids)]
  /\ replayed \in [Clients -> Nat]
  /\ writing \in [Clients -> Ids \cup {Nil}]
  /\ gone \in [Clients -> BOOLEAN] /\ leaving \in [Clients -> BOOLEAN]
  /\ \A c \in Clients : /\ Len(ch[c]) <= Cap /\ Len(replay[c]) <= Cap
                        /\ replayed[c] <= Len(replay[c])

\* Who holds the lock publishes the last message there is.
HolderSends ==
  /\ mu # Nil => mu \in Procs /\ pc[mu] = "sending"
  /\ \A p \in Procs : pc[p] = "sending" => msg[p] = Len(log) /\ msg[p] # 0

\* ServeWS holds a message exactly while it writes it, until it leaves.
WriterHolds ==
  \A c \in Clients :
    /\ pc[c] \in {"accepted", "replaying", "serve", "write"} => ~leaving[c]
    /\ ~leaving[c] => (pc[c] = "write" <=> writing[c] # Nil)

\* Feeds are Redis's.
NoFeed == ~redis => feed = [c \in Clients |-> "none"]

HubTypes ==
  PublishShape /\ ClientShape /\ HolderSends /\ WriterHolds /\ NoFeed

\* A browser that is not subscribed yet has nothing and was sent nothing.
Fresh ==
  \A c \in Clients : pc[c] = "accepted" =>
    /\ replay[c] = <<>> /\ replayed[c] = 0
    /\ written[c] = <<>> /\ writing[c] = Nil /\ ch[c] = <<>>

\* At first nobody is subscribed.
LEMMA FreshInit == Init => Fresh
BY DEF Init, Fresh

\* Nothing is sent to a browser before it is subscribed.
LEMMA FreshNext ==
  ASSUME HubInv, HubTypes, Fresh, [Next]_vars
  PROVE  Fresh'
<1> USE DEF clientVars, publishVars, redisVars
<1> SUFFICES ASSUME NEW c \in Clients, pc'[c] = "accepted"
             PROVE  /\ pc[c] = "accepted"
                    /\ replay'[c] = replay[c] /\ replayed'[c] = replayed[c]
                    /\ written'[c] = written[c] /\ writing'[c] = writing[c]
                    /\ ch'[c] = ch[c]
  BY DEF Fresh
<1>1. ASSUME NEW p \in Procs, Publish(p) PROVE pc[c] = "accepted"
  <2>1. AfterPublish(p) # "accepted"
    BY HubConstants DEF AfterPublish
  <2> QED
    BY <1>1, <2>1 DEF Publish, Record, SendTo, Published, PublishRedis, HubInv
<1>2. pc[c] = "accepted"
  BY <1>1 DEF Next, vars, Call, ServeWS, Subscribe, Replay, Connected, Receive,
     WriteSucceeds, WriteFails, ContextDone, Leave, Unsubscribe, Disconnect,
     Feed, FeedConfirmed, FeedDelivers, FeedEnds, ClearRoom, HubInv
<1>3. feed[c] # "on" /\ \A p \in Procs : c \notin sendTo[p]
  BY <1>2 DEF HubInv, FeedIsOwned, SubscribersAreServed
<1>4. /\ DOMAIN replay = Clients /\ DOMAIN replayed = Clients
      /\ DOMAIN written = Clients /\ DOMAIN writing = Clients
      /\ DOMAIN ch = Clients /\ DOMAIN pc = Procs
  BY DEF HubTypes, ClientShape, HubInv
<1> DEFINE Same == /\ replay'[c] = replay[c] /\ replayed'[c] = replayed[c]
                   /\ written'[c] = written[c] /\ writing'[c] = writing[c]
                   /\ ch'[c] = ch[c]
<1>5. ASSUME NEW p \in Procs, Publish(p) PROVE Same
  BY <1>3, <1>4, <1>5 DEF Publish, Record, SendTo, Published, PublishRedis
<1>6. ASSUME NEW d \in Clients, ServeWS(d) PROVE Same
  <2>1. CASE Publish(d)
    BY <1>5, <2>1
  <2>2. CASE Subscribe(d) \/ Replay(d) \/ Connected(d)
    BY <1>2, <1>4, <2>2 DEF Subscribe, Replay, Connected
  <2>3. CASE Receive(d) \/ WriteSucceeds(d) \/ WriteFails(d) \/ Unsubscribe(d)
    BY <1>2, <1>4, <2>3 DEF Receive, WriteSucceeds, WriteFails, Leave,
       Unsubscribe
  <2> QED
    BY <1>6, <2>1, <2>2, <2>3 DEF ServeWS
<1>7. ASSUME NEW d \in Clients, Feed(d) PROVE Same
  BY <1>3, <1>4, <1>7 DEF Feed, FeedConfirmed, FeedDelivers, FeedEnds
<1>8. ASSUME NEW d \in Clients, ContextDone(d) \/ Disconnect(d) PROVE Same
  BY <1>8 DEF ContextDone, Leave, Disconnect
<1>9. ASSUME NEW p \in Publishers, NEW channel \in Channels, Call(p, channel)
      PROVE  Same
  BY <1>9 DEF Call
<1>10. CASE ClearRoom \/ UNCHANGED vars
  BY <1>10 DEF ClearRoom, vars
<1> QED
  BY <1>2, <1>5, <1>6, <1>7, <1>8, <1>9, <1>10 DEF Next

\* At first nothing was published.
LEMMA TypesInit == Init => HubTypes
<1> SUFFICES ASSUME Init PROVE HubTypes
  OBVIOUS
<1>1. Ids = {} /\ <<>> \in Seq(Ids)
  BY DEF Init, Ids
<1>2. PublishShape
  BY <1>1, HubConstants DEF Init, PublishShape, Channels
<1>3. ClientShape
  BY <1>1, HubConstants DEF Init, ClientShape
<1>4. HolderSends /\ NoFeed
  BY DEF Init, HolderSends, NoFeed
<1>5. WriterHolds
  BY DEF Init, WriterHolds
<1> QED
  BY <1>2, <1>3, <1>4, <1>5 DEF HubTypes

\* The log grows by a message: what was a sequence of messages still is one.
LEMMA LogGrows ==
  ASSUME HubTypes, NEW channel \in Channels, log' = Append(log, channel)
  PROVE  /\ log' \in Seq(Channels) /\ Len(log') = Len(log) + 1
         /\ Len(log) \in Nat
         /\ Ids \subseteq Ids' /\ Ids' = Ids \cup {Len(log')}
         /\ Seq(Ids) \subseteq Seq(Ids')
<1>1. log \in Seq(Channels)
  BY DEF HubTypes, PublishShape
<1>2. log' \in Seq(Channels) /\ Len(log') = Len(log) + 1 /\ Len(log) \in Nat
  BY <1>1
<1>3. Ids \subseteq Ids' /\ Ids' = Ids \cup {Len(log')}
  BY <1>2 DEF Ids
<1> QED
  BY <1>2, <1>3, SeqOfMore

\* The clients' shapes when only the log grows.
LEMMA ClientsOfMore ==
  ASSUME ClientShape, Ids \subseteq Ids', Seq(Ids) \subseteq Seq(Ids'),
         UNCHANGED <<ch, replay, written, replayed, writing, gone, leaving>>,
         wire' \in [Clients -> Seq(Ids')]
  PROVE  ClientShape'
BY DEF ClientShape

\* publish records a message.
LEMMA TypesRecord ==
  ASSUME HubInv, HubTypes, NEW p \in Procs, Record(p)
  PROVE  HubTypes'
<1> USE DEF clientVars, redisVars
<1>1. /\ pc[p] = "publish" /\ ~redis /\ mu = Nil /\ mu' = p
      /\ log' = Append(log, topic[p]) /\ topic[p] \in Channels
      /\ msg' = [msg EXCEPT ![p] = Len(log')]
      /\ history' = LastN(Append(history, Len(log')), HistoryLimit[topic[p]])
      /\ pc' = [pc EXCEPT ![p] = "sending"]
      /\ UNCHANGED <<topic, ch, clientVars, redisVars>>
  BY DEF Record, HubTypes, PublishShape
<1>2. /\ log' \in Seq(Channels) /\ Len(log') = Len(log) + 1
      /\ Len(log) \in Nat /\ Ids \subseteq Ids'
      /\ Ids' = Ids \cup {Len(log')} /\ Seq(Ids) \subseteq Seq(Ids')
  BY <1>1, LogGrows
<1>3. history' \in Seq(Ids') /\ Len(history') <= HistoryLimit[topic[p]]
  <2>1. HistoryLimit[topic[p]] \in Nat
    BY <1>1, HubConstants
  <2>2. Append(history, Len(log')) \in Seq(Ids')
    BY <1>2 DEF HubTypes, PublishShape
  <2> QED
    BY <1>1, <2>1, <2>2, LastNKeeps
<1>4. PublishShape'
  <2>1. msg' \in [Procs -> 0 .. Len(log')]
    BY <1>1, <1>2 DEF HubTypes, PublishShape
  <2> QED
    BY <1>1, <1>2, <1>3, <2>1 DEF HubTypes, PublishShape
<1>5. ClientShape'
  <2>1. wire' \in [Clients -> Seq(Ids')]
    BY <1>1, <1>2 DEF HubTypes, ClientShape
  <2> QED
    BY <1>1, <1>2, <2>1, ClientsOfMore DEF HubTypes
<1>6. HolderSends'
  <2>1. \A q \in Procs : q # p => pc[q] # "sending"
    BY <1>1, HubConstants DEF HubInv, LockIsHeld
  <2> QED
    BY <1>1, <1>2, <2>1 DEF HubInv, HubTypes, PublishShape, HolderSends
<1>7. WriterHolds'
  BY <1>1 DEF HubInv, HubTypes, WriterHolds
<1>8. NoFeed'
  BY <1>1 DEF HubTypes, NoFeed
<1> QED
  BY <1>4, <1>5, <1>6, <1>7, <1>8 DEF HubTypes

\* publish sends to a subscriber.
LEMMA TypesSendTo ==
  ASSUME HubInv, HubTypes, NEW p \in Procs, NEW c \in Clients, SendTo(p, c)
  PROVE  HubTypes'
<1> USE DEF clientVars, redisVars
<1>1. /\ pc[p] = "sending"
      /\ \/ Len(ch[c]) < Cap /\ ch' = [ch EXCEPT ![c] = Append(@, msg[p])]
         \/ ch' = ch
      /\ UNCHANGED <<mu, history, log, pc, topic, msg, clientVars, redisVars>>
  BY DEF SendTo
<1>2. msg[p] \in Ids
  BY <1>1 DEF HubTypes, PublishShape, HolderSends, Ids
<1>3. Ids' = Ids
  BY <1>1 DEF Ids
<1>4. /\ ch' \in [Clients -> Seq(Ids)]
      /\ \A d \in Clients : Len(ch'[d]) <= Cap
  <2>1. ch \in [Clients -> Seq(Ids)] /\ \A d \in Clients : Len(ch[d]) <= Cap
    BY DEF HubTypes, ClientShape
  <2>2. Append(ch[c], msg[p]) \in Seq(Ids)
        /\ Len(Append(ch[c], msg[p])) = Len(ch[c]) + 1 /\ Len(ch[c]) \in Nat
    BY <1>2, <2>1
  <2>3. CASE ch' = ch
    BY <2>1, <2>3
  <2>4. CASE Len(ch[c]) < Cap /\ ch' = [ch EXCEPT ![c] = Append(@, msg[p])]
    <3>1. Len(Append(ch[c], msg[p])) <= Cap
      BY <2>2, <2>4, HubConstants
    <3> QED
      BY <2>1, <2>2, <2>4, <3>1
  <2> QED
    BY <1>1, <2>3, <2>4
<1>5. ClientShape'
  BY <1>1, <1>3, <1>4 DEF HubTypes, ClientShape
<1> QED
  BY <1>1, <1>3, <1>5 DEF HubTypes, PublishShape, HolderSends, WriterHolds,
     NoFeed

\* publish returns, to the loop or to the deferred unsubscribe.
LEMMA WriterReturns ==
  ASSUME HubInv, HubTypes, NEW p \in Procs, pc[p] \in {"publish", "sending"},
         pc' = [pc EXCEPT ![p] = AfterPublish(p)],
         UNCHANGED <<writing, leaving>>
  PROVE  WriterHolds'
<1>1. p \in Publishers => p \notin Clients
  BY HubConstants
<1>2. p \in Clients => pc'[p] = IF leaving[p] THEN "unsubscribe" ELSE "serve"
  BY <1>1 DEF AfterPublish, HubInv
<1>3. ASSUME NEW c \in Clients, c # p PROVE pc'[c] = pc[c]
  BY <1>3 DEF HubInv
<1> SUFFICES ASSUME NEW c \in Clients
             PROVE  /\ pc'[c] \in {"accepted", "replaying", "serve", "write"}
                         => ~leaving[c]
                    /\ ~leaving[c] => (pc'[c] = "write" <=> writing[c] # Nil)
  BY DEF WriterHolds
<1>4. CASE c = p
  BY <1>2, <1>4 DEF HubTypes, WriterHolds
<1>5. CASE c # p
  BY <1>3, <1>5 DEF HubTypes, WriterHolds
<1> QED
  BY <1>4, <1>5

\* publish gives the lock back.
LEMMA TypesPublished ==
  ASSUME HubInv, HubTypes, NEW p \in Procs, Published(p)
  PROVE  HubTypes'
<1> USE DEF clientVars, redisVars
<1>1. /\ pc[p] = "sending" /\ mu' = Nil
      /\ pc' = [pc EXCEPT ![p] = AfterPublish(p)]
      /\ msg' = [msg EXCEPT ![p] = 0]
      /\ topic' = [topic EXCEPT ![p] = "debug"]
      /\ UNCHANGED <<history, log, ch, clientVars, redisVars>>
  BY DEF Published
<1>2. Ids' = Ids
  BY <1>1 DEF Ids
<1>3. PublishShape'
  <2>1. topic' \in [Procs -> Channels]
    BY <1>1 DEF HubTypes, PublishShape, Channels
  <2>2. msg' \in [Procs -> 0 .. Len(log)]
    BY <1>1 DEF HubTypes, PublishShape
  <2> QED
    BY <1>1, <1>2, <2>1, <2>2 DEF HubTypes, PublishShape
<1>4. ClientShape'
  BY <1>1, <1>2 DEF HubTypes, ClientShape
<1>5. HolderSends'
  <2>1. AfterPublish(p) # "sending"
    BY HubConstants DEF AfterPublish
  <2>2. \A q \in Procs : pc'[q] # "sending"
    BY <1>1, <2>1 DEF HubInv, LockIsHeld
  <2> QED
    BY <1>1, <2>2 DEF HolderSends
<1>6. WriterHolds'
  BY <1>1, WriterReturns
<1>7. NoFeed'
  BY <1>1 DEF HubTypes, NoFeed
<1> QED
  BY <1>3, <1>4, <1>5, <1>6, <1>7 DEF HubTypes

\* publish hands a message to Redis, or fails.
LEMMA TypesPublishRedis ==
  ASSUME HubInv, HubTypes, NEW p \in Procs, PublishRedis(p)
  PROVE  HubTypes'
<1> USE DEF clientVars, redisVars
<1>1. /\ pc[p] = "publish" /\ redis /\ topic[p] \in Channels
      /\ \/ /\ log' = Append(log, topic[p])
            /\ wire' = [c \in Clients |-> IF feed[c] = "on"
                                          THEN Append(wire[c], Len(log'))
                                          ELSE wire[c]]
         \/ UNCHANGED <<log, wire>>
      /\ pc' = [pc EXCEPT ![p] = AfterPublish(p)]
      /\ topic' = [topic EXCEPT ![p] = "debug"]
      /\ UNCHANGED <<mu, history, msg, ch, clientVars, redis, feed>>
  BY DEF PublishRedis, HubTypes, PublishShape
<1>2. /\ log' \in Seq(Channels) /\ Len(log') \in Nat /\ Len(log) \in Nat
      /\ Len(log) <= Len(log')
      /\ Ids \subseteq Ids' /\ Seq(Ids) \subseteq Seq(Ids')
  <2>1. CASE log' = Append(log, topic[p])
    BY <1>1, <2>1, LogGrows
  <2>2. CASE log' = log
    BY <2>2 DEF HubTypes, PublishShape, Ids
  <2> QED
    BY <1>1, <2>1, <2>2
<1>3. wire' \in [Clients -> Seq(Ids')]
  <2>1. CASE UNCHANGED <<log, wire>>
    BY <1>2, <2>1 DEF HubTypes, ClientShape
  <2>2. CASE log' = Append(log, topic[p]) /\ ~UNCHANGED <<log, wire>>
    <3>1. Len(log') \in Ids'
      BY <1>1, <2>2, LogGrows
    <3>2. wire' = [c \in Clients |-> IF feed[c] = "on"
                                     THEN Append(wire[c], Len(log'))
                                     ELSE wire[c]]
      BY <1>1, <2>2
    <3>3. ASSUME NEW c \in Clients
          PROVE  /\ wire[c] \in Seq(Ids')
                 /\ Append(wire[c], Len(log')) \in Seq(Ids')
      <4>1. wire[c] \in Seq(Ids')
        BY <1>2 DEF HubTypes, ClientShape
      <4> QED
        BY <3>1, <4>1
    <3> QED
      BY <3>2, <3>3
  <2> QED
    BY <1>1, <2>1, <2>2
<1>4. PublishShape'
  <2>1. topic' \in [Procs -> Channels] /\ msg' \in [Procs -> 0 .. Len(log')]
    BY <1>1, <1>2 DEF HubTypes, PublishShape, Channels
  <2> QED
    BY <1>1, <1>2, <2>1 DEF HubTypes, PublishShape
<1>5. ClientShape'
  BY <1>1, <1>2, <1>3, ClientsOfMore DEF HubTypes
<1>6. HolderSends'
  <2>1. mu = Nil /\ \A q \in Procs : pc[q] # "sending"
    BY <1>1, HubConstants DEF HubInv, LockIsHeld, HubTypes, PublishShape
  <2>2. AfterPublish(p) # "sending"
    BY HubConstants DEF AfterPublish
  <2> QED
    BY <1>1, <2>1, <2>2 DEF HubInv, HolderSends
<1>7. WriterHolds'
  BY <1>1, WriterReturns
<1>8. NoFeed'
  BY <1>1 DEF HubTypes, NoFeed
<1> QED
  BY <1>4, <1>5, <1>6, <1>7, <1>8 DEF HubTypes

\* Steps that leave the publishing alone.
LEMMA TypesOfClients ==
  ASSUME HubTypes,
         UNCHANGED <<redis, mu, history, log, topic, msg>>,
         \A p \in Procs : pc'[p] = "sending" <=> pc[p] = "sending"
  PROVE  PublishShape' /\ HolderSends' /\ Ids' = Ids
BY DEF HubTypes, PublishShape, HolderSends, Ids

\* A browser subscribes, and the replay begins.
LEMMA TypesSubscribe ==
  ASSUME HubInv, HubTypes, Fresh, NEW c \in Clients,
         Subscribe(c) \/ Replay(c) \/ Connected(c)
  PROVE  HubTypes'
<1> USE DEF publishVars, redisVars
<1>1. /\ UNCHANGED <<redis, mu, history, log, topic, msg>>
      /\ \E where \in {"replaying", "publish"} :
           /\ pc[c] \in {"accepted", "replaying"}
           /\ pc' = [pc EXCEPT ![c] = where]
           /\ pc[c] = "accepted" => where = "replaying"
  BY DEF Subscribe, Replay, Connected, HubInv
<1>2. PublishShape' /\ HolderSends' /\ Ids' = Ids
  <2>1. \A p \in Procs : pc'[p] = "sending" <=> pc[p] = "sending"
    BY <1>1 DEF HubInv
  <2> QED
    BY <1>1, <2>1, TypesOfClients
<1>3. WriterHolds'
  <2>1. UNCHANGED <<writing, leaving>>
    BY DEF Subscribe, Replay, Connected, clientVars
  <2> QED
    BY <1>1, <2>1 DEF HubInv, HubTypes, WriterHolds
<1>4. NoFeed' /\ ClientShape'
  <2>1. CASE Subscribe(c)
    <3>1. /\ replay' = [replay EXCEPT ![c] = LastN(history, Cap)]
          /\ UNCHANGED <<ch, replayed, writing, written, gone, leaving,
                         wire, feed>>
      BY <2>1 DEF Subscribe
    <3>2. LastN(history, Cap) \in Seq(Ids) /\ Len(LastN(history, Cap)) <= Cap
      BY HubConstants, LastNKeeps DEF HubTypes, PublishShape
    <3>3. replayed[c] = 0
      BY <2>1 DEF Subscribe, Fresh
    <3> QED
      BY <1>1, <1>2, <3>1, <3>2, <3>3 DEF HubTypes, ClientShape, NoFeed
  <2>2. CASE Replay(c)
    <3>1. /\ replayed[c] < Len(replay[c]) /\ Len(ch[c]) < Cap
          /\ ch' = [ch EXCEPT ![c] = Append(@, replay[c][replayed[c] + 1])]
          /\ replayed' = [replayed EXCEPT ![c] = @ + 1]
          /\ UNCHANGED <<replay, writing, written, gone, leaving, wire, feed>>
      BY <2>2 DEF Replay
    <3>2. replay[c][replayed[c] + 1] \in Ids
      BY <3>1 DEF HubTypes, ClientShape
    <3> QED
      BY <1>1, <1>2, <3>1, <3>2, HubConstants
         DEF HubTypes, ClientShape, NoFeed
  <2>3. CASE Connected(c)
    <3>1. /\ feed' = [feed EXCEPT ![c] = IF redis THEN "asked" ELSE @]
          /\ UNCHANGED <<ch, replayed, replay, writing, written, gone,
                         leaving, wire>>
      BY <2>3 DEF Connected, clientVars
    <3> QED
      BY <1>1, <1>2, <3>1 DEF HubTypes, ClientShape, NoFeed
  <2> QED
    BY <2>1, <2>2, <2>3
<1> QED
  BY <1>2, <1>3, <1>4 DEF HubTypes

\* ServeWS serves its browser, and leaves.
LEMMA TypesServe ==
  ASSUME HubInv, HubTypes, NEW c \in Clients,
         \/ Receive(c) \/ WriteSucceeds(c) \/ WriteFails(c) \/ ContextDone(c)
         \/ Unsubscribe(c) \/ Disconnect(c)
  PROVE  HubTypes'
<1> USE DEF publishVars, redisVars
<1>1. /\ UNCHANGED <<redis, mu, history, log, topic, msg, feed, wire,
                     replay, replayed>>
      /\ \/ \E where \in PCs \ {"sending"} :
              pc' = [pc EXCEPT ![c] = where] /\ pc[c] # "sending"
         \/ UNCHANGED pc
  BY DEF Receive, WriteSucceeds, WriteFails, ContextDone, Leave, Unsubscribe,
     Disconnect, PCs
<1>2. PublishShape' /\ HolderSends' /\ Ids' = Ids
  <2>1. \A p \in Procs : pc'[p] = "sending" <=> pc[p] = "sending"
    BY <1>1 DEF HubInv
  <2> QED
    BY <1>1, <2>1, TypesOfClients
<1>3. NoFeed'
  BY <1>1 DEF HubTypes, NoFeed
<1>4. ClientShape /\ WriterHolds /\ pc \in [Procs -> PCs]
  BY DEF HubTypes, HubInv
<1>5. CASE Receive(c)
  <2>1. /\ pc[c] = "serve" /\ ch[c] # <<>>
        /\ writing' = [writing EXCEPT ![c] = Head(ch[c])]
        /\ ch' = [ch EXCEPT ![c] = Tail(@)]
        /\ pc' = [pc EXCEPT ![c] = "write"]
        /\ UNCHANGED <<written, gone, leaving>>
    BY <1>5 DEF Receive
  <2>2. /\ Head(ch[c]) \in Ids /\ Tail(ch[c]) \in Seq(Ids)
        /\ Len(Tail(ch[c])) = Len(ch[c]) - 1 /\ Len(ch[c]) \in Nat
    BY <1>4, <2>1 DEF ClientShape
  <2>3. /\ Len(Tail(ch[c])) <= Cap /\ Head(ch[c]) # Nil
    BY <1>4, <2>2, HubConstants DEF ClientShape, Ids
  <2>4. WriterHolds'
    BY <1>4, <2>1, <2>2, <2>3 DEF WriterHolds, ClientShape
  <2>5. ClientShape'
    BY <1>1, <1>2, <1>4, <2>1, <2>2, <2>3 DEF ClientShape
  <2> QED
    BY <1>2, <1>3, <2>4, <2>5 DEF HubTypes
<1>6. CASE WriteSucceeds(c)
  <2>1. /\ pc[c] = "write"
        /\ written' = [written EXCEPT ![c] = Append(@, writing[c])]
        /\ writing' = [writing EXCEPT ![c] = Nil]
        /\ pc' = [pc EXCEPT ![c] = "serve"]
        /\ UNCHANGED <<ch, gone, leaving>>
    BY <1>6 DEF WriteSucceeds
  <2>2. writing[c] \in Ids
    BY <1>4, <2>1 DEF WriterHolds, ClientShape
  <2>3. WriterHolds'
    BY <1>4, <2>1 DEF WriterHolds, ClientShape
  <2>4. ClientShape'
    BY <1>1, <1>2, <1>4, <2>1, <2>2 DEF ClientShape
  <2> QED
    BY <1>2, <1>3, <2>3, <2>4 DEF HubTypes
<1>7. CASE WriteFails(c) \/ ContextDone(c)
  <2>1. /\ leaving' = [leaving EXCEPT ![c] = TRUE]
        /\ pc' = [pc EXCEPT ![c] = "publish"]
        /\ UNCHANGED <<ch, written, writing, gone>>
    BY <1>7 DEF WriteFails, ContextDone, Leave
  <2>2. WriterHolds' /\ ClientShape'
    BY <1>1, <1>2, <1>4, <2>1 DEF WriterHolds, ClientShape
  <2> QED
    BY <1>2, <1>3, <2>2 DEF HubTypes
<1>8. CASE Unsubscribe(c)
  <2>1. /\ pc' = [pc EXCEPT ![c] = "done"] /\ pc[c] = "unsubscribe"
        /\ UNCHANGED <<ch, written, writing, gone, leaving>>
    BY <1>8 DEF Unsubscribe
  <2>2. WriterHolds' /\ ClientShape'
    BY <1>1, <1>2, <1>4, <2>1 DEF WriterHolds, ClientShape
  <2> QED
    BY <1>2, <1>3, <2>2 DEF HubTypes
<1>9. CASE Disconnect(c)
  <2>1. /\ gone' = [gone EXCEPT ![c] = TRUE]
        /\ UNCHANGED <<pc, ch, written, writing, leaving>>
    BY <1>9 DEF Disconnect
  <2>2. WriterHolds' /\ ClientShape'
    BY <1>1, <1>2, <1>4, <2>1 DEF WriterHolds, ClientShape
  <2> QED
    BY <1>2, <1>3, <2>2 DEF HubTypes
<1> QED
  BY <1>5, <1>6, <1>7, <1>8, <1>9

\* A feed moves what Redis delivers.
LEMMA TypesFeed ==
  ASSUME HubInv, HubTypes, NEW c \in Clients, Feed(c)
  PROVE  HubTypes'
<1>1. UNCHANGED <<redis, mu, history, log, topic, msg, pc, clientVars>>
  BY DEF Feed, FeedConfirmed, FeedDelivers, FeedEnds, publishVars
<1>2. PublishShape' /\ HolderSends' /\ Ids' = Ids
  BY <1>1, TypesOfClients
<1>3. WriterHolds'
  BY <1>1 DEF HubTypes, WriterHolds, clientVars
<1>4. NoFeed'
  BY <1>1 DEF HubTypes, NoFeed, Feed, FeedConfirmed, FeedDelivers, FeedEnds
<1>5. ch \in [Clients -> Seq(Ids)] /\ wire \in [Clients -> Seq(Ids)]
      /\ \A d \in Clients : Len(ch[d]) <= Cap
  BY DEF HubTypes, ClientShape
<1>6. /\ ch' \in [Clients -> Seq(Ids)] /\ wire' \in [Clients -> Seq(Ids)]
      /\ \A d \in Clients : Len(ch'[d]) <= Cap
  <2>1. CASE FeedConfirmed(c)
    BY <1>5, <2>1 DEF FeedConfirmed
  <2>2. CASE FeedEnds(c)
    BY <1>5, <2>2 DEF FeedEnds
  <2>3. CASE FeedDelivers(c)
    <3>1. /\ wire[c] # <<>> /\ wire' = [wire EXCEPT ![c] = Tail(@)]
          /\ \/ ch' = ch
             \/ /\ Len(ch[c]) < Cap
                /\ ch' = [ch EXCEPT ![c] = Append(@, Head(wire[c]))]
      BY <2>3 DEF FeedDelivers
    <3>2. Head(wire[c]) \in Ids /\ Tail(wire[c]) \in Seq(Ids)
      BY <1>5, <3>1
    <3>3. /\ Append(ch[c], Head(wire[c])) \in Seq(Ids)
          /\ Len(Append(ch[c], Head(wire[c]))) = Len(ch[c]) + 1
          /\ Len(ch[c]) \in Nat
      BY <1>5, <3>2
    <3>4. wire' \in [Clients -> Seq(Ids)]
      BY <1>5, <3>1, <3>2
    <3>5. CASE ch' = ch
      BY <1>5, <3>4, <3>5
    <3>6. CASE /\ Len(ch[c]) < Cap
               /\ ch' = [ch EXCEPT ![c] = Append(@, Head(wire[c]))]
      <4>1. Len(Append(ch[c], Head(wire[c]))) <= Cap
        BY <3>3, <3>6, HubConstants
      <4> QED
        BY <1>5, <3>3, <3>4, <3>6, <4>1
    <3> QED
      BY <3>1, <3>5, <3>6
  <2> QED
    BY <2>1, <2>2, <2>3 DEF Feed
<1>7. ClientShape'
  BY <1>1, <1>2, <1>6 DEF HubTypes, ClientShape, clientVars
<1> QED
  BY <1>2, <1>3, <1>4, <1>7 DEF HubTypes

\* Every step keeps the types.
LEMMA TypesNext ==
  ASSUME HubInv, HubTypes, Fresh, [Next]_vars
  PROVE  HubTypes'
<1> USE DEF clientVars, redisVars
<1>1. ASSUME NEW p \in Publishers, NEW channel \in Channels, Call(p, channel)
      PROVE  HubTypes'
  <2>1. /\ pc[p] = "idle" /\ pc' = [pc EXCEPT ![p] = "publish"]
        /\ topic' = [topic EXCEPT ![p] = channel]
        /\ UNCHANGED <<mu, history, log, msg, ch, clientVars, redisVars>>
    BY <1>1 DEF Call
  <2>2. Ids' = Ids /\ p \notin Clients
    BY <2>1, HubConstants DEF Ids
  <2>3. PublishShape' /\ ClientShape'
    BY <2>1, <2>2 DEF HubTypes, PublishShape, ClientShape
  <2>4. HolderSends' /\ WriterHolds' /\ NoFeed'
    BY <2>1, <2>2 DEF HubInv, HubTypes, HolderSends, WriterHolds, NoFeed
  <2> QED
    BY <2>3, <2>4 DEF HubTypes
<1>2. ASSUME NEW p \in Procs, Publish(p) PROVE HubTypes'
  BY <1>2, TypesRecord, TypesSendTo, TypesPublished, TypesPublishRedis
     DEF Publish
<1>3. ASSUME NEW c \in Clients, ServeWS(c) \/ ContextDone(c) \/ Disconnect(c)
      PROVE  HubTypes'
  BY <1>2, <1>3, TypesSubscribe, TypesServe DEF ServeWS
<1>4. ASSUME NEW c \in Clients, Feed(c) PROVE HubTypes'
  BY <1>4, TypesFeed
<1>5. CASE ClearRoom
  <2>1. history' = <<>> /\ Ids' = Ids
        /\ UNCHANGED <<mu, log, pc, topic, msg, ch, clientVars, redisVars>>
    BY <1>5 DEF ClearRoom, Ids
  <2>2. /\ <<>> \in Seq(Ids)
        /\ \A channel \in Channels : 0 <= HistoryLimit[channel]
    BY HubConstants
  <2>3. PublishShape'
    BY <2>1, <2>2 DEF HubTypes, PublishShape, Channels
  <2>4. ClientShape' /\ HolderSends' /\ WriterHolds' /\ NoFeed'
    BY <2>1 DEF HubTypes, ClientShape, HolderSends, WriterHolds, NoFeed
  <2> QED
    BY <2>3, <2>4 DEF HubTypes
<1>6. CASE UNCHANGED vars
  BY <1>6 DEF vars, publishVars, HubTypes, PublishShape, ClientShape,
     HolderSends, WriterHolds, NoFeed, Ids
<1> QED
  BY <1>1, <1>2, <1>3, <1>4, <1>5, <1>6 DEF Next

\* The types, and that a browser starts with nothing, in every state.
THEOREM HubTyped == Spec => [](HubTypes /\ Fresh)
<1>1. Init => HubTypes /\ Fresh
  BY TypesInit, FreshInit
<1>2. HubInv /\ (HubTypes /\ Fresh) /\ [Next]_vars => (HubTypes /\ Fresh)'
  BY TypesNext, FreshNext
<1> QED
  BY <1>1, <1>2, HubInductive, PTL DEF Spec

\* The history and the channels keep to their limits, and the lock is held
\* exactly by a publish at work (publish, historyLimit, Subscribe).
THEOREM HubIsTyped == Spec => []TypeOK
<1>1. HubInv /\ HubTypes => TypeOK
  <2> SUFFICES ASSUME HubInv, HubTypes PROVE TypeOK
    OBVIOUS
  <2>1. \A p \in Procs : pc[p] = "sending" <=> mu = p
    BY HubConstants DEF HubInv, LockIsHeld, HubTypes, HolderSends
  <2>2. \A c \in Clients :
          /\ ch[c] \in Seq(1..Len(log)) /\ Len(ch[c]) <= Cap
          /\ replay[c] \in Seq(1..Len(log)) /\ Len(replay[c]) <= Cap
          /\ replayed[c] \in 0..Len(replay[c])
          /\ writing[c] \in 1..Len(log) \cup {Nil}
          /\ written[c] \in Seq(1..Len(log)) /\ wire[c] \in Seq(1..Len(log))
    BY DEF HubTypes, ClientShape, Ids
  <2>3. feed \in [Clients -> IF redis THEN Feeds ELSE {"none"}]
    BY DEF HubTypes, NoFeed, HubInv
  <2>4. /\ subscribers \subseteq Clients
        /\ pc \in [Procs -> PCs] /\ sendTo \in [Procs -> SUBSET Clients]
        /\ closed \in [Clients -> BOOLEAN]
    BY DEF HubInv, SubscribersAreServed
  <2>5. gone \in [Clients -> BOOLEAN] /\ leaving \in [Clients -> BOOLEAN]
    BY DEF HubTypes, ClientShape
  <2>6. PublishShape
    BY DEF HubTypes
  <2> QED
    BY <2>1, <2>2, <2>3, <2>4, <2>5, <2>6 DEF TypeOK, PublishShape, Ids
<1> QED
  BY <1>1, HubTyped, HubInductive, PTL

-----------------------------------------------------------------------------
(* The history.                                                            *)

\* The history is the end of the log.
HistoryIsTail ==
  \A i \in 1 .. Len(history) : history[i] = Len(log) - Len(history) + i

\* At first there is no history.
LEMMA TailInit == Init => HistoryIsTail
BY DEF Init, HistoryIsTail

\* Only publish and ClearRoom touch the history.
LEMMA TailNext ==
  ASSUME HubInv, HubTypes, HistoryIsTail, [Next]_vars
  PROVE  HistoryIsTail'
<1> USE DEF clientVars, redisVars
<1>1. ASSUME UNCHANGED <<log, history>> PROVE HistoryIsTail'
  BY <1>1 DEF HistoryIsTail
<1>2. ASSUME history' = <<>> PROVE HistoryIsTail'
  BY <1>2 DEF HistoryIsTail
<1>3. ASSUME NEW p \in Procs, Publish(p) PROVE HistoryIsTail'
  <2>1. CASE Record(p)
    <3>1. topic[p] \in Channels /\ log' = Append(log, topic[p])
          /\ history' = LastN(Append(history, Len(log')),
                              HistoryLimit[topic[p]])
      BY <2>1 DEF Record, HubTypes, PublishShape
    <3>2. /\ Len(log') = Len(log) + 1 /\ Len(log) \in Nat
          /\ HistoryLimit[topic[p]] \in Nat /\ history \in Seq(Nat)
      BY <3>1, HubConstants, LogGrows, SeqOfMore
         DEF HubTypes, PublishShape, Ids
    <3>3. /\ Append(history, Len(log')) \in Seq(Nat)
          /\ Len(Append(history, Len(log'))) = Len(history) + 1
          /\ Len(history) \in Nat
          /\ Append(history, Len(log'))[Len(history) + 1] = Len(log')
          /\ \A i \in 1 .. Len(history) :
               Append(history, Len(log'))[i] = history[i]
      BY <3>2
    <3> DEFINE longer == Append(history, Len(log'))
    <3>4. \A i \in 1 .. Len(longer) : longer[i] = Len(log') - Len(longer) + i
      BY <3>2, <3>3 DEF HistoryIsTail
    <3>5. /\ history' \in Seq(Nat) /\ Len(history') <= Len(longer)
          /\ \A i \in 1 .. Len(history') :
               history'[i] = longer[Len(longer) - Len(history') + i]
      <4> DEFINE limit == HistoryLimit[topic[p]]
      <4>1. /\ longer \in Seq(Nat) /\ limit \in Nat
            /\ history' = LastN(longer, limit)
        BY <3>1, <3>2, <3>3
      <4> HIDE DEF longer, limit
      <4> QED
        BY <4>1, LastNKeeps
    <3> HIDE DEF longer
    <3> SUFFICES ASSUME NEW i \in 1 .. Len(history')
                 PROVE  history'[i] = Len(log') - Len(history') + i
      BY DEF HistoryIsTail
    <3>6. Len(longer) \in Nat /\ Len(history') \in Nat
      BY <3>3, <3>5 DEF longer
    <3>7. Len(longer) - Len(history') + i \in 1 .. Len(longer)
      BY <3>5, <3>6
    <3>8. longer[Len(longer) - Len(history') + i]
            = Len(log') - Len(longer) + (Len(longer) - Len(history') + i)
      BY <3>4, <3>7
    <3> QED
      BY <3>2, <3>5, <3>6, <3>8
  <2>2. CASE \E c \in Clients : SendTo(p, c)
    BY <1>1, <2>2 DEF SendTo
  <2>3. CASE Published(p)
    BY <1>1, <2>3 DEF Published
  <2>4. CASE PublishRedis(p)
    BY <1>2, <2>4 DEF PublishRedis, HubTypes, PublishShape
  <2> QED
    BY <1>3, <2>1, <2>2, <2>3, <2>4 DEF Publish
<1>4. ASSUME NEW c \in Clients, ServeWS(c) \/ ContextDone(c) \/ Disconnect(c)
      PROVE  HistoryIsTail'
  BY <1>1, <1>3, <1>4 DEF ServeWS, ContextDone, Disconnect, Subscribe, Replay,
     Connected, Receive, WriteSucceeds, WriteFails, Leave, Unsubscribe,
     publishVars
<1>5. ASSUME NEW c \in Clients, Feed(c) PROVE HistoryIsTail'
  BY <1>1, <1>5 DEF Feed, FeedConfirmed, FeedDelivers, FeedEnds, publishVars
<1>6. ASSUME NEW p \in Publishers, NEW channel \in Channels, Call(p, channel)
      PROVE  HistoryIsTail'
  BY <1>1, <1>6 DEF Call
<1>7. CASE ClearRoom
  BY <1>2, <1>7 DEF ClearRoom
<1>8. CASE UNCHANGED vars
  BY <1>1, <1>8 DEF vars, publishVars
<1> QED
  BY <1>3, <1>4, <1>5, <1>6, <1>7, <1>8 DEF Next

-----------------------------------------------------------------------------
\* Numbers that grow along a sequence.
Rising(s) == \A i, j \in 1 .. Len(s) : i < j => s[i] < s[j]

\* What LiveInOrder says of a browser that got got and was replayed rep.
InOrder(got, rep) ==
  \A i, j \in 1 .. Len(got) :
    i < j /\ got[j] <= got[i] =>
      got[i] \notin ToSet(rep) /\ got[j] \in ToSet(rep)

\* A message later than all, or the next of the replay, keeps the order.
LEMMA InOrderAppend ==
  ASSUME NEW got \in Seq(Nat), NEW rep \in Seq(Nat), NEW m \in Nat,
         InOrder(got, rep),
         \/ \A i \in 1 .. Len(got) : got[i] < m
         \/ /\ m \in ToSet(rep)
            /\ \A i \in 1 .. Len(got) : got[i] \in ToSet(rep) => got[i] < m
  PROVE  InOrder(Append(got, m), rep)
<1> DEFINE longer == Append(got, m)
<1>1. /\ Len(longer) = Len(got) + 1 /\ longer[Len(got) + 1] = m
      /\ \A i \in 1 .. Len(got) : longer[i] = got[i]
      /\ Len(got) \in Nat
  OBVIOUS
<1>2. \A i \in 1 .. Len(got) : got[i] \in Nat
  OBVIOUS
<1> HIDE DEF longer
<1>3. SUFFICES ASSUME NEW i \in 1 .. Len(longer), NEW j \in 1 .. Len(longer),
                      i < j, longer[j] <= longer[i]
               PROVE  longer[i] \notin ToSet(rep) /\ longer[j] \in ToSet(rep)
  BY DEF InOrder, longer
<1>4. i \in 1 .. Len(got) /\ longer[i] = got[i] /\ got[i] \in Nat
  BY <1>1, <1>2, <1>3
<1>5. CASE j \in 1 .. Len(got)
  BY <1>1, <1>3, <1>4, <1>5 DEF InOrder
<1>6. CASE j = Len(got) + 1
  <2>1. longer[j] = m /\ ~(got[i] < m)
    BY <1>1, <1>3, <1>4, <1>6
  <2> QED
    BY <1>4, <2>1
<1> QED
  BY <1>1, <1>3, <1>5, <1>6

\* The head of a sequence moves to the one before.
LEMMA HeadMoves ==
  ASSUME NEW S, NEW w \in Seq(S), NEW t \in Seq(S), t # <<>>
  PROVE  (w \o <<>>) \o t = (w \o <<Head(t)>>) \o Tail(t)
<1>1. w \o <<>> = w
  BY ConcatEmptySeq
<1>2. Head(t) \in S /\ Tail(t) \in Seq(S) /\ <<Head(t)>> \in Seq(S)
  OBVIOUS
<1>3. t = <<Head(t)>> \o Tail(t)
  BY <1>2
<1>4. (w \o <<Head(t)>>) \o Tail(t) = w \o (<<Head(t)>> \o Tail(t))
  BY <1>2, ConcatAssociative
<1> QED
  BY <1>1, <1>3, <1>4

\* A single one is appended.
LEMMA OneIsAppended ==
  ASSUME NEW S, NEW w \in Seq(S), NEW m \in S
  PROVE  w \o <<m>> = Append(w, m) \o <<>> /\ Append(w, m) \in Seq(S)
<1>1. Append(w, m) \in Seq(S) /\ Append(w, m) \o <<>> = Append(w, m)
  BY ConcatEmptySeq
<1>2. Append(w, m) = w \o <<m>>
  OBVIOUS
<1> QED
  BY <1>1, <1>2

\* What ServeWS holds.
InHand(c) == IF writing[c] = Nil THEN <<>> ELSE <<writing[c]>>

\* What a browser was sent is a sequence of messages.
LEMMA ReceivedType ==
  ASSUME HubTypes, NEW c \in Clients
  PROVE  /\ Received(c) = (written[c] \o InHand(c)) \o ch[c]
         /\ written[c] \in Seq(Ids) /\ InHand(c) \in Seq(Ids)
         /\ ch[c] \in Seq(Ids) /\ written[c] \o InHand(c) \in Seq(Ids)
         /\ Received(c) \in Seq(Ids)
<1>1. /\ written[c] \in Seq(Ids) /\ ch[c] \in Seq(Ids)
      /\ writing[c] \in Ids \cup {Nil}
  BY DEF HubTypes, ClientShape
<1>2. InHand(c) \in Seq(Ids)
  BY <1>1 DEF InHand
<1>3. written[c] \o InHand(c) \in Seq(Ids)
  BY <1>1, <1>2
<1>4. Received(c) = (written[c] \o InHand(c)) \o ch[c]
  BY DEF Received, InHand
<1> QED
  BY <1>1, <1>2, <1>3, <1>4

\* A message is sent to a browser.
LEMMA ReceivesMore ==
  ASSUME HubTypes, NEW c \in Clients, NEW m \in Ids,
         UNCHANGED <<written, writing>>, ch' = [ch EXCEPT ![c] = Append(@, m)]
  PROVE  /\ Received(c)' = Append(Received(c), m)
         /\ \A d \in Clients : d # c => Received(d)' = Received(d)
<1>1. ch'[c] = Append(ch[c], m) /\ \A d \in Clients : d # c => ch'[d] = ch[d]
  BY DEF HubTypes, ClientShape
<1>2. Received(c)' = (written[c] \o InHand(c)) \o Append(ch[c], m)
  BY <1>1 DEF Received, InHand
<1>3. Received(c)' = Append((written[c] \o InHand(c)) \o ch[c], m)
  <2> DEFINE w == written[c] \o InHand(c)
  <2>1. w \in Seq(Ids) /\ ch[c] \in Seq(Ids)
    BY ReceivedType
  <2> HIDE DEF w
  <2>2. w \o Append(ch[c], m) = Append(w \o ch[c], m)
    BY <2>1, AppendOut
  <2> QED
    BY <1>2, <2>2 DEF w
<1> QED
  BY <1>1, <1>3, ReceivedType DEF Received

\* ServeWS moves a message along: nothing is lost or overtaken.
LEMMA ServeMoves ==
  ASSUME HubInv, HubTypes, NEW c \in Clients, Receive(c) \/ WriteSucceeds(c)
  PROVE  \A d \in Clients : Received(d)' = Received(d)
<1> USE DEF publishVars, redisVars
<1>1. CASE Receive(c)
  <2>1. /\ pc[c] = "serve" /\ ch[c] # <<>> /\ ch[c] \in Seq(Ids)
        /\ writing'[c] = Head(ch[c]) /\ ch'[c] = Tail(ch[c])
        /\ \A d \in Clients : d # c => writing'[d] = writing[d]
                                       /\ ch'[d] = ch[d]
        /\ UNCHANGED written
    BY <1>1 DEF Receive, HubTypes, ClientShape
  <2>2. writing[c] = Nil
    BY <2>1 DEF HubTypes, WriterHolds
  <2>3. Head(ch[c]) # Nil
    BY <2>1, HubConstants DEF Ids
  <2>4. Received(c) = (written[c] \o <<>>) \o ch[c]
    BY <2>2 DEF Received
  <2>5. Received(c)' = (written[c] \o <<Head(ch[c])>>) \o Tail(ch[c])
    BY <2>1, <2>3 DEF Received
  <2>6. Received(c)' = Received(c)
    BY <2>1, <2>4, <2>5, ReceivedType, HeadMoves
  <2> QED
    BY <2>1, <2>6 DEF Received
<1>2. CASE WriteSucceeds(c)
  <2>1. /\ pc[c] = "write" /\ writing[c] \in Ids \cup {Nil}
        /\ written'[c] = Append(written[c], writing[c]) /\ writing'[c] = Nil
        /\ \A d \in Clients : d # c => writing'[d] = writing[d]
                                       /\ written'[d] = written[d]
        /\ UNCHANGED ch
    BY <1>2 DEF WriteSucceeds, HubTypes, ClientShape
  <2>2. writing[c] # Nil /\ writing[c] \in Ids
    BY <2>1 DEF HubTypes, WriterHolds
  <2>3. Received(c) = (written[c] \o <<writing[c]>>) \o ch[c]
    BY <2>2 DEF Received
  <2>4. Received(c)' = (Append(written[c], writing[c]) \o <<>>) \o ch[c]
    BY <2>1 DEF Received
  <2>5. Received(c)' = Received(c)
    BY <2>2, <2>3, <2>4, ReceivedType, OneIsAppended
  <2> QED
    BY <2>1, <2>5 DEF Received
<1> QED
  BY <1>1, <1>2

-----------------------------------------------------------------------------
(* The order in which messages reach a browser.                            *)

\* The replay is a part of the history, and none with Redis.
ReplayInOrder(c) ==
  /\ Rising(replay[c])
  /\ redis => replay[c] = <<>>

\* A message of the replay that a browser was sent is one of those Subscribe
\* has sent so far.
ReplayGoesOn(c) ==
  \A i \in 1 .. Len(Received(c)), k \in 1 .. Len(replay[c]) :
    Received(c)[i] = replay[c][k] => k <= replayed[c]

\* What Redis still has for a feed comes after what the browser was sent.
WireInOrder(c) ==
  /\ Rising(wire[c])
  /\ wire[c] # <<>> => redis
  /\ \A i \in 1 .. Len(Received(c)), k \in 1 .. Len(wire[c]) :
       Received(c)[i] < wire[c][k]

ClientInOrder(c) ==
  /\ InOrder(Received(c), replay[c])
  /\ ReplayInOrder(c) /\ ReplayGoesOn(c) /\ WireInOrder(c)

\* A publish that holds the lock has a message no browser was sent before.
LatestIsNew ==
  \A p \in Procs : \A c \in sendTo[p] :
    Len(log) \notin ToSet(Received(c)) \cup ToSet(replay[c])

OrderInv ==
  /\ HistoryIsTail
  /\ LatestIsNew
  /\ \A c \in Clients : ClientInOrder(c)

\* At first nothing was sent.
LEMMA OrderInit == Init => OrderInv
<1> SUFFICES ASSUME Init PROVE OrderInv
  OBVIOUS
<1>1. LatestIsNew
  BY DEF Init, LatestIsNew
<1>2. ASSUME NEW c \in Clients PROVE ClientInOrder(c)
  <2>1. /\ replay[c] = <<>> /\ wire[c] = <<>> /\ written[c] = <<>>
        /\ writing[c] = Nil /\ ch[c] = <<>>
    BY DEF Init
  <2>2. Received(c) = <<>>
    BY <2>1 DEF Received
  <2> QED
    BY <2>1, <2>2 DEF ClientInOrder, InOrder, ReplayInOrder, ReplayGoesOn,
       WireInOrder, Rising
<1> QED
  BY <1>1, <1>2, TailInit DEF OrderInv

\* The elements once one is appended.
LEMMA ElementsOfAppend ==
  ASSUME NEW S, NEW s \in Seq(S), NEW m \in S
  PROVE  ToSet(Append(s, m)) = ToSet(s) \cup {m}
<1>1. /\ DOMAIN Append(s, m) = 1 .. Len(s) + 1 /\ DOMAIN s = 1 .. Len(s)
      /\ Append(s, m)[Len(s) + 1] = m /\ Len(s) \in Nat
      /\ \A i \in 1 .. Len(s) : Append(s, m)[i] = s[i]
  OBVIOUS
<1>2. 1 .. Len(s) + 1 = (1 .. Len(s)) \cup {Len(s) + 1}
  BY <1>1
<1> QED
  BY <1>1, <1>2 DEF ToSet

\* A browser to which nothing is done.
LEMMA ClientUntouched ==
  ASSUME NEW c \in Clients, ClientInOrder(c), Received(c)' = Received(c),
         UNCHANGED <<replay[c], replayed[c], wire[c], redis>>
  PROVE  ClientInOrder(c)'
BY DEF ClientInOrder, InOrder, ReplayInOrder, ReplayGoesOn, WireInOrder, Rising

\* The elements of a sequence by their place.
LEMMA ElementsByPlace ==
  ASSUME NEW s \in Seq(Nat)
  PROVE  /\ \A m : m \in ToSet(s) <=> \E i \in 1 .. Len(s) : s[i] = m
         /\ Len(s) \in Nat
BY DEF ToSet

\* What a browser was sent, will be replayed and has on the wire are numbers.
LEMMA SeqsOfNumbers ==
  ASSUME HubTypes, NEW c \in Clients
  PROVE  /\ Received(c) \in Seq(Nat) /\ replay[c] \in Seq(Nat)
         /\ wire[c] \in Seq(Ids) /\ wire[c] \in Seq(Nat)
         /\ \A i \in 1 .. Len(Received(c)) : Received(c)[i] \in Ids
         /\ Ids \subseteq Nat
<1>1. Ids \subseteq Nat
  BY DEF Ids
<1>2. /\ Received(c) \in Seq(Ids) /\ replay[c] \in Seq(Ids)
      /\ wire[c] \in Seq(Ids)
  BY ReceivedType DEF HubTypes, ClientShape
<1>3. \A s \in Seq(Ids) : s \in Seq(Nat)
  BY <1>1, SeqOfMore
<1> HIDE DEF Ids
<1>4. \A i \in 1 .. Len(Received(c)) : Received(c)[i] \in Ids
  BY <1>2
<1> QED
  BY <1>1, <1>2, <1>3, <1>4

\* publish sends its message, which no browser was sent: it is the latest.
LEMMA SentInOrder ==
  ASSUME HubInv, HubTypes, OrderInv, NEW p \in Procs, NEW c \in Clients,
         SendTo(p, c)
  PROVE  \A d \in Clients : ClientInOrder(d)'
<1> USE DEF clientVars, redisVars
<1>1. /\ pc[p] = "sending" /\ c \in sendTo[p]
      /\ \/ ch' = [ch EXCEPT ![c] = Append(@, msg[p])]
         \/ ch' = ch
      /\ UNCHANGED <<clientVars, redisVars>>
  BY DEF SendTo
<1>2. msg[p] = Len(log) /\ msg[p] \in Ids /\ ~redis
  <2>1. mu # Nil
    BY <1>1, HubConstants DEF HubInv, LockIsHeld
  <2> QED
    BY <1>1, <2>1 DEF HubTypes, HolderSends, PublishShape, Ids
<1>3. CASE ch' = ch
  BY <1>1, <1>3, ClientUntouched DEF OrderInv, Received
<1>4. CASE ch' = [ch EXCEPT ![c] = Append(@, msg[p])]
  <2>1. /\ Received(c)' = Append(Received(c), msg[p])
        /\ \A d \in Clients : d # c => Received(d)' = Received(d)
    BY <1>1, <1>2, <1>4, ReceivesMore
  <2>2. \A d \in Clients : d # c => ClientInOrder(d)'
    BY <1>1, <2>1, ClientUntouched DEF OrderInv
  <2>3. ClientInOrder(c)
    BY DEF OrderInv
  <2>4. /\ Received(c) \in Seq(Nat) /\ replay[c] \in Seq(Nat)
        /\ msg[p] \in Nat /\ wire[c] \in Seq(Ids)
        /\ \A i \in 1 .. Len(Received(c)) :
             Received(c)[i] \in Ids
    BY <1>2, SeqsOfNumbers
  <2>5. /\ msg[p] \notin ToSet(Received(c)) /\ msg[p] \notin ToSet(replay[c])
    BY <1>1, <1>2 DEF OrderInv, LatestIsNew
  <2>6. \A i \in 1 .. Len(Received(c)) : Received(c)[i] < msg[p]
    <3> SUFFICES ASSUME NEW i \in 1 .. Len(Received(c))
                 PROVE  Received(c)[i] < msg[p]
      OBVIOUS
    <3>1. Received(c)[i] # msg[p]
      BY <2>4, <2>5, ElementsByPlace
    <3>2. Received(c)[i] \in 1 .. Len(log)
      BY <2>4 DEF Ids
    <3>3. Len(log) \in Nat
      BY DEF HubTypes, PublishShape
    <3> QED
      BY <1>2, <3>1, <3>2, <3>3
  <2>7. wire[c] = <<>>
    BY <1>2, <2>3 DEF ClientInOrder, WireInOrder
  <2> DEFINE got == Received(c)
             longer == Append(got, msg[p])
  <2>8. /\ Len(longer) = Len(got) + 1 /\ longer[Len(got) + 1] = msg[p]
        /\ \A i \in 1 .. Len(got) : longer[i] = got[i]
        /\ Len(got) \in Nat
    BY <2>4
  <2>9. InOrder(longer, replay[c])
    BY <2>3, <2>4, <2>6, InOrderAppend DEF ClientInOrder
  <2>10. \A i \in 1 .. Len(longer), k \in 1 .. Len(replay[c]) :
           longer[i] = replay[c][k] => k <= replayed[c]
    <3> HIDE DEF longer
    <3> SUFFICES ASSUME NEW i \in 1 .. Len(longer),
                        NEW k \in 1 .. Len(replay[c]),
                        longer[i] = replay[c][k]
                 PROVE  k <= replayed[c]
      OBVIOUS
    <3>1. replay[c][k] # msg[p]
      BY <2>4, <2>5, ElementsByPlace
    <3>2. i \in 1 .. Len(got)
      BY <2>8, <3>1
    <3> QED
      BY <2>3, <2>8, <3>2 DEF ClientInOrder, ReplayGoesOn
  <2> HIDE DEF longer
  <2>11. Received(c)' = longer
    BY <2>1 DEF longer
  <2>12. ReplayGoesOn(c)'
    BY <1>1, <2>10, <2>11 DEF ReplayGoesOn
  <2>13. WireInOrder(c)' /\ ReplayInOrder(c)'
    BY <1>1, <2>3, <2>7 DEF ClientInOrder, WireInOrder, ReplayInOrder, Rising
  <2>14. InOrder(Received(c), replay[c])'
    BY <1>1, <2>9, <2>11 DEF InOrder
  <2> QED
    BY <2>2, <2>12, <2>13, <2>14 DEF ClientInOrder
<1> QED
  BY <1>1, <1>3, <1>4

\* The next message of the replay comes after those replayed before.
LEMMA ReplayedInOrder ==
  ASSUME HubInv, HubTypes, OrderInv, NEW c \in Clients, Replay(c)
  PROVE  \A d \in Clients : ClientInOrder(d)'
<1> DEFINE k == replayed[c] + 1
           m == replay[c][k]
           got == Received(c)
           longer == Append(got, m)
<1> USE DEF publishVars, redisVars
<1>1. /\ k <= Len(replay[c]) /\ ch' = [ch EXCEPT ![c] = Append(@, m)]
      /\ replayed' = [replayed EXCEPT ![c] = k]
      /\ UNCHANGED <<replay, wire, redis, written, writing>>
      /\ DOMAIN replayed = Clients /\ replayed[c] \in Nat
      /\ Len(replay[c]) \in Nat
      /\ replay[c] \in Seq(Ids)
  BY DEF Replay, HubTypes, ClientShape
<1>2. k \in 1 .. Len(replay[c]) /\ m \in Ids
  BY <1>1
<1>3. /\ Received(c)' = longer
      /\ \A d \in Clients : d # c => Received(d)' = Received(d)
  BY <1>1, <1>2, ReceivesMore
<1>4. \A d \in Clients : d # c => ClientInOrder(d)'
  BY <1>1, <1>3, ClientUntouched DEF OrderInv
<1>5. ClientInOrder(c)
  BY DEF OrderInv
<1>6. /\ got \in Seq(Nat) /\ replay[c] \in Seq(Nat) /\ m \in Nat
      /\ \A i \in 1 .. Len(got) : got[i] \in Nat
  <2>1. got \in Seq(Nat) /\ replay[c] \in Seq(Nat) /\ m \in Nat
    BY <1>2, SeqsOfNumbers
  <2> HIDE DEF got
  <2> QED
    BY <2>1
<1>7. /\ Len(longer) = Len(got) + 1 /\ longer[Len(got) + 1] = m
      /\ \A i \in 1 .. Len(got) : longer[i] = got[i]
      /\ Len(got) \in Nat
  BY <1>6
<1>8. wire[c] = <<>>
  BY <1>1, <1>2, <1>5, EmptySeq
     DEF ClientInOrder, WireInOrder, ReplayInOrder
<1> HIDE DEF got, m, longer
<1>9. m \in ToSet(replay[c])
      /\ \A i \in 1 .. Len(got) : got[i] \in ToSet(replay[c]) => got[i] < m
  <2>1. m \in ToSet(replay[c])
    BY <1>2, <1>6, ElementsByPlace DEF m
  <2>2. ASSUME NEW i \in 1 .. Len(got), got[i] \in ToSet(replay[c])
        PROVE  got[i] < m
    <3>1. PICK l \in 1 .. Len(replay[c]) : replay[c][l] = got[i]
      BY <1>6, <2>2, ElementsByPlace
    <3>2. l <= replayed[c]
      BY <1>5, <3>1 DEF ClientInOrder, ReplayGoesOn, got
    <3>3. l < k
      BY <1>1, <3>2
    <3> HIDE DEF k
    <3> QED
      BY <1>2, <1>5, <3>1, <3>3
         DEF ClientInOrder, ReplayInOrder, Rising, m
  <2> QED
    BY <2>1, <2>2
<1>10. InOrder(longer, replay[c])
  BY <1>5, <1>6, <1>9, InOrderAppend DEF ClientInOrder, got, longer
<1>11. ReplayGoesOn(c)'
  <2> SUFFICES ASSUME NEW i \in 1 .. Len(longer),
                      NEW l \in 1 .. Len(replay[c]),
                      longer[i] = replay[c][l]
               PROVE  l <= k
    BY <1>1, <1>3 DEF ReplayGoesOn
  <2>1. CASE i \in 1 .. Len(got)
    <3>1. l <= replayed[c]
      BY <1>5, <1>7, <2>1 DEF ClientInOrder, ReplayGoesOn, got
    <3> QED
      BY <1>1, <3>1
  <2>2. CASE i = Len(got) + 1
    <3>1. replay[c][l] = replay[c][k]
      BY <1>7, <2>2 DEF m
    <3>2. ~(k < l)
      <4> HIDE DEF k
      <4>1. k < l => replay[c][k] < replay[c][l]
        BY <1>2, <1>5 DEF ClientInOrder, ReplayInOrder, Rising
      <4>2. replay[c][k] \in Nat
        BY <1>6 DEF m
      <4> QED
        BY <3>1, <4>1, <4>2
    <3> QED
      BY <1>1, <3>2
  <2> QED
    BY <1>7, <2>1, <2>2
<1>12. WireInOrder(c)' /\ ReplayInOrder(c)'
  BY <1>1, <1>5, <1>8 DEF ClientInOrder, WireInOrder, ReplayInOrder, Rising
<1>13. InOrder(Received(c), replay[c])'
  BY <1>1, <1>3, <1>10 DEF InOrder
<1> QED
  BY <1>4, <1>11, <1>12, <1>13 DEF ClientInOrder

\* Subscribe copies the end of the log.
LEMMA SubscribedInOrder ==
  ASSUME HubInv, HubTypes, Fresh, OrderInv, NEW c \in Clients, Subscribe(c)
  PROVE  \A d \in Clients : ClientInOrder(d)'
<1> USE DEF publishVars, redisVars
<1>1. /\ pc[c] = "accepted"
      /\ replay' = [replay EXCEPT ![c] = LastN(history, Cap)]
      /\ UNCHANGED <<ch, replayed, writing, written, wire, redis>>
      /\ DOMAIN replay = Clients
  BY DEF Subscribe, HubTypes, ClientShape
<1>2. \A d \in Clients : Received(d)' = Received(d)
  BY <1>1 DEF Received
<1>3. \A d \in Clients : d # c => ClientInOrder(d)'
  BY <1>1, <1>2, ClientUntouched DEF OrderInv
<1>4. Received(c) = <<>>
  BY <1>1 DEF Fresh, Received
<1>5. history \in Seq(Ids) /\ Cap \in Nat /\ Len(log) \in Nat
      /\ (redis => history = <<>>)
  BY HubConstants DEF HubTypes, PublishShape
<1> DEFINE copy == LastN(history, Cap)
<1>6. /\ Len(copy) <= Len(history) /\ copy \in Seq(Ids)
      /\ \A i \in 1 .. Len(copy) :
           copy[i] = history[Len(history) - Len(copy) + i]
  BY <1>5, LastNKeeps
<1> HIDE DEF copy
<1>7. Len(copy) \in Nat /\ Len(history) \in Nat
  BY <1>5, <1>6
<1>8. \A i \in 1 .. Len(copy) : copy[i] = Len(log) - Len(copy) + i
  <2> SUFFICES ASSUME NEW i \in 1 .. Len(copy)
               PROVE  copy[i] = Len(log) - Len(copy) + i
    OBVIOUS
  <2>1. Len(history) - Len(copy) + i \in 1 .. Len(history)
    BY <1>6, <1>7
  <2>2. history[Len(history) - Len(copy) + i]
          = Len(log) - Len(history) + (Len(history) - Len(copy) + i)
    BY <2>1 DEF OrderInv, HistoryIsTail
  <2> QED
    BY <1>5, <1>6, <1>7, <2>2
<1>9. Rising(copy)
  BY <1>5, <1>7, <1>8 DEF Rising
<1>10. redis => copy = <<>>
  <2>1. ASSUME redis PROVE Len(copy) = 0
    BY <1>5, <1>6, <1>7, <2>1, EmptySeq
  <2> QED
    BY <1>6, <2>1, EmptySeq
<1>11. replay'[c] = copy
  BY <1>1 DEF copy
<1>12. ClientInOrder(c)'
  <2>1. ReplayInOrder(c)'
    BY <1>1, <1>9, <1>10, <1>11 DEF ReplayInOrder, Rising
  <2>2. InOrder(Received(c), replay[c])' /\ ReplayGoesOn(c)'
    BY <1>2, <1>4 DEF InOrder, ReplayGoesOn
  <2>3. WireInOrder(c)'
    BY <1>1, <1>2 DEF OrderInv, ClientInOrder, WireInOrder, Rising
  <2> QED
    BY <2>1, <2>2, <2>3 DEF ClientInOrder
<1> QED
  BY <1>3, <1>12

\* A message Redis delivers comes after all the browser was sent.
LEMMA FedInOrder ==
  ASSUME HubInv, HubTypes, OrderInv, NEW c \in Clients, Feed(c)
  PROVE  \A d \in Clients : ClientInOrder(d)'
<1> USE DEF publishVars, clientVars
<1>1. /\ UNCHANGED <<replay, replayed, written, writing, redis>>
      /\ \A d \in Clients : d # c => ch'[d] = ch[d] /\ wire'[d] = wire[d]
  <2>1. DOMAIN ch = Clients /\ DOMAIN wire = Clients
    BY DEF HubTypes, ClientShape
  <2> QED
    BY <2>1 DEF Feed, FeedConfirmed, FeedDelivers, FeedEnds
<1>2. \A d \in Clients : d # c => ClientInOrder(d)'
  BY <1>1, ClientUntouched DEF OrderInv, Received
<1>3. ClientInOrder(c)
  BY DEF OrderInv
<1>4. CASE FeedConfirmed(c)
  BY <1>2, <1>3, <1>4, ClientUntouched DEF FeedConfirmed, Received
<1>5. CASE FeedEnds(c)
  <2>1. wire'[c] = <<>> /\ ch' = ch
    BY <1>5 DEF FeedEnds, HubTypes, ClientShape
  <2>2. Received(c)' = Received(c)
    BY <1>1, <2>1 DEF Received
  <2>3. WireInOrder(c)'
    BY <2>1 DEF WireInOrder, Rising
  <2> QED
    BY <1>1, <1>2, <1>3, <2>2, <2>3 DEF ClientInOrder, InOrder, ReplayInOrder,
       ReplayGoesOn, Rising
<1>6. CASE FeedDelivers(c)
  <2> DEFINE m == Head(wire[c])
             rest == Tail(wire[c])
             got == Received(c)
             longer == Append(got, m)
  <2>1. /\ wire[c] # <<>> /\ wire'[c] = rest
        /\ \/ ch' = ch
           \/ ch' = [ch EXCEPT ![c] = Append(@, m)]
    BY <1>6 DEF FeedDelivers, HubTypes, ClientShape
  <2>2. /\ got \in Seq(Nat) /\ wire[c] \in Seq(Ids) /\ wire[c] \in Seq(Nat)
        /\ Ids \subseteq Nat
    BY SeqsOfNumbers
  <2>3. /\ m \in Ids /\ m \in Nat /\ m = wire[c][1] /\ rest \in Seq(Nat)
        /\ Len(wire[c]) \in Nat \ {0} /\ Len(rest) = Len(wire[c]) - 1
        /\ \A k \in 1 .. Len(rest) : rest[k] = wire[c][k + 1]
    BY <2>1, <2>2
  <2> HIDE DEF m, rest
  <2>4. redis /\ replay[c] = <<>>
    BY <1>3, <2>1 DEF ClientInOrder, WireInOrder, ReplayInOrder
  <2>5. Rising(rest)
    BY <1>3, <2>3 DEF ClientInOrder, WireInOrder, Rising
  <2>6. \A k \in 1 .. Len(rest) : m < rest[k]
    BY <1>3, <2>3 DEF ClientInOrder, WireInOrder, Rising
  <2>7. \A i \in 1 .. Len(got) : got[i] < m
    BY <1>3, <2>3 DEF ClientInOrder, WireInOrder
  <2>8. \A i \in 1 .. Len(got), k \in 1 .. Len(rest) : got[i] < rest[k]
    BY <1>3, <2>3 DEF ClientInOrder, WireInOrder
  <2>9. ReplayInOrder(c)'
    BY <1>1, <1>3 DEF ClientInOrder, ReplayInOrder, Rising
  <2>10. ReplayGoesOn(c)'
    BY <1>1, <2>4 DEF ReplayGoesOn
  <2>11. CASE ch' = ch
    <3>1. Received(c)' = got
      BY <1>1, <2>11 DEF Received
    <3>2. WireInOrder(c)'
      BY <1>1, <2>1, <2>4, <2>5, <2>8, <3>1 DEF WireInOrder, Rising
    <3> QED
      BY <1>1, <1>2, <1>3, <2>9, <2>10, <3>1, <3>2 DEF ClientInOrder, InOrder
  <2>12. CASE ch' = [ch EXCEPT ![c] = Append(@, m)]
    <3>1. Received(c)' = longer
      BY <1>1, <2>3, <2>12, ReceivesMore
    <3>2. /\ Len(longer) = Len(got) + 1 /\ longer[Len(got) + 1] = m
          /\ \A i \in 1 .. Len(got) : longer[i] = got[i]
          /\ Len(got) \in Nat
      BY <2>2, <2>3
    <3> HIDE DEF longer
    <3>3. \A i \in 1 .. Len(longer), k \in 1 .. Len(rest) : longer[i] < rest[k]
      BY <2>6, <2>8, <3>2
    <3>4. WireInOrder(c)'
      BY <1>1, <2>1, <2>4, <2>5, <3>1, <3>3 DEF WireInOrder, Rising
    <3>5. InOrder(longer, replay[c])
      <4>1. replay[c] \in Seq(Nat)
        BY SeqsOfNumbers
      <4> HIDE DEF got
      <4>2. InOrder(got, replay[c])
        BY <1>3 DEF ClientInOrder, got
      <4> QED
        BY <2>2, <2>3, <2>7, <4>1, <4>2, InOrderAppend DEF longer
    <3>6. InOrder(Received(c), replay[c])'
      BY <1>1, <3>1, <3>5 DEF InOrder
    <3> QED
      BY <1>2, <2>9, <2>10, <3>4, <3>6 DEF ClientInOrder
  <2> QED
    BY <2>1, <2>11, <2>12
<1> QED
  BY <1>4, <1>5, <1>6 DEF Feed

\* A message handed to Redis is the latest of all.
LEMMA HandedInOrder ==
  ASSUME HubInv, HubTypes, OrderInv, NEW p \in Procs, PublishRedis(p)
  PROVE  \A d \in Clients : ClientInOrder(d)'
<1> USE DEF clientVars
<1>1. /\ redis /\ UNCHANGED <<ch, clientVars, redis>>
      /\ topic[p] \in Channels
      /\ \/ /\ log' = Append(log, topic[p])
            /\ \A d \in Clients : wire'[d] = wire[d]
                                  \/ wire'[d] = Append(wire[d], Len(log'))
         \/ wire' = wire
  BY DEF PublishRedis, HubTypes, PublishShape
<1> SUFFICES ASSUME NEW d \in Clients PROVE ClientInOrder(d)'
  OBVIOUS
<1>2. ClientInOrder(d)
  BY DEF OrderInv
<1>3. Received(d)' = Received(d)
  BY <1>1 DEF Received
<1>4. CASE wire'[d] = wire[d]
  BY <1>1, <1>2, <1>3, <1>4, ClientUntouched
<1>5. CASE /\ log' = Append(log, topic[p])
           /\ wire'[d] = Append(wire[d], Len(log'))
  <2> DEFINE m == Len(log')
             got == Received(d)
             more == Append(wire[d], m)
  <2>1. /\ m = Len(log) + 1 /\ Len(log) \in Nat
    BY <1>1, <1>5, LogGrows
  <2>2. /\ wire[d] \in Seq(Ids) /\ \A i \in 1 .. Len(got) : got[i] \in Ids
    BY SeqsOfNumbers
  <2> HIDE DEF m, got
  <2>3. /\ Len(more) = Len(wire[d]) + 1 /\ more[Len(wire[d]) + 1] = m
        /\ \A k \in 1 .. Len(wire[d]) : more[k] = wire[d][k]
        /\ Len(wire[d]) \in Nat
        /\ \A k \in 1 .. Len(wire[d]) : wire[d][k] \in Ids
    BY <2>2
  <2> HIDE DEF more
  <2>3a. /\ \A i \in 1 .. Len(got) : got[i] < m
        /\ \A k \in 1 .. Len(wire[d]) : wire[d][k] < m
    BY <2>1, <2>2, <2>3 DEF Ids
  <2>3b. /\ Rising(wire[d])
        /\ \A i \in 1 .. Len(got), k \in 1 .. Len(wire[d]) :
             got[i] < wire[d][k]
    BY <1>2 DEF ClientInOrder, WireInOrder, got
  <2>4. Rising(more)
    <3> SUFFICES ASSUME NEW i \in 1 .. Len(more), NEW j \in 1 .. Len(more),
                        i < j
                 PROVE  more[i] < more[j]
      BY DEF Rising
    <3>1. i \in 1 .. Len(wire[d]) /\ more[i] = wire[d][i]
      BY <2>3
    <3>2. CASE j = Len(wire[d]) + 1
      BY <2>3, <2>3a, <3>1, <3>2
    <3>3. CASE j \in 1 .. Len(wire[d])
      BY <2>3, <2>3b, <3>1, <3>3 DEF Rising
    <3> QED
      BY <2>3, <3>2, <3>3
  <2>5. \A i \in 1 .. Len(got), k \in 1 .. Len(more) : got[i] < more[k]
    BY <2>3, <2>3a, <2>3b
  <2>6. wire'[d] = more
    BY <1>5 DEF more, m
  <2>7. WireInOrder(d)'
    BY <1>1, <1>3, <2>4, <2>5, <2>6 DEF WireInOrder, Rising, got
  <2> QED
    BY <1>1, <1>2, <1>3, <2>7 DEF ClientInOrder, InOrder, ReplayInOrder,
       ReplayGoesOn, Rising
<1> QED
  BY <1>1, <1>4, <1>5

\* Every step keeps the order of what a browser is sent.
LEMMA ClientsNext ==
  ASSUME HubInv, HubTypes, Fresh, OrderInv, [Next]_vars
  PROVE  \A d \in Clients : ClientInOrder(d)'
<1> DEFINE Kept == \A d \in Clients : ClientInOrder(d)'
<1> USE DEF clientVars, redisVars
<1>1. ASSUME \A d \in Clients : Received(d)' = Received(d),
             UNCHANGED <<replay, replayed, wire, redis>>
      PROVE  Kept
  BY <1>1, ClientUntouched DEF OrderInv
<1>2. ASSUME NEW p \in Procs, Publish(p) PROVE Kept
  <2>1. CASE Record(p) \/ Published(p)
    <3>1. UNCHANGED <<written, writing, ch, replay, replayed, wire, redis>>
      BY <2>1 DEF Record, Published
    <3> QED
      BY <1>1, <3>1 DEF Received
  <2> QED
    BY <1>2, <2>1, SentInOrder, HandedInOrder DEF Publish
<1>3. ASSUME NEW c \in Clients, ServeWS(c) \/ ContextDone(c) \/ Disconnect(c)
      PROVE  Kept
  <2>1. CASE \/ Connected(c) \/ WriteFails(c) \/ ContextDone(c)
             \/ Disconnect(c) \/ Unsubscribe(c)
    <3>1. UNCHANGED <<written, writing, ch, replay, replayed, wire, redis>>
      BY <2>1 DEF Connected, WriteFails, ContextDone, Leave, Disconnect,
         Unsubscribe
    <3> QED
      BY <1>1, <3>1 DEF Received
  <2>2. CASE Receive(c) \/ WriteSucceeds(c)
    <3>1. UNCHANGED <<replay, replayed, wire, redis>>
      BY <2>2 DEF Receive, WriteSucceeds
    <3> QED
      BY <1>1, <2>2, <3>1, ServeMoves
  <2> QED
    BY <1>2, <1>3, <2>1, <2>2, SubscribedInOrder, ReplayedInOrder DEF ServeWS
<1>4. ASSUME NEW c \in Clients, Feed(c) PROVE Kept
  BY <1>4, FedInOrder
<1>5. ASSUME \/ ClearRoom \/ UNCHANGED vars
             \/ \E p \in Publishers, channel \in Channels : Call(p, channel)
      PROVE  Kept
  <2>1. UNCHANGED <<written, writing, ch, replay, replayed, wire, redis>>
    BY <1>5 DEF ClearRoom, vars, Call
  <2> QED
    BY <1>1, <2>1 DEF Received
<1> HIDE DEF Kept
<1>6. Kept
  BY <1>2, <1>3, <1>4, <1>5 DEF Next
<1> QED
  BY <1>6 DEF Kept

\* Without a holder of the lock nobody has subscribers left to visit.
LEMMA NobodySends ==
  ASSUME HubInv, mu = Nil
  PROVE  \A p \in Procs : sendTo[p] = {}
BY HubConstants DEF HubInv, LockIsHeld

\* The message that is being sent stays new to those still to be visited.
LEMMA LatestNext ==
  ASSUME HubInv, HubTypes, Fresh, OrderInv, [Next]_vars
  PROVE  LatestIsNew'
<1> USE DEF clientVars, redisVars
<1>1. ASSUME \A d \in Clients : Received(d)' = Received(d),
             UNCHANGED <<log, replay, sendTo>>
      PROVE  LatestIsNew'
  BY <1>1 DEF OrderInv, LatestIsNew, HubInv
<1>2. ASSUME mu = Nil, UNCHANGED sendTo PROVE LatestIsNew'
  BY <1>2, NobodySends DEF LatestIsNew
<1>3. ASSUME NEW p \in Procs, Publish(p) PROVE LatestIsNew'
  <2>1. CASE Record(p)
    <3>1. /\ mu = Nil /\ sendTo' = [sendTo EXCEPT ![p] = subscribers]
          /\ topic[p] \in Channels /\ log' = Append(log, topic[p])
          /\ UNCHANGED <<written, writing, ch, replay>>
      BY <2>1 DEF Record, HubTypes, PublishShape
    <3>2. \A q \in Procs : q # p => sendTo'[q] = {}
      BY <3>1, NobodySends DEF HubInv
    <3>3. Len(log') \notin Ids
      BY <3>1, LogGrows DEF Ids
    <3>4. ASSUME NEW c \in sendTo'[p]
          PROVE  Len(log') \notin ToSet(Received(c)') \cup ToSet(replay'[c])
      <4>1. c \in Clients
        BY <3>1, <3>4 DEF HubInv, SubscribersAreServed
      <4>2. /\ Received(c) \in Seq(Ids) /\ replay[c] \in Seq(Ids)
        BY <4>1, ReceivedType DEF HubTypes, ClientShape
      <4>3. ToSet(Received(c)) \subseteq Ids /\ ToSet(replay[c]) \subseteq Ids
        <5>1. \A s \in Seq(Ids) : ToSet(s) \subseteq Ids
          BY DEF ToSet
        <5> QED
          BY <4>2, <5>1
      <4>4. Received(c)' = Received(c)
        BY <3>1 DEF Received
      <4> QED
        BY <3>1, <3>3, <4>3, <4>4
    <3> QED
      BY <3>2, <3>4 DEF LatestIsNew
  <2>2. ASSUME NEW c \in Clients, SendTo(p, c) PROVE LatestIsNew'
    <3>1. /\ pc[p] = "sending" /\ sendTo' = [sendTo EXCEPT ![p] = @ \ {c}]
          /\ DOMAIN ch = Clients
          /\ UNCHANGED <<log, written, writing, replay>>
          /\ \A d \in Clients : d # c => ch'[d] = ch[d]
      BY <2>2 DEF SendTo, HubTypes, ClientShape
    <3>2. /\ \A q \in Procs : q # p => sendTo'[q] = {}
          /\ sendTo'[p] = sendTo[p] \ {c} /\ sendTo[p] \subseteq Clients
      BY <3>1 DEF HubInv, LockIsHeld
    <3>3. \A d \in Clients : d # c => Received(d)' = Received(d)
      BY <3>1 DEF Received
    <3> QED
      BY <3>1, <3>2, <3>3 DEF OrderInv, LatestIsNew
  <2>3. CASE Published(p)
    BY <1>1, <2>3 DEF Published, Received
  <2>4. CASE PublishRedis(p)
    BY <1>2, <2>4 DEF PublishRedis, HubTypes, PublishShape
  <2> QED
    BY <1>3, <2>1, <2>2, <2>3, <2>4 DEF Publish
<1>4. ASSUME NEW c \in Clients, Replay(c) PROVE LatestIsNew'
  <2> DEFINE m == replay[c][replayed[c] + 1]
  <2>1. /\ ch' = [ch EXCEPT ![c] = Append(@, m)]
        /\ UNCHANGED <<log, sendTo, replay, written, writing>>
        /\ replayed[c] + 1 \in 1 .. Len(replay[c]) /\ replay[c] \in Seq(Ids)
    BY <1>4 DEF Replay, publishVars, HubTypes, ClientShape
  <2>2. m \in Ids /\ m \in ToSet(replay[c])
    BY <2>1 DEF ToSet
  <2> HIDE DEF m
  <2>3. /\ Received(c)' = Append(Received(c), m)
        /\ \A d \in Clients : d # c => Received(d)' = Received(d)
    BY <2>1, <2>2, ReceivesMore
  <2>4. ToSet(Append(Received(c), m)) = ToSet(Received(c)) \cup {m}
    <3>1. Received(c) \in Seq(Ids)
      BY ReceivedType
    <3> QED
      BY <2>2, <3>1, ElementsOfAppend
  <2> QED
    BY <2>1, <2>2, <2>3, <2>4 DEF OrderInv, LatestIsNew, HubInv
<1>5. ASSUME NEW c \in Clients, ServeWS(c) \/ ContextDone(c) \/ Disconnect(c)
      PROVE  LatestIsNew'
  <2>1. CASE \/ Connected(c) \/ WriteFails(c) \/ ContextDone(c)
             \/ Disconnect(c) \/ Unsubscribe(c)
    <3>1. UNCHANGED <<written, writing, ch, replay, log, sendTo>>
      BY <2>1 DEF Connected, WriteFails, ContextDone, Leave, Disconnect,
         Unsubscribe, publishVars
    <3> QED
      BY <1>1, <3>1 DEF Received
  <2>2. CASE Receive(c) \/ WriteSucceeds(c)
    <3>1. UNCHANGED <<replay, log, sendTo>>
      BY <2>2 DEF Receive, WriteSucceeds, publishVars
    <3> QED
      BY <1>1, <2>2, <3>1, ServeMoves
  <2>3. CASE Subscribe(c)
    BY <1>2, <2>3 DEF Subscribe, publishVars
  <2> QED
    BY <1>3, <1>4, <1>5, <2>1, <2>2, <2>3 DEF ServeWS
<1>6. ASSUME NEW c \in Clients, Feed(c) PROVE LatestIsNew'
  <2>1. UNCHANGED sendTo
    BY <1>6 DEF Feed, FeedConfirmed, FeedDelivers, FeedEnds, publishVars
  <2>2. feed[c] # "none"
    BY <1>6 DEF Feed, FeedConfirmed, FeedDelivers, FeedEnds
  <2>3. mu = Nil
    BY <2>2 DEF HubTypes, NoFeed, PublishShape
  <2> QED
    BY <1>2, <2>1, <2>3
<1>7. CASE \/ ClearRoom \/ UNCHANGED vars
           \/ \E p \in Publishers, channel \in Channels : Call(p, channel)
  <2>1. UNCHANGED <<written, writing, ch, replay, log, sendTo>>
    BY <1>7 DEF ClearRoom, vars, Call, publishVars
  <2> QED
    BY <1>1, <2>1 DEF Received
<1> QED
  BY <1>3, <1>5, <1>6, <1>7 DEF Next

\* The order is kept in every reachable state.
THEOREM HubKeepsOrder == Spec => []OrderInv
<1>1. HubInv /\ HubTypes /\ Fresh /\ OrderInv /\ [Next]_vars => OrderInv'
  BY TailNext, LatestNext, ClientsNext DEF OrderInv
<1> QED
  BY <1>1, OrderInit, HubTyped, HubInductive, PTL DEF Spec

\* No message reaches a browser twice, and only the replay may be overtaken
\* (publish, Subscribe).
THEOREM MessagesComeInOrder == Spec => []LiveInOrder
<1>1. OrderInv => LiveInOrder
  BY DEF OrderInv, ClientInOrder, InOrder, LiveInOrder
<1> QED
  BY <1>1, HubKeepsOrder, PTL

-----------------------------------------------------------------------------
(* No gap.                                                                 *)

\* What a browser was sent and will be replayed.
Got(c) == ToSet(Received(c) \o ToReplay(c))

\* NoGap in terms of it.
GapFree ==
  ~redis => \A c \in subscribers : \A m \in Got(c), n \in 1 .. Len(log) :
    m < n /\ log[n] # "debug" => n \in Got(c) \/ InFlight(n, c)

\* It is the union of both, and some of the messages published.
LEMMA GotIsBoth ==
  ASSUME HubTypes, NEW c \in Clients
  PROVE  /\ Got(c) = ToSet(Received(c)) \cup ToSet(ToReplay(c))
         /\ ToReplay(c) \in Seq(Ids)
         /\ \A m : m \in ToSet(ToReplay(c)) <=>
              \E i \in replayed[c] + 1 .. Len(replay[c]) : replay[c][i] = m
<1>1. /\ replay[c] \in Seq(Ids) /\ replayed[c] \in Nat
      /\ replayed[c] <= Len(replay[c]) /\ Len(replay[c]) \in Nat
  BY DEF HubTypes, ClientShape
<1> DEFINE s == replay[c]
           k == replayed[c]
           rest == SubSeq(s, k + 1, Len(s))
<1>2. /\ rest \in Seq(Ids) /\ Len(rest) = Len(s) - k
      /\ \A i \in 1 .. Len(s) - k : rest[i] = s[k + i]
  <2>1. s \in Seq(Ids) /\ k \in 0 .. Len(s)
    BY <1>1
  <2> HIDE DEF s, k
  <2>2. rest \in Seq(Ids) /\ Len(rest) = Len(s) - k
    BY <2>1
  <2>3. \A i \in 1 .. Len(s) - k : rest[i] = s[k + i]
    BY <2>1
  <2> QED
    BY <2>2, <2>3
<1>3. DOMAIN rest = 1 .. Len(s) - k
  BY <1>2
<1>4. ToReplay(c) = rest
  BY DEF ToReplay
<1> HIDE DEF rest
<1>5. ASSUME NEW m
      PROVE  m \in ToSet(rest) <=> \E i \in k + 1 .. Len(s) : s[i] = m
  <2>1. ASSUME NEW i \in 1 .. Len(s) - k PROVE k + i \in k + 1 .. Len(s)
    BY <1>1
  <2>2. ASSUME NEW i \in k + 1 .. Len(s)
        PROVE  i - k \in 1 .. Len(s) - k /\ rest[i - k] = s[i]
    BY <1>1, <1>2
  <2>3. m \in ToSet(rest) <=> \E i \in 1 .. Len(s) - k : rest[i] = m
    BY <1>3 DEF ToSet
  <2>4. ASSUME NEW i \in 1 .. Len(s) - k, rest[i] = m
        PROVE  \E j \in k + 1 .. Len(s) : s[j] = m
    BY <1>2, <2>1, <2>4
  <2>5. ASSUME NEW j \in k + 1 .. Len(s), s[j] = m
        PROVE  \E i \in 1 .. Len(s) - k : rest[i] = m
    BY <2>2, <2>5
  <2> QED
    BY <2>3, <2>4, <2>5
<1>6. Received(c) \in Seq(Ids)
  BY ReceivedType
<1> QED
  BY <1>2, <1>4, <1>5, <1>6, ConcatElements DEF Got

\* A publish still at work has the same messages for the same subscribers.
LEMMA InFlightKept ==
  ASSUME UNCHANGED <<msg, sendTo>>,
         \A p \in Procs : pc[p] = "sending" => pc'[p] = "sending"
  PROVE  \A n, c : InFlight(n, c) => InFlight(n, c)'
BY DEF InFlight

\* Subscribers leave at most, and nothing is published or sent.
LEMMA GapsUntouched ==
  ASSUME GapFree, UNCHANGED <<log, redis>>, subscribers' \subseteq subscribers,
         ~redis => \A c \in subscribers' : Got(c)' = Got(c),
         ~redis => \A n, c : InFlight(n, c) => InFlight(n, c)'
  PROVE  GapFree'
BY DEF GapFree

\* A message is recorded: publish has it for every subscriber.
LEMMA RecordedForAll ==
  ASSUME HubInv, HubTypes, GapFree, NEW p \in Procs, Record(p)
  PROVE  GapFree'
<1>1. /\ mu = Nil /\ topic[p] \in Channels /\ log' = Append(log, topic[p])
      /\ msg' = [msg EXCEPT ![p] = Len(log')]
      /\ sendTo' = [sendTo EXCEPT ![p] = subscribers]
      /\ pc' = [pc EXCEPT ![p] = "sending"] /\ ~redis
      /\ UNCHANGED <<subscribers, redis, written, writing, ch, replay,
                     replayed>>
  BY DEF Record, clientVars, redisVars, HubTypes, PublishShape
<1>2. /\ Len(log') = Len(log) + 1 /\ Len(log) \in Nat
      /\ \A n \in 1 .. Len(log) : log'[n] = log[n]
  BY <1>1 DEF HubTypes, PublishShape
<1>3. \A c \in subscribers : Got(c)' = Got(c)
  BY <1>1 DEF Got, Received, ToReplay
<1>4. \A n, c : ~InFlight(n, c)
  BY <1>1, NobodySends DEF InFlight
<1>5. ASSUME NEW c \in subscribers, NEW n, n = Len(log')
      PROVE  InFlight(n, c)'
  BY <1>1, <1>5 DEF InFlight, HubInv, HubTypes, PublishShape
<1> SUFFICES ASSUME NEW c \in subscribers, NEW m \in Got(c),
                    NEW n \in 1 .. Len(log'), m < n, log'[n] # "debug"
             PROVE  n \in Got(c) \/ InFlight(n, c)'
  BY <1>1, <1>3 DEF GapFree
<1>6. CASE n = Len(log')
  BY <1>5, <1>6
<1>7. CASE n \in 1 .. Len(log)
  BY <1>1, <1>2, <1>4, <1>7 DEF GapFree
<1> QED
  BY <1>2, <1>6, <1>7

\* A message is sent, or dropped if it is a debug event.
LEMMA SentOrDropped ==
  ASSUME HubInv, HubTypes, GapFree, NEW p \in Procs, NEW c \in Clients,
         SendTo(p, c)
  PROVE  GapFree'
<1>1. /\ pc[p] = "sending" /\ c \in sendTo[p]
      /\ \/ ch' = [ch EXCEPT ![c] = Append(@, msg[p])]
         \/ ch' = ch /\ log[msg[p]] = "debug"
      /\ sendTo' = [sendTo EXCEPT ![p] = @ \ {c}]
      /\ UNCHANGED <<log, subscribers, redis, pc, msg, written, writing,
                     replay, replayed>>
  BY DEF SendTo, Droppable, clientVars, redisVars
<1>2. msg[p] = Len(log) /\ msg[p] \in Ids
  BY <1>1 DEF HubTypes, HolderSends, PublishShape, Ids
<1>3. \A q \in Procs : pc[q] = "sending" => q = p
  BY <1>1 DEF HubInv, LockIsHeld
<1>4. ASSUME NEW d \in Clients, d # c
      PROVE  /\ Got(d)' = Got(d)
             /\ \A n : InFlight(n, d) => InFlight(n, d)'
  <2>1. ch'[d] = ch[d]
    BY <1>1, <1>4 DEF HubTypes, ClientShape
  <2>2. Got(d)' = Got(d)
    BY <1>1, <2>1 DEF Got, Received, ToReplay
  <2>3. \A n : InFlight(n, d) => InFlight(n, d)'
    BY <1>1, <1>4 DEF InFlight, HubInv
  <2> QED
    BY <2>2, <2>3
<1>5. \A n : InFlight(n, c) => n = msg[p]
  BY <1>3 DEF InFlight
<1>6. CASE ch' = [ch EXCEPT ![c] = Append(@, msg[p])]
  <2>1. Got(c)' = Got(c) \cup {msg[p]}
    <3>1. Received(c)' = Append(Received(c), msg[p])
      BY <1>1, <1>2, <1>6, ReceivesMore
    <3>2. ToReplay(c)' = ToReplay(c)
      BY <1>1 DEF ToReplay
    <3>3. Received(c) \in Seq(Ids) /\ ToReplay(c) \in Seq(Ids)
          /\ Append(Received(c), msg[p]) \in Seq(Ids)
      <4>1. Received(c) \in Seq(Ids) /\ ToReplay(c) \in Seq(Ids)
        BY ReceivedType, GotIsBoth
      <4> QED
        BY <1>2, <4>1
    <3>4. Got(c)' = ToSet(Append(Received(c), msg[p]) \o ToReplay(c))
      BY <3>1, <3>2 DEF Got
    <3>5. Got(c)' = ToSet(Append(Received(c), msg[p])) \cup ToSet(ToReplay(c))
      <4> DEFINE longer == Append(Received(c), msg[p])
      <4>1. longer \in Seq(Ids) /\ ToReplay(c) \in Seq(Ids)
        BY <3>3
      <4> HIDE DEF longer
      <4>2. ToSet(longer \o ToReplay(c))
              = ToSet(longer) \cup ToSet(ToReplay(c))
        BY <4>1, ConcatElements
      <4> QED
        BY <3>4, <4>2 DEF longer
    <3>6. ToSet(Append(Received(c), msg[p])) = ToSet(Received(c)) \cup {msg[p]}
      BY <1>2, <3>3, ElementsOfAppend
    <3> QED
      BY <3>5, <3>6, GotIsBoth
  <2> SUFFICES ASSUME ~redis, NEW d \in subscribers, NEW m \in Got(d)',
                      NEW n \in 1 .. Len(log), m < n, log[n] # "debug"
               PROVE  n \in Got(d)' \/ InFlight(n, d)'
    BY <1>1 DEF GapFree
  <2>2. d \in Clients
    BY DEF HubInv, SubscribersAreServed
  <2>3. CASE d # c
    BY <1>4, <2>2, <2>3 DEF GapFree
  <2>4. CASE d = c /\ m = msg[p]
    BY <1>2, <2>4 DEF Ids
  <2>5. CASE d = c /\ m \in Got(c)
    BY <1>5, <2>1, <2>5 DEF GapFree
  <2> QED
    BY <2>1, <2>3, <2>4, <2>5
<1>7. CASE ch' = ch /\ log[msg[p]] = "debug"
  <2>1. Got(c)' = Got(c)
    BY <1>1, <1>7 DEF Got, Received, ToReplay
  <2> SUFFICES ASSUME ~redis, NEW d \in subscribers, NEW m \in Got(d)',
                      NEW n \in 1 .. Len(log), m < n, log[n] # "debug"
               PROVE  n \in Got(d)' \/ InFlight(n, d)'
    BY <1>1 DEF GapFree
  <2>2. d \in Clients
    BY DEF HubInv, SubscribersAreServed
  <2>3. CASE d # c
    BY <1>4, <2>2, <2>3 DEF GapFree
  <2>4. CASE d = c
    BY <1>5, <1>7, <2>1, <2>4 DEF GapFree
  <2> QED
    BY <2>3, <2>4
<1> QED
  BY <1>1, <1>6, <1>7

\* A browser that subscribes gets the end of the log.
LEMMA SubscribedGapFree ==
  ASSUME HubInv, HubTypes, Fresh, HistoryIsTail, GapFree,
         NEW c \in Clients, Subscribe(c)
  PROVE  GapFree'
<1>1. /\ pc[c] = "accepted" /\ subscribers' = subscribers \cup {c}
      /\ replay' = [replay EXCEPT ![c] = LastN(history, Cap)]
      /\ pc' = [pc EXCEPT ![c] = "replaying"]
      /\ UNCHANGED <<ch, replayed, writing, written, log, redis, msg, sendTo>>
      /\ DOMAIN replay = Clients /\ subscribers \subseteq Clients
  BY DEF Subscribe, publishVars, redisVars, HubTypes, ClientShape, HubInv,
     SubscribersAreServed
<1>2. \A n, d : InFlight(n, d) => InFlight(n, d)'
  BY <1>1, InFlightKept DEF HubInv
<1>3. \A d \in subscribers : d # c
  BY <1>1 DEF HubInv, SubscribersAreServed
<1>4. \A d \in subscribers : Got(d)' = Got(d)
  BY <1>1, <1>3 DEF Got, Received, ToReplay
<1>5. history \in Seq(Ids) /\ Cap \in Nat /\ Len(log) \in Nat
  BY HubConstants DEF HubTypes, PublishShape
<1> DEFINE copy == LastN(history, Cap)
<1>6. /\ Len(copy) <= Len(history) /\ copy \in Seq(Ids)
      /\ \A i \in 1 .. Len(copy) :
           copy[i] = history[Len(history) - Len(copy) + i]
  BY <1>5, LastNKeeps
<1>7. replay'[c] = copy /\ replayed'[c] = 0 /\ Received(c)' = <<>>
  BY <1>1 DEF Fresh, Received
<1> HIDE DEF copy
<1>8. Len(copy) \in Nat /\ Len(history) \in Nat
  BY <1>5, <1>6
<1>9. \A i \in 1 .. Len(copy) : copy[i] = Len(log) - Len(copy) + i
  <2> SUFFICES ASSUME NEW i \in 1 .. Len(copy)
               PROVE  copy[i] = Len(log) - Len(copy) + i
    OBVIOUS
  <2>1. Len(history) - Len(copy) + i \in 1 .. Len(history)
    BY <1>6, <1>8
  <2>2. history[Len(history) - Len(copy) + i]
          = Len(log) - Len(history) + (Len(history) - Len(copy) + i)
    BY <2>1 DEF HistoryIsTail
  <2> QED
    BY <1>5, <1>6, <1>8, <2>2
<1>10. Got(c)' = ToSet(copy)
  <2>1. ToReplay(c)' = copy
    BY <1>6, <1>7, SubSeqFull DEF ToReplay
  <2>2. <<>> \o copy = copy
    BY <1>6, ConcatEmptySeq
  <2> QED
    BY <1>7, <2>1, <2>2 DEF Got
<1>11. ASSUME NEW m \in ToSet(copy), NEW n \in 1 .. Len(log), m < n
       PROVE  n \in ToSet(copy)
  <2>1. DOMAIN copy = 1 .. Len(copy)
    BY <1>6
  <2>2. PICK i \in 1 .. Len(copy) : copy[i] = m
    BY <2>1 DEF ToSet
  <2>3. n - (Len(log) - Len(copy)) \in 1 .. Len(copy)
    BY <1>5, <1>8, <1>9, <1>11, <2>2
  <2>4. copy[n - (Len(log) - Len(copy))] = n
    BY <1>5, <1>8, <1>9, <2>3
  <2> QED
    BY <2>1, <2>3, <2>4 DEF ToSet
<1> SUFFICES ASSUME ~redis, NEW d \in subscribers', NEW m \in Got(d)',
                    NEW n \in 1 .. Len(log), m < n, log[n] # "debug"
             PROVE  n \in Got(d)' \/ InFlight(n, d)'
  BY <1>1 DEF GapFree
<1>12. CASE d = c
  BY <1>10, <1>11, <1>12
<1>13. CASE d \in subscribers
  BY <1>2, <1>4, <1>13 DEF GapFree
<1> QED
  BY <1>1, <1>12, <1>13

\* A message of the replay is sent: it was counted already.
LEMMA ReplayedGapFree ==
  ASSUME HubInv, HubTypes, GapFree, NEW c \in Clients, Replay(c)
  PROVE  GapFree'
<1> DEFINE k == replayed[c] + 1
           m == replay[c][k]
<1>1. /\ k <= Len(replay[c]) /\ ch' = [ch EXCEPT ![c] = Append(@, m)]
      /\ replayed' = [replayed EXCEPT ![c] = k]
      /\ UNCHANGED <<log, redis, subscribers, msg, sendTo, pc, replay, written,
                     writing>>
      /\ replayed[c] \in Nat /\ Len(replay[c]) \in Nat
      /\ replay[c] \in Seq(Ids) /\ DOMAIN replayed = Clients
      /\ DOMAIN ch = Clients
  BY DEF Replay, publishVars, redisVars, HubTypes, ClientShape
<1>2. k \in 1 .. Len(replay[c]) /\ m \in Ids
  BY <1>1
<1>3. /\ Received(c)' = Append(Received(c), m)
      /\ \A d \in Clients : d # c => Received(d)' = Received(d)
  BY <1>1, <1>2, ReceivesMore
<1>4. \A d \in Clients : d # c => Got(d)' = Got(d)
  BY <1>1, <1>3 DEF Got, ToReplay
<1>5. Got(c)' = Got(c)
  <2> DEFINE got == Received(c)
             rest == SubSeq(replay[c], k + 1, Len(replay[c]))
             before == SubSeq(replay[c], k, Len(replay[c]))
  <2>1. got \in Seq(Ids)
    BY ReceivedType
  <2>2. rest \in Seq(Ids) /\ before = <<m>> \o rest /\ <<m>> \in Seq(Ids)
    <3> DEFINE s == replay[c]
    <3>1. s \in Seq(Ids) /\ k \in 1 .. Len(s) /\ Len(s) \in k .. Len(s)
      BY <1>1, <1>2
    <3> HIDE DEF s, k
    <3>2. SubSeq(s, k, Len(s)) = <<s[k]>> \o SubSeq(s, k + 1, Len(s))
      BY <3>1, SubSeqRecursiveFirst
    <3>3. SubSeq(s, k + 1, Len(s)) \in Seq(Ids)
      BY <3>1
    <3> QED
      BY <1>2, <3>2, <3>3 DEF s
  <2>3. ToReplay(c) = before
    BY DEF ToReplay
  <2>4. ToReplay(c)' = rest
    BY <1>1 DEF ToReplay
  <2> HIDE DEF m, rest, before, got
  <2>5. Append(got, m) = got \o <<m>>
    BY <2>1
  <2>6. (got \o <<m>>) \o rest = got \o (<<m>> \o rest)
    BY <2>1, <2>2, ConcatAssociative
  <2> QED
    BY <1>3, <2>2, <2>3, <2>4, <2>5, <2>6 DEF Got, got
<1>6. subscribers \subseteq Clients
  BY DEF HubInv, SubscribersAreServed
<1>7. \A n, d : InFlight(n, d) => InFlight(n, d)'
  BY <1>1, InFlightKept
<1> QED
  BY <1>1, <1>4, <1>5, <1>6, <1>7, GapsUntouched

\* Every step leaves no gap.
LEMMA GapFreeNext ==
  ASSUME HubInv, HubTypes, Fresh, OrderInv, GapFree, [Next]_vars
  PROVE  GapFree'
<1> USE DEF clientVars, redisVars
<1>0. subscribers \subseteq Clients
  BY DEF HubInv, SubscribersAreServed
<1>1. ASSUME UNCHANGED <<log, redis, msg, sendTo, replay, replayed>>,
             subscribers' \subseteq subscribers,
             \A d \in Clients : Received(d)' = Received(d),
             \A p \in Procs : pc[p] = "sending" => pc'[p] = "sending"
      PROVE  GapFree'
  <2>1. \A d \in Clients : Got(d)' = Got(d)
    BY <1>1 DEF Got, ToReplay
  <2> QED
    BY <1>0, <1>1, <2>1, InFlightKept, GapsUntouched
<1>2. ASSUME redis, redis' PROVE GapFree'
  BY <1>2 DEF GapFree
<1>3. ASSUME NEW p \in Procs, Publish(p) PROVE GapFree'
  <2>1. CASE Published(p)
    <3>1. /\ pc[p] = "sending" /\ sendTo[p] = {}
          /\ pc' = [pc EXCEPT ![p] = AfterPublish(p)]
          /\ msg' = [msg EXCEPT ![p] = 0]
          /\ UNCHANGED <<log, redis, sendTo, subscribers, written, writing, ch,
                         replay, replayed>>
      BY <2>1 DEF Published
    <3>2. \A n, d : InFlight(n, d) => InFlight(n, d)'
      BY <3>1 DEF InFlight, HubInv, HubTypes, PublishShape
    <3>3. \A d \in Clients : Got(d)' = Got(d)
      BY <3>1 DEF Got, ToReplay, Received
    <3> QED
      BY <1>0, <3>1, <3>2, <3>3, GapsUntouched
  <2>2. CASE PublishRedis(p)
    BY <1>2, <2>2 DEF PublishRedis
  <2> QED
    BY <1>3, <2>1, <2>2, RecordedForAll, SentOrDropped DEF Publish
<1>4. ASSUME NEW c \in Clients, ServeWS(c) \/ ContextDone(c) \/ Disconnect(c)
      PROVE  GapFree'
  <2>1. CASE \/ Connected(c) \/ WriteFails(c) \/ ContextDone(c)
             \/ Disconnect(c) \/ Unsubscribe(c)
    <3>1. /\ UNCHANGED <<written, writing, ch, replay, replayed, log, redis,
                         msg, sendTo>>
          /\ subscribers' \subseteq subscribers
      BY <2>1 DEF Connected, WriteFails, ContextDone, Leave, Disconnect,
         Unsubscribe, publishVars
    <3>2. \A p \in Procs : pc[p] = "sending" => pc'[p] = "sending"
      BY <2>1 DEF Connected, WriteFails, ContextDone, Leave, Disconnect,
         Unsubscribe, HubInv
    <3> QED
      BY <1>1, <3>1, <3>2 DEF Received
  <2>2. CASE Receive(c) \/ WriteSucceeds(c)
    <3>1. UNCHANGED <<replay, replayed, log, redis, msg, sendTo, subscribers>>
      BY <2>2 DEF Receive, WriteSucceeds, publishVars
    <3>2. \A p \in Procs : pc[p] = "sending" => pc'[p] = "sending"
      BY <2>2 DEF Receive, WriteSucceeds, HubInv
    <3> QED
      BY <1>1, <2>2, <3>1, <3>2, ServeMoves
  <2> QED
    BY <1>3, <1>4, <2>1, <2>2, SubscribedGapFree, ReplayedGapFree
       DEF ServeWS, OrderInv
<1>5. ASSUME NEW c \in Clients, Feed(c) PROVE GapFree'
  <2>1. feed[c] # "none" /\ redis' = redis
    BY <1>5 DEF Feed, FeedConfirmed, FeedDelivers, FeedEnds
  <2>2. redis
    BY <2>1 DEF HubTypes, NoFeed
  <2> QED
    BY <1>2, <2>1, <2>2
<1>6. ASSUME NEW p \in Publishers, NEW channel \in Channels, Call(p, channel)
      PROVE  GapFree'
  <2>1. /\ UNCHANGED <<log, redis, msg, sendTo, subscribers, written, writing,
                       ch, replay, replayed>>
        /\ \A q \in Procs : pc[q] = "sending" => pc'[q] = "sending"
    BY <1>6 DEF Call, HubInv
  <2> QED
    BY <1>1, <2>1 DEF Received
<1>7. CASE ClearRoom
  BY <1>7 DEF ClearRoom, GapFree
<1>8. CASE UNCHANGED vars
  BY <1>1, <1>8 DEF vars, publishVars, Received
<1> QED
  BY <1>3, <1>4, <1>5, <1>6, <1>7, <1>8 DEF Next

\* A subscriber that got some message gets every transcript and metric
\* published after it (publish, Subscribe; without Redis).
THEOREM NothingIsSkipped == Spec => []NoGap
<1>1. Init => GapFree
  BY DEF Init, GapFree
<1>2. HubInv /\ HubTypes /\ Fresh /\ OrderInv /\ GapFree /\ [Next]_vars
        => GapFree'
  BY GapFreeNext
<1>3. Spec => []GapFree
  BY <1>1, <1>2, HubKeepsOrder, HubTyped, HubInductive, PTL DEF Spec
<1>4. GapFree => NoGap
  BY DEF GapFree, NoGap, Got
<1> QED
  BY <1>3, <1>4, PTL

=============================================================================
