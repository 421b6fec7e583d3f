--------------------------- MODULE RealtimeProofs ---------------------------
(***************************************************************************)
(* Delivery of events, for any number of clients, any queue, replay limit, *)
(* batch and number of events.                                             *)
(*                                                                         *)
(* Type correctness and the bounds of queues and brokers hold for any      *)
(* number of replicas.  That reconnecting loses nothing, and that a live   *)
(* subscriber is fed, hold for one replica, and rest on the order in which *)
(* things reach a subscriber: an event that it still misses was numbered   *)
(* above everything written before it, so whoever feeds the subscriber     *)
(* comes to that event before any later one.                               *)
(***************************************************************************)
EXTENDS Realtime, FiniteSetTheorems, SequenceTheorems, TLAPS

\* The numbers written so far: each was drawn once, and is in the log or will be.
NumbersInv ==
  /\ counter \in 0 .. MaxEvents
  /\ log \in Seq(Numbers)
  /\ \A i, j \in DOMAIN log : log[i] = log[j] => i = j
  /\ drawn \cap Visible = {}
  /\ drawn \cup Visible \subseteq 1 .. counter
  /\ IsFiniteSet(drawn)
  /\ Len(log) + Cardinality(drawn) = counter

\* What the watchers and relays hold comes from the log.
FeedsInv ==
  /\ published \subseteq Visible
  /\ token \in 0 .. Len(log)
  /\ watch \in [Replicas -> [step : {"off", "next", "store", "dead"}, at : 0 .. MaxEvents]]
  /\ relay \in [Replicas -> [step : {"idle", "publish", "mark"}, batch : Seq(Numbers)]]
  /\ \A p \in Replicas : watch[p].at <= Len(log) /\ Elements(relay[p].batch) \subseteq Visible
  /\ strikes \in 0 .. MaxFaults

\* A connection is good when its queue is bounded, comes from what is visible, and
\* is empty before it subscribed.
Good(s, visible) ==
  /\ s \in Connections
  /\ Elements(s.queue) \subseteq visible
  /\ Len(s.queue) <= QueueSize
  /\ s.step # "live" => s.queue = <<>> /\ ~s.dropped

\* What clients have received, and are excused from, are numbers, and the last
\* one is visible.
ReceivedInv ==
  /\ got \in [Clients -> SUBSET Numbers]
  /\ last \in [Clients -> 0 .. MaxEvents]
  /\ since \in [Clients -> SUBSET Numbers]
  /\ excused \in [Clients -> SUBSET Numbers]
  /\ \A c \in Clients : last[c] # 0 => last[c] \in Visible

\* Connections are good, and a broker admits no more of them than it may.
ClientsInv ==
  /\ ReceivedInv
  /\ conn \in [Clients -> Connections] /\ \A c \in Clients : Good(conn[c], Visible)
  /\ \A p \in Replicas : IsFiniteSet(Registered(p)) /\ Cardinality(Registered(p)) <= MaxSubscribers

TypeInv == NumbersInv /\ FeedsInv /\ ClientsInv

-----------------------------------------------------------------------------
(* The log                                                                 *)

\* A step that makes event n visible: it was not before, and was drawn before
\* or is the next number.
Written(n) ==
  /\ n \in Numbers \ Visible /\ n <= counter'
  /\ log' = Append(log, n)
  /\ excused' = Excuse(n)
  /\ UNCHANGED <<feeds, conn, got, last, since, strikes>>

\* The visible events are numbers, and the log places each of them.
LEMMA VisibleNumbers ==
  ASSUME log \in Seq(Numbers)
  PROVE  /\ Visible \subseteq Numbers
         /\ DOMAIN log = 1 .. Len(log) /\ Len(log) \in Nat
         /\ \A i \in 1 .. Len(log) : log[i] \in Visible
<1>1. DOMAIN log = 1 .. Len(log) /\ Len(log) \in Nat
  OBVIOUS
<1>2. \A i \in DOMAIN log : log[i] \in Numbers
  OBVIOUS
<1> QED
  BY <1>1, <1>2 DEF Visible

\* The log gains the event at its end.
LEMMA WrittenExtends ==
  ASSUME NumbersInv, NEW n, Written(n)
  PROVE  /\ Visible' = Visible \cup {n} /\ Len(log') = Len(log) + 1
         /\ log' \in Seq(Numbers)
         /\ log'[Len(log) + 1] = n
         /\ \A i \in 1 .. Len(log) : log'[i] = log[i]
<1>1. /\ log \in Seq(Numbers) /\ n \in Numbers /\ log' = Append(log, n)
  BY DEF NumbersInv, Written
<1>2. /\ log' \in Seq(Numbers) /\ Len(log') = Len(log) + 1 /\ log'[Len(log) + 1] = n
      /\ \A i \in 1 .. Len(log) : log'[i] = log[i]
      /\ DOMAIN log = 1 .. Len(log) /\ DOMAIN log' = 1 .. Len(log) + 1 /\ Len(log) \in Nat
  BY <1>1
<1> QED
  BY <1>2 DEF Visible

\* An event that is committed with its number is one, and so is an event
\* inserted after its number was drawn.
LEMMA WritersWrite ==
  ASSUME NumbersInv
  PROVE  /\ CommitEvent => Written(counter + 1)
         /\ \A n \in Numbers : InsertDrawn(n) => Written(n)
<1>1. ASSUME CommitEvent PROVE Written(counter + 1)
  <2>1. counter + 1 \in Numbers /\ counter + 1 \notin Visible
    BY <1>1, RealtimeAssumption DEF CommitEvent, NumbersInv, Numbers
  <2>2. counter + 1 <= counter'
    BY <1>1 DEF CommitEvent, NumbersInv
  <2> QED
    BY <1>1, <2>1, <2>2 DEF CommitEvent, Written, feeds
<1>2. ASSUME NEW n \in Numbers, InsertDrawn(n) PROVE Written(n)
  BY <1>2 DEF InsertDrawn, Written, NumbersInv, feeds
<1> QED
  BY <1>1, <1>2

\* A step writes an event, draws a number, or leaves the numbers alone.
LEMMA EventSteps ==
  ASSUME [Next]_vars
  PROVE  CommitEvent \/ (\E n \in Numbers : InsertDrawn(n)) \/ DrawNumber \/ UNCHANGED events
<1>1. ASSUME NEW p \in Replicas, Feed(p) \/ Fault(p) PROVE UNCHANGED events
  BY <1>1 DEF Feed, Fault, WatchStart, WatchNext, WatchStore, RelayFetch, RelayPublish, RelayMark,
    WatchFails, RelayFails, Restart
<1>2. ASSUME NEW c \in Clients,
             Serve(c) \/ ReplayCut(c) \/ Disconnect(c) \/ \E p \in Replicas : Connect(c, p)
      PROVE  UNCHANGED events
  BY <1>2 DEF Serve, Replay, Subscribe, Deliver, ReplayCut, Disconnect, Connect
<1>3. CASE UNCHANGED vars
  BY <1>3 DEF vars
<1> QED
  BY <1>1, <1>2, <1>3 DEF Next, Write

\* Numbers are drawn once and become visible once.
LEMMA NumbersStep ==
  ASSUME NumbersInv, [Next]_vars
  PROVE  NumbersInv'
<1>. USE RealtimeAssumption
<1>0. Cardinality(drawn) \in Nat /\ counter \in Nat
  BY FS_CardinalityType DEF NumbersInv
<1>1. ASSUME NEW n, Written(n)
      PROVE  /\ log' \in Seq(Numbers) /\ Visible' = Visible \cup {n} /\ Len(log') = Len(log) + 1
             /\ \A i, j \in DOMAIN log' : log'[i] = log'[j] => i = j
  <2>1. \A i \in 1 .. Len(log) : log'[i] = log[i] /\ log[i] # n
    BY <1>1, WrittenExtends, VisibleNumbers DEF Written, NumbersInv
  <2>2. DOMAIN log' = 1 .. Len(log) + 1 /\ DOMAIN log = 1 .. Len(log)
    BY <1>1, WrittenExtends DEF NumbersInv
  <2> QED
    BY <1>1, <2>1, <2>2, WrittenExtends DEF NumbersInv
<1>2. CASE CommitEvent
  <2>1. Written(counter + 1)
    BY <1>2, WritersWrite
  <2>2. counter' = counter + 1 /\ counter' \in 0 .. MaxEvents /\ drawn' = drawn
    BY <1>2 DEF CommitEvent, NumbersInv
  <2>3. drawn' \cap Visible' = {} /\ drawn' \cup Visible' \subseteq 1 .. counter'
    BY <1>0, <1>1, <2>1, <2>2 DEF NumbersInv
  <2> QED
    BY <1>0, <1>1, <2>1, <2>2, <2>3 DEF NumbersInv
<1>3. ASSUME NEW n \in Numbers, InsertDrawn(n) PROVE NumbersInv'
  <2>1. Written(n) /\ n \in drawn /\ drawn' = drawn \ {n} /\ counter' = counter
    BY <1>3, WritersWrite DEF InsertDrawn
  <2>2. IsFiniteSet(drawn') /\ Cardinality(drawn') = Cardinality(drawn) - 1
    BY <2>1, FS_RemoveElement DEF NumbersInv
  <2>3. drawn' \cap Visible' = {} /\ drawn' \cup Visible' \subseteq 1 .. counter'
    BY <1>1, <2>1 DEF NumbersInv
  <2>4. /\ log' \in Seq(Numbers) /\ Len(log') = Len(log) + 1
        /\ \A i, j \in DOMAIN log' : log'[i] = log'[j] => i = j
    BY <1>1, <2>1
  <2>5. Len(log') + Cardinality(drawn') = counter'
    BY <1>0, <2>1, <2>2, <2>4 DEF NumbersInv
  <2> QED
    BY <1>0, <2>1, <2>2, <2>3, <2>4, <2>5 DEF NumbersInv
<1>4. CASE DrawNumber
  <2>1. counter + 1 \notin drawn /\ counter + 1 \notin Visible
    BY <1>0 DEF NumbersInv
  <2>2. /\ counter' = counter + 1 /\ counter' \in 0 .. MaxEvents /\ drawn' = drawn \cup {counter + 1}
        /\ log' = log
    BY <1>4 DEF DrawNumber, NumbersInv
  <2>3. IsFiniteSet(drawn') /\ Cardinality(drawn') = Cardinality(drawn) + 1
    BY <2>1, <2>2, FS_AddElement DEF NumbersInv
  <2>4. Visible' = Visible
    BY <2>2 DEF Visible
  <2>5. drawn' \cap Visible' = {} /\ drawn' \cup Visible' \subseteq 1 .. counter'
    BY <1>0, <2>1, <2>2, <2>4 DEF NumbersInv
  <2> QED
    BY <1>0, <2>2, <2>3, <2>4, <2>5 DEF NumbersInv
<1>5. CASE UNCHANGED events
  BY <1>5 DEF events, NumbersInv, Visible
<1> QED
  BY <1>2, <1>3, <1>4, <1>5, EventSteps

\* What is visible stays visible, at its place, and the log is never longer than
\* the numbers drawn.
LEMMA LogGrows ==
  ASSUME NumbersInv, [Next]_vars
  PROVE  /\ Visible \subseteq Visible' /\ Len(log) \in Nat /\ Len(log') \in Nat
         /\ Len(log) <= Len(log') /\ Len(log) <= MaxEvents
         /\ \A i \in DOMAIN log : i \in DOMAIN log' /\ log'[i] = log[i]
<1>1. Len(log) \in Nat /\ Len(log) <= MaxEvents
  BY FS_CardinalityType, RealtimeAssumption DEF NumbersInv
<1>2. DOMAIN log = 1 .. Len(log) /\ NumbersInv' /\ DOMAIN log' = 1 .. Len(log') /\ Len(log') \in Nat
  BY NumbersStep DEF NumbersInv
<1>3. ASSUME NEW n, Written(n)
      PROVE  /\ Visible \subseteq Visible' /\ Len(log) <= Len(log')
             /\ \A i \in DOMAIN log : i \in DOMAIN log' /\ log'[i] = log[i]
  <2>1. /\ Visible' = Visible \cup {n} /\ Len(log') = Len(log) + 1
        /\ \A i \in 1 .. Len(log) : log'[i] = log[i]
    BY <1>3, WrittenExtends
  <2> QED
    BY <1>1, <1>2, <2>1
<1>4. CASE UNCHANGED log
  BY <1>1, <1>2, <1>4 DEF Visible
<1> QED
  BY <1>1, <1>2, <1>3, <1>4, WritersWrite, EventSteps DEF DrawNumber, events

-----------------------------------------------------------------------------
(* The feeds                                                               *)

\* Only a watcher, a relay or a fault moves the feeds, and none of them writes.
LEMMA FeedSteps ==
  ASSUME [Next]_vars
  PROVE  \/ \E p \in Replicas : (Feed(p) \/ Fault(p)) /\ UNCHANGED events
         \/ UNCHANGED <<published, token, watch, relay, strikes>>
<1>1. CASE Write
  BY <1>1 DEF Write, CommitEvent, DrawNumber, InsertDrawn, feeds
<1>2. ASSUME NEW p \in Replicas, Feed(p) \/ Fault(p) PROVE UNCHANGED events
  BY <1>2 DEF Feed, Fault, WatchStart, WatchNext, WatchStore, RelayFetch, RelayPublish, RelayMark,
    WatchFails, RelayFails, Restart
<1>3. ASSUME NEW c \in Clients,
             Serve(c) \/ ReplayCut(c) \/ Disconnect(c) \/ \E p \in Replicas : Connect(c, p)
      PROVE  UNCHANGED <<published, token, watch, relay, strikes>>
  BY <1>3 DEF Serve, Replay, Subscribe, Deliver, ReplayCut, Disconnect, Connect, feeds
<1>4. CASE UNCHANGED vars
  BY <1>4 DEF vars, feeds
<1> QED
  BY <1>1, <1>2, <1>3, <1>4 DEF Next

\* A watcher and a relay hold nothing that is not in the log.
LEMMA FeedsStep ==
  ASSUME NumbersInv, FeedsInv, [Next]_vars
  PROVE  FeedsInv'
<1>1. CASE UNCHANGED <<published, token, watch, relay, strikes>>
  BY <1>1, LogGrows DEF FeedsInv
<1>2. ASSUME NEW p \in Replicas, Feed(p) \/ Fault(p), UNCHANGED events PROVE FeedsInv'
  <2>0. /\ Visible' = Visible /\ Len(log') = Len(log) /\ Len(log) \in Nat
        /\ Len(log) <= MaxEvents /\ MaxEvents \in Nat /\ MaxFaults \in Nat /\ BatchSize \in Nat
    BY <1>2, LogGrows, RealtimeAssumption DEF events, Visible
  <2>1. CASE WatchStart(p)
    BY <2>0, <2>1 DEF WatchStart, FeedsInv
  <2>2. CASE WatchNext(p)
    BY <2>0, <2>2 DEF WatchNext, FeedsInv
  <2>3. CASE WatchStore(p)
    BY <2>0, <2>3 DEF WatchStore, FeedsInv
  <2>4. CASE RelayFetch(p)
    <3>0. PICK size \in 1 .. BatchSize : \E batch \in [1 .. size -> Pending] :
             relay' = [relay EXCEPT ![p] = [step |-> "publish", batch |-> batch]]
      BY <2>4 DEF RelayFetch
    <3>1. PICK batch \in [1 .. size -> Pending] :
             relay' = [relay EXCEPT ![p] = [step |-> "publish", batch |-> batch]]
      BY <3>0
    <3>2. size \in Nat /\ Pending \subseteq Numbers /\ Pending \subseteq Visible
      BY <2>0, VisibleNumbers DEF Pending, NumbersInv
    <3>3. batch \in Seq(Numbers) /\ Elements(batch) \subseteq Visible
      BY <3>2 DEF Elements
    <3> QED
      BY <2>0, <2>4, <3>1, <3>3 DEF RelayFetch, FeedsInv
  <2>5. CASE RelayPublish(p)
    BY <2>0, <2>5 DEF RelayPublish, FeedsInv
  <2>6. CASE RelayMark(p)
    BY <2>0, <2>6 DEF RelayMark, FeedsInv, Idle, Elements
  <2>7. CASE WatchFails(p)
    BY <2>0, <2>7 DEF WatchFails, FeedsInv, Strike
  <2>8. CASE RelayFails(p)
    BY <2>0, <2>8 DEF RelayFails, FeedsInv, Strike, Idle, Elements
  <2>9. CASE Restart(p)
    BY <2>0, <2>9 DEF Restart, FeedsInv, Strike, Idle, NotWatching, Elements
  <2> QED
    BY <1>2, <2>1, <2>2, <2>3, <2>4, <2>5, <2>6, <2>7, <2>8, <2>9 DEF Feed, Fault
<1> QED
  BY <1>1, <1>2, FeedSteps

-----------------------------------------------------------------------------
(* The broker and the connections                                          *)

\* A queue gains the first k events of a batch.
Gains(new, old, batch, k) ==
  /\ k \in 0 .. Len(batch) /\ Len(new) = Len(old) + k
  /\ \A i \in 1 .. Len(old) : new[i] = old[i]
  /\ \A i \in 1 .. k : new[Len(old) + i] = batch[i]

\* An offer keeps the order, the bound and the connection; only a subscriber
\* that is dropped misses a part of the batch.
LEMMA OfferFacts ==
  ASSUME NEW s \in Connections, NEW batch \in Seq(Numbers), Len(s.queue) <= QueueSize,
         NEW t, t = Offer(s, batch)
  PROVE  /\ t \in Connections /\ Len(t.queue) <= QueueSize
         /\ t.step = s.step /\ t.at = s.at
         /\ s.dropped => t.dropped
         /\ ~t.dropped => Gains(t.queue, s.queue, batch, Len(batch))
         /\ \E k : Gains(t.queue, s.queue, batch, k)
<1>1. /\ s.queue \in Seq(Numbers) /\ Len(s.queue) \in Nat /\ Len(batch) \in Nat
      /\ s.dropped \in BOOLEAN
      /\ s = [step |-> s.step, at |-> s.at, queue |-> s.queue, dropped |-> s.dropped]
  BY DEF Connections
<1>2. QueueSize \in Nat /\ QueueSize - Len(s.queue) \in Nat
  BY <1>1, RealtimeAssumption
<1>3. CASE Len(batch) <= QueueSize - Len(s.queue)
  <2>1. /\ t = [s EXCEPT !.queue = @ \o batch] /\ t.queue = s.queue \o batch
        /\ t.step = s.step /\ t.at = s.at /\ t.dropped = s.dropped
    BY <1>1, <1>3 DEF Offer, Connections
  <2>2. /\ t.queue \in Seq(Numbers) /\ Len(t.queue) = Len(s.queue) + Len(batch)
    BY <1>1, <2>1
  <2>3. Gains(t.queue, s.queue, batch, Len(batch))
    BY <1>1, <2>1 DEF Gains
  <2>4. t \in Connections
    BY <2>1, <2>2 DEF Connections
  <2> QED
    BY <1>1, <1>2, <1>3, <2>1, <2>2, <2>3, <2>4
<1>4. CASE ~(Len(batch) <= QueueSize - Len(s.queue))
  <2>. DEFINE room == QueueSize - Len(s.queue)
              part == SubSeq(batch, 1, room)
  <2>1. /\ t = [s EXCEPT !.queue = @ \o part, !.dropped = TRUE]
        /\ t.queue = s.queue \o part /\ t.step = s.step /\ t.at = s.at /\ t.dropped
    BY <1>1, <1>4 DEF Offer, Connections
  <2>2. part \in Seq(Numbers) /\ Len(part) = room /\ \A i \in 1 .. room : part[i] = batch[i]
    BY <1>1, <1>2, <1>4
  <2>3. t.queue \in Seq(Numbers) /\ Len(t.queue) = Len(s.queue) + room
    BY <1>1, <2>1, <2>2
  <2>4. Gains(t.queue, s.queue, batch, room)
    BY <1>1, <1>2, <1>4, <2>1, <2>2 DEF Gains
  <2>5. t \in Connections
    BY <2>1, <2>3 DEF Connections
  <2> QED
    BY <1>1, <1>2, <2>1, <2>3, <2>4, <2>5
<1> QED
  BY <1>3, <1>4

\* What a queue gains comes from the batch.
LEMMA GainsElements ==
  ASSUME NEW new \in Seq(Numbers), NEW old \in Seq(Numbers), NEW batch \in Seq(Numbers), NEW k,
         Gains(new, old, batch, k)
  PROVE  Elements(new) \subseteq Elements(old) \cup Elements(batch)
<1>1. SUFFICES ASSUME NEW i \in 1 .. Len(new)
               PROVE  new[i] \in Elements(old) \cup Elements(batch)
  BY DEF Elements
<1>2. CASE i \in 1 .. Len(old)
  BY <1>2 DEF Gains, Elements
<1>3. CASE i \notin 1 .. Len(old)
  <2>1. i - Len(old) \in 1 .. k /\ i = Len(old) + (i - Len(old)) /\ 1 .. k \subseteq DOMAIN batch
    BY <1>3 DEF Gains
  <2> QED
    BY <2>1 DEF Gains, Elements
<1> QED
  BY <1>2, <1>3

\* A client that is away: no step, no queue, not dropped.
LEMMA DisconnectedFacts ==
  /\ Disconnected \in Connections
  /\ Disconnected.step = "off" /\ Disconnected.queue = <<>> /\ ~Disconnected.dropped
<1>1. (CHOOSE p \in Replicas : TRUE) \in Replicas
  BY RealtimeAssumption
<1> QED
  BY <1>1 DEF Disconnected, Connections

\* How a connection moves from s to t, unless it subscribes: it is replaced, it
\* goes on to its next stage, it delivers, or it is offered a batch.
Moves(s, t) ==
  \/ t = s \/ t = Disconnected
  \/ /\ s.step = "off" /\ t \in Connections
     /\ t.step \in {"open", "replay"} /\ t.queue = <<>> /\ ~t.dropped
  \/ s.step = "replay" /\ t = [s EXCEPT !.step = "open"]
  \/ s.step = "live" /\ s.queue # <<>> /\ t = [s EXCEPT !.queue = Tail(@)]
  \/ /\ s.step = "live" /\ ~s.dropped
     /\ \E batch \in Seq(Numbers) : Elements(batch) \subseteq Visible /\ t = Offer(s, batch)

\* Every connection moves, or stays.
Moving ==
  conn' = [c \in Clients |-> conn'[c]] /\ \A c \in Clients : Moves(conn[c], conn'[c])

\* Good connections stay good.
LEMMA MovesKeepGood ==
  ASSUME NEW s, NEW t, NEW later, Good(s, Visible), Moves(s, t), Visible \subseteq later
  PROVE  Good(t, later)
<1>1. /\ s \in Connections /\ s.queue \in Seq(Numbers)
      /\ Elements(<<>>) = {} /\ Len(<<>>) <= QueueSize
  BY RealtimeAssumption DEF Good, Connections, Elements
<1>2. CASE t = s
  BY <1>2 DEF Good
<1>3. CASE t = Disconnected
  BY <1>1, <1>3, DisconnectedFacts DEF Good
<1>4. CASE /\ t \in Connections
           /\ t.step \in {"open", "replay"} /\ t.queue = <<>> /\ ~t.dropped
  BY <1>1, <1>4 DEF Good
<1>5. CASE s.step = "replay" /\ t = [s EXCEPT !.step = "open"]
  BY <1>1, <1>5 DEF Good, Connections
<1>6. CASE s.step = "live" /\ s.queue # <<>> /\ t = [s EXCEPT !.queue = Tail(@)]
  <2>1. /\ Tail(s.queue) \in Seq(Numbers) /\ Len(Tail(s.queue)) = Len(s.queue) - 1
        /\ Len(s.queue) \in Nat /\ QueueSize \in Nat
        /\ \A i \in 1 .. Len(s.queue) - 1 : Tail(s.queue)[i] = s.queue[i + 1]
    BY <1>1, <1>6, RealtimeAssumption
  <2>2. Elements(Tail(s.queue)) \subseteq Elements(s.queue)
    BY <1>1, <2>1 DEF Elements
  <2>3. /\ t \in Connections /\ t.queue = Tail(s.queue) /\ t.step = "live"
    BY <1>1, <1>6, <2>1 DEF Connections
  <2> QED
    BY <2>1, <2>2, <2>3 DEF Good
<1>7. ASSUME NEW batch \in Seq(Numbers), s.step = "live", Elements(batch) \subseteq Visible,
             t = Offer(s, batch)
      PROVE  Good(t, later)
  <2>1. /\ t \in Connections /\ Len(t.queue) <= QueueSize /\ t.step = "live"
        /\ \E k : Gains(t.queue, s.queue, batch, k)
    BY <1>1, <1>7, OfferFacts DEF Good
  <2>2. t.queue \in Seq(Numbers)
    BY <2>1 DEF Connections
  <2>3. Elements(t.queue) \subseteq Elements(s.queue) \cup Elements(batch)
    BY <1>1, <2>1, <2>2, GainsElements
  <2> QED
    BY <1>7, <2>1, <2>3 DEF Good
<1> QED
  BY <1>2, <1>3, <1>4, <1>5, <1>6, <1>7 DEF Moves

\* A publication offers its batch to the subscribers in the broker's set.
LEMMA PublishMoves ==
  ASSUME NEW p, NEW batch \in Seq(Numbers), Elements(batch) \subseteq Visible, Publish(p, batch)
  PROVE  \A c \in Clients : Moves(conn[c], conn'[c])
  BY DEF Publish, Moves, Registered

\* A step subscribes one client, or moves the connections.
LEMMA ConnSteps ==
  ASSUME NumbersInv, FeedsInv, ClientsInv, [Next]_vars
  PROVE  \/ Moving
         \/ \E c \in Clients :
              /\ Subscribe(c) /\ Cardinality(Registered(conn[c].at)) < MaxSubscribers
              /\ conn' = [conn EXCEPT ![c].step = "live"]
<1>0. conn = [c \in Clients |-> conn[c]]
  BY DEF ClientsInv
<1>1. UNCHANGED conn => Moving
  BY <1>0 DEF Moving, Moves
<1>2. Write \/ UNCHANGED vars => UNCHANGED conn
  BY DEF Write, CommitEvent, DrawNumber, InsertDrawn, clients, vars
<1>3. ASSUME NEW p \in Replicas, Feed(p)
      PROVE  Moving
  <2>1. CASE WatchNext(p)
    <3>1. PICK n : n = log[watch[p].at + 1]
      OBVIOUS
    <3>2. n \in Visible /\ n \in Numbers /\ Publish(p, <<n>>)
      BY <1>3, <2>1, <3>1, VisibleNumbers DEF WatchNext, NumbersInv, FeedsInv
    <3>3. <<n>> \in Seq(Numbers) /\ Elements(<<n>>) \subseteq Visible
      BY <3>2 DEF Elements
    <3> QED
      BY <3>2, <3>3, PublishMoves DEF Publish, Moving
  <2>2. CASE RelayPublish(p)
    BY <1>3, <2>2, PublishMoves DEF RelayPublish, Publish, Moving, FeedsInv
  <2>3. CASE WatchStart(p) \/ WatchStore(p) \/ RelayFetch(p) \/ RelayMark(p)
    BY <1>1, <2>3 DEF WatchStart, WatchStore, RelayFetch, RelayMark, clients
  <2> QED
    BY <1>3, <2>1, <2>2, <2>3 DEF Feed
<1>4. ASSUME NEW p \in Replicas, Fault(p)
      PROVE  Moving
  <2>1. CASE Restart(p)
    BY <2>1 DEF Restart, Moving, Moves
  <2>2. CASE WatchFails(p) \/ RelayFails(p)
    BY <1>1, <2>2 DEF WatchFails, RelayFails, clients
  <2> QED
    BY <1>4, <2>1, <2>2 DEF Fault
<1>5. ASSUME NEW c \in Clients, Replay(c) \/ ReplayCut(c) \/ Disconnect(c)
      PROVE  Moving
  BY <1>0, <1>5 DEF Replay, ReplayCut, Disconnect, Moving, Moves
<1>6. ASSUME NEW c \in Clients, Deliver(c)
      PROVE  Moving
  BY <1>0, <1>6 DEF Deliver, Moving, Moves
<1>7. ASSUME NEW c \in Clients, NEW p \in Replicas, Connect(c, p)
      PROVE  Moving
  <2>1. PICK step \in {"open", "replay"} : step = IF last[c] = 0 THEN "open" ELSE "replay"
    OBVIOUS
  <2>2. PICK t : t = [Disconnected EXCEPT !.step = step, !.at = p]
    OBVIOUS
  <2>3. /\ t \in Connections /\ t.step \in {"open", "replay"} /\ t.queue = <<>> /\ ~t.dropped
    BY <2>2, DisconnectedFacts DEF Connections
  <2>4. conn[c].step = "off" /\ conn' = [conn EXCEPT ![c] = t]
    BY <1>7, <2>1, <2>2 DEF Connect
  <2> QED
    BY <1>0, <2>3, <2>4 DEF Moving, Moves
<1>8. ASSUME NEW c \in Clients, Subscribe(c)
      PROVE  \/ Moving
             \/ /\ Cardinality(Registered(conn[c].at)) < MaxSubscribers
                /\ conn' = [conn EXCEPT ![c].step = "live"]
  BY <1>0, <1>8 DEF Subscribe, Moving, Moves
<1> QED
  BY <1>1, <1>2, <1>3, <1>4, <1>5, <1>6, <1>7, <1>8 DEF Next, Serve

\* A connection that moves joins no broker's set.
LEMMA MovesJoinNoBroker ==
  ASSUME ClientsInv, Moving, NEW p
  PROVE  Registered(p)' \subseteq Registered(p)
<1>1. SUFFICES ASSUME NEW c \in Clients, NEW s, NEW t, s = conn[c], t = conn'[c],
                      Moves(s, t), t.step = "live", t.at = p, ~t.dropped
               PROVE  s.step = "live" /\ s.at = p /\ ~s.dropped
  BY DEF Registered, Moving
<1>2. s \in Connections /\ Len(s.queue) <= QueueSize
  BY <1>1 DEF ClientsInv, Good
<1>3. ASSUME NEW batch \in Seq(Numbers), t = Offer(s, batch), s.step = "live"
      PROVE  s.step = "live" /\ s.at = p /\ ~s.dropped
  BY <1>1, <1>2, <1>3, OfferFacts
<1>4. CASE s.step = "live" /\ s.queue # <<>> /\ t = [s EXCEPT !.queue = Tail(@)]
  BY <1>1, <1>2, <1>4 DEF Connections
<1>5. CASE s.step = "replay" /\ t = [s EXCEPT !.step = "open"]
  BY <1>1, <1>2, <1>5 DEF Connections
<1>6. CASE t = s \/ t = Disconnected \/ t.step \in {"open", "replay"}
  BY <1>1, <1>6, DisconnectedFacts
<1> QED
  BY <1>1, <1>3, <1>4, <1>5, <1>6 DEF Moves

\* A broker admits no more subscribers than it may.
LEMMA BrokerStep ==
  ASSUME NumbersInv, FeedsInv, ClientsInv, [Next]_vars, NEW p \in Replicas
  PROVE  IsFiniteSet(Registered(p)') /\ Cardinality(Registered(p)') <= MaxSubscribers
<1>1. IsFiniteSet(Registered(p)) /\ Cardinality(Registered(p)) <= MaxSubscribers
  BY DEF ClientsInv
<1>2. Cardinality(Registered(p)) \in Nat
  BY <1>1, FS_CardinalityType
<1>3. CASE Moving
  <2>1. Registered(p)' \subseteq Registered(p)
    BY <1>3, MovesJoinNoBroker
  <2>2. IsFiniteSet(Registered(p)') /\ Cardinality(Registered(p)') <= Cardinality(Registered(p))
    BY <1>1, <2>1, FS_Subset
  <2> QED
    BY <1>1, <1>2, <2>2, FS_CardinalityType, RealtimeAssumption
<1>4. ASSUME NEW c \in Clients, Cardinality(Registered(conn[c].at)) < MaxSubscribers,
             conn' = [conn EXCEPT ![c].step = "live"]
      PROVE  IsFiniteSet(Registered(p)') /\ Cardinality(Registered(p)') <= MaxSubscribers
  <2>1. /\ conn'[c].at = conn[c].at /\ conn \in [Clients -> Connections]
        /\ \A x \in Clients \ {c} : conn'[x] = conn[x]
    BY <1>4 DEF ClientsInv, Connections
  <2>2. CASE conn[c].at = p
    <3>1. Registered(p)' \subseteq Registered(p) \cup {c}
      BY <1>4, <2>1 DEF Registered
    <3>2. /\ IsFiniteSet(Registered(p) \cup {c})
          /\ Cardinality(Registered(p) \cup {c}) <= Cardinality(Registered(p)) + 1
      BY <1>1, <1>2, FS_AddElement
    <3>3. IsFiniteSet(Registered(p)') /\ Cardinality(Registered(p)') <= Cardinality(Registered(p) \cup {c})
      BY <3>1, <3>2, FS_Subset
    <3> QED
      BY <1>2, <1>4, <2>2, <3>2, <3>3, FS_CardinalityType, RealtimeAssumption
  <2>3. CASE conn[c].at # p
    <3>1. Registered(p)' \subseteq Registered(p)
      BY <1>4, <2>1, <2>3 DEF Registered
    <3>2. IsFiniteSet(Registered(p)') /\ Cardinality(Registered(p)') <= Cardinality(Registered(p))
      BY <1>1, <3>1, FS_Subset
    <3> QED
      BY <1>1, <1>2, <3>2, FS_CardinalityType, RealtimeAssumption
  <2> QED
    BY <2>2, <2>3
<1> QED
  BY <1>3, <1>4, ConnSteps

\* A replay, a delivery, a subscription or a write changes what is known of a
\* client; nothing else does.
LEMMA ClientSteps ==
  ASSUME [Next]_vars
  PROVE  \/ \E c \in Clients : Replay(c) \/ ReplayCut(c) \/ Subscribe(c) \/ Deliver(c)
         \/ CommitEvent \/ \E n \in Numbers : InsertDrawn(n)
         \/ UNCHANGED <<log, got, last, since, excused>>
<1>1. CASE DrawNumber
  BY <1>1 DEF DrawNumber, clients
<1>2. ASSUME NEW p \in Replicas, Feed(p) \/ Fault(p)
      PROVE  UNCHANGED <<log, got, last, since, excused>>
  BY <1>2 DEF Feed, Fault, WatchStart, WatchNext, WatchStore, RelayFetch, RelayPublish, RelayMark,
    WatchFails, RelayFails, Restart, events, clients
<1>3. ASSUME NEW c \in Clients, Disconnect(c) \/ \E p \in Replicas : Connect(c, p)
      PROVE  UNCHANGED <<log, got, last, since, excused>>
  BY <1>3 DEF Disconnect, Connect, events
<1>4. CASE UNCHANGED vars
  BY <1>4 DEF vars, clients, events
<1> QED
  BY <1>1, <1>2, <1>3, <1>4 DEF Next, Write, Serve

\* What clients have received, and are excused from, are visible numbers.
LEMMA ClientsStep ==
  ASSUME NumbersInv, FeedsInv, ClientsInv, [Next]_vars
  PROVE  ClientsInv'
<1>0. /\ Visible \subseteq Visible' /\ Visible' \subseteq Numbers /\ Visible \subseteq Numbers
      /\ Numbers \subseteq 0 .. MaxEvents
  BY LogGrows, NumbersStep, VisibleNumbers, RealtimeAssumption DEF NumbersInv, Numbers
<1>1. conn' \in [Clients -> Connections] /\ \A c \in Clients : Good(conn'[c], Visible')
  <2>1. CASE Moving
    <3>1. ASSUME NEW c \in Clients PROVE Good(conn'[c], Visible')
      <4>1. Good(conn[c], Visible) /\ Moves(conn[c], conn'[c])
        BY <2>1 DEF ClientsInv, Moving
      <4> QED
        BY <1>0, <4>1, MovesKeepGood
    <3> QED
      BY <2>1, <3>1 DEF Moving, Good
  <2>2. ASSUME NEW c \in Clients, conn' = [conn EXCEPT ![c].step = "live"]
        PROVE  conn' \in [Clients -> Connections] /\ \A x \in Clients : Good(conn'[x], Visible')
    BY <1>0, <2>2 DEF ClientsInv, Good, Connections
  <2> QED
    BY <2>1, <2>2, ConnSteps
<1>2. ReceivedInv'
  <2>1. ASSUME NEW n \in Numbers, Written(n) PROVE ReceivedInv'
    BY <1>0, <2>1 DEF Written, Excuse, ClientsInv, ReceivedInv
  <2>2. ASSUME NEW c \in Clients, Replay(c) \/ ReplayCut(c) PROVE ReceivedInv'
    <3>1. Missed(c) \subseteq Visible
      BY DEF Missed
    <3> QED
      BY <1>0, <2>2, <3>1 DEF Replay, ReplayCut, ClientsInv, ReceivedInv
  <2>3. ASSUME NEW c \in Clients, Subscribe(c) PROVE ReceivedInv'
    BY <1>0, <2>3 DEF Subscribe, ClientsInv, ReceivedInv
  <2>4. ASSUME NEW c \in Clients, Deliver(c) PROVE ReceivedInv'
    <3>1. Head(conn[c].queue) \in Elements(conn[c].queue)
      BY <2>4 DEF Deliver, ClientsInv, Connections, Elements
    <3>2. Head(conn[c].queue) \in Visible
      BY <3>1 DEF ClientsInv, Good
    <3> QED
      BY <1>0, <2>4, <3>2 DEF Deliver, ClientsInv, ReceivedInv
  <2>5. CASE UNCHANGED <<log, got, last, since, excused>>
    BY <1>0, <2>5 DEF ClientsInv, ReceivedInv
  <2> QED
    BY <2>1, <2>2, <2>3, <2>4, <2>5, ClientSteps, WritersWrite DEF Written
<1> QED
  BY <1>1, <1>2, BrokerStep DEF ClientsInv

\* The first state has no event and no connection.
LEMMA TypeInitially == Init => TypeInv
<1>. SUFFICES ASSUME Init PROVE TypeInv
  OBVIOUS
<1>. USE RealtimeAssumption
<1>1. Visible = {} /\ Elements(<<>>) = {} /\ \A p : Registered(p) = {}
  BY DisconnectedFacts DEF Init, Visible, Elements, Registered
<1>2. NumbersInv
  BY <1>1, FS_EmptySet DEF Init, NumbersInv
<1>3. FeedsInv
  BY <1>1 DEF Init, FeedsInv, NotWatching, Idle
<1>4. ReceivedInv
  BY DEF Init, ReceivedInv
<1>5. Good(Disconnected, Visible)
  BY <1>1, DisconnectedFacts DEF Good
<1>6. IsFiniteSet({}) /\ Cardinality({}) <= MaxSubscribers
  BY FS_EmptySet
<1>7. ClientsInv
  BY <1>1, <1>4, <1>5, <1>6, DisconnectedFacts DEF Init, ClientsInv
<1> QED
  BY <1>2, <1>3, <1>7 DEF TypeInv

\* Every reachable state satisfies the inductive invariant of types and places,
\* whatever the number of replicas.
THEOREM TypesInductive == Spec => []TypeInv
<1>1. TypeInv /\ [Next]_vars => TypeInv'
  BY NumbersStep, FeedsStep, ClientsStep DEF TypeInv
<1> QED
  BY <1>1, TypeInitially, PTL DEF Spec

\* Every reachable state is well typed: no queue and no broker is fuller than it
\* may be, and the resume token points into the log.
THEOREM RealtimeTyped == Spec => []TypeOK
<1>1. TypeInv => TypeOK
  <2>1. ASSUME NumbersInv PROVE drawn \subseteq Numbers
    BY <2>1, RealtimeAssumption DEF NumbersInv, Numbers
  <2> QED
    BY <2>1 DEF TypeInv, NumbersInv, FeedsInv, ClientsInv, ReceivedInv, Good, TypeOK
<1> QED
  BY <1>1, TypesInductive, PTL

-----------------------------------------------------------------------------
(* What a subscriber is still owed, with one replica                       *)

\* The replicas share one resume token and one outbox: with several, a watcher
\* that starts late skips what another one stored, and a relay marks what the
\* others' subscribers have not been told.
OneReplica == \A p, q \in Replicas : p = q

\* What the client is owed and not excused, and what of it is not in its queue.
Uncovered(c) == Owed(c) \ excused[c]
Missing(c) == Uncovered(c) \ Elements(conn[c].queue)

\* In this sequence nothing greater than m comes before m.
Precedes(m, s) == \A i \in DOMAIN s : m < s[i] => \E j \in DOMAIN s : j < i /\ s[j] = m

\* An event that some client is not excused was numbered above all before it.
InOrder ==
  \A c \in Clients : \A j \in DOMAIN log : log[j] \notin excused[c] =>
    \A i \in DOMAIN log : i < j => log[i] < log[j]

\* The last event received is below all that is still owed.
Below(c) == \A m \in Uncovered(c) : last[c] < m

\* The queue brings an event that is owed before any later one.
QueueOrder(c) == \A m \in Uncovered(c) : Precedes(m, conn[c].queue)

\* While the watcher would start at the present, nothing is owed.
HeardAll(c) == watch[conn[c].at].step = "off" /\ token = 0 => Uncovered(c) = {}

\* The watcher, unless it is dead, is before every event the client misses.
WatchedTo(c) ==
  IF watch[conn[c].at].step = "off" THEN token ELSE watch[conn[c].at].at
Fed(c) ==
  watch[conn[c].at].step # "dead" =>
    \A m \in Missing(c) : \E i \in DOMAIN log : log[i] = m /\ i > WatchedTo(c)

\* The relay has not marked, and is not about to mark, what the client misses,
\* and its batch brings it before any later event.
Unrelayed(c) ==
  \A m \in Missing(c) :
    /\ m \notin published
    /\ \A p \in Replicas :
         /\ relay[p].step = "mark" => m \notin Elements(relay[p].batch)
         /\ relay[p].step = "publish" => Precedes(m, relay[p].batch)

Kept(c) ==
  /\ Below(c)
  /\ conn[c].step = "live" => QueueOrder(c) /\ HeardAll(c)
  /\ conn[c].step = "live" /\ ~conn[c].dropped => Fed(c) /\ Unrelayed(c)

PromiseInv == InOrder /\ \A c \in Clients : Kept(c)

-----------------------------------------------------------------------------
\* A queue keeps the order when it gains events in order.
LEMMA PrecedesGains ==
  ASSUME NEW new \in Seq(Numbers), NEW old \in Seq(Numbers), NEW batch \in Seq(Numbers), NEW k,
         Gains(new, old, batch, k), NEW m, Precedes(m, old),
         m \in Elements(old) \/ Precedes(m, batch)
  PROVE  Precedes(m, new)
<1>1. SUFFICES ASSUME NEW i \in 1 .. Len(new), m < new[i]
               PROVE  \E j \in 1 .. Len(new) : j < i /\ new[j] = m
  BY DEF Precedes
<1>2. /\ k \in 0 .. Len(batch) /\ Len(new) = Len(old) + k /\ Len(old) \in Nat /\ Len(batch) \in Nat
      /\ \A j \in 1 .. Len(old) : new[j] = old[j]
      /\ \A j \in 1 .. k : new[Len(old) + j] = batch[j]
  BY DEF Gains
<1>3. CASE i <= Len(old)
  <2>1. PICK j \in 1 .. Len(old) : j < i /\ old[j] = m
    BY <1>1, <1>2, <1>3 DEF Precedes
  <2> QED
    BY <1>2, <2>1
<1>4. CASE i > Len(old) /\ m \in Elements(old)
  <2>1. PICK j \in 1 .. Len(old) : old[j] = m
    BY <1>4 DEF Elements
  <2> QED
    BY <1>2, <1>4, <2>1
<1>5. CASE i > Len(old) /\ Precedes(m, batch)
  <2>1. PICK n : n = i - Len(old)
    OBVIOUS
  <2>2. n \in 1 .. k /\ i = Len(old) + n /\ n \in DOMAIN batch
    BY <1>2, <1>5, <2>1
  <2>3. m < batch[n]
    BY <1>1, <1>2, <2>2
  <2>4. PICK j \in 1 .. Len(batch) : j < n /\ batch[j] = m
    BY <1>5, <2>2, <2>3 DEF Precedes
  <2>5. j \in 1 .. k /\ Len(old) + j \in 1 .. Len(new) /\ Len(old) + j < i
    BY <1>2, <2>2, <2>4
  <2> QED
    BY <1>2, <2>4, <2>5
<1> QED
  BY <1>2, <1>3, <1>4, <1>5

\* A queue keeps what it held, and gains all of a batch that fits.
LEMMA GainsAll ==
  ASSUME NEW new \in Seq(Numbers), NEW old \in Seq(Numbers), NEW batch \in Seq(Numbers), NEW k,
         Gains(new, old, batch, k)
  PROVE  /\ Elements(old) \subseteq Elements(new)
         /\ k = Len(batch) => Elements(batch) \subseteq Elements(new)
<1>1. ASSUME NEW i \in 1 .. Len(old) PROVE old[i] \in Elements(new)
  <2>1. i \in DOMAIN new /\ new[i] = old[i]
    BY DEF Gains
  <2> QED
    BY <2>1 DEF Elements
<1>2. ASSUME k = Len(batch), NEW i \in 1 .. Len(batch) PROVE batch[i] \in Elements(new)
  <2>1. Len(old) + i \in DOMAIN new /\ new[Len(old) + i] = batch[i]
    BY <1>2 DEF Gains
  <2> QED
    BY <2>1 DEF Elements
<1> QED
  BY <1>1, <1>2 DEF Elements

\* What is at the head of a queue in order is not above what is owed, and the
\* rest is in order too.
LEMMA PrecedesTail ==
  ASSUME NEW s \in Seq(Numbers), s # <<>>, NEW m \in Numbers \ {Head(s)}, Precedes(m, s)
  PROVE  Head(s) < m /\ Precedes(m, Tail(s))
<1>1. /\ Len(s) \in Nat /\ Len(s) >= 1 /\ Head(s) = s[1] /\ Head(s) \in Numbers
      /\ Len(Tail(s)) = Len(s) - 1 /\ DOMAIN Tail(s) = 1 .. Len(s) - 1
      /\ \A i \in 1 .. Len(s) - 1 : Tail(s)[i] = s[i + 1]
  OBVIOUS
<1>2. ~(m < Head(s))
  BY <1>1 DEF Precedes
<1>3. ASSUME NEW i \in 1 .. Len(s) - 1, m < Tail(s)[i]
      PROVE  \E j \in 1 .. Len(s) - 1 : j < i /\ Tail(s)[j] = m
  <2>1. i + 1 \in DOMAIN s /\ m < s[i + 1]
    BY <1>1, <1>3
  <2>2. PICK j \in 1 .. Len(s) : j < i + 1 /\ s[j] = m
    BY <2>1 DEF Precedes
  <2>3. j # 1
    BY <1>1, <2>2
  <2>4. j - 1 \in 1 .. Len(s) - 1 /\ j - 1 < i /\ Tail(s)[j - 1] = m
    BY <1>1, <2>2, <2>3
  <2> QED
    BY <2>4
<1>4. Head(s) < m
  BY <1>1, <1>2 DEF Numbers
<1> QED
  BY <1>1, <1>3, <1>4 DEF Precedes

\* What is above a whole sequence is not overtaken in it.
LEMMA HighestPrecedes ==
  ASSUME NEW s, NEW m \in Numbers, NEW known \in SUBSET Numbers, Elements(s) \subseteq known,
         \A x \in known : x < m
  PROVE  Precedes(m, s)
<1>1. ASSUME NEW i \in DOMAIN s PROVE ~(m < s[i])
  <2>1. s[i] \in Numbers /\ s[i] < m
    BY <1>1 DEF Elements
  <2> QED
    BY <2>1 DEF Numbers
<1> QED
  BY <1>1 DEF Precedes

-----------------------------------------------------------------------------
\* What is owed and not excused is a visible number, and so is what is missing.
LEMMA OwedIsVisible ==
  ASSUME NumbersInv, NEW c
  PROVE  Missing(c) \subseteq Uncovered(c) /\ Uncovered(c) \subseteq Visible /\ Visible \subseteq Numbers
  BY VisibleNumbers DEF Missing, Uncovered, Owed, NumbersInv

\* A write is above everything visible, unless all are excused from it.
LEMMA WrittenIsHighest ==
  ASSUME NumbersInv, NEW n, Written(n)
  PROVE  n < counter \/ \A m \in Visible : m < n
<1>1. counter \in Nat /\ n \in Nat /\ Visible \subseteq 1 .. counter /\ n \notin Visible
  BY RealtimeAssumption DEF NumbersInv, Written, Numbers
<1> QED
  BY <1>1

\* The log stays in order.
LEMMA InOrderStep ==
  ASSUME TypeInv, InOrder, [Next]_vars
  PROVE  InOrder'
<1>1. ASSUME NEW n, Written(n) PROVE InOrder'
  <2>1. SUFFICES ASSUME NEW c \in Clients, NEW j \in DOMAIN log', log'[j] \notin excused'[c],
                        NEW i \in DOMAIN log', i < j
                 PROVE  log'[i] < log'[j]
    BY DEF InOrder
  <2>2. /\ Len(log) \in Nat /\ DOMAIN log = 1 .. Len(log) /\ DOMAIN log' = 1 .. Len(log) + 1
        /\ log'[Len(log) + 1] = n /\ \A x \in 1 .. Len(log) : log'[x] = log[x] /\ log[x] \in Visible
    BY <1>1, WrittenExtends, VisibleNumbers DEF TypeInv, NumbersInv
  <2>3. i \in 1 .. Len(log)
    BY <2>1, <2>2
  <2>4. excused[c] \subseteq excused'[c] /\ (n < counter => n \in excused'[c])
    BY <1>1 DEF Written, Excuse
  <2>5. CASE j = Len(log) + 1
    BY <1>1, <2>1, <2>2, <2>3, <2>4, <2>5, WrittenIsHighest DEF TypeInv
  <2>6. CASE j # Len(log) + 1
    BY <2>1, <2>2, <2>3, <2>4, <2>6 DEF InOrder
  <2> QED
    BY <2>5, <2>6
<1>2. ASSUME UNCHANGED log, \A c \in Clients : excused[c] \subseteq excused'[c] PROVE InOrder'
  BY <1>2 DEF InOrder
<1>3. ASSUME NEW c \in Clients, Replay(c) \/ ReplayCut(c) \/ Subscribe(c) \/ Deliver(c)
      PROVE  UNCHANGED log /\ \A x \in Clients : excused[x] \subseteq excused'[x]
  BY <1>3 DEF Replay, ReplayCut, Subscribe, Deliver, events, TypeInv, ClientsInv, ReceivedInv
<1>4. CASE UNCHANGED <<log, excused>>
  BY <1>2, <1>4
<1> QED
  BY <1>1, <1>2, <1>3, <1>4, ClientSteps, WritersWrite DEF TypeInv

-----------------------------------------------------------------------------
\* Nothing known of a client changes.
SameHistory(c) ==
  /\ got'[c] = got[c] /\ last'[c] = last[c] /\ since'[c] = since[c] /\ excused'[c] = excused[c]

\* The promise to a client is about its own connection and history, the log and
\* the feeds.
LEMMA UntouchedKept ==
  ASSUME NEW c \in Clients, Kept(c), UNCHANGED <<log, published, token, watch, relay>>,
         conn'[c] = conn[c], SameHistory(c)
  PROVE  Kept(c)'
  BY DEF Kept, SameHistory, Below, QueueOrder, HeardAll, Fed, Unrelayed, WatchedTo, Missing, Uncovered,
    Owed, Visible

\* A client that is not subscribed is promised only that it knows what lies below
\* its last event.
LEMMA AwayKept ==
  ASSUME NEW c \in Clients, Kept(c), UNCHANGED log, conn'[c].step # "live", SameHistory(c)
  PROVE  Kept(c)'
  BY DEF Kept, SameHistory, Below, Uncovered, Owed, Visible

\* A write: whoever is not excused from it is fed by a watcher that is before
\* it, and holds nothing above it.
LEMMA WrittenKept ==
  ASSUME TypeInv, NEW n, Written(n), NEW c \in Clients, Kept(c)
  PROVE  Kept(c)'
<1>1. /\ n \in Numbers \ Visible /\ conn'[c] = conn[c] /\ got'[c] = got[c] /\ last'[c] = last[c]
      /\ since'[c] = since[c] /\ UNCHANGED <<published, token, watch, relay>>
      /\ excused'[c] = IF n < counter \/ (conn[c].step = "live" /\ Deaf(conn[c].at))
                        THEN excused[c] \cup {n} ELSE excused[c]
  BY DEF Written, feeds, Excuse
<1>2. /\ Visible' = Visible \cup {n} /\ Len(log) \in Nat /\ DOMAIN log = 1 .. Len(log)
      /\ DOMAIN log' = 1 .. Len(log) + 1 /\ log'[Len(log) + 1] = n
      /\ \A i \in 1 .. Len(log) : log'[i] = log[i]
  BY WrittenExtends DEF TypeInv, NumbersInv
<1>3. ASSUME NEW m \in Uncovered(c)', m \notin Uncovered(c)
      PROVE  /\ m = n /\ ~(conn[c].step = "live" /\ Deaf(conn[c].at))
             /\ \A x \in Visible : x < m
  <2>1. m = n /\ n \notin excused'[c]
    BY <1>1, <1>2, <1>3 DEF Uncovered, Owed
  <2> QED
    BY <1>1, <2>1, WrittenIsHighest DEF TypeInv
<1>4. \A m \in Missing(c)' : m \in Missing(c) \/ (m = n /\ m \in Uncovered(c)' /\ m \notin Uncovered(c))
  BY <1>1, <1>2, <1>3, OwedIsVisible DEF Missing, TypeInv
<1>5. Elements(conn[c].queue) \subseteq Visible
  BY DEF TypeInv, ClientsInv, Good
<1>6. Below(c)'
  <2>1. last[c] = 0 \/ last[c] \in Visible
    BY DEF TypeInv, ClientsInv, ReceivedInv
  <2> QED
    BY <1>1, <1>3, <2>1 DEF Below, Kept, Numbers
<1>7. ASSUME conn[c].step = "live" PROVE QueueOrder(c)'
  <2>1. \A m \in Numbers : (\A x \in Visible : x < m) => Precedes(m, conn[c].queue)
    BY <1>5, VisibleNumbers, HighestPrecedes DEF TypeInv, NumbersInv
  <2> QED
    BY <1>1, <1>3, <1>7, <2>1 DEF QueueOrder, Kept
<1>8. ASSUME conn[c].step = "live" PROVE HeardAll(c)'
  BY <1>1, <1>3, <1>8 DEF HeardAll, Deaf, Kept
<1>9. ASSUME conn[c].step = "live", ~conn[c].dropped PROVE Fed(c)'
  <2>1. SUFFICES ASSUME watch[conn[c].at].step # "dead", NEW m \in Missing(c)'
                 PROVE  \E i \in DOMAIN log' : log'[i] = m /\ i > WatchedTo(c)
    BY <1>1 DEF Fed, WatchedTo
  <2>2. CASE m \in Missing(c)
    BY <1>2, <1>9, <2>1, <2>2 DEF Fed, Kept
  <2>3. CASE m = n
    <3>1. conn[c].at \in Replicas
      BY DEF TypeInv, ClientsInv, Connections
    <3>2. WatchedTo(c) \in Nat /\ WatchedTo(c) <= Len(log)
      BY <1>2, <3>1 DEF WatchedTo, TypeInv, FeedsInv
    <3> QED
      BY <1>2, <2>3, <3>2
  <2> QED
    BY <1>4, <2>2, <2>3
<1>10. ASSUME conn[c].step = "live", ~conn[c].dropped PROVE Unrelayed(c)'
  <2>1. ASSUME NEW m \in Missing(c)', m \notin Missing(c), NEW p \in Replicas
        PROVE  m \notin published /\ m \notin Elements(relay[p].batch) /\ Precedes(m, relay[p].batch)
    <3>1. m = n /\ \A x \in Visible : x < m
      BY <1>3, <1>4, <2>1
    <3>2. published \subseteq Visible /\ Elements(relay[p].batch) \subseteq Visible
      BY DEF TypeInv, FeedsInv
    <3>3. Precedes(m, relay[p].batch)
      BY <1>1, <3>1, <3>2, VisibleNumbers, HighestPrecedes DEF TypeInv, NumbersInv
    <3> QED
      BY <1>1, <3>1, <3>2, <3>3
  <2>2. ASSUME NEW m \in Missing(c)', m \notin Missing(c) PROVE m \notin published
    <3>1. PICK p : p \in Replicas
      BY RealtimeAssumption
    <3> QED
      BY <2>1, <2>2, <3>1
  <2> QED
    BY <1>1, <1>10, <2>1, <2>2 DEF Unrelayed, Kept
<1> QED
  BY <1>1, <1>6, <1>7, <1>8, <1>9, <1>10 DEF Kept

\* A publication leaves what is known of the clients alone, and a batch in order
\* keeps the queues in order; who stays in the broker's set has the whole batch.
LEMMA PublishedOrder ==
  ASSUME TypeInv, OneReplica, NEW p \in Replicas, NEW batch \in Seq(Numbers), Publish(p, batch),
         UNCHANGED <<log, got, last, since, excused>>,
         NEW c \in Clients, Kept(c), conn[c].step = "live",
         ~conn[c].dropped => \A m \in Missing(c) : Precedes(m, batch)
  PROVE  /\ conn'[c].step = "live" /\ conn'[c].at = p /\ conn[c].at = p
         /\ Uncovered(c)' = Uncovered(c) /\ Below(c)' /\ QueueOrder(c)'
         /\ ~conn'[c].dropped =>
              ~conn[c].dropped /\ Missing(c)' \subseteq Missing(c) \ Elements(batch)
<1>1. /\ conn[c] \in Connections /\ conn[c].at = p /\ Len(conn[c].queue) <= QueueSize
      /\ conn[c].queue \in Seq(Numbers)
  BY DEF TypeInv, ClientsInv, Good, Connections, OneReplica
<1>2. Uncovered(c)' = Uncovered(c) /\ Below(c)'
  BY DEF Uncovered, Owed, Visible, Below, Kept
<1>3. CASE conn[c].dropped
  <2>1. conn'[c] = conn[c]
    BY <1>3 DEF Publish, Registered
  <2> QED
    BY <1>1, <1>2, <1>3, <2>1 DEF QueueOrder, Kept
<1>4. CASE ~conn[c].dropped
  <2>1. PICK t : t = Offer(conn[c], batch)
    OBVIOUS
  <2>2. conn'[c] = t
    BY <1>1, <1>4, <2>1 DEF Publish, Registered
  <2>3. /\ t \in Connections /\ t.step = "live" /\ t.at = p
        /\ ~t.dropped => Gains(t.queue, conn[c].queue, batch, Len(batch))
        /\ \E k : Gains(t.queue, conn[c].queue, batch, k)
    BY <1>1, <2>1, OfferFacts
  <2>4. t.queue \in Seq(Numbers)
    BY <2>3 DEF Connections
  <2>5. PICK k : Gains(t.queue, conn[c].queue, batch, k)
    BY <2>3
  <2>6. ASSUME NEW m \in Uncovered(c) PROVE Precedes(m, t.queue)
    <3>1. Precedes(m, conn[c].queue)
      BY DEF Kept, QueueOrder
    <3>2. m \in Elements(conn[c].queue) \/ Precedes(m, batch)
      BY <1>4 DEF Missing
    <3> QED
      BY <1>1, <2>4, <2>5, <3>1, <3>2, PrecedesGains
  <2>7. ASSUME ~t.dropped
        PROVE  Elements(conn[c].queue) \cup Elements(batch) \subseteq Elements(t.queue)
    BY <1>1, <2>3, <2>4, <2>7, GainsAll
  <2>8. QueueOrder(c)'
    BY <1>2, <2>2, <2>6 DEF QueueOrder
  <2>9. ~t.dropped => Missing(c)' \subseteq Missing(c) \ Elements(batch)
    BY <1>2, <2>2, <2>7 DEF Missing
  <2> QED
    BY <1>1, <1>2, <1>4, <2>2, <2>3, <2>8, <2>9
<1> QED
  BY <1>3, <1>4

\* The watcher publishes the next event: what a subscriber misses is that one or
\* comes after it.
LEMMA WatchNextKept ==
  ASSUME TypeInv, PromiseInv, OneReplica, NEW p \in Replicas, WatchNext(p), NEW c \in Clients
  PROVE  Kept(c)'
<1>1. PICK at \in Nat : at = watch[p].at
  BY DEF TypeInv, FeedsInv
<1>2. PICK n : n = log[at + 1]
  OBVIOUS
<1>3. /\ at + 1 \in DOMAIN log /\ n \in Numbers /\ watch[p].step = "next"
      /\ <<n>> \in Seq(Numbers) /\ Elements(<<n>>) = {n}
      /\ Publish(p, <<n>>)
  <2>1. at + 1 \in 1 .. Len(log) /\ watch[p].step = "next" /\ Publish(p, <<n>>)
    BY <1>1, <1>2 DEF WatchNext, TypeInv, NumbersInv
  <2>2. n \in Numbers /\ at + 1 \in DOMAIN log
    BY <1>2, <2>1 DEF TypeInv, NumbersInv
  <2> QED
    BY <2>1, <2>2 DEF Elements
<1>4. /\ UNCHANGED <<log, published, token, relay, got, last, since, excused>>
      /\ watch'[p].step = "store" /\ watch'[p].at = at + 1
  BY <1>1 DEF WatchNext, events, TypeInv, FeedsInv
<1>5. Kept(c) /\ InOrder
  BY DEF PromiseInv
<1>6. CASE conn[c].step # "live"
  <2>1. conn'[c] = conn[c]
    BY <1>3, <1>6 DEF Publish, Registered
  <2> QED
    BY <1>4, <1>5, <1>6, <2>1, AwayKept DEF SameHistory
<1>7. CASE conn[c].step = "live"
  <2>0. conn[c].at = p
    BY DEF TypeInv, ClientsInv, Connections, OneReplica
  <2>1. ASSUME ~conn[c].dropped, NEW m \in Missing(c)
        PROVE  Precedes(m, <<n>>) /\ (m # n => \E i \in DOMAIN log : log[i] = m /\ i > at + 1)
    <3>1. PICK i \in DOMAIN log : log[i] = m /\ i > at
      BY <1>1, <1>3, <1>5, <1>7, <2>0, <2>1 DEF Kept, Fed, WatchedTo
    <3>2. i \in Nat /\ m \notin excused[c]
      BY DEF TypeInv, NumbersInv, Missing, Uncovered
    <3>3. CASE i = at + 1
      <4>1. m = n
        BY <1>2, <3>1, <3>3
      <4> QED
        BY <1>3, <4>1 DEF Precedes, Numbers
    <3>4. CASE i > at + 1
      <4>1. n < m
        BY <1>2, <1>3, <1>5, <3>1, <3>2, <3>4 DEF InOrder
      <4>2. m \in Numbers
        BY OwedIsVisible DEF TypeInv
      <4> QED
        BY <1>3, <3>1, <3>4, <4>1, <4>2 DEF Precedes, Numbers
    <3> QED
      BY <3>1, <3>2, <3>3, <3>4
  <2>2. /\ conn'[c].step = "live" /\ conn'[c].at = p
        /\ Uncovered(c)' = Uncovered(c) /\ Below(c)' /\ QueueOrder(c)'
        /\ ~conn'[c].dropped => ~conn[c].dropped /\ Missing(c)' \subseteq Missing(c) \ {n}
    <3>1. PICK batch \in Seq(Numbers) : batch = <<n>>
      BY <1>3
    <3>2. Publish(p, batch) /\ Elements(batch) = {n}
      BY <1>3, <3>1
    <3>3. ~conn[c].dropped => \A m \in Missing(c) : Precedes(m, batch)
      BY <2>1, <3>1
    <3> QED
      BY <1>4, <1>5, <1>7, <3>2, <3>3, PublishedOrder
  <2>3. HeardAll(c)'
    BY <1>4, <2>2 DEF HeardAll
  <2>4. ASSUME ~conn'[c].dropped PROVE Fed(c)' /\ Unrelayed(c)'
    <3>1. ~conn[c].dropped /\ Missing(c)' \subseteq Missing(c) \ {n}
      BY <2>2, <2>4
    <3>2. WatchedTo(c)' = at + 1
      BY <1>4, <2>2 DEF WatchedTo
    <3>3. Fed(c)'
      BY <1>4, <2>1, <3>1, <3>2 DEF Fed
    <3>4. Unrelayed(c)'
      BY <1>4, <1>5, <1>7, <3>1 DEF Unrelayed, Kept
    <3> QED
      BY <3>3, <3>4
  <2> QED
    BY <2>2, <2>3, <2>4 DEF Kept
<1> QED
  BY <1>6, <1>7

\* The relay publishes its batch, which was fetched in order.
LEMMA RelayPublishKept ==
  ASSUME TypeInv, PromiseInv, OneReplica, NEW p \in Replicas, RelayPublish(p), NEW c \in Clients
  PROVE  Kept(c)'
<1>1. PICK batch \in Seq(Numbers) : batch = relay[p].batch
  BY DEF TypeInv, FeedsInv
<1>2. /\ Publish(p, batch) /\ relay[p].step = "publish"
      /\ UNCHANGED <<log, published, token, watch, got, last, since, excused>>
      /\ relay'[p].step = "mark" /\ relay'[p].batch = batch
  BY <1>1 DEF RelayPublish, events, TypeInv, FeedsInv
<1>3. Kept(c)
  BY DEF PromiseInv
<1>4. CASE conn[c].step # "live"
  <2>1. conn'[c] = conn[c]
    BY <1>2, <1>4 DEF Publish, Registered
  <2> QED
    BY <1>2, <1>3, <1>4, <2>1, AwayKept DEF SameHistory
<1>5. CASE conn[c].step = "live"
  <2>1. ~conn[c].dropped => \A m \in Missing(c) : Precedes(m, batch)
    BY <1>1, <1>2, <1>3, <1>5 DEF Kept, Unrelayed
  <2>2. /\ conn'[c].step = "live" /\ conn'[c].at = p /\ conn[c].at = p
        /\ Uncovered(c)' = Uncovered(c) /\ Below(c)' /\ QueueOrder(c)'
        /\ ~conn'[c].dropped =>
             ~conn[c].dropped /\ Missing(c)' \subseteq Missing(c) \ Elements(batch)
    BY <1>2, <1>3, <1>5, <2>1, PublishedOrder
  <2>3. HeardAll(c)'
    BY <1>2, <1>3, <1>5, <2>2 DEF HeardAll, Kept
  <2>4. ASSUME ~conn'[c].dropped PROVE Fed(c)' /\ Unrelayed(c)'
    <3>1. ~conn[c].dropped /\ Missing(c)' \subseteq Missing(c) \ Elements(batch)
      BY <2>2, <2>4
    <3>2. WatchedTo(c)' = WatchedTo(c)
      BY <1>2, <2>2 DEF WatchedTo
    <3>3. Fed(c)'
      BY <1>2, <1>3, <1>5, <2>2, <3>1, <3>2 DEF Fed, Kept
    <3>4. \A q \in Replicas : q = p
      BY DEF OneReplica
    <3>5. Unrelayed(c)'
      BY <1>2, <1>3, <1>5, <3>1, <3>4 DEF Unrelayed, Kept
    <3> QED
      BY <3>3, <3>5
  <2> QED
    BY <2>2, <2>3, <2>4 DEF Kept
<1> QED
  BY <1>4, <1>5

\* A batch is fetched in the order of the log, so that what a subscriber misses
\* is in it before anything later, or is not overtaken by it.
LEMMA BatchOrder ==
  ASSUME TypeInv, PromiseInv, NEW c \in Clients, NEW m \in Missing(c), m \notin published,
         NEW size \in Nat, NEW batch \in [1 .. size -> Pending], IsBatch(batch)
  PROVE  Precedes(m, batch)
<1>1. m \in Pending /\ m \notin excused[c] /\ m \in Numbers /\ Visible \subseteq Numbers
  BY OwedIsVisible DEF Pending, Missing, Uncovered, TypeInv
<1>2. ASSUME NEW x \in Numbers, Before(x, m) PROVE ~(m < x)
  <2>1. PICK i, j \in DOMAIN log : i < j /\ log[i] = x /\ log[j] = m
    BY <1>2 DEF Before
  <2>2. x < m
    BY <1>1, <2>1 DEF PromiseInv, InOrder
  <2> QED
    BY <1>1, <2>2 DEF Numbers
<1>3. SUFFICES ASSUME NEW i \in 1 .. size, m < batch[i]
               PROVE  \E j \in 1 .. size : j < i /\ batch[j] = m
  BY DEF Precedes
<1>4. batch[i] \in Numbers /\ batch[i] \in Elements(batch)
  BY <1>1 DEF Pending, Elements
<1>5. m \in Elements(batch)
  BY <1>1, <1>2, <1>3, <1>4 DEF IsBatch
<1>6. PICK j \in 1 .. size : batch[j] = m
  BY <1>5 DEF Elements
<1>7. ~(i < j) /\ i # j
  BY <1>1, <1>2, <1>3, <1>4, <1>6 DEF IsBatch, Numbers
<1> QED
  BY <1>6, <1>7

\* The other steps of the feeds, and what may strike them.
LEMMA FeedKept ==
  ASSUME TypeInv, PromiseInv, OneReplica, NEW p \in Replicas, Feed(p) \/ Fault(p), NEW c \in Clients
  PROVE  Kept(c)'
<1>0. /\ Kept(c) /\ conn[c].at = p /\ \A q \in Replicas : q = p
      /\ watch = [watch EXCEPT ![p] = watch[p]] /\ relay = [relay EXCEPT ![p] = relay[p]]
      /\ watch[p].at \in Nat /\ watch[p].at <= Len(log) /\ token \in Nat
      /\ watch \in [Replicas -> [step : {"off", "next", "store", "dead"}, at : 0 .. MaxEvents]]
      /\ relay \in [Replicas -> [step : {"idle", "publish", "mark"}, batch : Seq(Numbers)]]
  BY DEF PromiseInv, TypeInv, FeedsInv, ClientsInv, Connections, OneReplica
<1>1. ASSUME UNCHANGED <<log, conn, got, last, since, excused>>
      PROVE  /\ Uncovered(c)' = Uncovered(c) /\ Missing(c)' = Missing(c)
             /\ Below(c)' /\ (conn[c].step = "live" => QueueOrder(c)')
  BY <1>0, <1>1 DEF Missing, Uncovered, Owed, Visible, Below, QueueOrder, Kept
<1>2. CASE WatchStart(p)
  <2>1. /\ UNCHANGED <<log, conn, got, last, since, excused, published, token, relay>>
        /\ watch[p].step = "off" /\ watch'[p].step = "next"
        /\ watch'[p].at = IF token = 0 THEN Len(log) ELSE token
    BY <1>0, <1>2 DEF WatchStart, events, clients
  <2>2. ASSUME conn[c].step = "live" PROVE HeardAll(c)'
    BY <1>0, <2>1 DEF HeardAll
  <2>3. ASSUME conn[c].step = "live", ~conn[c].dropped PROVE Fed(c)' /\ Unrelayed(c)'
    <3>1. CASE token = 0
      <4>1. Missing(c)' = {}
        BY <1>0, <1>1, <2>1, <2>3, <3>1 DEF Kept, HeardAll, Missing
      <4> QED
        BY <4>1 DEF Fed, Unrelayed
    <3>2. CASE token # 0
      <4>1. WatchedTo(c) = token /\ WatchedTo(c)' = token
        BY <1>0, <2>1, <3>2 DEF WatchedTo
      <4> QED
        BY <1>0, <1>1, <2>1, <2>3, <4>1 DEF Kept, Fed, Unrelayed
    <3> QED
      BY <3>1, <3>2
  <2> QED
    BY <1>1, <2>1, <2>2, <2>3 DEF Kept
<1>3. CASE WatchStore(p) \/ WatchFails(p)
  <2>1. /\ UNCHANGED <<log, conn, got, last, since, excused, published, relay>>
        /\ watch[p].step \in {"next", "store"} /\ watch'[p].step \in {"next", "dead"}
        /\ watch'[p].at = watch[p].at
    BY <1>0, <1>3 DEF WatchStore, WatchFails, events, clients
  <2>2. WatchedTo(c) = watch[p].at /\ WatchedTo(c)' = watch[p].at /\ HeardAll(c)'
    BY <1>0, <2>1 DEF WatchedTo, HeardAll
  <2>3. ASSUME conn[c].step = "live", ~conn[c].dropped PROVE Fed(c)' /\ Unrelayed(c)'
    BY <1>0, <1>1, <2>1, <2>2, <2>3 DEF Kept, Fed, Unrelayed
  <2> QED
    BY <1>1, <2>1, <2>2, <2>3 DEF Kept
<1>4. CASE RelayFetch(p)
  <2>1. PICK size \in 1 .. BatchSize : \E batch \in [1 .. size -> Pending] :
           IsBatch(batch) /\ relay' = [relay EXCEPT ![p] = [step |-> "publish", batch |-> batch]]
    BY <1>4 DEF RelayFetch
  <2>2. PICK batch \in [1 .. size -> Pending] :
           IsBatch(batch) /\ relay' = [relay EXCEPT ![p] = [step |-> "publish", batch |-> batch]]
    BY <2>1
  <2>3. /\ UNCHANGED <<log, conn, got, last, since, excused, published, token, watch>>
        /\ relay'[p].step = "publish" /\ relay'[p].batch = batch
    BY <1>0, <1>4, <2>2 DEF RelayFetch, events, clients
  <2>4. ASSUME conn[c].step = "live", ~conn[c].dropped PROVE Unrelayed(c)'
    <3>1. ASSUME NEW m \in Missing(c) PROVE m \notin published /\ Precedes(m, batch)
      <4>1. m \notin published
        BY <1>0, <2>4 DEF Kept, Unrelayed
      <4> QED
        BY <2>2, <4>1, BatchOrder, RealtimeAssumption
    <3> QED
      BY <1>0, <1>1, <2>3, <3>1 DEF Unrelayed
  <2>5. HeardAll(c)' = HeardAll(c) /\ Fed(c)' = Fed(c)
    BY <1>1, <2>3 DEF HeardAll, Fed, WatchedTo
  <2> QED
    BY <1>0, <1>1, <2>3, <2>4, <2>5 DEF Kept
<1>5. CASE RelayMark(p) \/ RelayFails(p)
  <2>1. /\ UNCHANGED <<log, conn, got, last, since, excused, token, watch>>
        /\ published' \subseteq published \cup Elements(relay[p].batch)
        /\ relay[p].step = "mark" /\ relay'[p] = Idle
    BY <1>0, <1>5 DEF RelayMark, RelayFails, events, clients
  <2>2. ASSUME conn[c].step = "live", ~conn[c].dropped PROVE Unrelayed(c)'
    BY <1>0, <1>1, <2>1, <2>2 DEF Kept, Unrelayed, Idle
  <2>3. HeardAll(c)' = HeardAll(c) /\ Fed(c)' = Fed(c)
    BY <1>1, <2>1 DEF HeardAll, Fed, WatchedTo
  <2> QED
    BY <1>0, <1>1, <2>1, <2>2, <2>3 DEF Kept
<1>6. CASE Restart(p)
  <2>1. UNCHANGED <<log, got, last, since, excused>> /\ conn'[c] = Disconnected
    BY <1>0, <1>6 DEF Restart, events
  <2> QED
    BY <1>0, <2>1, AwayKept, DisconnectedFacts DEF SameHistory
<1> QED
  BY <1>2, <1>3, <1>4, <1>5, <1>6, WatchNextKept, RelayPublishKept DEF Feed, Fault

-----------------------------------------------------------------------------
\* What a replay brings has no gap: whatever lies between the last event received
\* and one that is replayed is replayed.
LEMMA MissedHasNoGap ==
  ASSUME TypeInv, NEW c \in Clients, NEW n \in Missed(c),
         NEW m \in Visible, last[c] < m, m <= n
  PROVE  m \in Missed(c)
<1>. DEFINE above == {x \in Visible : x > last[c]}
            to(k) == {x \in above : x <= k}
<1>1. Visible \subseteq Numbers /\ last[c] \in Nat /\ MaxEvents \in Nat /\ ReplayLimit \in Nat
  BY OwedIsVisible, RealtimeAssumption DEF TypeInv, ClientsInv, ReceivedInv
<1>2. n \in above /\ Cardinality(to(n)) <= ReplayLimit
  BY DEF Missed
<1>3. m \in above /\ to(m) \subseteq to(n) /\ to(n) \subseteq Numbers
  <2>0. Numbers \subseteq Int
    BY DEF Numbers
  <2>1. /\ m \in above /\ n \in above /\ above \subseteq Numbers
        /\ m \in Int /\ n \in Int /\ above \subseteq Int
    <3>1. last[c] \in Int /\ above \subseteq Numbers /\ n \in above
      BY <1>1, <1>2
    <3>2. m \in Int /\ m \in Numbers
      BY <1>1, <2>0
    <3>3. m > last[c]
      BY <3>1, <3>2
    <3>4. m \in above
      BY <3>3
    <3> QED
      BY <2>0, <3>1, <3>2, <3>4
  <2>2. \A x \in above : x <= m => x <= n
    BY <2>1
  <2> QED
    BY <2>1, <2>2
<1>4. IsFiniteSet(Numbers)
  BY <1>1, FS_Interval DEF Numbers
<1>5. IsFiniteSet(to(n))
  BY <1>3, <1>4, FS_Subset
<1>6. Cardinality(to(m)) <= Cardinality(to(n)) /\ Cardinality(to(m)) \in Nat /\ Cardinality(to(n)) \in Nat
  BY <1>3, <1>5, FS_Subset, FS_CardinalityType
<1>7. Cardinality(to(m)) <= ReplayLimit
  BY <1>1, <1>2, <1>6
<1> QED
  BY <1>3, <1>7 DEF Missed

\* A replay, complete or cut off, leaves nothing behind that is not excused.
LEMMA ReplayKept ==
  ASSUME TypeInv, PromiseInv, NEW c \in Clients, Replay(c) \/ ReplayCut(c)
  PROVE  Kept(c)'
<1>0. UNCHANGED <<log, since, excused>> /\ conn[c].step = "replay" /\ got[c] \subseteq got'[c]
  BY DEF Replay, ReplayCut, events, TypeInv, ClientsInv, ReceivedInv
<1>1. /\ UNCHANGED <<log, since, excused>> /\ conn[c].step = "replay" /\ conn'[c].step # "live"
      /\ got[c] \subseteq got'[c] /\ Below(c)
      /\ Visible \subseteq Numbers /\ last[c] \in 0 .. MaxEvents /\ last[c] \in Nat
  <2>1. Visible \subseteq Numbers /\ last[c] \in 0 .. MaxEvents /\ Below(c)
    BY OwedIsVisible DEF TypeInv, ClientsInv, ReceivedInv, PromiseInv, Kept
  <2>2. conn'[c].step # "live"
    BY DisconnectedFacts DEF Replay, ReplayCut, TypeInv, ClientsInv, Connections
  <2> QED
    BY <1>0, <2>1, <2>2
<1>2. Uncovered(c)' \subseteq Uncovered(c) /\ Uncovered(c) \subseteq Visible
  BY <1>1 DEF Uncovered, Owed, Visible
<1>3. CASE last'[c] = last[c]
  BY <1>1, <1>2, <1>3 DEF Below, Kept
<1>4. CASE last'[c] # last[c]
  <2>1. PICK n \in Missed(c) : last'[c] = n /\ {m \in Missed(c) : m <= n} \subseteq got'[c]
    BY <1>4 DEF Replay, ReplayCut, TypeInv, ClientsInv, ReceivedInv
  <2>2. n \in Numbers
    BY <1>1, <2>1 DEF Missed
  <2>3. ASSUME NEW m \in Uncovered(c)', ~(n < m) PROVE FALSE
    <3>1. m \in Visible /\ last[c] < m /\ m <= n /\ m \in Numbers
      <4>1. m \in Visible /\ last[c] < m /\ m \in Numbers
        BY <1>1, <1>2, <2>3 DEF Below
      <4>2. m \in Int /\ n \in Int
        BY <2>2, <4>1 DEF Numbers
      <4> QED
        BY <2>3, <4>1, <4>2
    <3>2. m \in Missed(c)
      BY <2>1, <3>1, MissedHasNoGap
    <3> QED
      BY <2>1, <2>3, <3>1, <3>2 DEF Uncovered, Owed
  <2> QED
    BY <1>1, <2>1, <2>3 DEF Below, Kept
<1> QED
  BY <1>3, <1>4

\* What is visible when a client subscribes it has, or is excused from.
LEMMA SubscribeKept ==
  ASSUME TypeInv, PromiseInv, NEW c \in Clients, Subscribe(c)
  PROVE  Kept(c)'
<1>1. Kept(c) /\ UNCHANGED <<log, got, last, published, token, watch, relay>>
  BY DEF Subscribe, events, feeds, PromiseInv
<1>2. CASE conn' = [conn EXCEPT ![c] = Disconnected] /\ UNCHANGED <<since, excused>>
  <2>1. conn'[c] = Disconnected
    BY <1>2 DEF TypeInv, ClientsInv
  <2> QED
    BY <1>1, <1>2, <2>1, AwayKept, DisconnectedFacts DEF SameHistory
<1>3. CASE excused' = [excused EXCEPT ![c] = @ \cup (Visible \ (got[c] \cup since'[c]))]
  <2>1. Visible \ (got[c] \cup since'[c]) \subseteq excused'[c]
    BY <1>3 DEF TypeInv, ClientsInv, ReceivedInv
  <2>2. Uncovered(c)' = {} /\ Missing(c)' = {}
    BY <1>1, <2>1 DEF Missing, Uncovered, Owed, Visible
  <2> QED
    BY <2>2 DEF Kept, Below, QueueOrder, HeardAll, Fed, Unrelayed
<1> QED
  BY <1>2, <1>3 DEF Subscribe

\* The head of the queue is below everything still owed.
LEMMA DeliverKept ==
  ASSUME TypeInv, PromiseInv, NEW c \in Clients, Deliver(c)
  PROVE  Kept(c)'
<1>1. PICK s : s = conn[c].queue
  OBVIOUS
<1>2. /\ Kept(c) /\ UNCHANGED <<log, since, excused, published, token, watch, relay>>
      /\ s \in Seq(Numbers) /\ s # <<>> /\ conn[c].step = "live"
      /\ conn'[c].queue = Tail(s) /\ conn'[c].step = "live"
      /\ conn'[c].at = conn[c].at /\ conn'[c].dropped = conn[c].dropped
      /\ last'[c] = Head(s) /\ got'[c] = got[c] \cup {Head(s)}
  BY <1>1 DEF Deliver, events, feeds, PromiseInv, TypeInv, ClientsInv, ReceivedInv, Connections
<1>3. Uncovered(c)' = Uncovered(c) \ {Head(s)} /\ Uncovered(c) \subseteq Numbers
  BY <1>2, OwedIsVisible DEF Uncovered, Owed, Visible, TypeInv
<1>4. ASSUME NEW m \in Uncovered(c)' PROVE Head(s) < m /\ Precedes(m, Tail(s))
  <2>1. Precedes(m, s) /\ m \in Numbers \ {Head(s)}
    BY <1>1, <1>2, <1>3, <1>4 DEF Kept, QueueOrder
  <2> QED
    BY <1>2, <2>1, PrecedesTail
<1>5. Below(c)' /\ QueueOrder(c)'
  BY <1>2, <1>4 DEF Below, QueueOrder
<1>6. HeardAll(c)'
  BY <1>2, <1>3 DEF HeardAll, Kept
<1>7. Elements(s) \subseteq Elements(Tail(s)) \cup {Head(s)}
  <2>1. ASSUME NEW i \in 1 .. Len(s) PROVE s[i] \in Elements(Tail(s)) \cup {Head(s)}
    <3>1. CASE i = 1
      BY <1>2, <3>1
    <3>2. CASE i # 1
      <4>1. i - 1 \in DOMAIN Tail(s) /\ Tail(s)[i - 1] = s[i]
        BY <1>2, <3>2
      <4> QED
        BY <4>1 DEF Elements
    <3> QED
      BY <3>1, <3>2
  <2> QED
    BY <1>2, <2>1 DEF Elements
<1>8. Missing(c)' \subseteq Missing(c)
  BY <1>1, <1>2, <1>3, <1>7 DEF Missing
<1>9. ASSUME ~conn[c].dropped PROVE Fed(c)' /\ Unrelayed(c)'
  <2>1. WatchedTo(c)' = WatchedTo(c)
    BY <1>2 DEF WatchedTo
  <2> QED
    BY <1>2, <1>8, <1>9, <2>1 DEF Kept, Fed, Unrelayed
<1> QED
  BY <1>2, <1>5, <1>6, <1>9 DEF Kept

\* A step of one client leaves the others' promises alone.
LEMMA OthersKept ==
  ASSUME TypeInv, PromiseInv, NEW c \in Clients, NEW d \in Clients \ {c},
         Serve(c) \/ ReplayCut(c) \/ Disconnect(c) \/ \E p \in Replicas : Connect(c, p)
  PROVE  Kept(d)'
<1>1. UNCHANGED <<log, published, token, watch, relay>>
  BY DEF Serve, Replay, Subscribe, Deliver, ReplayCut, Disconnect, Connect, events, feeds
<1>2. conn'[d] = conn[d] /\ SameHistory(d)
  BY DEF Serve, Replay, Subscribe, Deliver, ReplayCut, Disconnect, Connect, SameHistory, TypeInv,
    ClientsInv, ReceivedInv
<1> QED
  BY <1>1, <1>2, UntouchedKept DEF PromiseInv

\* A client that comes, or goes away, is promised nothing new.
LEMMA ComeAndGoKept ==
  ASSUME TypeInv, PromiseInv, NEW c \in Clients,
         Disconnect(c) \/ \E p \in Replicas : Connect(c, p)
  PROVE  Kept(c)'
<1>1. CASE Disconnect(c)
  <2>1. UNCHANGED <<log, got, last, since, excused>> /\ conn'[c] = Disconnected
    BY <1>1 DEF Disconnect, events, TypeInv, ClientsInv
  <2> QED
    BY <2>1, AwayKept, DisconnectedFacts DEF PromiseInv, SameHistory
<1>2. ASSUME NEW p \in Replicas, Connect(c, p) PROVE Kept(c)'
  <2>1. PICK step \in {"open", "replay"} : step = IF last[c] = 0 THEN "open" ELSE "replay"
    OBVIOUS
  <2>2. /\ UNCHANGED <<log, got, last, since, excused>>
        /\ conn'[c] = [Disconnected EXCEPT !.step = step, !.at = p]
    BY <1>2, <2>1 DEF Connect, events, TypeInv, ClientsInv
  <2>3. conn'[c].step = step
    BY <2>2, DisconnectedFacts DEF Connections
  <2> QED
    BY <2>1, <2>2, <2>3, AwayKept DEF PromiseInv, SameHistory
<1> QED
  BY <1>1, <1>2

\* Every step keeps every promise.
LEMMA PromiseStep ==
  ASSUME TypeInv, PromiseInv, OneReplica, [Next]_vars
  PROVE  PromiseInv'
<1>1. InOrder'
  BY InOrderStep DEF PromiseInv
<1>2. ASSUME NEW c \in Clients PROVE Kept(c)'
  <2>1. CASE CommitEvent \/ \E n \in Numbers : InsertDrawn(n)
    BY <2>1, WritersWrite, WrittenKept DEF PromiseInv, TypeInv
  <2>2. CASE DrawNumber \/ UNCHANGED vars
    <3>1. UNCHANGED <<log, published, token, watch, relay, conn, got, last, since, excused>>
      BY <2>2 DEF DrawNumber, vars, events, feeds, clients
    <3> QED
      BY <3>1, UntouchedKept DEF PromiseInv, SameHistory
  <2>3. ASSUME NEW p \in Replicas, Feed(p) \/ Fault(p) PROVE Kept(c)'
    BY <2>3, FeedKept
  <2>4. ASSUME NEW d \in Clients,
               Serve(d) \/ ReplayCut(d) \/ Disconnect(d) \/ \E p \in Replicas : Connect(d, p)
        PROVE  Kept(c)'
    <3>1. CASE c = d
      BY <2>4, <3>1, ReplayKept, SubscribeKept, DeliverKept, ComeAndGoKept DEF Serve
    <3>2. CASE c # d
      BY <2>4, <3>2, OthersKept
    <3> QED
      BY <3>1, <3>2
  <2> QED
    BY <2>1, <2>2, <2>3, <2>4 DEF Next, Write
<1> QED
  BY <1>1, <1>2 DEF PromiseInv

\* Nothing is owed when nothing was written.
LEMMA PromiseInitially == Init => PromiseInv
<1>1. ASSUME Init, NEW c \in Clients PROVE Kept(c)
  <2>1. Uncovered(c) = {} /\ Missing(c) = {}
    BY <1>1 DEF Init, Missing, Uncovered, Owed, Visible
  <2> QED
    BY <2>1 DEF Kept, Below, QueueOrder, HeardAll, Fed, Unrelayed
<1> QED
  BY <1>1 DEF PromiseInv, Init, InOrder

\* The inductive invariant of what subscribers are owed, with one replica.
THEOREM PromisesInductive ==
  ASSUME OneReplica
  PROVE  Spec => [](TypeInv /\ PromiseInv)
<1>1. TypeInv /\ PromiseInv /\ [Next]_vars => (TypeInv /\ PromiseInv)'
  BY PromiseStep, NumbersStep, FeedsStep, ClientsStep DEF TypeInv
<1> QED
  BY <1>1, TypeInitially, PromiseInitially, PTL DEF Spec

\* With one replica, a subscriber in the broker's set has received, holds in its
\* queue, or will be handed by its running watcher every event it is owed.
THEOREM SubscribersAreFed ==
  ASSUME OneReplica
  PROVE  Spec => []LiveSubscriberIsFed
<1>1. PromiseInv => LiveSubscriberIsFed
  BY DEF PromiseInv, Kept, Fed, Missing, Uncovered, WatchedTo, LiveSubscriberIsFed
<1> QED
  BY <1>1, PromisesInductive, PTL

\* Only a complete replay takes a connection from its replay to its stream.
LEMMA OnlyReplayOpens ==
  ASSUME TypeInv, [Next]_vars, NEW c \in Clients, conn[c].step = "replay", conn'[c].step = "open"
  PROVE  Replay(c)
<1>0. \A p \in Replicas : c \notin Registered(p)
  BY DEF Registered
<1>1. conn'[c] # conn[c] /\ conn'[c] # Disconnected
  BY DisconnectedFacts
<1>2. ~(Write \/ UNCHANGED vars)
  BY <1>1 DEF Write, CommitEvent, DrawNumber, InsertDrawn, vars, clients
<1>3. ASSUME NEW p \in Replicas, Feed(p) \/ Fault(p) PROVE FALSE
  BY <1>0, <1>1, <1>3 DEF Feed, Fault, WatchStart, WatchNext, WatchStore, RelayFetch, RelayPublish,
    RelayMark, WatchFails, RelayFails, Restart, Publish, clients
<1>4. ASSUME NEW d \in Clients, d # c,
             Serve(d) \/ ReplayCut(d) \/ Disconnect(d) \/ \E p \in Replicas : Connect(d, p)
      PROVE  FALSE
  BY <1>1, <1>4 DEF Serve, Replay, Subscribe, Deliver, ReplayCut, Disconnect, Connect, TypeInv,
    ClientsInv
<1>5. ASSUME Subscribe(c) \/ Deliver(c) \/ ReplayCut(c) \/ Disconnect(c) \/ \E p \in Replicas : Connect(c, p)
      PROVE  FALSE
  BY <1>1, <1>5 DEF Subscribe, Deliver, ReplayCut, Disconnect, Connect, TypeInv, ClientsInv
<1> QED
  BY <1>2, <1>3, <1>4, <1>5 DEF Next, Serve

\* With one replica, a subscriber that reconnects has, once the replay is done,
\* every event since it first subscribed that it is not excused from, unless the
\* limit cut the replay off: being dropped, disconnected or restarted loses nothing.
THEOREM ReconnectingLosesNothing ==
  ASSUME OneReplica
  PROVE  Spec => ResumeMissesOnlyTheExcused
<1>1. ASSUME TypeInv, PromiseInv, [Next]_vars, NEW c \in Clients,
             conn[c].step = "replay", conn'[c].step = "open",
             Cardinality({n \in Visible : n > last[c]}) <= ReplayLimit
      PROVE  Owed(c)' \subseteq excused[c]
  <2>. DEFINE above == {n \in Visible : n > last[c]}
  <2>1. Replay(c)
    BY <1>1, OnlyReplayOpens
  <2>2. /\ UNCHANGED <<log, since, excused>> /\ got'[c] = got[c] \cup Missed(c) /\ Below(c)
        /\ Visible \subseteq Numbers /\ last[c] \in Nat
        /\ MaxEvents \in Nat /\ ReplayLimit \in Nat
    <3>1. UNCHANGED <<log, since, excused>> /\ got'[c] = got[c] \cup Missed(c)
      BY <1>1, <2>1 DEF Replay, events, TypeInv, ClientsInv, ReceivedInv
    <3>2. Below(c) /\ Visible \subseteq Numbers
      BY <1>1, OwedIsVisible DEF TypeInv, PromiseInv, Kept
    <3>3. last[c] \in 0 .. MaxEvents
      BY <1>1 DEF TypeInv, ClientsInv, ReceivedInv
    <3> QED
      BY <3>1, <3>2, <3>3, RealtimeAssumption
  <2>3. IsFiniteSet(above)
    <3>1. IsFiniteSet(Numbers)
      BY <2>2, FS_Interval DEF Numbers
    <3> QED
      BY <2>2, <3>1, FS_Subset
  <2>4. ASSUME NEW n \in above PROVE n \in Missed(c)
    <3>1. Cardinality({m \in above : m <= n}) <= Cardinality(above)
      BY <2>3, FS_Subset
    <3>2. /\ IsFiniteSet({m \in above : m <= n})
      BY <2>3, FS_Subset
    <3>3. Cardinality({m \in above : m <= n}) \in Nat /\ Cardinality(above) \in Nat
      BY <2>3, <3>2, FS_CardinalityType
    <3>4. Cardinality({m \in above : m <= n}) <= ReplayLimit
      BY <1>1, <2>2, <3>1, <3>3
    <3> QED
      BY <3>4 DEF Missed
  <2>5. ASSUME NEW m \in Owed(c)', m \notin excused[c] PROVE FALSE
    <3>1. m \in Uncovered(c) /\ m \in Visible /\ m \notin Missed(c)
      BY <2>2, <2>5 DEF Uncovered, Owed, Visible
    <3>2. last[c] < m
      BY <2>2, <3>1 DEF Below
    <3>3. m \in above
      BY <2>2, <3>1, <3>2 DEF Numbers
    <3> QED
      BY <2>4, <3>1, <3>3
  <2> QED
    BY <2>5
<1>2. TypeInv /\ PromiseInv /\ [Next]_vars =>
        [\A c \in Clients :
           conn[c].step = "replay" /\ conn'[c].step = "open" /\
           Cardinality({n \in Visible : n > last[c]}) <= ReplayLimit
             => Owed(c)' \subseteq excused[c]]_vars
  BY <1>1
<1> QED
  BY <1>2, PromisesInductive, PTL DEF Spec, ResumeMissesOnlyTheExcused
=============================================================================
