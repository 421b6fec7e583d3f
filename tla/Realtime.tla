------------------------------ MODULE Realtime ------------------------------
(***************************************************************************)
(* Delivery of one tenant's events from the outbox to live subscribers:    *)
(* each replica of the service runs a change-stream watcher and an outbox  *)
(* relay, both feeding its in-process broker; a subscriber holds one       *)
(* server-sent-event connection to one replica, and resumes after the last *)
(* identifier it received.  Every subscriber here is entitled to every     *)
(* event, so the per-event authorization filter passes all of them.        *)
(***************************************************************************)
EXTENDS Integers, Sequences, FiniteSets

CONSTANTS Replicas,     \* processes of the service
          Clients,      \* subscribers
          QueueSize,    \* SUBSCRIBER_QUEUE_SIZE
          ReplayLimit,  \* MAX_REPLAY
          BatchSize,    \* outbox_batch_size
          MaxSubscribers, \* sse_max_subscribers
          MaxEvents,    \* bound: events written in a behaviour
          MaxFaults,    \* bound: faults in a behaviour
          Faults        \* which faults may strike

FaultNames == {"restart", "watch_fails", "relay_fails"}

ASSUME RealtimeAssumption ==
  /\ Replicas # {}
  /\ QueueSize \in Nat \ {0} /\ ReplayLimit \in Nat \ {0}
  /\ BatchSize \in Nat \ {0} /\ MaxSubscribers \in Nat
  /\ MaxEvents \in Nat /\ MaxFaults \in Nat
  /\ Faults \subseteq FaultNames

VARIABLES counter,    \* tenant_sequences.value
          drawn,      \* numbers taken outside a transaction, their event not yet inserted
          log,        \* event numbers in the order they became visible
          published,  \* numbers whose outbox row is marked published
          token,      \* stored resume token: a position in log, 0 when none
          watch,      \* replica -> its change-stream watcher
          relay,      \* replica -> its outbox relay
          conn,       \* client -> its connection
          got,        \* client -> event numbers received
          last,       \* client -> Last-Event-ID, 0 when it has none
          strikes,    \* how many faults have struck
          since,      \* history: client -> events visible before it first subscribed
          excused     \* history: client -> events it may miss, see Excuse

events == <<counter, drawn, log>>
feeds == <<published, token, watch, relay>>
clients == <<conn, got, last, since, excused>>
vars == <<events, feeds, clients, strikes>>

Numbers == 1 .. MaxEvents
Visible == {log[i] : i \in DOMAIN log}
Elements(s) == {s[i] : i \in DOMAIN s}

Disconnected == [step |-> "off", at |-> CHOOSE p \in Replicas : TRUE,
                 queue |-> <<>>, dropped |-> FALSE]
Idle == [step |-> "idle", batch |-> <<>>]
NotWatching == [step |-> "off", at |-> 0]

Strike(fault) ==
  /\ fault \in Faults
  /\ strikes < MaxFaults
  /\ strikes' = strikes + 1

-----------------------------------------------------------------------------
(* The broker                                                              *)

\* The clients in the broker's set: subscribed and not dropped.
Registered(p) ==
  {c \in Clients : conn[c].step = "live" /\ conn[c].at = p /\ ~conn[c].dropped}

\* Mutant: a queue without a bound.
OfferUnbounded(s, batch) == [s EXCEPT !.queue = @ \o batch]

\* Mutant: a full queue loses its oldest event instead of its subscriber.
OfferDroppingOldest(s, batch) ==
  LET all == s.queue \o batch
  IN  [s EXCEPT !.queue =
         IF Len(all) <= QueueSize THEN all
         ELSE SubSeq(all, Len(all) - QueueSize + 1, Len(all))]

\* Mutant: a full queue loses the event, and its subscriber stays.
OfferSkipping(s, batch) ==
  LET room == QueueSize - Len(s.queue)
  IN  [s EXCEPT !.queue = @ \o SubSeq(batch, 1, IF Len(batch) <= room THEN Len(batch) ELSE room)]

\* One subscriber is offered events until its queue is full, then dropped.
Offer(s, batch) ==
  LET room == QueueSize - Len(s.queue) IN
  IF Len(batch) <= room
    THEN [s EXCEPT !.queue = @ \o batch]
    ELSE [s EXCEPT !.queue = @ \o SubSeq(batch, 1, room), !.dropped = TRUE]

\* publish() for each event of a batch; nothing awaits in between.
Publish(p, batch) ==
  conn' = [c \in Clients |->
             IF c \in Registered(p) THEN Offer(conn[c], batch) ELSE conn[c]]

-----------------------------------------------------------------------------
(* Writers: handlers that commit an event with its number, and the passcode *)
(* check, which takes a number first and inserts its event later.           *)

\* Will this replica's watcher never deliver what is written now?  It is dead, or
\* will start at the present for want of a stored token.
Deaf(p) == watch[p].step = "dead" \/ (watch[p].step = "off" /\ token = 0)

\* Events a subscriber has no promise for: one that appears when a later number
\* is already drawn, and one that appears while its replica is deaf.
Excuse(n) ==
  [c \in Clients |->
     IF \/ n < counter
        \/ conn[c].step = "live" /\ Deaf(conn[c].at)
       THEN excused[c] \cup {n} ELSE excused[c]]

CommitEvent ==
  /\ counter < MaxEvents
  /\ counter' = counter + 1
  /\ log' = Append(log, counter + 1)
  /\ excused' = Excuse(counter + 1)
  /\ UNCHANGED <<drawn, feeds, conn, got, last, since, strikes>>

DrawNumber ==
  /\ counter < MaxEvents
  /\ counter' = counter + 1
  /\ drawn' = drawn \cup {counter + 1}
  /\ UNCHANGED <<log, feeds, clients, strikes>>

InsertDrawn(n) ==
  /\ n \in drawn
  /\ drawn' = drawn \ {n}
  /\ log' = Append(log, n)
  /\ excused' = Excuse(n)
  /\ UNCHANGED <<counter, feeds, conn, got, last, since, strikes>>

-----------------------------------------------------------------------------
(* The watcher: MongoStore.watch driven by EventBroker.run                  *)

\* Mutant: the stored token is not read.
WatchStartAtPresent(p) ==
  /\ watch[p].step = "off"
  /\ watch' = [watch EXCEPT ![p] = [step |-> "next", at |-> Len(log)]]
  /\ UNCHANGED <<events, published, token, relay, clients, strikes>>

\* The stored token belongs to WATCHER_NAME, one for all replicas.  Without one
\* the change stream starts at the present.
WatchStart(p) ==
  /\ watch[p].step = "off"
  /\ watch' = [watch EXCEPT ![p] = [step |-> "next",
                                    at |-> IF token = 0 THEN Len(log) ELSE token]]
  /\ UNCHANGED <<events, published, token, relay, clients, strikes>>

WatchNext(p) ==
  /\ watch[p].step = "next"
  /\ watch[p].at < Len(log)
  /\ watch' = [watch EXCEPT ![p] = [step |-> "store", at |-> @.at + 1]]
  /\ Publish(p, <<log[watch[p].at + 1]>>)
  /\ UNCHANGED <<events, published, token, relay, got, last, since, excused, strikes>>

WatchStore(p) ==
  /\ watch[p].step = "store"
  /\ token' = watch[p].at
  /\ watch' = [watch EXCEPT ![p].step = "next"]
  /\ UNCHANGED <<events, published, relay, clients, strikes>>

\* StoreUnavailableError leaves EventBroker.run, whose task nobody watches.
WatchFails(p) ==
  /\ Strike("watch_fails")
  /\ watch[p].step \in {"next", "store"}
  /\ watch' = [watch EXCEPT ![p].step = "dead"]
  /\ UNCHANGED <<events, published, token, relay, clients>>

-----------------------------------------------------------------------------
(* The relay: OutboxRelay.drain_once                                        *)

Pending == Visible \ published

\* fetch_pending sorts by created_at, which is taken to be the order in which the
\* events became visible, and returns the first BatchSize.
Before(m, n) == \E i, j \in DOMAIN log : i < j /\ log[i] = m /\ log[j] = n
IsBatch(batch) ==
  /\ \A i, j \in DOMAIN batch : i < j => Before(batch[i], batch[j])
  /\ \A n \in Pending \ Elements(batch) :
       /\ Len(batch) = BatchSize
       /\ \A m \in Elements(batch) : Before(m, n)

RelayFetch(p) ==
  /\ relay[p].step = "idle"
  /\ \E size \in 1 .. BatchSize : \E batch \in [1 .. size -> Pending] :
       /\ IsBatch(batch)
       /\ relay' = [relay EXCEPT ![p] = [step |-> "publish", batch |-> batch]]
  /\ UNCHANGED <<events, published, token, watch, clients, strikes>>

RelayPublish(p) ==
  /\ relay[p].step = "publish"
  /\ Publish(p, relay[p].batch)
  /\ relay' = [relay EXCEPT ![p].step = "mark"]
  /\ UNCHANGED <<events, published, token, watch, got, last, since, excused, strikes>>

\* Mutant: nothing is marked.
RelayForgets(p) ==
  /\ relay[p].step = "mark"
  /\ relay' = [relay EXCEPT ![p] = Idle]
  /\ UNCHANGED <<events, published, token, watch, clients, strikes>>

RelayMark(p) ==
  /\ relay[p].step = "mark"
  /\ published' = published \cup Elements(relay[p].batch)
  /\ relay' = [relay EXCEPT ![p] = Idle]
  /\ UNCHANGED <<events, token, watch, clients, strikes>>

\* run() logs the failure of a batch and fetches again later.
RelayFails(p) ==
  /\ Strike("relay_fails")
  /\ relay[p].step = "mark"
  /\ relay' = [relay EXCEPT ![p] = Idle]
  /\ UNCHANGED <<events, published, token, watch, clients>>

-----------------------------------------------------------------------------
(* A connection: stream() and _event_stream                                 *)

Connect(c, p) ==
  /\ conn[c].step = "off"
  /\ Cardinality(Registered(p)) < MaxSubscribers
  /\ conn' = [conn EXCEPT ![c] =
       [Disconnected EXCEPT !.step = IF last[c] = 0 THEN "open" ELSE "replay", !.at = p]]
  /\ UNCHANGED <<events, feeds, got, last, since, excused, strikes>>

\* replay_since: the lowest ReplayLimit numbers above Last-Event-ID.
Missed(c) ==
  LET above == {n \in Visible : n > last[c]}
  IN  {n \in above : Cardinality({m \in above : m <= n}) <= ReplayLimit}

Replay(c) ==
  /\ conn[c].step = "replay"
  /\ got' = [got EXCEPT ![c] = @ \cup Missed(c)]
  /\ \/ Missed(c) = {} /\ last' = last
     \/ \E n \in Missed(c) :
          (\A m \in Missed(c) : m <= n) /\ last' = [last EXCEPT ![c] = n]
  /\ conn' = [conn EXCEPT ![c].step = "open"]
  /\ UNCHANGED <<events, feeds, since, excused, strikes>>

\* Each replayed event is a write to the connection: the client may be gone after
\* any of them.
ReplayCut(c) ==
  /\ conn[c].step = "replay"
  /\ \E n \in Missed(c) :
       /\ got' = [got EXCEPT ![c] = @ \cup {m \in Missed(c) : m <= n}]
       /\ last' = [last EXCEPT ![c] = n]
  /\ conn' = [conn EXCEPT ![c] = Disconnected]
  /\ UNCHANGED <<events, feeds, since, excused, strikes>>

\* subscribe() comes after the replay: what became visible in between, or was
\* cut off by the limit, only a later publication can bring.  At the limit the
\* generator raises and the connection closes.
Subscribe(c) ==
  /\ conn[c].step = "open"
  /\ IF Cardinality(Registered(conn[c].at)) < MaxSubscribers
       THEN /\ conn' = [conn EXCEPT ![c].step = "live"]
            /\ since' = [since EXCEPT ![c] = IF last[c] = 0 THEN Visible ELSE @]
            /\ excused' = [excused EXCEPT ![c] =
                 @ \cup (Visible \ (got[c] \cup since'[c]))]
       ELSE /\ conn' = [conn EXCEPT ![c] = Disconnected]
            /\ UNCHANGED <<since, excused>>
  /\ UNCHANGED <<events, feeds, got, last, strikes>>

Deliver(c) ==
  /\ conn[c].step = "live"
  /\ conn[c].queue # <<>>
  /\ LET n == Head(conn[c].queue) IN
     /\ got' = [got EXCEPT ![c] = @ \cup {n}]
     /\ last' = [last EXCEPT ![c] = n]
  /\ conn' = [conn EXCEPT ![c].queue = Tail(@)]
  /\ UNCHANGED <<events, feeds, since, excused, strikes>>

\* The client goes away; the queue goes with the connection.  The loop does not
\* look at dropped, so nothing else ends a connection.
Disconnect(c) ==
  /\ conn[c].step # "off"
  /\ conn' = [conn EXCEPT ![c] = Disconnected]
  /\ UNCHANGED <<events, feeds, got, last, since, excused, strikes>>

-----------------------------------------------------------------------------
\* The process dies and starts again: its tasks and connections are gone.
Restart(p) ==
  /\ Strike("restart")
  /\ watch' = [watch EXCEPT ![p] = NotWatching]
  /\ relay' = [relay EXCEPT ![p] = Idle]
  /\ conn' = [c \in Clients |-> IF conn[c].at = p THEN Disconnected ELSE conn[c]]
  /\ UNCHANGED <<events, published, token, got, last, since, excused>>

Init ==
  /\ counter = 0 /\ drawn = {} /\ log = <<>>
  /\ published = {} /\ token = 0 /\ strikes = 0
  /\ watch = [p \in Replicas |-> NotWatching]
  /\ relay = [p \in Replicas |-> Idle]
  /\ conn = [c \in Clients |-> Disconnected]
  /\ got = [c \in Clients |-> {}]
  /\ last = [c \in Clients |-> 0]
  /\ since = [c \in Clients |-> {}]
  /\ excused = [c \in Clients |-> {}]

Write == CommitEvent \/ DrawNumber \/ \E n \in Numbers : InsertDrawn(n)
Feed(p) ==
  \/ WatchStart(p) \/ WatchNext(p) \/ WatchStore(p)
  \/ RelayFetch(p) \/ RelayPublish(p) \/ RelayMark(p)
Serve(c) == Replay(c) \/ Subscribe(c) \/ Deliver(c)
Fault(p) == WatchFails(p) \/ RelayFails(p) \/ Restart(p)

Next ==
  \/ Write
  \/ \E p \in Replicas : Feed(p) \/ Fault(p)
  \/ \E c \in Clients : Serve(c) \/ ReplayCut(c) \/ Disconnect(c) \/ \E p \in Replicas : Connect(c, p)

Spec == Init /\ [][Next]_vars

\* The tasks of a replica and of a connection keep running on its event loop.
\* Clients come and go as they please, and writers write when they like.
Watch(p) == WatchStart(p) \/ WatchNext(p) \/ WatchStore(p)
Relay(p) == RelayFetch(p) \/ RelayPublish(p) \/ RelayMark(p)
FairSpec ==
  /\ Spec
  /\ \A p \in Replicas : WF_vars(Watch(p)) /\ WF_vars(Relay(p))
  /\ \A c \in Clients : WF_vars(Serve(c))

-----------------------------------------------------------------------------
Connections ==
  [step : {"off", "replay", "open", "live"}, at : Replicas,
   queue : Seq(Numbers), dropped : BOOLEAN]

TypeOK ==
  /\ counter \in 0 .. MaxEvents
  /\ drawn \subseteq Numbers
  /\ log \in Seq(Numbers)
  /\ published \subseteq Visible
  /\ token \in 0 .. Len(log)
  /\ watch \in [Replicas -> [step : {"off", "next", "store", "dead"}, at : 0 .. MaxEvents]]
  /\ relay \in [Replicas -> [step : {"idle", "publish", "mark"}, batch : Seq(Numbers)]]
  /\ conn \in [Clients -> Connections]
  /\ \A c \in Clients : Len(conn[c].queue) <= QueueSize
  /\ \A p \in Replicas : Cardinality(Registered(p)) <= MaxSubscribers
  /\ got \in [Clients -> SUBSET Numbers]
  /\ last \in [Clients -> 0 .. MaxEvents]
  /\ since \in [Clients -> SUBSET Numbers]
  /\ excused \in [Clients -> SUBSET Numbers]
  /\ strikes \in 0 .. MaxFaults

\* What a client has been promised and has not received.
Owed(c) == Visible \ (since[c] \cup got[c])

\* A subscriber that reconnects has, once the replay is done, every event since
\* it first subscribed, except those it is excused for (see Excuse, Subscribe)
\* or the limit cut off: being dropped, disconnected or restarted loses nothing.
ResumeMissesOnlyTheExcused ==
  [][\A c \in Clients :
       conn[c].step = "replay" /\ conn'[c].step = "open" /\
       Cardinality({n \in Visible : n > last[c]}) <= ReplayLimit
         => Owed(c)' \subseteq excused[c]]_vars

\* A live subscriber in the broker's set has received, holds in its queue, or
\* will be handed by its running watcher every event it is owed and not excused.
LiveSubscriberIsFed ==
  \A c \in Clients : conn[c].step = "live" /\ ~conn[c].dropped =>
    \A n \in Owed(c) \ (excused[c] \cup Elements(conn[c].queue)) :
      LET w == watch[conn[c].at] IN
      \/ w.step = "dead"
      \/ \E i \in DOMAIN log :
           log[i] = n /\ i > (IF w.step = "off" THEN token ELSE w.at)

\* At least once: the relay keeps going, through its own failures and restarts,
\* until every event in the outbox is marked published.
OutboxDrains == (Pending # {}) ~> (Pending = {})

\* A subscriber that stays in the broker's set of a replica whose watcher lives
\* catches up with what it is owed.
Behind(c) ==
  /\ conn[c].step = "live" /\ ~conn[c].dropped
  /\ watch[conn[c].at].step # "dead"
  /\ Owed(c) \ excused[c] # {}
SubscribersCatchUp == \A c \in Clients : Behind(c) ~> ~Behind(c)

-----------------------------------------------------------------------------
(* What comments of the code say, and the code does not keep.              *)

\* stream.py: "A reconnecting subscriber gets exactly what it missed": once the
\* feeds have nothing more to bring, nothing is missing after its last event.
Quiet(p) ==
  /\ Pending = {} /\ relay[p].step = "idle"
  /\ watch[p].step = "next" /\ watch[p].at = Len(log)
ResumeIsExact ==
  \A c \in Clients :
    conn[c].step = "live" /\ ~conn[c].dropped /\ conn[c].queue = <<>> /\ Quiet(conn[c].at)
      => \A n \in Owed(c) : n < last[c]

\* broker.py: "when it fills, that subscriber is disconnected and reconnects".
DroppedIsDisconnected == \A c \in Clients : conn[c].dropped ~> ~conn[c].dropped
=============================================================================
