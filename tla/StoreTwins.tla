----------------------------- MODULE StoreTwins -----------------------------
(***************************************************************************)
(* The two stores of the middleware side by side.  "Two implementations     *)
(* exist and both must satisfy the same behavioural contract"               *)
(* (repositories/ports.py:3): every repository call is made on the          *)
(* in-memory store (repositories/memory.py) and on MongoDB                  *)
(* (repositories/mongo), one call after the other, and what they hold and   *)
(* answer is compared.                                                     *)
(*                                                                         *)
(* Dictionaries and lists of the memory store keep their order, a MongoDB   *)
(* collection has none: where a query does not sort, or sorts on equal      *)
(* keys, MongoDB may give any order.  Documents stand for tickets,          *)
(* callbacks, approval requests, cases, orders and invoices of one tenant   *)
(* and customer: a reference, the instant or date they are sorted by, and a *)
(* state.                                                                  *)
(***************************************************************************)
EXTENDS Integers, Sequences, FiniteSets, SequencesExt, FiniteSetsExt

CONSTANTS Refs,      \* references of documents
          Pairs,     \* assignments
          KeyNames, Hashes,
          Nothing,   \* None
          MaxCalls,  \* bound: calls made
          Ttl        \* idempotency ttl_s

ASSUME TwinsAssumption == MaxCalls \in Nat /\ Ttl \in Nat

VARIABLES mem, db,   \* the two stores
          calls,     \* calls made so far: the clock
          answers,   \* what the last write answered in each
          drifted,   \* history: a call after which they may differ was made
          focus      \* the collection this behaviour is about

twins == <<mem, db, calls, answers, drifted, focus>>

States == {"pending", "approved", "interrupted"}
Doc(ref, at, state) == [ref |-> ref, at |-> at, state |-> state]
NoKeys == [k \in KeyNames |-> Nothing]
Same == [mem |-> Nothing, db |-> Nothing]

TwinsInit ==
  /\ mem = [docs |-> <<>>, pairs |-> {}, events |-> <<>>, published |-> {}, last |-> 0,
            keys |-> NoKeys]
  /\ db = [docs |-> {}, pairs |-> {}, events |-> {}, counter |-> 0, keys |-> NoKeys]
  /\ calls = 0 /\ answers = Same /\ drifted = FALSE
  /\ focus \in {"docs", "pairs", "events", "keys"}

\* Collections share nothing, and nothing is compared once the stores drifted.
CallTwins(collection) ==
  /\ focus = collection /\ ~drifted /\ calls < MaxCalls
  /\ calls' = calls + 1 /\ UNCHANGED focus
Both(m, d, inMem, inDb) ==
  mem' = m /\ db' = d /\ answers' = [mem |-> inMem, db |-> inDb]

-----------------------------------------------------------------------------
(* Documents                                                               *)

\* Mutant: an upsert appends to the bucket without looking for the reference.
MemPutAppends(docs, doc) == Append(docs, doc)

\* _Collection.put and the buckets: a known reference keeps its place.
MemPut(docs, doc) ==
  IF \E i \in DOMAIN docs : docs[i].ref = doc.ref
  THEN [i \in DOMAIN docs |-> IF docs[i].ref = doc.ref THEN doc ELSE docs[i]]
  ELSE Append(docs, doc)

\* replace_one with upsert, insert_one of a new reference.
DbReplace(docs, doc) == {d \in docs : d.ref # doc.ref} \cup {doc}

Put(doc) ==
  /\ CallTwins("docs")
  /\ Both([mem EXCEPT !.docs = MemPut(@, doc)], [db EXCEPT !.docs = DbReplace(@, doc)],
          Nothing, Nothing)
  /\ UNCHANGED drifted

MemFound(ref, state) == \E i \in DOMAIN mem.docs : mem.docs[i].ref = ref /\ mem.docs[i].state = state
DbFound(ref, state) == \E d \in db.docs : d.ref = ref /\ d.state = state

\* decide moves a request that is still pending, and answers whether it did.
MemDecide(ref) ==
  IF MemFound(ref, "pending")
  THEN [i \in DOMAIN mem.docs |->
          IF mem.docs[i].ref = ref THEN [mem.docs[i] EXCEPT !.state = "approved"] ELSE mem.docs[i]]
  ELSE mem.docs
DbDecide(ref) ==
  {IF d.ref = ref /\ d.state = "pending" THEN [d EXCEPT !.state = "approved"] ELSE d :
     d \in db.docs}

Decide(ref) ==
  /\ CallTwins("docs")
  /\ Both([mem EXCEPT !.docs = MemDecide(ref)], [db EXCEPT !.docs = DbDecide(ref)],
          MemFound(ref, "pending"), DbFound(ref, "pending"))
  /\ UNCHANGED drifted

\* A handler raises inside transaction(): MongoDB aborts, the memory store
\* "cannot roll back".
FailedTransaction(doc) ==
  /\ CallTwins("docs")
  /\ mem' = [mem EXCEPT !.docs = MemPut(@, doc)]
  /\ drifted' = TRUE /\ answers' = Same
  /\ UNCHANGED db

Firsts(seq, limit) == SubSeq(seq, 1, IF Len(seq) < limit THEN Len(seq) ELSE limit)

\* sorted(...)[:limit], reversed or not, is stable: equal keys keep their places.
MemListed(list, places, Before(_, _), limit) ==
  LET order == CHOOSE s \in SetToSeqs(places) : \A i, j \in DOMAIN s : i < j =>
                 \/ Before(list[s[i]], list[s[j]])
                 \/ ~Before(list[s[j]], list[s[i]]) /\ s[i] < s[j]
  IN  Firsts([n \in DOMAIN order |-> list[order[n]]], limit)
MemNewest(limit) == MemListed(mem.docs, DOMAIN mem.docs, LAMBDA a, b : a.at > b.at, limit)
MemPending(limit) ==
  MemListed(mem.docs, {i \in DOMAIN mem.docs : mem.docs[i].state = "pending"},
            LAMBDA a, b : a.at < b.at, limit)

\* find(query).sort(key).limit(limit): any order of equal keys.
DbSorted(S, Before(_, _), limit) ==
  {Firsts(s, limit) : s \in {s \in SetToSeqs(S) :
     \A i, j \in DOMAIN s : i < j => ~Before(s[j], s[i])}}
DbNewest(limit) == DbSorted(db.docs, LAMBDA a, b : a.at > b.at, limit)
DbPending(limit) ==
  DbSorted({d \in db.docs : d.state = "pending"}, LAMBDA a, b : a.at < b.at, limit)

\* find_resumable: max(candidates, key=updated_at), or the first of a sort.
MemResumable ==
  LET c == {i \in DOMAIN mem.docs : mem.docs[i].state = "interrupted"} IN
  IF c = {} THEN Nothing
  ELSE mem.docs[Min({i \in c : \A j \in c : mem.docs[j].at <= mem.docs[i].at})]
DbResumable ==
  LET c == {d \in db.docs : d.state = "interrupted"} IN
  IF c = {} THEN {Nothing} ELSE {d \in c : \A e \in c : e.at <= d.at}

-----------------------------------------------------------------------------
(* Assignments                                                             *)

Assign(p) ==
  /\ CallTwins("pairs")
  /\ Both([mem EXCEPT !.pairs = @ \cup {p}], [db EXCEPT !.pairs = @ \cup {p}], Nothing, Nothing)
  /\ UNCHANGED drifted

Revoke(p) ==
  /\ CallTwins("pairs")
  /\ Both([mem EXCEPT !.pairs = @ \ {p}], [db EXCEPT !.pairs = @ \ {p}],
          p \in mem.pairs, p \in db.pairs)
  /\ UNCHANGED drifted

-----------------------------------------------------------------------------
(* Outbox                                                                  *)

\* next_sequence and add, as Recorder.emit makes them.
Emit ==
  /\ CallTwins("events")
  /\ Both([mem EXCEPT !.last = @ + 1, !.events = Append(@, mem.last + 1)],
          [db EXCEPT !.counter = @ + 1,
                     !.events = @ \cup {[seq |-> db.counter + 1, at |-> calls, status |-> "pending"]}],
          mem.last + 1, db.counter + 1)
  /\ UNCHANGED drifted

MarkPublished(n) ==
  /\ CallTwins("events")
  /\ Both([mem EXCEPT !.published = @ \cup {n}],
          [db EXCEPT !.events = {IF e.seq = n THEN [e EXCEPT !.status = "published"] ELSE e : e \in @}],
          Nothing, Nothing)
  /\ UNCHANGED drifted

\* A list comprehension: what it keeps stays in place, which is a sort of equals.
MemInPlace(places, limit) == MemListed(mem.events, places, LAMBDA a, b : FALSE, limit)
MemUnpublished(limit) ==
  MemInPlace({i \in DOMAIN mem.events : mem.events[i] \notin mem.published}, limit)
DbUnpublished(limit) ==
  {[i \in DOMAIN s |-> s[i].seq] :
     s \in DbSorted({e \in db.events : e.status = "pending"}, LAMBDA a, b : a.at < b.at, limit)}

MemReplay(after, limit) ==
  MemInPlace({i \in DOMAIN mem.events : mem.events[i] > after}, limit)
DbReplay(after, limit) ==
  {[i \in DOMAIN s |-> s[i].seq] :
     s \in DbSorted({e \in db.events : e.seq > after}, LAMBDA a, b : a.seq < b.seq, limit)}

-----------------------------------------------------------------------------
(* Idempotency keys                                                        *)

Fresh(h) == [hash |-> h, done |-> FALSE, expires |-> calls + Ttl]
VerdictOn(e, h) == IF e = Nothing THEN "new" ELSE IF e.hash # h THEN "reused"
                   ELSE IF e.done THEN "completed" ELSE "in_progress"

\* The memory store evicts what has expired before it looks.
Evicted == [k \in KeyNames |->
  IF mem.keys[k] # Nothing /\ mem.keys[k].expires <= calls THEN Nothing ELSE mem.keys[k]]

\* A key that has expired and was not swept: the memory store takes it for gone.
Lagging(k) == db.keys[k] # Nothing /\ db.keys[k].expires <= calls

ReserveKey(k, h) ==
  /\ CallTwins("keys")
  /\ Both([mem EXCEPT !.keys = [Evicted EXCEPT ![k] = IF @ = Nothing THEN Fresh(h) ELSE @]],
          [db EXCEPT !.keys[k] = IF @ = Nothing THEN Fresh(h) ELSE @],
          VerdictOn(Evicted[k], h), VerdictOn(db.keys[k], h))
  /\ drifted' = Lagging(k)

CompleteKey(k) ==
  /\ CallTwins("keys")
  /\ Both([mem EXCEPT !.keys[k] = IF @ = Nothing THEN @ ELSE [@ EXCEPT !.done = TRUE]],
          [db EXCEPT !.keys[k] = IF @ = Nothing THEN @ ELSE [@ EXCEPT !.done = TRUE]],
          Nothing, Nothing)
  /\ drifted' = Lagging(k)

Open(e) == e # Nothing /\ ~e.done
ReleaseKey(k) ==
  /\ CallTwins("keys")
  /\ Both([mem EXCEPT !.keys[k] = IF Open(@) THEN Nothing ELSE @],
          [db EXCEPT !.keys[k] = IF Open(@) THEN Nothing ELSE @], Nothing, Nothing)
  /\ drifted' = Lagging(k)

\* The TTL monitor of MongoDB: some time after the document expired.
SweepKey(k) ==
  /\ db.keys[k] # Nothing /\ db.keys[k].expires <= calls
  /\ db' = [db EXCEPT !.keys[k] = Nothing]
  /\ UNCHANGED <<mem, calls, answers, drifted, focus>>

-----------------------------------------------------------------------------
TwinsNext ==
  \/ \E ref \in Refs, at \in 1..2, state \in States :
       Put(Doc(ref, at, state)) \/ FailedTransaction(Doc(ref, at, state))
  \/ \E ref \in Refs : Decide(ref)
  \/ \E p \in Pairs : Assign(p) \/ Revoke(p)
  \/ Emit \/ \E n \in 1..mem.last : MarkPublished(n)
  \/ \E k \in KeyNames : \/ \E h \in Hashes : ReserveKey(k, h)
                         \/ CompleteKey(k) \/ ReleaseKey(k) \/ SweepKey(k)

TwinsSpec == TwinsInit /\ [][TwinsNext]_twins

-----------------------------------------------------------------------------
TwinsTypeOK ==
  /\ \A i \in DOMAIN mem.docs : mem.docs[i].ref \in Refs /\ mem.docs[i].state \in States
  /\ \A d \in db.docs : d.ref \in Refs /\ d.state \in States
  /\ mem.pairs \cup db.pairs \subseteq Pairs
  /\ calls \in 0..MaxCalls /\ drifted \in BOOLEAN

\* test_store_contract.py:1 "The behaviour both stores must have": as long as no
\* transaction failed, whatever the memory store answers is an answer MongoDB may
\* give to the same calls; a key that expired and was not swept yet is all they
\* may differ in.
StoresAgree ==
  ~drifted =>
    /\ \A limit \in 1..MaxCalls :
         /\ MemNewest(limit) \in DbNewest(limit)
         /\ MemPending(limit) \in DbPending(limit)
         /\ MemUnpublished(limit) \in DbUnpublished(limit)
         /\ \A after \in 0..mem.last : MemReplay(after, limit) \in DbReplay(after, limit)
    /\ Len(mem.docs) = Cardinality(db.docs)
    /\ MemResumable \in DbResumable
    /\ mem.pairs = db.pairs
    /\ answers.mem = answers.db
    /\ \A k \in KeyNames, h \in Hashes :
         Lagging(k) \/ VerdictOn(Evicted[k], h) = VerdictOn(db.keys[k], h)
=============================================================================
