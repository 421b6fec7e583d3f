----------------------------- MODULE TwinProofs -----------------------------
(***************************************************************************)
(* Whatever the memory store answers, MongoDB may answer: a proof that the  *)
(* two stores agree (StoreTwins) for every set of references, keys and      *)
(* calls.                                                                  *)
(***************************************************************************)
EXTENDS StoreTwins, FiniteSetTheorems, SequenceTheorems, WellFoundedInduction,
        TLAPS

-----------------------------------------------------------------------------
(* Listing a finite set in an order.                                       *)

TotalOrder(R, P) ==
  /\ \A x \in P : <<x, x>> \notin R
  /\ \A x, y \in P : x # y => <<x, y>> \in R \/ <<y, x>> \in R
  /\ \A x, y, z \in P : <<x, y>> \in R /\ <<y, z>> \in R => <<x, z>> \in R

\* A strict total order lists a finite set: an element's place is one more than
\* the number of elements before it.
LEMMA OrderLists ==
  ASSUME NEW P, IsFiniteSet(P), NEW R, TotalOrder(R, P)
  PROVE  \E s \in SetToSeqs(P) : \A i, j \in DOMAIN s : i < j => <<s[i], s[j]>> \in R
<1> DEFINE Below(x) == {y \in P : <<y, x>> \in R}
           size == Cardinality(P)
           rank == [x \in P |-> Cardinality(Below(x)) + 1]
<1>0. size \in Nat
  BY FS_CardinalityType
<1>1. ASSUME NEW x \in P
      PROVE  /\ IsFiniteSet(Below(x)) /\ Cardinality(Below(x)) \in Nat
             /\ rank[x] \in 1..size
  <2>1. IsFiniteSet(P \ {x}) /\ Cardinality(P \ {x}) = size - 1
    BY FS_RemoveElement
  <2>2. Below(x) \in SUBSET (P \ {x})
    BY DEF TotalOrder
  <2>3. IsFiniteSet(Below(x)) /\ Cardinality(Below(x)) <= size - 1
    <3> HIDE DEF Below
    <3> QED BY <2>1, <2>2, FS_Subset
  <2>4. Cardinality(Below(x)) \in Nat
    <3> HIDE DEF Below
    <3> QED BY <2>3, FS_CardinalityType
  <2> HIDE DEF Below
  <2> QED BY <2>3, <2>4, <1>0
<1>2. ASSUME NEW x \in P, NEW y \in P, <<x, y>> \in R PROVE rank[x] < rank[y]
  <2>1. Below(x) \cup {x} \in SUBSET Below(y) /\ x \notin Below(x)
    BY <1>2 DEF TotalOrder
  <2>2. /\ IsFiniteSet(Below(x)) /\ Cardinality(Below(x)) \in Nat
        /\ IsFiniteSet(Below(y)) /\ Cardinality(Below(y)) \in Nat
    BY <1>1
  <2> HIDE DEF Below
  <2>3. Cardinality(Below(x) \cup {x}) = Cardinality(Below(x)) + 1
    BY <2>1, <2>2, FS_AddElement
  <2>4. Cardinality(Below(x) \cup {x}) <= Cardinality(Below(y))
    BY <2>1, <2>2, FS_Subset
  <2> QED BY <2>2, <2>3, <2>4
<1>3. rank \in [P -> 1..size]
  <2> HIDE DEF Below
  <2>1. \A x \in P : rank[x] \in 1..size
    BY <1>1
  <2> QED BY <2>1
<1> HIDE DEF rank
<1>4. ASSUME NEW x \in P, NEW y \in P, x # y PROVE rank[x] # rank[y]
  <2>1. rank[x] \in 1..size /\ rank[y] \in 1..size
    BY <1>3
  <2>2. <<x, y>> \in R \/ <<y, x>> \in R
    BY <1>4 DEF TotalOrder
  <2>3. rank[x] < rank[y] \/ rank[y] < rank[x]
    BY <1>2, <2>2
  <2> QED BY <2>1, <2>3, <1>0
<1>5. rank \in Injection(P, 1..size)
  BY <1>3, <1>4 DEF Injection, IsInjective
<1>6. IsFiniteSet(1..size) /\ Cardinality(1..size) = size
  BY <1>0, FS_Interval
<1>7. rank \in Surjection(P, 1..size)
  BY <1>5, <1>6, FS_Injection
<1>8. \A i \in 1..size : \E x \in P : rank[x] = i
  BY <1>7 DEF Surjection
<1> DEFINE s == [i \in 1..size |-> CHOOSE x \in P : rank[x] = i]
<1>9. \A i \in 1..size : s[i] \in P /\ rank[s[i]] = i
  BY <1>8
<1>10. s \in [1..size -> P] /\ DOMAIN s = 1..size
  BY <1>9
<1> HIDE DEF s
<1>11. \A i, j \in 1..size : i # j => s[i] # s[j]
  BY <1>9
<1>12. s \in SetToSeqs(P)
  BY <1>10, <1>11 DEF SetToSeqs
<1>13. ASSUME NEW i \in 1..size, NEW j \in 1..size, i < j PROVE <<s[i], s[j]>> \in R
  <2>1. s[i] \in P /\ s[j] \in P /\ rank[s[i]] = i /\ rank[s[j]] = j
    BY <1>9
  <2>2. s[i] # s[j]
    BY <1>11, <1>13
  <2>3. CASE <<s[j], s[i]>> \in R
    <3>1. rank[s[j]] < rank[s[i]]
      BY <2>1, <2>3, <1>2
    <3> QED BY <3>1, <2>1, <1>13
  <2> QED BY <2>1, <2>2, <2>3 DEF TotalOrder
<1> QED BY <1>10, <1>12, <1>13

\* What a listing of a set is.
LEMMA ListingOf ==
  ASSUME NEW P, IsFiniteSet(P), NEW s \in SetToSeqs(P)
  PROVE  /\ Cardinality(P) \in Nat /\ DOMAIN s = 1..Cardinality(P)
         /\ \A i \in DOMAIN s : s[i] \in P
         /\ \A i, j \in DOMAIN s : i # j => s[i] # s[j]
         /\ s \in Seq(P) /\ Len(s) = Cardinality(P)
BY FS_CardinalityType DEF SetToSeqs

\* Places listed, and what a list without repetition has there.
LEMMA ListedIs ==
  ASSUME NEW P, IsFiniteSet(P), NEW list,
         \A i, j \in P : list[i] = list[j] => i = j,
         NEW order \in SetToSeqs(P)
  PROVE  /\ [n \in DOMAIN order |-> list[order[n]]] \in SetToSeqs({list[i] : i \in P})
         /\ IsFiniteSet({list[i] : i \in P})
         /\ Cardinality({list[i] : i \in P}) = Cardinality(P)
<1> DEFINE S == {list[i] : i \in P}
           f == [i \in P |-> list[i]]
           s == [n \in DOMAIN order |-> list[order[n]]]
<1>1. f \in Bijection(P, S)
  BY DEF Bijection, Injection, Surjection, IsInjective
<1>2. ExistsBijection(P, S)
  BY <1>1 DEF ExistsBijection
<1> HIDE DEF f
<1>3. IsFiniteSet(S) /\ Cardinality(S) = Cardinality(P)
  <2> HIDE DEF S
  <2> QED BY <1>2, FS_Bijection
<1>4. /\ DOMAIN order = 1..Cardinality(P)
      /\ \A i \in DOMAIN order : order[i] \in P
      /\ \A i, j \in DOMAIN order : i # j => order[i] # order[j]
  BY ListingOf
<1>5. s \in [1..Cardinality(S) -> S]
  BY <1>3, <1>4
<1>6. \A i, j \in 1..Cardinality(S) : i # j => s[i] # s[j]
  BY <1>3, <1>4
<1> QED BY <1>3, <1>5, <1>6 DEF SetToSeqs

-----------------------------------------------------------------------------
(* What relates the two stores.                                            *)

DocRecords == [ref : Refs, at : Int, state : States]
Entries == [hash : Hashes, done : BOOLEAN, expires : Int]
EventRecords == [seq : Int, at : Int, status : {"pending", "published"}]

Memories ==
  [docs : Seq(DocRecords), pairs : SUBSET Pairs, events : Seq(Int), published : SUBSET Int,
   last : Nat, keys : [KeyNames -> Entries \cup {Nothing}]]
Databases ==
  [docs : SUBSET DocRecords, pairs : SUBSET Pairs, events : SUBSET EventRecords,
   counter : Nat, keys : [KeyNames -> Entries \cup {Nothing}]]
TwinsShape ==
  /\ mem \in Memories /\ db \in Databases
  /\ calls \in 0..MaxCalls /\ drifted \in BOOLEAN

\* The list holds the documents of the collection, each reference once.
SameDocs ==
  /\ \A i, j \in DOMAIN mem.docs : mem.docs[i].ref = mem.docs[j].ref => i = j
  /\ db.docs = {mem.docs[i] : i \in DOMAIN mem.docs}

\* Both outboxes hold every number drawn so far, in the order of time.
SameEvents ==
  /\ db.counter = mem.last
  /\ mem.events = [i \in 1..mem.last |-> i]
  /\ \A e \in db.events : e.seq \in 1..mem.last /\ e.at < calls
  /\ \A n \in 1..mem.last : \E e \in db.events : e.seq = n
  /\ \A e, f \in db.events : e.seq = f.seq => e = f
  /\ \A e, f \in db.events : e.seq < f.seq => e.at < f.at
  /\ \A e \in db.events : e.status = "pending" <=> e.seq \notin mem.published
  /\ mem.published \subseteq 1..mem.last

\* A key is the same in both, or gone or expired in both.
Gone(e) == e = Nothing \/ e.expires <= calls
SameKeys ==
  \A k \in KeyNames : mem.keys[k] = db.keys[k] \/ (Gone(mem.keys[k]) /\ Gone(db.keys[k]))

TwinsInv ==
  /\ TwinsShape
  /\ ~drifted => /\ SameDocs /\ mem.pairs = db.pairs /\ SameEvents /\ SameKeys
                 /\ answers.mem = answers.db

-----------------------------------------------------------------------------
(* Every call keeps them together.                                         *)

LEMMA TwinsInitially == TwinsInit => TwinsInv
<1> SUFFICES ASSUME TwinsInit PROVE TwinsInv
  OBVIOUS
<1>0. <<>> \in Seq(DocRecords) /\ <<>> \in Seq(Int) /\ 0 \in 0..MaxCalls
      /\ NoKeys \in [KeyNames -> Entries \cup {Nothing}]
  BY TwinsAssumption DEF NoKeys
<1>1. TwinsShape
  BY <1>0 DEF TwinsInit, TwinsShape, Memories, Databases
<1>2. SameDocs /\ SameEvents /\ SameKeys
  BY DEF TwinsInit, SameDocs, SameEvents, SameKeys
<1> QED BY <1>1, <1>2 DEF TwinsInit, TwinsInv, Same

\* A key that is gone stays gone as calls go by.
LEMMA GoneStaysGone ==
  ASSUME TwinsShape, calls' = calls + 1, SameKeys,
         mem'.keys = mem.keys, db'.keys = db.keys
  PROVE  SameKeys'
<1> SUFFICES ASSUME NEW k \in KeyNames
             PROVE  (mem.keys[k] = db.keys[k] \/ (Gone(mem.keys[k]) /\ Gone(db.keys[k])))'
  BY DEF SameKeys
<1>1. /\ calls \in Int /\ mem.keys[k] \in Entries \cup {Nothing}
      /\ db.keys[k] \in Entries \cup {Nothing}
  BY DEF TwinsShape, Memories, Databases
<1>2. ASSUME NEW e \in Entries \cup {Nothing}, Gone(e)
      PROVE  e = Nothing \/ e.expires <= calls + 1
  BY <1>1, <1>2 DEF Gone, Entries
<1>3. mem.keys[k] = db.keys[k] \/ (Gone(mem.keys[k]) /\ Gone(db.keys[k]))
  BY DEF SameKeys
<1> QED BY <1>1, <1>2, <1>3 DEF Gone

LEMMA EventsWait ==
  ASSUME TwinsShape, calls' = calls + 1, SameEvents,
         mem'.last = mem.last, mem'.events = mem.events, mem'.published = mem.published,
         db'.events = db.events, db'.counter = db.counter
  PROVE  SameEvents'
<1>1. \A e \in db.events : e.at < calls + 1
  BY DEF SameEvents, TwinsShape, Databases, EventRecords
<1> QED BY <1>1 DEF SameEvents

\* An upsert.
LEMMA PutKeeps ==
  ASSUME TwinsShape, NEW doc \in DocRecords
  PROVE  /\ MemPut(mem.docs, doc) \in Seq(DocRecords)
         /\ SameDocs =>
              /\ \A i, j \in DOMAIN MemPut(mem.docs, doc) :
                   MemPut(mem.docs, doc)[i].ref = MemPut(mem.docs, doc)[j].ref => i = j
              /\ DbReplace(db.docs, doc)
                   = {MemPut(mem.docs, doc)[i] : i \in DOMAIN MemPut(mem.docs, doc)}
<1>1. mem.docs \in Seq(DocRecords)
  BY DEF TwinsShape, Memories, Databases
<1> DEFINE docs == mem.docs
           put == MemPut(docs, doc)
<1>2. CASE \E i \in DOMAIN docs : docs[i].ref = doc.ref
  <2>1. put = [i \in DOMAIN docs |-> IF docs[i].ref = doc.ref THEN doc ELSE docs[i]]
    BY <1>2 DEF MemPut
  <2>2. put \in Seq(DocRecords) /\ DOMAIN put = DOMAIN docs
    BY <1>1, <2>1
  <2>3. \A i \in DOMAIN docs : put[i].ref = docs[i].ref
    BY <1>1, <2>1
  <2>4. SameDocs => \A d : d \in DbReplace(db.docs, doc) <=> \E i \in DOMAIN put : d = put[i]
    <3> SUFFICES ASSUME SameDocs, NEW d
                 PROVE  d \in DbReplace(db.docs, doc) <=> \E i \in DOMAIN put : d = put[i]
      OBVIOUS
    <3>1. ASSUME d \in DbReplace(db.docs, doc) PROVE \E i \in DOMAIN put : d = put[i]
      BY <1>2, <3>1, <2>1, <2>2 DEF DbReplace, SameDocs
    <3>2. ASSUME NEW i \in DOMAIN put, d = put[i] PROVE d \in DbReplace(db.docs, doc)
      BY <3>2, <2>1, <2>2 DEF DbReplace, SameDocs
    <3> QED BY <3>1, <3>2
  <2> HIDE DEF put
  <2> QED BY <2>2, <2>3, <2>4 DEF SameDocs, put
<1>3. CASE ~\E i \in DOMAIN docs : docs[i].ref = doc.ref
  <2>1. put = Append(docs, doc)
    BY <1>3 DEF MemPut
  <2>2. /\ put \in Seq(DocRecords) /\ DOMAIN put = 1..Len(docs) + 1
        /\ DOMAIN docs = 1..Len(docs) /\ Len(docs) \in Nat
        /\ put[Len(docs) + 1] = doc /\ \A i \in DOMAIN docs : put[i] = docs[i]
    BY <1>1, <2>1
  <2>3. DOMAIN put = DOMAIN docs \cup {Len(docs) + 1} /\ Len(docs) + 1 \notin DOMAIN docs
    BY <2>2
  <2>4. SameDocs => \A i, j \in DOMAIN put : put[i].ref = put[j].ref => i = j
    BY <1>3, <2>2, <2>3 DEF SameDocs
  <2>5. SameDocs => \A d : d \in DbReplace(db.docs, doc) <=> \E i \in DOMAIN put : d = put[i]
    BY <1>3, <2>2, <2>3 DEF DbReplace, SameDocs
  <2> HIDE DEF put
  <2> QED BY <2>2, <2>4, <2>5 DEF put
<1> QED BY <1>2, <1>3

\* A decision.
LEMMA DecideKeeps ==
  ASSUME TwinsShape, NEW ref \in Refs
  PROVE  /\ MemDecide(ref) \in Seq(DocRecords) /\ DbDecide(ref) \subseteq DocRecords
         /\ SameDocs =>
              /\ \A i, j \in DOMAIN MemDecide(ref) :
                   MemDecide(ref)[i].ref = MemDecide(ref)[j].ref => i = j
              /\ DbDecide(ref) = {MemDecide(ref)[i] : i \in DOMAIN MemDecide(ref)}
              /\ MemFound(ref, "pending") = DbFound(ref, "pending")
<1> DEFINE docs == mem.docs
           moved(d) == IF d.ref = ref /\ d.state = "pending"
                       THEN [d EXCEPT !.state = "approved"] ELSE d
           decided == MemDecide(ref)
<1>1. docs \in Seq(DocRecords) /\ db.docs \subseteq DocRecords
  BY DEF TwinsShape, Memories, Databases
<1>2. \A d \in DocRecords : moved(d) \in DocRecords /\ moved(d).ref = d.ref
  BY DEF DocRecords, States
<1>3. DbDecide(ref) = {moved(d) : d \in db.docs}
  BY DEF DbDecide
<1>a. ASSUME NEW i \in DOMAIN docs, MemFound(ref, "pending"), docs[i].ref = ref
      PROVE  [docs[i] EXCEPT !.state = "approved"] \in DocRecords
  <2>1. docs[i] \in DocRecords /\ "approved" \in States
    BY <1>a, <1>1 DEF States
  <2> QED BY <2>1 DEF DocRecords
<1>4. decided \in Seq(DocRecords) /\ DOMAIN decided = DOMAIN docs
  <2>1. CASE MemFound(ref, "pending")
    <3>1. decided = [i \in DOMAIN docs |->
            IF docs[i].ref = ref THEN [docs[i] EXCEPT !.state = "approved"] ELSE docs[i]]
      BY <2>1 DEF MemDecide
    <3>2. \A i \in DOMAIN docs : docs[i] \in DocRecords
      BY <1>1
    <3>3. ASSUME NEW i \in DOMAIN docs PROVE decided[i] \in DocRecords
      <4>1. CASE docs[i].ref = ref
        BY <4>1, <3>1, <2>1, <1>a
      <4>2. CASE docs[i].ref # ref
        BY <4>2, <3>1, <3>2
      <4> QED BY <4>1, <4>2
    <3>4. decided = [i \in DOMAIN docs |-> decided[i]]
      BY <3>1
    <3>5. Len(docs) \in Nat /\ DOMAIN docs = 1..Len(docs)
      BY <1>1
    <3> HIDE DEF decided
    <3>6. decided \in [1..Len(docs) -> DocRecords]
      BY <3>3, <3>4, <3>5
    <3> QED BY <3>5, <3>6
  <2>2. CASE ~MemFound(ref, "pending")
    BY <2>2, <1>1 DEF MemDecide
  <2> QED BY <2>1, <2>2
<1>5. SameDocs => \A i \in DOMAIN docs : decided[i] = moved(docs[i])
  <2> SUFFICES ASSUME SameDocs, NEW i \in DOMAIN docs PROVE decided[i] = moved(docs[i])
    OBVIOUS
  <2>1. CASE MemFound(ref, "pending")
    BY <2>1 DEF MemDecide, MemFound, SameDocs
  <2>2. CASE ~MemFound(ref, "pending")
    BY <2>2 DEF MemDecide, MemFound
  <2> QED BY <2>1, <2>2
<1>6. MemFound(ref, "pending") \in BOOLEAN /\ DbFound(ref, "pending") \in BOOLEAN
  BY DEF MemFound, DbFound
<1>7. SameDocs => (MemFound(ref, "pending") <=> DbFound(ref, "pending"))
  BY DEF MemFound, DbFound, SameDocs
<1>8. \A i \in DOMAIN docs : moved(docs[i]).ref = docs[i].ref
  BY <1>1, <1>2
<1>9. SameDocs => \A i \in DOMAIN decided : decided[i].ref = docs[i].ref
  BY <1>4, <1>5, <1>8
<1>10. SameDocs => DbDecide(ref) = {decided[i] : i \in DOMAIN decided}
  <2> HIDE DEF decided, moved
  <2> QED BY <1>3, <1>4, <1>5 DEF SameDocs
<1>11. DbDecide(ref) \subseteq DocRecords
  <2> HIDE DEF moved
  <2> QED BY <1>1, <1>2, <1>3
<1> HIDE DEF decided
<1> QED BY <1>4, <1>6, <1>7, <1>9, <1>10, <1>11 DEF SameDocs, decided

\* What a call on one collection leaves alone.
LEMMA OthersKeep ==
  ASSUME TwinsShape, calls' = calls + 1
  PROVE  /\ SameDocs /\ mem'.docs = mem.docs /\ db'.docs = db.docs => SameDocs'
         /\ SameEvents /\ (mem'.last = mem.last /\ mem'.events = mem.events
              /\ mem'.published = mem.published
              /\ db'.events = db.events /\ db'.counter = db.counter) => SameEvents'
         /\ SameKeys /\ mem'.keys = mem.keys /\ db'.keys = db.keys => SameKeys'
<1>1. SameDocs /\ mem'.docs = mem.docs /\ db'.docs = db.docs => SameDocs'
  BY DEF SameDocs
<1> QED BY <1>1, EventsWait, GoneStaysGone

\* The fields of the two stores.
LEMMA Fields ==
  ASSUME TwinsShape
  PROVE  /\ mem.docs \in Seq(DocRecords) /\ mem.pairs \subseteq Pairs /\ mem.events \in Seq(Int)
         /\ mem.published \subseteq Int /\ mem.last \in Nat
         /\ mem.keys \in [KeyNames -> Entries \cup {Nothing}]
         /\ db.docs \subseteq DocRecords /\ db.pairs \subseteq Pairs
         /\ db.events \subseteq EventRecords /\ db.counter \in Nat
         /\ db.keys \in [KeyNames -> Entries \cup {Nothing}]
         /\ calls \in Nat /\ MaxCalls \in Nat
BY TwinsAssumption DEF TwinsShape, Memories, Databases

\* A number drawn and an event added.
LEMMA EmitKeeps ==
  ASSUME TwinsInv, Emit
  PROVE  TwinsShape' /\ SameEvents' /\ mem.last + 1 = db.counter + 1
<1> DEFINE new == [seq |-> db.counter + 1, at |-> calls, status |-> "pending"]
           number == mem.last + 1
           numbers == Append(mem.events, number)
           added == db.events \cup {new}
<1>1. /\ TwinsShape /\ SameEvents /\ ~drifted
      /\ calls < MaxCalls /\ calls' = calls + 1 /\ drifted' = drifted
  BY DEF TwinsInv, Emit, CallTwins
<1>2. /\ mem.last \in Nat /\ db.counter = mem.last /\ calls \in Nat /\ MaxCalls \in Nat
      /\ mem.events \in Seq(Int) /\ db.events \subseteq EventRecords
      /\ mem \in Memories /\ db \in Databases
  BY <1>1, Fields DEF SameEvents, TwinsShape
<1>3. new \in EventRecords /\ new.seq = mem.last + 1 /\ new.at = calls /\ new.status = "pending"
  BY <1>2 DEF EventRecords
<1>m. mem' = [[mem EXCEPT !.last = number] EXCEPT !.events = numbers]
  BY <1>2 DEF Emit, Both, Memories
<1>b. db' = [[db EXCEPT !.counter = db.counter + 1] EXCEPT !.events = added]
  BY <1>2 DEF Emit, Both, Databases
<1>5. numbers \in Seq(Int) /\ number \in Nat /\ db.counter + 1 \in Nat
  BY <1>2
<1>e. added \subseteq EventRecords
  BY <1>2, <1>3
<1>7. numbers = [i \in 1..mem.last + 1 |-> i]
  <2>1. mem.events = [i \in 1..mem.last |-> i] /\ Len(mem.events) = mem.last
    BY <1>1, <1>2 DEF SameEvents
  <2> QED BY <2>1, <1>2
<1>n. \A e \in added : e = new \/ e \in db.events
  OBVIOUS
<1>o. new \in added /\ \A e \in db.events : e \in added
  OBVIOUS
<1> HIDE DEF new, numbers, number, added
<1>4. mem' \in Memories /\ mem'.events = numbers /\ mem'.last = number
      /\ mem'.published = mem.published
  BY <1>m, <1>2, <1>5 DEF Memories
<1>6. db' \in Databases /\ db'.counter = db.counter + 1 /\ db'.events = added
  BY <1>b, <1>2, <1>5, <1>e DEF Databases
<1>t. TwinsShape'
  BY <1>1, <1>2, <1>4, <1>6 DEF TwinsShape
<1>8. /\ \A e \in db.events : e.seq \in 1..mem.last /\ e.at < calls /\ e.at \in Int
      /\ \A n \in 1..mem.last : \E e \in db.events : e.seq = n
      /\ \A e, f \in db.events : e.seq = f.seq => e = f
      /\ \A e, f \in db.events : e.seq < f.seq => e.at < f.at
      /\ \A e \in db.events : e.status = "pending" <=> e.seq \notin mem.published
      /\ mem.published \subseteq 1..mem.last
  BY <1>1, <1>2 DEF SameEvents, EventRecords
<1>9. \A e \in db.events : e.seq \in 1..mem.last + 1 /\ e.seq # mem.last + 1
                           /\ e.seq < mem.last + 1 /\ e.at < calls + 1
  BY <1>2, <1>8
<1>10. SameEvents'
  <2>1. \A e \in added : e.seq \in 1..mem.last + 1 /\ e.at < calls + 1
    BY <1>2, <1>3, <1>n, <1>9
  <2>2. \A n \in 1..mem.last + 1 : \E e \in added : e.seq = n
    <3>1. \A n \in 1..mem.last + 1 : n = mem.last + 1 \/ n \in 1..mem.last
      BY <1>2
    <3> QED BY <3>1, <1>3, <1>8, <1>o
  <2>3. \A e, f \in added : e.seq = f.seq => e = f
    BY <1>3, <1>n, <1>8, <1>9
  <2>4. ASSUME NEW e \in added, NEW f \in added, e.seq < f.seq PROVE e.at < f.at
    <3>1. CASE e = new
      BY <3>1, <2>4, <1>2, <1>3, <1>8, <1>n
    <3>2. CASE e # new
      BY <3>2, <2>4, <1>3, <1>8, <1>n
    <3> QED BY <3>1, <3>2
  <2>5. \A e \in added : e.status = "pending" <=> e.seq \notin mem.published
    BY <1>2, <1>3, <1>n, <1>8
  <2>6. mem.published \subseteq 1..mem.last + 1
    BY <1>2, <1>8
  <2>7. number = mem.last + 1 /\ db.counter = mem.last
    BY <1>2 DEF number
  <2> QED BY <1>1, <1>4, <1>6, <1>7, <2>1, <2>2, <2>3, <2>4, <2>5, <2>6, <2>7 DEF SameEvents
<1> QED BY <1>2, <1>t, <1>10

\* An event marked published.
LEMMA MarkKeeps ==
  ASSUME TwinsInv, NEW n \in 1..mem.last, MarkPublished(n)
  PROVE  TwinsShape' /\ SameEvents'
<1> DEFINE marked(e) == IF e.seq = n THEN [e EXCEPT !.status = "published"] ELSE e
           events == {marked(e) : e \in db.events}
           published == mem.published \cup {n}
<1>1. /\ TwinsShape /\ SameEvents /\ ~drifted
      /\ calls < MaxCalls /\ calls' = calls + 1 /\ drifted' = drifted
  BY DEF TwinsInv, MarkPublished, CallTwins
<1>2. /\ mem.last \in Nat /\ calls \in Nat /\ MaxCalls \in Nat /\ n \in Int
      /\ db.events \subseteq EventRecords
      /\ mem \in Memories /\ db \in Databases /\ mem.published \subseteq Int
  BY <1>1, Fields DEF TwinsShape
<1>m. mem' = [mem EXCEPT !.published = published]
  BY DEF MarkPublished, Both
<1>b. db' = [db EXCEPT !.events = events]
  BY DEF MarkPublished, Both
<1>3. \A e \in EventRecords :
        /\ marked(e) \in EventRecords /\ marked(e).seq = e.seq /\ marked(e).at = e.at
        /\ marked(e).status = IF e.seq = n THEN "published" ELSE e.status
        /\ e.at \in Int /\ e.seq \in Int
  BY DEF EventRecords
<1> HIDE DEF marked
<1>5. events \subseteq EventRecords /\ published \subseteq Int
  BY <1>2, <1>3
<1>0. \A e \in events : \E f \in db.events : f \in EventRecords /\ e = marked(f)
  BY <1>2
<1>o. \A f \in db.events : marked(f) \in events
  OBVIOUS
<1>p. \A i : i \in published <=> i = n \/ i \in mem.published
  OBVIOUS
<1> HIDE DEF events, published
<1>4. mem' \in Memories /\ mem'.events = mem.events /\ mem'.last = mem.last
      /\ mem'.published = published
  BY <1>m, <1>2, <1>5 DEF Memories
<1>6. db' \in Databases /\ db'.counter = db.counter /\ db'.events = events
  BY <1>b, <1>2, <1>5 DEF Databases
<1>t. TwinsShape'
  BY <1>1, <1>2, <1>4, <1>6 DEF TwinsShape
<1>7. SameEvents'
  <2>1. \A e \in events : e.seq \in 1..mem.last /\ e.at < calls + 1
    BY <1>1, <1>2, <1>3, <1>0 DEF SameEvents
  <2>2. \A i \in 1..mem.last : \E e \in events : e.seq = i
    BY <1>1, <1>2, <1>3, <1>o DEF SameEvents
  <2>3. ASSUME NEW e \in events, NEW f \in events PROVE e.seq = f.seq => e = f
    <3>1. PICK g \in db.events : g \in EventRecords /\ e = marked(g)
      BY <1>0
    <3>2. PICK h \in db.events : h \in EventRecords /\ f = marked(h)
      BY <1>0
    <3> QED BY <3>1, <3>2, <1>1, <1>3 DEF SameEvents
  <2>4. ASSUME NEW e \in events, NEW f \in events PROVE e.seq < f.seq => e.at < f.at
    <3>1. PICK g \in db.events : g \in EventRecords /\ e = marked(g)
      BY <1>0
    <3>2. PICK h \in db.events : h \in EventRecords /\ f = marked(h)
      BY <1>0
    <3> QED BY <3>1, <3>2, <1>1, <1>3 DEF SameEvents
  <2>5. \A e \in events : e.status = "pending" <=> e.seq \notin published
    BY <1>1, <1>3, <1>0, <1>p DEF SameEvents
  <2>6. published \subseteq 1..mem.last
    BY <1>1, <1>p DEF SameEvents
  <2>7. db.counter = mem.last /\ mem.events = [i \in 1..mem.last |-> i]
    BY <1>1 DEF SameEvents
  <2> QED BY <1>1, <1>4, <1>6, <2>1, <2>2, <2>3, <2>4, <2>5, <2>6, <2>7 DEF SameEvents
<1> QED BY <1>t, <1>7

\* A store of documents changed in both.
LEMMA DocsKeep ==
  ASSUME TwinsShape, calls < MaxCalls, calls' = calls + 1, drifted' \in BOOLEAN,
         NEW docs \in Seq(DocRecords), NEW found \in SUBSET DocRecords,
         mem' = [mem EXCEPT !.docs = docs], db' = [db EXCEPT !.docs = found]
  PROVE  /\ TwinsShape' /\ mem'.docs = docs /\ db'.docs = found
         /\ mem'.pairs = mem.pairs /\ db'.pairs = db.pairs
         /\ SameEvents => SameEvents'
         /\ SameKeys => SameKeys'
<1>1. mem \in Memories /\ db \in Databases /\ calls \in Nat /\ MaxCalls \in Nat
  BY Fields DEF TwinsShape
<1>2. /\ mem' \in Memories /\ mem'.docs = docs /\ mem'.pairs = mem.pairs
      /\ mem'.events = mem.events /\ mem'.last = mem.last /\ mem'.published = mem.published
      /\ mem'.keys = mem.keys
  BY <1>1 DEF Memories
<1>3. /\ db' \in Databases /\ db'.docs = found /\ db'.pairs = db.pairs
      /\ db'.events = db.events /\ db'.counter = db.counter /\ db'.keys = db.keys
  BY <1>1 DEF Databases
<1>4. TwinsShape'
  BY <1>1, <1>2, <1>3 DEF TwinsShape
<1> QED BY <1>2, <1>3, <1>4, OthersKeep

LEMMA PutStep == ASSUME TwinsInv, NEW doc \in DocRecords, Put(doc) PROVE TwinsInv'
<1> DEFINE docs == MemPut(mem.docs, doc)
           found == DbReplace(db.docs, doc)
<1>1. /\ TwinsShape /\ ~drifted /\ SameDocs /\ SameEvents /\ SameKeys /\ mem.pairs = db.pairs
      /\ calls < MaxCalls /\ calls' = calls + 1 /\ drifted' = drifted
      /\ mem' = [mem EXCEPT !.docs = docs] /\ db' = [db EXCEPT !.docs = found]
      /\ answers'.mem = answers'.db
  BY DEF TwinsInv, Put, CallTwins, Both
<1>2. drifted' \in BOOLEAN /\ db.docs \subseteq DocRecords
  BY <1>1, Fields DEF TwinsShape
<1>3. docs \in Seq(DocRecords) /\ found \in SUBSET DocRecords
  BY <1>1, <1>2, PutKeeps DEF DbReplace
<1>4. /\ \A i, j \in DOMAIN docs : docs[i].ref = docs[j].ref => i = j
      /\ found = {docs[i] : i \in DOMAIN docs}
  BY <1>1, PutKeeps
<1> HIDE DEF docs, found
<1>5. /\ TwinsShape' /\ mem'.docs = docs /\ db'.docs = found
      /\ mem'.pairs = db'.pairs /\ SameEvents' /\ SameKeys'
  BY <1>1, <1>2, <1>3, DocsKeep
<1>6. SameDocs'
  BY <1>4, <1>5 DEF SameDocs
<1> QED BY <1>1, <1>5, <1>6 DEF TwinsInv

LEMMA DecideStep == ASSUME TwinsInv, NEW ref \in Refs, Decide(ref) PROVE TwinsInv'
<1> DEFINE docs == MemDecide(ref)
           found == DbDecide(ref)
<1>1. /\ TwinsShape /\ ~drifted /\ SameDocs /\ SameEvents /\ SameKeys /\ mem.pairs = db.pairs
      /\ calls < MaxCalls /\ calls' = calls + 1 /\ drifted' = drifted
      /\ mem' = [mem EXCEPT !.docs = docs] /\ db' = [db EXCEPT !.docs = found]
  BY DEF TwinsInv, Decide, CallTwins, Both
<1>a. answers'.mem = MemFound(ref, "pending") /\ answers'.db = DbFound(ref, "pending")
  BY DEF Decide, Both
<1>2. drifted' \in BOOLEAN
  BY <1>1 DEF TwinsShape
<1>3. docs \in Seq(DocRecords) /\ found \in SUBSET DocRecords
  BY <1>1, DecideKeeps
<1>4. /\ \A i, j \in DOMAIN docs : docs[i].ref = docs[j].ref => i = j
      /\ found = {docs[i] : i \in DOMAIN docs}
      /\ MemFound(ref, "pending") = DbFound(ref, "pending")
  BY <1>1, DecideKeeps
<1> HIDE DEF docs, found
<1>5. /\ TwinsShape' /\ mem'.docs = docs /\ db'.docs = found
      /\ mem'.pairs = db'.pairs /\ SameEvents' /\ SameKeys'
  BY <1>1, <1>2, <1>3, DocsKeep
<1>6. SameDocs'
  BY <1>4, <1>5 DEF SameDocs
<1> QED BY <1>1, <1>a, <1>4, <1>5, <1>6 DEF TwinsInv

\* A transaction that fails: the stores are no longer compared.
LEMMA FailedStep == ASSUME TwinsInv, NEW doc \in DocRecords, FailedTransaction(doc) PROVE TwinsInv'
<1> DEFINE docs == MemPut(mem.docs, doc)
<1>1. /\ TwinsShape /\ calls < MaxCalls /\ calls' = calls + 1 /\ drifted' = TRUE
      /\ mem' = [mem EXCEPT !.docs = docs] /\ db' = db
  BY DEF TwinsInv, FailedTransaction, CallTwins
<1>2. mem \in Memories /\ db \in Databases /\ calls \in Nat /\ MaxCalls \in Nat
  BY <1>1, Fields DEF TwinsShape
<1>3. docs \in Seq(DocRecords)
  BY <1>1, PutKeeps
<1> HIDE DEF docs
<1>4. mem' \in Memories
  BY <1>1, <1>2, <1>3 DEF Memories
<1> QED BY <1>1, <1>2, <1>4 DEF TwinsInv, TwinsShape

LEMMA PairStep == ASSUME TwinsInv, NEW p \in Pairs, Assign(p) \/ Revoke(p) PROVE TwinsInv'
<1>1. /\ TwinsShape /\ ~drifted /\ SameDocs /\ SameEvents /\ SameKeys /\ mem.pairs = db.pairs
      /\ calls < MaxCalls /\ calls' = calls + 1 /\ drifted' = drifted
  BY DEF TwinsInv, Assign, Revoke, CallTwins
<1>2. /\ mem \in Memories /\ db \in Databases /\ calls \in Nat /\ MaxCalls \in Nat
      /\ mem.pairs \subseteq Pairs
  BY <1>1, Fields DEF TwinsShape
<1>3. PICK pairs \in SUBSET Pairs :
        /\ mem' = [mem EXCEPT !.pairs = pairs] /\ db' = [db EXCEPT !.pairs = pairs]
        /\ answers'.mem = answers'.db
  <2>1. CASE Assign(p)
    <3>1. mem.pairs \cup {p} \in SUBSET Pairs
      BY <1>2
    <3> QED BY <2>1, <3>1, <1>1 DEF Assign, Both
  <2>2. CASE Revoke(p)
    <3>1. mem.pairs \ {p} \in SUBSET Pairs
      BY <1>2
    <3> QED BY <2>2, <3>1, <1>1 DEF Revoke, Both
  <2> QED BY <2>1, <2>2
<1>4. /\ mem' \in Memories /\ mem'.docs = mem.docs /\ mem'.pairs = pairs
      /\ mem'.events = mem.events /\ mem'.last = mem.last /\ mem'.published = mem.published
      /\ mem'.keys = mem.keys
  BY <1>2, <1>3 DEF Memories
<1>5. /\ db' \in Databases /\ db'.docs = db.docs /\ db'.pairs = pairs
      /\ db'.events = db.events /\ db'.counter = db.counter /\ db'.keys = db.keys
  BY <1>2, <1>3 DEF Databases
<1>6. TwinsShape'
  BY <1>1, <1>2, <1>4, <1>5 DEF TwinsShape
<1> QED BY <1>1, <1>3, <1>4, <1>5, <1>6, OthersKeep DEF TwinsInv

LEMMA EventStep ==
  ASSUME TwinsInv, Emit \/ \E n \in 1..mem.last : MarkPublished(n)
  PROVE  TwinsInv'
<1>1. TwinsShape' /\ SameEvents' /\ (Emit => mem.last + 1 = db.counter + 1)
  BY EmitKeeps, MarkKeeps
<1>2. /\ TwinsShape /\ ~drifted /\ SameDocs /\ SameKeys /\ mem.pairs = db.pairs
      /\ calls' = calls + 1 /\ mem \in Memories /\ db \in Databases
  BY DEF TwinsInv, TwinsShape, Emit, MarkPublished, CallTwins
<1>3. /\ mem'.docs = mem.docs /\ mem'.pairs = mem.pairs /\ mem'.keys = mem.keys
      /\ db'.docs = db.docs /\ db'.pairs = db.pairs /\ db'.keys = db.keys
      /\ answers'.mem = answers'.db
  <2>1. CASE Emit
    BY <2>1, <1>1, <1>2 DEF Emit, Both, Memories, Databases
  <2>2. CASE \E n \in 1..mem.last : MarkPublished(n)
    BY <2>2, <1>2 DEF MarkPublished, Both, Memories, Databases
  <2> QED BY <2>1, <2>2
<1>4. SameDocs' /\ SameKeys'
  BY <1>2, <1>3, OthersKeep
<1> QED BY <1>1, <1>2, <1>3, <1>4 DEF TwinsInv

\* Keys changed in both.
LEMMA KeysKeep ==
  ASSUME TwinsInv, ~drifted, calls < MaxCalls, calls' = calls + 1, drifted' \in BOOLEAN,
         NEW inMem \in [KeyNames -> Entries \cup {Nothing}],
         NEW inDb \in [KeyNames -> Entries \cup {Nothing}],
         mem' = [mem EXCEPT !.keys = inMem], db' = [db EXCEPT !.keys = inDb],
         answers'.mem = answers'.db \/ drifted',
         \/ drifted'
         \/ \A k \in KeyNames : \/ inMem[k] = inDb[k]
                                \/ Gone(inMem[k]) /\ Gone(inDb[k])
  PROVE  TwinsInv'
<1>1. /\ TwinsShape /\ SameDocs /\ SameEvents /\ mem.pairs = db.pairs
      /\ mem \in Memories /\ db \in Databases /\ calls \in Nat /\ MaxCalls \in Nat
  BY Fields DEF TwinsInv, TwinsShape
<1>2. /\ mem' \in Memories /\ mem'.docs = mem.docs /\ mem'.pairs = mem.pairs
      /\ mem'.events = mem.events /\ mem'.last = mem.last /\ mem'.published = mem.published
      /\ mem'.keys = inMem
  BY <1>1 DEF Memories
<1>3. /\ db' \in Databases /\ db'.docs = db.docs /\ db'.pairs = db.pairs
      /\ db'.events = db.events /\ db'.counter = db.counter /\ db'.keys = inDb
  BY <1>1 DEF Databases
<1>4. TwinsShape'
  BY <1>1, <1>2, <1>3 DEF TwinsShape
<1>5. ASSUME NEW e \in Entries \cup {Nothing}, Gone(e) PROVE Gone(e)'
  BY <1>5, <1>1 DEF Gone, Entries
<1>6. ~drifted' => SameKeys'
  <2> SUFFICES ASSUME ~drifted', NEW k \in KeyNames
               PROVE  (mem.keys[k] = db.keys[k] \/ (Gone(mem.keys[k]) /\ Gone(db.keys[k])))'
    BY DEF SameKeys
  <2>1. inMem[k] \in Entries \cup {Nothing} /\ inDb[k] \in Entries \cup {Nothing}
    OBVIOUS
  <2>2. inMem[k] = inDb[k] \/ (Gone(inMem[k]) /\ Gone(inDb[k]))
    OBVIOUS
  <2>3. \A e \in Entries \cup {Nothing} : Gone(e) => e = Nothing \/ e.expires <= calls'
    BY <1>5 DEF Gone
  <2> QED BY <2>1, <2>2, <2>3, <1>2, <1>3 DEF Gone
<1> QED BY <1>1, <1>2, <1>3, <1>4, <1>6, OthersKeep DEF TwinsInv

LEMMA KeyStep ==
  ASSUME TwinsInv, NEW k \in KeyNames,
         \/ \E h \in Hashes : ReserveKey(k, h)
         \/ CompleteKey(k) \/ ReleaseKey(k)
  PROVE  TwinsInv'
<1>1. /\ TwinsShape /\ ~drifted /\ SameKeys
      /\ mem.keys \in [KeyNames -> Entries \cup {Nothing}]
      /\ db.keys \in [KeyNames -> Entries \cup {Nothing}]
      /\ calls < MaxCalls /\ calls' = calls + 1 /\ calls \in Nat
      /\ drifted' = Lagging(k) /\ drifted' \in BOOLEAN
  <2>1. /\ ~drifted /\ calls < MaxCalls /\ calls' = calls + 1 /\ drifted' = Lagging(k)
    BY DEF ReserveKey, CompleteKey, ReleaseKey, CallTwins
  <2>2. Lagging(k) \in BOOLEAN
    BY DEF Lagging
  <2>3. TwinsShape /\ SameKeys
    BY <2>1 DEF TwinsInv
  <2> QED BY <2>1, <2>2, <2>3, Fields
<1>2. \A m \in KeyNames : mem.keys[m] = db.keys[m] \/ (Gone(mem.keys[m]) /\ Gone(db.keys[m]))
  BY <1>1 DEF SameKeys
<1>3. ASSUME NEW h \in Hashes, ReserveKey(k, h) PROVE TwinsInv'
  <2> DEFINE inMem == [Evicted EXCEPT ![k] = IF @ = Nothing THEN Fresh(h) ELSE @]
             inDb == [db.keys EXCEPT ![k] = IF @ = Nothing THEN Fresh(h) ELSE @]
  <2>1. /\ mem' = [mem EXCEPT !.keys = inMem] /\ db' = [db EXCEPT !.keys = inDb]
        /\ answers'.mem = VerdictOn(Evicted[k], h) /\ answers'.db = VerdictOn(db.keys[k], h)
    BY <1>3 DEF ReserveKey, Both
  <2>2. Fresh(h) \in Entries
    <3>1. PICK no \in BOOLEAN : no = FALSE
      OBVIOUS
    <3>2. Fresh(h) = [hash |-> h, done |-> no, expires |-> calls + Ttl]
      BY <3>1 DEF Fresh
    <3> QED BY <3>2, <1>1, TwinsAssumption DEF Entries
  <2>3. Evicted \in [KeyNames -> Entries \cup {Nothing}]
    BY <1>1 DEF Evicted
  <2>4. \A m \in KeyNames : Evicted[m] = IF Gone(mem.keys[m]) THEN Nothing ELSE mem.keys[m]
    BY DEF Evicted, Gone
  <2>5. /\ inMem \in [KeyNames -> Entries \cup {Nothing}]
        /\ inDb \in [KeyNames -> Entries \cup {Nothing}]
    BY <1>1, <2>2, <2>3
  <2>6. Lagging(k) \/ Evicted[k] = db.keys[k]
    BY <1>2, <2>4 DEF Lagging, Gone
  <2>7. /\ inMem[k] = IF Evicted[k] = Nothing THEN Fresh(h) ELSE Evicted[k]
        /\ inDb[k] = IF db.keys[k] = Nothing THEN Fresh(h) ELSE db.keys[k]
        /\ \A m \in KeyNames \ {k} : inMem[m] = Evicted[m] /\ inDb[m] = db.keys[m]
    BY <1>1, <2>3
  <2>8. ASSUME ~Lagging(k), NEW m \in KeyNames
        PROVE  inMem[m] = inDb[m] \/ (Gone(inMem[m]) /\ Gone(inDb[m]))
    <3>1. CASE m = k
      BY <2>6, <2>7, <2>8, <3>1
    <3>2. CASE m # k
      <4>1. inMem[m] = Evicted[m] /\ inDb[m] = db.keys[m]
        BY <2>7, <3>2
      <4>2. Evicted[m] = db.keys[m] \/ (Gone(Evicted[m]) /\ Gone(db.keys[m]))
        BY <1>2, <2>4 DEF Gone
      <4> QED BY <4>1, <4>2
    <3> QED BY <3>1, <3>2
  <2>9. answers'.mem = answers'.db \/ drifted'
    BY <2>1, <2>6, <1>1
  <2> HIDE DEF inMem, inDb
  <2> QED BY <1>1, <2>1, <2>5, <2>8, <2>9, KeysKeep
<1> DEFINE Becomes(inMem, inDb) ==
      /\ mem' = [mem EXCEPT !.keys = inMem] /\ db' = [db EXCEPT !.keys = inDb]
      /\ inMem \in [KeyNames -> Entries \cup {Nothing}]
      /\ inDb \in [KeyNames -> Entries \cup {Nothing}]
      /\ \A m \in KeyNames \ {k} : inMem[m] = mem.keys[m] /\ inDb[m] = db.keys[m]
      /\ mem.keys[k] = db.keys[k] => inMem[k] = inDb[k]
      /\ Gone(mem.keys[k]) => Gone(inMem[k])
      /\ Gone(db.keys[k]) => Gone(inDb[k])
<1>4. ASSUME NEW inMem, NEW inDb, Becomes(inMem, inDb), answers'.mem = answers'.db PROVE TwinsInv'
  <2>1. ASSUME NEW m \in KeyNames
        PROVE  inMem[m] = inDb[m] \/ (Gone(inMem[m]) /\ Gone(inDb[m]))
    <3>1. CASE m = k
      BY <1>4, <1>2, <3>1
    <3>2. CASE m # k
      BY <1>4, <1>2, <3>2
    <3> QED BY <3>1, <3>2
  <2> QED BY <1>1, <1>4, <2>1, KeysKeep
<1>5. CASE CompleteKey(k)
  <2>1. PICK yes \in BOOLEAN : yes = TRUE
    OBVIOUS
  <2> DEFINE marked(e) == IF e = Nothing THEN e ELSE [e EXCEPT !.done = yes]
             inMem == [mem.keys EXCEPT ![k] = marked(mem.keys[k])]
             inDb == [db.keys EXCEPT ![k] = marked(db.keys[k])]
  <2>2. /\ mem' = [mem EXCEPT !.keys = inMem] /\ db' = [db EXCEPT !.keys = inDb]
        /\ answers'.mem = answers'.db
    BY <1>5, <1>1, <2>1 DEF CompleteKey, Both
  <2>3. \A e \in Entries \cup {Nothing} : marked(e) \in Entries \cup {Nothing}
                                          /\ (Gone(e) => Gone(marked(e)))
    BY DEF Entries, Gone
  <2> HIDE DEF marked
  <2>4. Becomes(inMem, inDb)
    BY <1>1, <2>2, <2>3
  <2> HIDE DEF inMem, inDb, Becomes
  <2> QED BY <1>4, <2>2, <2>4
<1>6. CASE ReleaseKey(k)
  <2> DEFINE freed(e) == IF Open(e) THEN Nothing ELSE e
             inMem == [mem.keys EXCEPT ![k] = freed(mem.keys[k])]
             inDb == [db.keys EXCEPT ![k] = freed(db.keys[k])]
  <2>2. /\ mem' = [mem EXCEPT !.keys = inMem] /\ db' = [db EXCEPT !.keys = inDb]
        /\ answers'.mem = answers'.db
    BY <1>6, <1>1 DEF ReleaseKey, Both
  <2>3. \A e \in Entries \cup {Nothing} : freed(e) \in Entries \cup {Nothing}
                                          /\ (Gone(e) => Gone(freed(e)))
    BY DEF Gone
  <2> HIDE DEF freed
  <2>4. Becomes(inMem, inDb)
    BY <1>1, <2>2, <2>3
  <2> HIDE DEF inMem, inDb, Becomes
  <2> QED BY <1>4, <2>2, <2>4
<1> QED BY <1>3, <1>5, <1>6

\* The database drops a key that expired.
LEMMA SweepStep == ASSUME TwinsInv, NEW k \in KeyNames, SweepKey(k) PROVE TwinsInv'
<1> DEFINE inDb == [db.keys EXCEPT ![k] = Nothing]
<1>1. /\ TwinsShape /\ db \in Databases /\ Gone(db.keys[k])
      /\ db.keys \in [KeyNames -> Entries \cup {Nothing}]
      /\ db' = [db EXCEPT !.keys = inDb]
      /\ mem' = mem /\ calls' = calls /\ answers' = answers /\ drifted' = drifted
  <2>1. TwinsShape
    BY DEF TwinsInv
  <2> QED BY <2>1, Fields DEF SweepKey, Gone, TwinsShape
<1>2. inDb \in [KeyNames -> Entries \cup {Nothing}]
  BY <1>1
<1>3. \A m \in KeyNames : inDb[m] = IF m = k THEN Nothing ELSE db.keys[m]
  BY <1>1
<1> HIDE DEF inDb
<1>4. /\ db' \in Databases /\ db'.docs = db.docs /\ db'.pairs = db.pairs
      /\ db'.events = db.events /\ db'.counter = db.counter /\ db'.keys = inDb
  BY <1>1, <1>2 DEF Databases
<1>5. TwinsShape'
  BY <1>1, <1>4 DEF TwinsShape
<1>6. SameKeys => SameKeys'
  BY <1>1, <1>3, <1>4 DEF SameKeys, Gone
<1>7. (SameDocs => SameDocs') /\ (SameEvents => SameEvents')
  BY <1>1, <1>4 DEF SameDocs, SameEvents
<1> QED BY <1>1, <1>4, <1>5, <1>6, <1>7 DEF TwinsInv

\* Every step keeps the stores together.
LEMMA TwinsStep == TwinsInv /\ [TwinsNext]_twins => TwinsInv'
<1> SUFFICES ASSUME TwinsInv, [TwinsNext]_twins PROVE TwinsInv'
  OBVIOUS
<1>0. CASE UNCHANGED twins
  BY <1>0 DEF twins, TwinsInv, TwinsShape, SameDocs, SameEvents, SameKeys, Gone
<1>1. ASSUME NEW ref \in Refs, NEW at \in 1..2, NEW state \in States,
             Put(Doc(ref, at, state)) \/ FailedTransaction(Doc(ref, at, state))
      PROVE  TwinsInv'
  <2>1. Doc(ref, at, state) \in DocRecords
    BY DEF Doc, DocRecords
  <2> QED BY <1>1, <2>1, PutStep, FailedStep
<1> QED BY <1>0, <1>1, DecideStep, PairStep, EventStep, KeyStep, SweepStep DEF TwinsNext

-----------------------------------------------------------------------------
(* What they answer.                                                       *)

\* A set of numbers has a least one.
LEMMA LeastOf ==
  ASSUME NEW T, T \subseteq Nat, T # {}
  PROVE  \E x \in T : \A y \in T : x <= y
<1>1. IsWellFoundedOn({ss \in Nat \X Nat : ss[1] < ss[2]}, Nat)
  BY NatLessThanWellFounded DEF OpToRel
<1>2. PICK R : R = {ss \in Nat \X Nat : ss[1] < ss[2]}
  OBVIOUS
<1>3. PICK x \in T : \A y \in T : ~(<<y, x>> \in R)
  BY <1>1, <1>2, WFMin
<1>4. ASSUME NEW y \in T PROVE x <= y
  <2>1. x \in Nat /\ y \in Nat /\ <<y, x>> \in Nat \X Nat
    OBVIOUS
  <2>2. y < x => <<y, x>> \in R
    BY <1>2, <2>1
  <2> QED BY <1>3, <2>1, <2>2
<1> QED BY <1>4

\* A stable sort exists: by a number, then by place.
LEMMA StableSort ==
  ASSUME NEW P, IsFiniteSet(P), P \subseteq Int, NEW key \in [P -> Int]
  PROVE  \E s \in SetToSeqs(P) : \A i, j \in DOMAIN s : i < j =>
           key[s[i]] < key[s[j]] \/ (~(key[s[j]] < key[s[i]]) /\ s[i] < s[j])
<1> DEFINE R == {r \in P \X P : key[r[1]] < key[r[2]] \/ (~(key[r[2]] < key[r[1]]) /\ r[1] < r[2])}
<1>1. ASSUME NEW x \in P, NEW y \in P
      PROVE  <<x, y>> \in R <=> key[x] < key[y] \/ (~(key[y] < key[x]) /\ x < y)
  OBVIOUS
<1>2. \A x \in P : x \in Int /\ key[x] \in Int
  OBVIOUS
<1> HIDE DEF R
<1>3. \A x \in P : <<x, x>> \notin R
  BY <1>1, <1>2
<1>4. \A x, y \in P : x # y => <<x, y>> \in R \/ <<y, x>> \in R
  BY <1>1, <1>2
<1>5. \A x, y, z \in P : <<x, y>> \in R /\ <<y, z>> \in R => <<x, z>> \in R
  <2> SUFFICES ASSUME NEW x \in P, NEW y \in P, NEW z \in P, <<x, y>> \in R, <<y, z>> \in R
               PROVE  <<x, z>> \in R
    OBVIOUS
  <2> QED BY <1>1, <1>2
<1>6. PICK s \in SetToSeqs(P) : \A i, j \in DOMAIN s : i < j => <<s[i], s[j]>> \in R
  <2>1. TotalOrder(R, P)
    BY <1>3, <1>4, <1>5 DEF TotalOrder
  <2> QED BY <2>1, OrderLists
<1>7. \A i \in DOMAIN s : s[i] \in P
  BY ListingOf
<1> QED BY <1>1, <1>6, <1>7

LEMMA PlacesOf ==
  ASSUME TwinsShape
  PROVE  /\ DOMAIN mem.docs \subseteq Int /\ IsFiniteSet(DOMAIN mem.docs)
         /\ Len(mem.docs) \in Nat /\ Cardinality(DOMAIN mem.docs) = Len(mem.docs)
         /\ \A i \in DOMAIN mem.docs : mem.docs[i] \in DocRecords /\ mem.docs[i].at \in Int
<1>1. mem.docs \in Seq(DocRecords)
  BY Fields
<1>2. DOMAIN mem.docs = 1..Len(mem.docs) /\ Len(mem.docs) \in Nat
  BY <1>1
<1>3. IsFiniteSet(1..Len(mem.docs)) /\ Cardinality(1..Len(mem.docs)) = Len(mem.docs)
  BY <1>2, FS_Interval
<1>4. \A i \in DOMAIN mem.docs : mem.docs[i] \in DocRecords
  BY <1>1
<1>5. \A d \in DocRecords : d.at \in Int
  BY DEF DocRecords
<1> QED BY <1>2, <1>3, <1>4, <1>5

\* The documents at some places, in whatever order of the places.
LEMMA DocsListed ==
  ASSUME TwinsShape, SameDocs, NEW P \in SUBSET DOMAIN mem.docs, NEW order \in SetToSeqs(P)
  PROVE  [n \in DOMAIN order |-> mem.docs[order[n]]] \in SetToSeqs({mem.docs[i] : i \in P})
<1>1. IsFiniteSet(P)
  BY PlacesOf, FS_Subset
<1>2. \A i, j \in P : mem.docs[i] = mem.docs[j] => i = j
  BY DEF SameDocs
<1> QED BY <1>1, <1>2, ListedIs

LEMMA NewestAgree ==
  ASSUME TwinsShape, SameDocs, NEW limit
  PROVE  MemNewest(limit) \in DbNewest(limit)
<1> DEFINE P == DOMAIN mem.docs
           key == [i \in P |-> 0 - mem.docs[i].at]
           Sorts(s) == \A i, j \in DOMAIN s : i < j =>
                 \/ mem.docs[s[i]].at > mem.docs[s[j]].at
                 \/ ~(mem.docs[s[j]].at > mem.docs[s[i]].at) /\ s[i] < s[j]
           order == CHOOSE s \in SetToSeqs(P) : Sorts(s)
           listed == [n \in DOMAIN order |-> mem.docs[order[n]]]
<1>0. P \in SUBSET DOMAIN mem.docs
  OBVIOUS
<1>1. IsFiniteSet(P) /\ P \subseteq Int /\ \A i \in P : mem.docs[i].at \in Int
  BY PlacesOf
<1>2. key \in [P -> Int]
  BY <1>1
<1>3. PICK s \in SetToSeqs(P) : \A i, j \in DOMAIN s : i < j =>
           key[s[i]] < key[s[j]] \/ (~(key[s[j]] < key[s[i]]) /\ s[i] < s[j])
  <2> HIDE DEF P, key
  <2> QED BY <1>1, <1>2, StableSort
<1>4. Sorts(s)
  <2>1. \A i \in DOMAIN s : s[i] \in P
    BY <1>1, ListingOf
  <2>2. \A i \in P : key[i] = 0 - mem.docs[i].at
    OBVIOUS
  <2>3. \A a, b \in Int : 0 - a < 0 - b <=> a > b
    OBVIOUS
  <2>4. \A x, y \in P : key[x] < key[y] <=> mem.docs[x].at > mem.docs[y].at
    <3> HIDE DEF P, key
    <3> QED BY <2>2, <2>3, <1>1
  <2> HIDE DEF P, key
  <2> QED BY <2>1, <2>4, <1>3
<1>5. order \in SetToSeqs(P) /\ Sorts(order)
  <2> HIDE DEF P, Sorts
  <2> QED BY <1>4
<1>6. MemNewest(limit) = Firsts(listed, limit)
  BY DEF MemNewest, MemListed
<1> HIDE DEF order
<1>o. \A i \in DOMAIN order : order[i] \in P
  BY <1>1, <1>5, ListingOf
<1>7. \A i, j \in DOMAIN order : i < j => ~(mem.docs[order[j]].at > mem.docs[order[i]].at)
  BY <1>1, <1>5, <1>o
<1>9. {mem.docs[i] : i \in P} = db.docs
  BY DEF SameDocs
<1>10. listed \in SetToSeqs(db.docs) /\ DOMAIN listed = DOMAIN order
  <2> HIDE DEF P
  <2> QED BY <1>0, <1>5, <1>9, DocsListed
<1>11. \A i, j \in DOMAIN listed : i < j => ~(listed[j].at > listed[i].at)
  BY <1>7
<1> HIDE DEF listed
<1> QED BY <1>6, <1>10, <1>11 DEF DbNewest, DbSorted

LEMMA PendingAgree ==
  ASSUME TwinsShape, SameDocs, NEW limit
  PROVE  MemPending(limit) \in DbPending(limit)
<1> DEFINE P == {i \in DOMAIN mem.docs : mem.docs[i].state = "pending"}
           key == [i \in P |-> mem.docs[i].at]
           Sorts(s) == \A i, j \in DOMAIN s : i < j =>
                 \/ mem.docs[s[i]].at < mem.docs[s[j]].at
                 \/ ~(mem.docs[s[j]].at < mem.docs[s[i]].at) /\ s[i] < s[j]
           order == CHOOSE s \in SetToSeqs(P) : Sorts(s)
           listed == [n \in DOMAIN order |-> mem.docs[order[n]]]
<1>0. P \in SUBSET DOMAIN mem.docs
  OBVIOUS
<1>1. IsFiniteSet(P) /\ P \subseteq Int /\ \A i \in P : mem.docs[i].at \in Int
  <2>1. IsFiniteSet(DOMAIN mem.docs) /\ DOMAIN mem.docs \subseteq Int
        /\ \A i \in DOMAIN mem.docs : mem.docs[i].at \in Int
    BY PlacesOf
  <2> HIDE DEF P
  <2> QED BY <1>0, <2>1, FS_Subset
<1>2. key \in [P -> Int]
  BY <1>1
<1>3. PICK s \in SetToSeqs(P) : \A i, j \in DOMAIN s : i < j =>
           key[s[i]] < key[s[j]] \/ (~(key[s[j]] < key[s[i]]) /\ s[i] < s[j])
  <2> HIDE DEF P, key
  <2> QED BY <1>1, <1>2, StableSort
<1>4. Sorts(s)
  <2>1. \A i \in DOMAIN s : s[i] \in P
    BY <1>1, ListingOf
  <2>2. \A i \in P : key[i] = mem.docs[i].at
    OBVIOUS
  <2> HIDE DEF P, key
  <2> QED BY <2>1, <2>2, <1>1, <1>3
<1>5. order \in SetToSeqs(P) /\ Sorts(order)
  <2> HIDE DEF P, Sorts
  <2> QED BY <1>4
<1>6. MemPending(limit) = Firsts(listed, limit)
  BY DEF MemPending, MemListed
<1> HIDE DEF order
<1>o. \A i \in DOMAIN order : order[i] \in P
  BY <1>1, <1>5, ListingOf
<1>7. \A i, j \in DOMAIN order : i < j => ~(mem.docs[order[j]].at < mem.docs[order[i]].at)
  BY <1>1, <1>5, <1>o
<1>9. {mem.docs[i] : i \in P} = {d \in db.docs : d.state = "pending"}
  BY DEF SameDocs
<1>10. listed \in SetToSeqs({d \in db.docs : d.state = "pending"}) /\ DOMAIN listed = DOMAIN order
  <2> HIDE DEF P
  <2> QED BY <1>0, <1>5, <1>9, DocsListed
<1>11. \A i, j \in DOMAIN listed : i < j => ~(listed[j].at < listed[i].at)
  BY <1>7
<1> HIDE DEF listed
<1> QED BY <1>6, <1>10, <1>11 DEF DbPending, DbSorted

\* The conversation to resume.
LEMMA ResumableAgree ==
  ASSUME TwinsShape, SameDocs
  PROVE  MemResumable \in DbResumable
<1> DEFINE c == {i \in DOMAIN mem.docs : mem.docs[i].state = "interrupted"}
           top == {i \in c : \A j \in c : mem.docs[j].at <= mem.docs[i].at}
           d == {e \in db.docs : e.state = "interrupted"}
           key == [i \in c |-> 0 - mem.docs[i].at]
<1>1. IsFiniteSet(c) /\ c \subseteq Int /\ c \subseteq Nat /\ \A i \in c : mem.docs[i].at \in Int
  <2>1. /\ IsFiniteSet(DOMAIN mem.docs) /\ \A i \in DOMAIN mem.docs : mem.docs[i].at \in Int
        /\ DOMAIN mem.docs \subseteq Int
    BY PlacesOf
  <2>2. c \in SUBSET DOMAIN mem.docs
    OBVIOUS
  <2>3. DOMAIN mem.docs \subseteq Nat
    BY Fields
  <2> HIDE DEF c
  <2> QED BY <2>1, <2>2, <2>3, FS_Subset
<1>2. d = {mem.docs[i] : i \in c}
  BY DEF SameDocs
<1>3. CASE c = {}
  <2>1. d = {}
    BY <1>2, <1>3
  <2> QED BY <2>1, <1>3 DEF MemResumable, DbResumable
<1>4. CASE c # {}
  <2>1. key \in [c -> Int] /\ \A i \in c : key[i] = 0 - mem.docs[i].at
    BY <1>1
  <2> HIDE DEF c, key
  <2>2. PICK s \in SetToSeqs(c) : \A i, j \in DOMAIN s : i < j =>
           key[s[i]] < key[s[j]] \/ (~(key[s[j]] < key[s[i]]) /\ s[i] < s[j])
    BY <1>1, <2>1, StableSort
  <2>3. /\ DOMAIN s = 1..Cardinality(c) /\ Cardinality(c) \in Nat
        /\ \A i \in DOMAIN s : s[i] \in c
    BY <1>1, ListingOf
  <2>4. Cardinality(c) # 0
    BY <1>1, <1>4, FS_EmptySet
  <2>5. 1 \in DOMAIN s /\ s[1] \in c
    BY <2>3, <2>4
  <2>6. \A j \in c : \E i \in DOMAIN s : s[i] = j
    <3>1. s \in [1..Cardinality(c) -> c] /\ \A i, j \in 1..Cardinality(c) : i # j => s[i] # s[j]
      BY DEF SetToSeqs
    <3>2. s \in Injection(1..Cardinality(c), c)
      BY <3>1 DEF Injection, IsInjective
    <3>3. Cardinality(1..Cardinality(c)) = Cardinality(c)
      BY <2>3, FS_Interval
    <3>4. s \in Surjection(1..Cardinality(c), c)
      BY <3>2, <3>3, <1>1, FS_Injection
    <3> QED BY <3>4, <2>3 DEF Surjection
  <2>7. ASSUME NEW j \in c PROVE mem.docs[j].at <= mem.docs[s[1]].at
    <3>1. PICK i \in DOMAIN s : s[i] = j
      BY <2>6
    <3>0. mem.docs[j].at \in Int /\ mem.docs[s[1]].at \in Int
      BY <1>1, <2>5
    <3>2. CASE i = 1
      <4>1. s[1] = j
        BY <3>1, <3>2
      <4> QED BY <4>1, <3>0
    <3>3. CASE i # 1
      <4>1. 1 < i
        BY <3>3, <2>3
      <4>2. ~(key[j] < key[s[1]])
        <5>1. key[j] \in Int /\ key[s[1]] \in Int
          BY <2>1, <2>5
        <5> QED BY <4>1, <3>1, <2>2, <2>5, <5>1
      <4>3. key[j] = 0 - mem.docs[j].at /\ key[s[1]] = 0 - mem.docs[s[1]].at
        BY <2>1, <2>5
      <4> QED BY <4>2, <4>3, <3>0
    <3> QED BY <3>2, <3>3
  <2>8. top # {} /\ top \subseteq c
    BY <2>5, <2>7
  <2>9. Min(top) \in top
    <3>1. top \subseteq Nat /\ top # {}
      BY <2>8, <1>1
    <3> HIDE DEF top
    <3>2. \E n \in top : \A m \in top : n <= m
      BY <3>1, LeastOf
    <3> QED BY <3>2 DEF Min
  <2>10. MemResumable = mem.docs[Min(top)]
    BY <1>4 DEF MemResumable, c
  <2>11. \A j \in c : mem.docs[j].at <= mem.docs[Min(top)].at
    BY <2>9
  <2>12. Min(top) \in c
    BY <2>9
  <2> HIDE DEF top
  <2>13. mem.docs[Min(top)] \in d /\ \A e \in d : e.at <= mem.docs[Min(top)].at
    <3> HIDE DEF d
    <3> QED BY <1>2, <2>11, <2>12
  <2>14. d # {}
    BY <2>13
  <2>15. DbResumable = {x \in d : \A e \in d : e.at <= x.at}
    BY <2>14 DEF DbResumable
  <2> HIDE DEF d
  <2> QED BY <2>10, <2>13, <2>15
<1> QED BY <1>3, <1>4

\* What both outboxes answer about the events at some places.
LEMMA EventsListed ==
  ASSUME TwinsShape, SameEvents, NEW P \in SUBSET 1..mem.last
  PROVE  \E order \in SetToSeqs(P), s \in SetToSeqs({e \in db.events : e.seq \in P}) :
           /\ order = CHOOSE s1 \in SetToSeqs(P) : \A i, j \in DOMAIN s1 : i < j =>
                 \/ FALSE
                 \/ ~FALSE /\ s1[i] < s1[j]
           /\ DOMAIN s = DOMAIN order /\ \A i \in DOMAIN order : order[i] \in P
           /\ \A i \in DOMAIN order : s[i].seq = order[i]
           /\ \A i, j \in DOMAIN s : i < j => s[i].seq < s[j].seq /\ s[i].at < s[j].at
           /\ \A i \in DOMAIN s : s[i].seq \in Int /\ s[i].at \in Int
<1> DEFINE row == [n \in P |-> CHOOSE e \in db.events : e.seq = n]
           S == {e \in db.events : e.seq \in P}
           key == [n \in P |-> 0]
           order == CHOOSE s1 \in SetToSeqs(P) : \A i, j \in DOMAIN s1 : i < j =>
                 \/ FALSE
                 \/ ~FALSE /\ s1[i] < s1[j]
           s == [n \in DOMAIN order |-> row[order[n]]]
<1>1. mem.last \in Nat /\ db.events \subseteq EventRecords
  BY Fields
<1>2. IsFiniteSet(P) /\ P \subseteq Int
  <2>1. IsFiniteSet(1..mem.last) /\ 1..mem.last \subseteq Int
    <3>1. mem.last \in Int
      BY <1>1
    <3> QED BY <3>1, FS_Interval
  <2>2. IsFiniteSet(P)
    BY <2>1, FS_Subset
  <2> QED BY <2>1, <2>2
<1>3. \A n \in P : row[n] \in db.events /\ row[n].seq = n
  BY DEF SameEvents
<1>4. S = {row[n] : n \in P}
  <2>1. \A e \in S : e = row[e.seq]
    BY <1>3 DEF SameEvents
  <2> HIDE DEF row
  <2> QED BY <1>3, <2>1
<1>5. order \in SetToSeqs(P) /\ \A i, j \in DOMAIN order : i < j => order[i] < order[j]
  <2>1. key \in [P -> Int] /\ \A n \in P : key[n] = 0
    OBVIOUS
  <2> HIDE DEF key
  <2>2. PICK l \in SetToSeqs(P) : \A i, j \in DOMAIN l : i < j =>
           key[l[i]] < key[l[j]] \/ (~(key[l[j]] < key[l[i]]) /\ l[i] < l[j])
    BY <1>2, <2>1, StableSort
  <2>3. \A i \in DOMAIN l : l[i] \in P
    BY <1>2, ListingOf
  <2>4. \A i, j \in DOMAIN l : key[l[i]] = 0 /\ key[l[j]] = 0
    BY <2>1, <2>3
  <2>5. \A i, j \in DOMAIN l : i < j => l[i] < l[j]
    BY <2>2, <2>4
  <2> QED BY <2>5
<1> HIDE DEF row, order
<1>6. s \in SetToSeqs(S)
  <2>1. \A i, j \in P : row[i] = row[j] => i = j
    BY <1>3
  <2> HIDE DEF S
  <2> QED BY <2>1, <1>2, <1>4, <1>5, ListedIs
<1>7. \A i \in DOMAIN order : order[i] \in P
  BY <1>2, <1>5, ListingOf
<1>8. DOMAIN s = DOMAIN order /\ \A i \in DOMAIN order : s[i] \in db.events /\ s[i].seq = order[i]
  BY <1>3, <1>7
<1> HIDE DEF s, S
<1>9. \A e \in db.events : e.seq \in Int /\ e.at \in Int
  BY <1>1 DEF EventRecords
<1>10. \A i, j \in DOMAIN s : i < j => s[i].seq < s[j].seq /\ s[i].at < s[j].at
  BY <1>5, <1>8 DEF SameEvents
<1> QED BY <1>5, <1>6, <1>7, <1>8, <1>9, <1>10 DEF order, S

\* The numbers of a list of events.
NumbersOf(s) == [i \in DOMAIN s |-> s[i].seq]

SameNumbers(numbers, events) ==
  /\ numbers \in Seq(Int) /\ events \in Seq(EventRecords) /\ Len(numbers) = Len(events)
  /\ \A i \in 1..Len(numbers) : numbers[i] = events[i].seq

\* The first of a list of numbers are the numbers of the first events.
LEMMA FirstsOfBoth ==
  ASSUME NEW a, NEW s, SameNumbers(a, s), NEW limit \in Nat
  PROVE  Firsts(a, limit) = NumbersOf(Firsts(s, limit))
<1> DEFINE n == Len(a)
           m == IF n < limit THEN n ELSE limit
<1>1. /\ a \in Seq(Int) /\ s \in Seq(EventRecords) /\ Len(a) = n /\ Len(s) = n /\ n \in Nat
      /\ \A i \in 1..n : a[i] = s[i].seq
  BY DEF SameNumbers
<1>2. m \in 0..n
  BY <1>1
<1>3. Firsts(a, limit) = SubSeq(a, 1, m) /\ Firsts(s, limit) = SubSeq(s, 1, m)
  BY <1>1 DEF Firsts
<1> HIDE DEF m, n
<1>4. /\ SubSeq(a, 1, m) = [i \in 1..m |-> a[i]]
      /\ SubSeq(s, 1, m) = [i \in 1..m |-> s[i]]
  BY <1>1, <1>2
<1>5. 1..m \subseteq 1..n
  BY <1>1, <1>2
<1>6. /\ DOMAIN Firsts(s, limit) = 1..m /\ \A i \in 1..m : Firsts(s, limit)[i] = s[i]
      /\ Firsts(a, limit) = [i \in 1..m |-> a[i]]
  BY <1>3, <1>4
<1>7. [i \in DOMAIN Firsts(s, limit) |-> Firsts(s, limit)[i].seq] = [i \in 1..m |-> a[i]]
  BY <1>1, <1>5, <1>6
<1> QED BY <1>6, <1>7 DEF NumbersOf

\* A listing of the outbox in place is one MongoDB may give.
LEMMA InPlaceAgree ==
  ASSUME TwinsShape, SameEvents, NEW limit \in Nat, NEW P \in SUBSET 1..mem.last
  PROVE  \E s \in SetToSeqs({e \in db.events : e.seq \in P}) :
           /\ MemInPlace(P, limit) = NumbersOf(Firsts(s, limit))
           /\ \A i, j \in DOMAIN s : i < j => ~(s[j].seq < s[i].seq) /\ ~(s[j].at < s[i].at)
<1> DEFINE S == {e \in db.events : e.seq \in P}
<1>0. P \in SUBSET 1..mem.last
  OBVIOUS
<1>1. mem.last \in Nat /\ mem.events = [i \in 1..mem.last |-> i]
  BY Fields DEF SameEvents
<1>e. S \subseteq EventRecords
  BY Fields
<1>4. PICK order \in SetToSeqs(P), s \in SetToSeqs(S) :
           /\ order = CHOOSE s1 \in SetToSeqs(P) : \A i, j \in DOMAIN s1 : i < j =>
                 \/ FALSE
                 \/ ~FALSE /\ s1[i] < s1[j]
           /\ DOMAIN s = DOMAIN order /\ \A i \in DOMAIN order : order[i] \in P
           /\ \A i \in DOMAIN order : s[i].seq = order[i]
           /\ \A i, j \in DOMAIN s : i < j => s[i].seq < s[j].seq /\ s[i].at < s[j].at
           /\ \A i \in DOMAIN s : s[i].seq \in Int /\ s[i].at \in Int
  BY EventsListed
<1> HIDE DEF S
<1> DEFINE listed == [n \in DOMAIN order |-> mem.events[order[n]]]
<1>5. MemInPlace(P, limit) = Firsts(listed, limit)
  BY <1>4 DEF MemInPlace, MemListed
<1>6. listed = order
  <2>1. \A n \in DOMAIN order : mem.events[order[n]] = order[n]
    BY <1>0, <1>1, <1>4
  <2> QED BY <2>1 DEF SetToSeqs
<1>7. IsFiniteSet(P) /\ Cardinality(P) \in Nat
  <2>1. IsFiniteSet(1..mem.last)
    BY <1>1, FS_Interval
  <2> QED BY <2>1, <1>0, FS_Subset, FS_CardinalityType
<1>8. order \in [1..Cardinality(P) -> P] /\ DOMAIN order = 1..Cardinality(P)
  BY DEF SetToSeqs
<1>9. s \in [1..Cardinality(P) -> S]
  BY <1>4, <1>8 DEF SetToSeqs
<1>10. Firsts(order, limit) = NumbersOf(Firsts(s, limit))
  <2>1. \A i \in 1..Cardinality(P) : order[i] = s[i].seq
    BY <1>4, <1>8
  <2>2. P \subseteq Int /\ S \subseteq EventRecords
    BY <1>0, <1>e
  <2>3. /\ order \in Seq(Int) /\ Len(order) = Cardinality(P)
        /\ s \in Seq(EventRecords) /\ Len(s) = Cardinality(P)
    <3>1. order \in [1..Cardinality(P) -> Int] /\ s \in [1..Cardinality(P) -> EventRecords]
      BY <2>2, <1>8, <1>9
    <3> QED BY <3>1, <1>7
  <2>4. SameNumbers(order, s)
    BY <2>1, <2>3 DEF SameNumbers
  <2> QED BY <2>4, FirstsOfBoth
<1>11. \A i, j \in DOMAIN s : i < j => ~(s[j].seq < s[i].seq) /\ ~(s[j].at < s[i].at)
  BY <1>4
<1>12. MemInPlace(P, limit) = NumbersOf(Firsts(s, limit)) /\ s \in SetToSeqs(S)
  BY <1>4, <1>5, <1>6, <1>10
<1> QED BY <1>11, <1>12 DEF S

LEMMA UnpublishedAgree ==
  ASSUME TwinsShape, SameEvents, NEW limit \in Nat
  PROVE  MemUnpublished(limit) \in DbUnpublished(limit)
<1> DEFINE P == {i \in DOMAIN mem.events : mem.events[i] \notin mem.published}
           S == {e \in db.events : e.status = "pending"}
<1>1. mem.last \in Nat /\ mem.events = [i \in 1..mem.last |-> i]
  BY Fields DEF SameEvents
<1>2. P = {i \in 1..mem.last : i \notin mem.published}
  BY <1>1
<1>3. S = {e \in db.events : e.seq \in P}
  BY <1>2 DEF SameEvents
<1>4. MemUnpublished(limit) = MemInPlace(P, limit)
  BY DEF MemUnpublished
<1>5. DbUnpublished(limit) =
        {NumbersOf(s) : s \in {Firsts(s, limit) : s \in {s \in SetToSeqs(S) :
                                 \A i, j \in DOMAIN s : i < j => ~(s[j].at < s[i].at)}}}
  BY DEF DbUnpublished, DbSorted, NumbersOf
<1>6. P \in SUBSET 1..mem.last
  BY <1>2
<1> HIDE DEF P, S
<1> QED BY <1>3, <1>4, <1>5, <1>6, InPlaceAgree

LEMMA ReplayAgree ==
  ASSUME TwinsShape, SameEvents, NEW limit \in Nat, NEW after \in Nat
  PROVE  MemReplay(after, limit) \in DbReplay(after, limit)
<1> DEFINE P == {i \in DOMAIN mem.events : mem.events[i] > after}
           S == {e \in db.events : e.seq > after}
<1>1. mem.last \in Nat /\ mem.events = [i \in 1..mem.last |-> i]
  BY Fields DEF SameEvents
<1>2. P = {i \in 1..mem.last : i > after}
  BY <1>1
<1>3. S = {e \in db.events : e.seq \in P}
  BY <1>2 DEF SameEvents
<1>4. MemReplay(after, limit) = MemInPlace(P, limit)
  BY DEF MemReplay
<1>5. DbReplay(after, limit) =
        {NumbersOf(s) : s \in {Firsts(s, limit) : s \in {s \in SetToSeqs(S) :
                                 \A i, j \in DOMAIN s : i < j => ~(s[j].seq < s[i].seq)}}}
  BY DEF DbReplay, DbSorted, NumbersOf
<1>6. P \in SUBSET 1..mem.last
  BY <1>2
<1> HIDE DEF P, S
<1> QED BY <1>3, <1>4, <1>5, <1>6, InPlaceAgree

\* While they hold the same, the stores answer the same.
LEMMA TwinsAnswerAlike == TwinsInv => StoresAgree
<1> SUFFICES ASSUME TwinsInv, ~drifted PROVE StoresAgree
  BY DEF StoresAgree
<1>1. /\ TwinsShape /\ SameDocs /\ SameEvents /\ SameKeys
      /\ mem.pairs = db.pairs /\ answers.mem = answers.db
  BY DEF TwinsInv
<1>2. ASSUME NEW limit \in 1..MaxCalls, NEW after \in 0..mem.last
      PROVE  /\ MemNewest(limit) \in DbNewest(limit)
             /\ MemPending(limit) \in DbPending(limit)
             /\ MemUnpublished(limit) \in DbUnpublished(limit)
             /\ MemReplay(after, limit) \in DbReplay(after, limit)
  <2>1. mem.last \in Nat
    BY <1>1, Fields
  <2>2. after \in Nat /\ limit \in Nat
    BY <2>1, TwinsAssumption
  <2> QED BY <1>1, <2>2, NewestAgree, PendingAgree, UnpublishedAgree, ReplayAgree
<1>3. 0 \in 0..mem.last
  BY <1>1, Fields
<1>4. Len(mem.docs) = Cardinality(db.docs)
  <2>1. /\ IsFiniteSet(DOMAIN mem.docs) /\ Cardinality(DOMAIN mem.docs) = Len(mem.docs)
    BY <1>1, PlacesOf
  <2>2. \A i, j \in DOMAIN mem.docs : mem.docs[i] = mem.docs[j] => i = j
    BY <1>1 DEF SameDocs
  <2>3. PICK order : order \in SetToSeqs(DOMAIN mem.docs)
    <3>1. PICK f : f \in Bijection(1..Cardinality(DOMAIN mem.docs), DOMAIN mem.docs)
      BY <2>1, FS_CardinalityType DEF ExistsBijection
    <3>2. f \in SetToSeqs(DOMAIN mem.docs)
      BY <3>1 DEF SetToSeqs, Bijection, Injection, IsInjective
    <3> QED BY <3>2
  <2>4. Cardinality({mem.docs[i] : i \in DOMAIN mem.docs}) = Cardinality(DOMAIN mem.docs)
    BY <2>1, <2>2, <2>3, ListedIs
  <2> QED BY <1>1, <2>1, <2>4 DEF SameDocs
<1>5. ASSUME NEW k \in KeyNames, NEW h \in Hashes, ~Lagging(k)
      PROVE  VerdictOn(Evicted[k], h) = VerdictOn(db.keys[k], h)
  <2>1. mem.keys[k] = db.keys[k] \/ (Gone(mem.keys[k]) /\ Gone(db.keys[k]))
    BY <1>1 DEF SameKeys
  <2>2. Evicted[k] = IF Gone(mem.keys[k]) THEN Nothing ELSE mem.keys[k]
    BY DEF Evicted, Gone
  <2>3. Evicted[k] = db.keys[k]
    BY <2>1, <2>2, <1>5 DEF Lagging, Gone
  <2> QED BY <2>3
<1> HIDE DEF TwinsInv
<1> QED BY <1>1, <1>2, <1>3, <1>4, <1>5, ResumableAgree DEF StoresAgree

\* The relation between the stores is kept by every behaviour.
THEOREM StoresStayTogether == TwinsSpec => []TwinsInv
<1>1. TwinsInit => TwinsInv
  BY TwinsInitially
<1>2. TwinsInv /\ [TwinsNext]_twins => TwinsInv'
  BY TwinsStep
<1> QED BY <1>1, <1>2, PTL DEF TwinsSpec

\* Whether they drifted apart or not, both stores hold what they are for.
THEOREM TwinsTyped == TwinsSpec => []TwinsTypeOK
<1>1. TwinsInv => TwinsTypeOK
  <2> SUFFICES ASSUME TwinsShape PROVE TwinsTypeOK
    BY DEF TwinsInv
  <2>1. \A d \in DocRecords : d.ref \in Refs /\ d.state \in States
    BY DEF DocRecords
  <2>2. calls \in 0..MaxCalls /\ drifted \in BOOLEAN
    BY DEF TwinsShape
  <2>3. \A i \in DOMAIN mem.docs : mem.docs[i] \in DocRecords
    BY PlacesOf
  <2>4. db.docs \subseteq DocRecords /\ mem.pairs \cup db.pairs \subseteq Pairs
    BY Fields
  <2> QED BY <2>1, <2>2, <2>3, <2>4 DEF TwinsTypeOK
<1> QED BY <1>1, StoresStayTogether, PTL

\* test_store_contract.py:1 "The behaviour both stores must have": as long as no
\* transaction failed, no listing, decision, key, assignment or outbox answer of
\* the memory store is one MongoDB could not give.
THEOREM BothStoresAnswerAlike == TwinsSpec => []StoresAgree
BY StoresStayTogether, TwinsAnswerAlike, PTL
=============================================================================
