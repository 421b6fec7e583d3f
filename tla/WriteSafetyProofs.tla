------------------------- MODULE WriteSafetyProofs -------------------------
(***************************************************************************)
(* The safety of the write path beyond its trail, for any requests, keys,  *)
(* bodies, callers and faults: what an idempotency key promises, that one  *)
(* decision at most takes effect, that events appear in order, that a      *)
(* change comes with its record and its event, and that callers are told   *)
(* the truth.  The trail and the types are the subject of WritePathProofs. *)
(* And the write path implements the ledger: WriteLedger's refinement      *)
(* mapping takes initial states to initial states and every step to a step *)
(* of Ledger or to none.                                                   *)
(***************************************************************************)
EXTENDS WritePathProofs, WriteLedger, FiniteSetTheorems, SequenceTheorems

-----------------------------------------------------------------------------
(* Who acts, and what a step leaves alone.                                 *)

\* A step of request r: everything but the TTL index.
Acts(r) == Arrive(r) \/ Step(r) \/ Fault(r)

\* What belongs to the other requests stays.
OthersStay(r) ==
  \A q \in Requests \ {r} : /\ pc'[q] = pc[q] /\ call'[q] = call[q]
                            /\ local'[q] = local[q] /\ txn'[q] = txn[q]
                            /\ answer'[q] = answer[q]

\* Only a handler that still runs acts; an arriving one gets its call, and no
\* later step changes it.
LEMMA ActorMoves ==
  ASSUME TypeInv, NEW r \in Requests, Acts(r)
  PROVE  /\ pc[r] \notin Final
         /\ pc'[r] # "idle"
         /\ pc[r] # "idle" => call' = call
         /\ pc[r] = "idle" <=> Arrive(r)
<1> USE DEF TypeInv, TypeOK, Final, Goto, Answer
<1>1. CASE Arrive(r)
  <2>1. PICK c \in Calls : Goto(r, IF HasAccess(c) THEN FirstStep(c) ELSE "refuse")
    BY <1>1 DEF Arrive
  <2>2. FirstStep(c) # "idle"
    BY ConstantsAssumption, CallFields DEF FirstStep
  <2> QED BY <1>1, <2>1, <2>2 DEF Arrive
<1>2. CASE ReserveInsert(r) \/ ReserveFind(r) \/ Complete(r) \/ Release(r)
  BY <1>2 DEF ReserveInsert, ReserveFind, Complete, Release, Operate, Arrive, domain
<1>3. CASE Load(r) \/ Begin(r) \/ BeginRevoke(r) \/ Attempt(r) \/ Settle(r)
  BY <1>3 DEF Load, Begin, BeginRevoke, Attempt, Settle, Failure, Arrive
<1>4. CASE AuditHead(r) \/ RefusalHead(r) \/ RefusalAppend(r)
  BY <1>4 DEF AuditHead, RefusalHead, RefusalAppend, Arrive
<1>5. CASE AuditAppend(r) \/ NextSequence(r) \/ AddEvent(r)
  BY <1>5 DEF AuditAppend, NextSequence, AddEvent, AfterRecording, Failure, Arrive
<1>6. CASE Commit(r) \/ CommitUnacknowledged(r)
  BY <1>6 DEF Commit, CommitUnacknowledged, Failure, Arrive
<1>7. CASE StoreFails(r) \/ Crash(r)
  BY <1>7 DEF StoreFails, Crash, Failure, Live, LabelOK, InSession, Arrive
<1> QED BY <1>1, <1>2, <1>3, <1>4, <1>5, <1>6, <1>7 DEF Acts, Step, Fault

\* A step belongs to the request that takes it.
LEMMA OnlyOneActs ==
  ASSUME TypeInv, NEW r \in Requests, Acts(r)
  PROVE  OthersStay(r)
<1> SUFFICES ASSUME NEW q \in Requests \ {r}
             PROVE  /\ pc'[q] = pc[q] /\ call'[q] = call[q]
                    /\ local'[q] = local[q] /\ txn'[q] = txn[q]
                    /\ answer'[q] = answer[q]
  BY DEF OthersStay
<1> USE DEF TypeInv, TypeOK, StoreTypeOK, Goto, Answer, Remember, store, domain
<1>1. CASE Arrive(r)
  BY <1>1 DEF Arrive
<1>2. CASE ReserveInsert(r) \/ ReserveFind(r) \/ Complete(r) \/ Release(r)
  BY <1>2 DEF ReserveInsert, ReserveFind, Complete, Release, Operate
<1>3. CASE Load(r) \/ Begin(r) \/ BeginRevoke(r) \/ Attempt(r) \/ Settle(r)
  BY <1>3 DEF Load, Begin, BeginRevoke, Attempt, Settle, StartTransaction
<1>4. CASE AuditHead(r) \/ RefusalHead(r) \/ RefusalAppend(r)
  BY <1>4 DEF AuditHead, RefusalHead, RefusalAppend, InsertRecord
<1>5. CASE AuditAppend(r) \/ NextSequence(r) \/ AddEvent(r)
  BY <1>5 DEF AuditAppend, NextSequence, AddEvent, Abort, InsertRecord, TakeNumber, InsertEvent
<1>6. CASE Commit(r) \/ CommitUnacknowledged(r)
  BY <1>6 DEF Commit, CommitUnacknowledged, CommitWrites
<1>7. CASE StoreFails(r) \/ Crash(r)
  BY <1>7 DEF StoreFails, Crash, Abort
<1> QED BY <1>1, <1>2, <1>3, <1>4, <1>5, <1>6, <1>7 DEF Acts, Step, Fault

-----------------------------------------------------------------------------
(* Idempotency keys.                                                       *)

\* A creation works under its key from the reservation to the completion or the
\* release, both included.
UnderKey == {"begin", "complete", "release"} \cup InSession
Works(r, k) == pc[r] \in UnderKey /\ Kind(r) = "create" /\ call[r].key = k

\* The document of a key: who wrote it asked for that body; while it has no result
\* its writer works under the key or died; its result is a creation under the key.
DocumentOK(k) ==
  keys[k] # None =>
    /\ pc[keys[k].by] # "idle"
    /\ keys[k].body = call[keys[k].by].body
    /\ InProgress(k) => Works(keys[k].by, k) \/ pc[keys[k].by] = "dead"
    /\ keys[k].result # None => keys[k].result \in ran[k]

\* Under a key that did not leak only the writer of its document works, and only
\* it created anything.
OneWorker(k) ==
  k \notin leaky =>
    /\ keys[k] # None => keys[k].result \in {None, keys[k].by}
    /\ \A r \in Requests : Works(r, k) =>
         keys[k] # None /\ keys[k].by = r /\ keys[k].result = None
    /\ \A r \in ran[k] : /\ keys[k] # None /\ keys[k].by = r
                         /\ keys[k].result # None \/ pc[r] \in {"complete", "dead"}

\* What is being completed was created.
Created(r) == pc[r] = "complete" => r \in ran[call[r].key]

KeyInv == /\ \A k \in Keys : DocumentOK(k) /\ OneWorker(k)
          /\ \A r \in Requests : Created(r)

\* A step that leaves the keys and their histories alone: its request works under
\* its key as before, or died.
LEMMA KeysUntouched ==
  ASSUME TypeInv, KeyInv, NEW r \in Requests, Acts(r), UNCHANGED <<keys, ran, leaky>>,
         Kind(r)' = "create" /\ pc[r] \in UnderKey => pc'[r] \in UnderKey \cup {"dead"},
         Kind(r)' = "create" /\ pc'[r] \in UnderKey => pc[r] \in UnderKey,
         pc'[r] # "complete", pc[r] = "complete" => pc'[r] = "dead"
  PROVE  KeyInv'
<1>1. /\ pc[r] \notin Final /\ pc'[r] # "idle" /\ (pc[r] # "idle" => call' = call)
      /\ \A q \in Requests \ {r} : pc'[q] = pc[q] /\ call'[q] = call[q]
  BY ActorMoves, OnlyOneActs DEF OthersStay
<1>2. ASSUME NEW q \in Requests, NEW k \in Keys
      PROVE  /\ Works(q, k) => Works(q, k)' \/ pc'[q] = "dead"
             /\ Works(q, k)' => Works(q, k)
  <2>1. CASE q = r
    BY <1>1, <2>1 DEF Works, Kind, UnderKey, InSession
  <2>2. CASE q # r
    BY <1>1, <2>2 DEF Works, Kind
  <2> QED BY <2>1, <2>2
<1>3. ASSUME NEW k \in Keys PROVE DocumentOK(k)'
  <2>1. keys[k] # None => keys[k].by \in Requests
    BY DEF TypeInv, TypeOK, StoreTypeOK, KeyDocs
  <2> QED
    BY <1>1, <1>2, <2>1 DEF KeyInv, DocumentOK, InProgress, Final
<1>4. ASSUME NEW k \in Keys PROVE OneWorker(k)'
  <2>1. ran[k] \subseteq Requests
    BY DEF TypeInv, TypeOK
  <2> QED
    BY <1>1, <1>2, <2>1 DEF KeyInv, OneWorker, Final
<1>5. ASSUME NEW q \in Requests PROVE Created(q)'
  BY <1>1 DEF KeyInv, Created
<1> QED BY <1>3, <1>4, <1>5 DEF KeyInv

\* The steps that leave the keys alone.
LEMMA OtherStepsKeys ==
  ASSUME TypeInv, KeyInv, NEW r \in Requests,
         \/ Arrive(r) \/ Load(r) \/ Begin(r) \/ BeginRevoke(r) \/ Attempt(r) \/ Settle(r)
         \/ AuditHead(r) \/ AuditAppend(r) \/ NextSequence(r) \/ AddEvent(r)
         \/ RefusalHead(r) \/ RefusalAppend(r) \/ StoreFails(r) \/ Crash(r)
  PROVE  KeyInv'
<1> USE DEF Goto, Answer, UnderKey, InSession, TypeInv, TypeOK
<1>0. Acts(r)
  BY DEF Acts, Step, Fault
<1>1. CASE Arrive(r)
  <2>1. PICK c \in Calls : Goto(r, IF HasAccess(c) THEN FirstStep(c) ELSE "refuse")
                           /\ call' = [call EXCEPT ![r] = c]
    BY <1>1 DEF Arrive
  <2>2. /\ pc'[r] \in {"reserve", "load", "begin", "attempt", "refuse"}
        /\ c.kind = "create" => pc'[r] \in {"reserve", "refuse"}
    BY <2>1, ConstantsAssumption, CallFields DEF FirstStep
  <2>3. Kind(r)' = c.kind
    BY <2>1 DEF Kind
  <2> QED BY <1>0, <1>1, <2>2, <2>3, KeysUntouched DEF Arrive, store, domain
<1>2. CASE Load(r) \/ Attempt(r) \/ Settle(r)
  BY <1>0, <1>2, KeysUntouched DEF Load, Attempt, Settle, LabelOK, Kind, store, domain
<1>3. CASE Begin(r) \/ BeginRevoke(r)
  BY <1>0, <1>3, KeysUntouched DEF Begin, BeginRevoke, Failure, Kind, domain
<1>4. CASE AuditHead(r) \/ RefusalHead(r) \/ RefusalAppend(r)
  BY <1>0, <1>4, KeysUntouched DEF AuditHead, RefusalHead, RefusalAppend, store, domain
<1>5. CASE AuditAppend(r) \/ NextSequence(r) \/ AddEvent(r)
  <2>1. pc[r] \in {"append", "inc", "add"} /\ UNCHANGED <<keys, ran, leaky, call>>
    BY <1>5 DEF AuditAppend, NextSequence, AddEvent, domain
  <2>2. Kind(r) = "create" => InTxn(r)
    BY <2>1 DEF LabelOK
  <2>3. Kind(r) = "create" => pc'[r] \in {"release", "inc", "add", "commit"}
    BY <1>5, <2>2 DEF AuditAppend, NextSequence, AddEvent, AfterRecording, Failure
  <2>4. pc'[r] # "complete"
    BY <1>5 DEF AuditAppend, NextSequence, AddEvent, AfterRecording, Failure
  <2> QED BY <1>0, <2>1, <2>3, <2>4, KeysUntouched DEF Kind
<1>6. CASE StoreFails(r) \/ Crash(r)
  BY <1>0, <1>6, KeysUntouched DEF StoreFails, Crash, Failure, LabelOK, Kind, domain
<1> QED BY <1>1, <1>2, <1>3, <1>4, <1>5, <1>6

\* The frame of a step under a key: no other request moves.
LEMMA KeyFrame ==
  ASSUME TypeInv, NEW r \in Requests, Acts(r), pc[r] # "idle"
  PROVE  /\ call' = call
         /\ \A q \in Requests \ {r} : pc'[q] = pc[q]
         /\ \A q \in Requests \ {r}, k \in Keys : Works(q, k)' <=> Works(q, k)
BY ActorMoves, OnlyOneActs DEF OthersStay, Works, Kind

\* An insertion finds no document, so nobody works under the key unless it leaked.
LEMMA ReserveInsertKeys ==
  ASSUME TypeInv, KeyInv, NEW r \in Requests, ReserveInsert(r)
  PROVE  KeyInv'
<1>0. Acts(r)
  BY DEF Acts, Step
<1>1. /\ pc[r] = "reserve" /\ Kind(r) = "create" /\ call[r] \in Calls
      /\ call' = call /\ ran' = ran /\ leaky' = leaky
  BY DEF ReserveInsert, TypeInv, LabelOK, KeyedOnly, domain
<1>2. CASE keys' = keys /\ (Goto(r, "refuse") \/ Goto(r, "find"))
  BY <1>0, <1>1, <1>2, KeysUntouched DEF Goto, TypeInv, TypeOK, UnderKey, InSession
<1>3. CASE /\ call[r].key # None /\ keys[call[r].key] = None
           /\ InsertKey(r, call[r].key, call[r].body) /\ Operate(r)
  <2>1. PICK k \in Keys : k = call[r].key
    BY <1>1, <1>3, ConstantsAssumption, CallFields DEF Kind
  <2>2. /\ keys' = [keys EXCEPT ![k] = [body |-> call[r].body, result |-> None, by |-> r]]
        /\ keys \in [Keys -> KeyDocs \cup {None}]
        /\ keys'[k] # None
    BY <1>1, <1>3, <2>1, ConstantsAssumption, CallFields
       DEF InsertKey, TypeInv, TypeOK, StoreTypeOK, ConstantsAssumption, KeyDocs, Kind
  <2>3. /\ pc'[r] \in {"begin", "release"}
        /\ \A q \in Requests \ {r} : pc'[q] = pc[q]
    BY <1>3 DEF Operate, Goto, TypeInv, TypeOK
  <2>4. Works(r, k)' /\ \A j \in Keys \ {k} : ~Works(r, j)'
    BY <1>1, <2>1, <2>3 DEF Works, Kind, UnderKey
  <2>5. \A q \in Requests \ {r}, j \in Keys : Works(q, j)' <=> Works(q, j)
    BY <1>0, <1>1, KeyFrame
  <2>6. \A j \in Keys : ~Works(r, j)
    BY <1>1 DEF Works, UnderKey, InSession
  <2>7. DocumentOK(k)' /\ OneWorker(k)'
    <3>1. k \notin leaky => ran[k] = {} /\ \A q \in Requests : ~Works(q, k)
      BY <1>3, <2>1 DEF KeyInv, OneWorker
    <3> QED
      BY <1>1, <2>1, <2>2, <2>3, <2>4, <2>5, <3>1 DEF DocumentOK, OneWorker, InProgress
  <2>8. ASSUME NEW j \in Keys \ {k} PROVE DocumentOK(j)' /\ OneWorker(j)'
    <3>1. keys'[j] = keys[j] /\ (keys[j] # None => keys[j].by \in Requests)
          /\ ran[j] \subseteq Requests
      BY <2>2 DEF KeyDocs, TypeInv, TypeOK
    <3>2. DocumentOK(j) /\ OneWorker(j)
      BY DEF KeyInv
    <3>3. \A q \in Requests : pc[q] \in {"complete", "dead"} => q # r
      BY <1>1
    <3> QED
      BY <1>1, <2>3, <2>4, <2>5, <2>6, <3>1, <3>2, <3>3 DEF DocumentOK, OneWorker, InProgress
  <2>9. ASSUME NEW q \in Requests PROVE Created(q)'
    BY <1>1, <2>3 DEF KeyInv, Created
  <2> QED BY <2>7, <2>8, <2>9 DEF KeyInv
<1> QED BY <1>1, <1>2, <1>3 DEF ReserveInsert

\* A search that finds no document marks the key as leaked.
LEMMA ReserveFindKeys ==
  ASSUME TypeInv, KeyInv, NEW r \in Requests, ReserveFind(r)
  PROVE  KeyInv'
<1>0. Acts(r)
  BY DEF Acts, Step
<1>1. /\ pc[r] = "find" /\ Kind(r) = "create" /\ call' = call /\ keys' = keys /\ ran' = ran
  BY DEF ReserveFind, TypeInv, LabelOK, KeyedOnly, store
<1>2. CASE leaky' = leaky /\ pc'[r] \in {"refuse", "done"}
  BY <1>0, <1>1, <1>2, KeysUntouched DEF UnderKey, InSession
<1>3. CASE leaky' = leaky \cup {call[r].key} /\ Operate(r)
  <2>0. PICK k : k = call[r].key
    OBVIOUS
  <2>1. /\ pc'[r] \in {"begin", "release"}
        /\ \A q \in Requests \ {r} : pc'[q] = pc[q]
    BY <1>3 DEF Operate, Goto, TypeInv, TypeOK
  <2>2. \A q \in Requests, j \in Keys : Works(q, j)' => Works(q, j) \/ (q = r /\ j = k)
    BY <1>1, <2>0, <2>1 DEF Works, Kind
  <2>3. \A q \in Requests, j \in Keys : Works(q, j) => Works(q, j)'
    BY <1>1, <2>1 DEF Works, Kind, UnderKey, InSession
  <2>4. ASSUME NEW j \in Keys PROVE DocumentOK(j)' /\ OneWorker(j)'
    <3>1. (keys[j] # None => keys[j].by \in Requests) /\ ran[j] \subseteq Requests
      BY DEF KeyDocs, TypeInv, TypeOK, StoreTypeOK
    <3>2. DocumentOK(j)'
      BY <1>1, <2>1, <2>3, <3>1 DEF KeyInv, DocumentOK, InProgress
    <3>3. OneWorker(j)'
      BY <1>1, <1>3, <2>0, <2>1, <2>2, <3>1 DEF KeyInv, OneWorker
    <3> QED BY <3>2, <3>3
  <2>5. ASSUME NEW q \in Requests PROVE Created(q)'
    BY <1>1, <2>1 DEF KeyInv, Created
  <2> QED BY <2>4, <2>5 DEF KeyInv
<1>4. \/ leaky' = leaky /\ pc'[r] \in {"refuse", "done"}
      \/ leaky' = leaky \cup {call[r].key} /\ Operate(r)
  BY DEF ReserveFind, Goto, Answer, TypeInv, TypeOK
<1> QED BY <1>2, <1>3, <1>4

\* The key a completing, releasing or committing creation works under.
LEMMA OwnKey ==
  ASSUME TypeInv, NEW r \in Requests, Kind(r) = "create",
         pc[r] \in {"complete", "release", "commit"}
  PROVE  call[r].key \in Keys /\ Works(r, call[r].key)
<1>1. call[r] \in Calls /\ call[r].key # None
  BY DEF TypeInv, LabelOK, KeyedOnly, InSession
<1> QED BY <1>1, ConstantsAssumption, CallFields DEF Kind, Works, UnderKey, InSession

\* A completion names its creation.
LEMMA CompleteKeys ==
  ASSUME TypeInv, KeyInv, NEW r \in Requests, Complete(r)
  PROVE  KeyInv'
<1>0. Acts(r)
  BY DEF Acts, Step
<1>1. /\ pc[r] = "complete" /\ Kind(r) = "create" /\ ran' = ran /\ leaky' = leaky
      /\ call' = call /\ keys \in [Keys -> KeyDocs \cup {None}] /\ r \in ran[call[r].key]
  BY DEF Complete, TypeInv, TypeOK, StoreTypeOK, LabelOK, KeyedOnly, domain, KeyInv, Created
<1>2. PICK k \in Keys : k = call[r].key /\ Works(r, k) /\ r \in ran[k]
  BY <1>1, OwnKey
<1>3. /\ pc'[r] = "done" /\ \A q \in Requests \ {r} : pc'[q] = pc[q]
      /\ \A q \in Requests \ {r}, j \in Keys : Works(q, j)' <=> Works(q, j)
  BY <1>0, <1>1, KeyFrame DEF Complete, Answer, TypeInv, TypeOK
<1>4. \A j \in Keys : ~Works(r, j)' /\ (Works(r, j) => j = k)
  BY <1>2, <1>3 DEF Works, UnderKey, InSession
<1>5. /\ \A j \in Keys \ {k} : keys'[j] = keys[j]
      /\ keys[k] = None => keys'[k] = None
      /\ keys[k] # None => /\ keys'[k] # None /\ keys'[k].result = r
                           /\ keys'[k].by = keys[k].by /\ keys'[k].body = keys[k].body
  <2>1. CASE keys[k] = None
    BY <1>1, <1>2, <2>1 DEF Complete, CompleteKey
  <2>2. CASE keys[k] # None
    <3>1. keys' = [keys EXCEPT ![k] = [keys[k] EXCEPT !.result = r]] /\ keys[k] \in KeyDocs
      BY <1>1, <1>2, <2>2 DEF Complete, CompleteKey
    <3>2. keys'[k] = [keys[k] EXCEPT !.result = r]
      BY <1>1, <1>2, <3>1
    <3>3. keys'[k] \in KeyDocs
      BY <3>1, <3>2 DEF KeyDocs
    <3>4. None \notin KeyDocs
      BY ConstantsAssumption DEF ConstantsAssumption
    <3> QED BY <1>1, <2>2, <3>1, <3>2, <3>3, <3>4 DEF KeyDocs
  <2> QED BY <2>1, <2>2
<1>6. r # None
  BY ConstantsAssumption DEF ConstantsAssumption
<1>7. ASSUME NEW j \in Keys \ {k} PROVE DocumentOK(j)' /\ OneWorker(j)'
  <2>1. /\ keys'[j] = keys[j] /\ (keys[j] # None => keys[j].by \in Requests)
        /\ ran[j] \subseteq Requests
    BY <1>1, <1>5 DEF KeyDocs, TypeInv, TypeOK
  <2>2. DocumentOK(j)'
    BY <1>1, <1>3, <1>4, <2>1 DEF KeyInv, DocumentOK, InProgress
  <2>3. OneWorker(j)'
    <3>1. j \notin leaky => (r \in ran[j] => keys[j].result # None)
      <4>1. ASSUME j \notin leaky, r \in ran[j], keys[j].result = None PROVE FALSE
        <5>1. keys[j] # None /\ keys[j].by = r /\ DocumentOK(j)
          BY <4>1 DEF KeyInv, OneWorker
        <5>2. Works(r, j) \/ pc[r] = "dead"
          BY <4>1, <5>1 DEF DocumentOK, InProgress
        <5> QED BY <1>1, <1>4, <5>2
      <4> QED BY <4>1
    <3> QED BY <1>1, <1>3, <1>4, <2>1, <3>1 DEF KeyInv, OneWorker
  <2> QED BY <2>2, <2>3
<1>8. DocumentOK(k)'
  <2>1. keys[k] # None => keys[k].by \in Requests
    BY <1>1, <1>2 DEF KeyDocs
  <2> QED
    BY <1>1, <1>2, <1>3, <1>5, <1>6, <2>1 DEF KeyInv, DocumentOK, InProgress
<1>9. OneWorker(k)'
  BY <1>1, <1>2, <1>3, <1>4, <1>5, <1>6 DEF KeyInv, OneWorker
<1>10. \A q \in Requests : Created(q)'
  BY <1>1, <1>3 DEF KeyInv, Created
<1> QED BY <1>7, <1>8, <1>9, <1>10 DEF KeyInv

\* A release deletes a document without a result, its own or another's.
LEMMA ReleaseKeys ==
  ASSUME TypeInv, KeyInv, NEW r \in Requests, Release(r)
  PROVE  KeyInv'
<1>0. Acts(r)
  BY DEF Acts, Step
<1>1. /\ pc[r] = "release" /\ Kind(r) = "create" /\ ran' = ran /\ leaky' = leaky
      /\ call' = call /\ keys \in [Keys -> KeyDocs \cup {None}]
  BY DEF Release, TypeInv, TypeOK, StoreTypeOK, LabelOK, KeyedOnly, domain
<1>2. PICK k \in Keys : k = call[r].key /\ Works(r, k)
  BY <1>1, OwnKey
<1>3. /\ pc'[r] = "refuse" /\ \A q \in Requests \ {r} : pc'[q] = pc[q]
      /\ \A q \in Requests \ {r}, j \in Keys : Works(q, j)' <=> Works(q, j)
  BY <1>0, <1>1, KeyFrame DEF Release, Goto, TypeInv, TypeOK
<1>4. \A j \in Keys : ~Works(r, j)' /\ (Works(r, j) => j = k)
  BY <1>2, <1>3 DEF Works, UnderKey, InSession
<1>5. /\ \A j \in Keys \ {k} : keys'[j] = keys[j]
      /\ keys'[k] = IF keys[k] # None /\ keys[k].result = None THEN None ELSE keys[k]
  BY <1>1, <1>2 DEF Release, ReleaseKey
<1>6. ASSUME NEW j \in Keys PROVE DocumentOK(j)'
  <2>1. keys'[j] # None => /\ keys'[j] = keys[j] /\ keys[j].by \in Requests
                           /\ InProgress(j)' => InProgress(j) /\ j # k
    BY <1>1, <1>2, <1>5 DEF KeyDocs, InProgress
  <2> QED
    BY <1>1, <1>3, <1>4, <2>1 DEF KeyInv, DocumentOK
<1>7. ASSUME NEW j \in Keys PROVE OneWorker(j)'
  <2>0. ran[j] \subseteq Requests /\ OneWorker(j) /\ DocumentOK(j)
    BY DEF TypeInv, TypeOK, KeyInv
  <2>1. CASE j = k /\ k \notin leaky
    <3>1. keys[k] # None /\ keys[k].by = r /\ keys[k].result = None
      BY <1>2, <2>0, <2>1 DEF OneWorker
    <3>2. ran[k] = {}
      BY <1>1, <2>0, <2>1, <3>1 DEF OneWorker
    <3> QED BY <1>1, <1>2, <1>3, <1>4, <1>5, <2>0, <2>1, <3>1, <3>2 DEF OneWorker
  <2>2. CASE j # k
    <3>1. ASSUME j \notin leaky, r \in ran[j], keys[j].result = None PROVE FALSE
      <4>1. keys[j] # None /\ keys[j].by = r
        BY <2>0, <3>1 DEF OneWorker
      <4>2. Works(r, j) \/ pc[r] = "dead"
        BY <2>0, <3>1, <4>1 DEF DocumentOK, InProgress
      <4> QED BY <1>1, <1>4, <2>2, <4>2
    <3> QED BY <1>1, <1>3, <1>4, <1>5, <2>0, <2>2, <3>1 DEF OneWorker
  <2> QED BY <1>1, <2>1, <2>2 DEF OneWorker
<1>8. \A q \in Requests : Created(q)'
  BY <1>1, <1>3 DEF KeyInv, Created
<1> QED BY <1>6, <1>7, <1>8 DEF KeyInv

\* A commit of a creation that is acknowledged goes on to the completion; one that
\* is not leaks the key.
LEMMA CommitKeys ==
  ASSUME TypeInv, KeyInv, NEW r \in Requests, Commit(r) \/ CommitUnacknowledged(r)
  PROVE  KeyInv'
<1>0. Acts(r)
  BY DEF Acts, Step, Fault
<1>1. /\ pc[r] = "commit" /\ keys' = keys /\ call' = call
      /\ ran \in [Keys -> SUBSET Requests]
  BY DEF Commit, CommitUnacknowledged, TypeInv, TypeOK
<1>2. CASE Kind(r) # "create"
  <2>1. ran' = ran /\ leaky' = leaky
    BY <1>2 DEF Commit, CommitUnacknowledged, ApplyChange
  <2>2. pc'[r] # "complete" /\ Kind(r)' # "create"
    BY <1>1, <1>2 DEF Commit, CommitUnacknowledged, Failure, Goto, Answer, TypeInv, TypeOK, Kind
  <2> QED BY <1>0, <1>1, <2>1, <2>2, KeysUntouched
<1>3. CASE Kind(r) = "create"
  <2>1. PICK k \in Keys : k = call[r].key /\ Works(r, k)
    BY <1>1, <1>3, OwnKey
  <2>2. ran' = [ran EXCEPT ![k] = ran[k] \cup {r}]
    BY <1>3, <2>1 DEF Commit, CommitUnacknowledged, ApplyChange
  <2>3. \/ pc'[r] = "complete" /\ leaky' = leaky
        \/ pc'[r] = "release" /\ leaky' = leaky \cup {k}
    BY <1>3, <2>1 DEF Commit, CommitUnacknowledged, Failure, Goto, TypeInv, TypeOK
  <2>4. /\ \A q \in Requests \ {r} : pc'[q] = pc[q]
        /\ \A q \in Requests, j \in Keys : Works(q, j)' <=> Works(q, j)
    <3>1. \A j \in Keys : Works(r, j)' <=> Works(r, j)
      BY <1>1, <2>3 DEF Works, Kind, UnderKey, InSession
    <3> QED BY <1>0, <1>1, <3>1, KeyFrame
  <2>5. ASSUME NEW j \in Keys PROVE DocumentOK(j)'
    <3>1. keys[j] # None => keys[j].by \in Requests
      BY DEF KeyDocs, TypeInv, TypeOK, StoreTypeOK
    <3>2. ran[j] \subseteq ran'[j]
      BY <1>1, <2>2
    <3>3. keys[j] # None => (pc'[keys[j].by] # "idle"
                             /\ (pc[keys[j].by] = "dead" => pc'[keys[j].by] = "dead"))
      BY <1>1, <2>3, <2>4, <3>1 DEF KeyInv, DocumentOK
    <3> QED BY <1>1, <2>4, <3>1, <3>2, <3>3 DEF KeyInv, DocumentOK, InProgress
  <2>6. ASSUME NEW j \in Keys PROVE OneWorker(j)'
    <3>1. OneWorker(j) /\ DocumentOK(j) /\ ran[j] \subseteq Requests
      BY DEF KeyInv, TypeInv, TypeOK
    <3>2. CASE j = k /\ pc'[r] = "complete" /\ k \notin leaky
      BY <1>1, <2>1, <2>2, <2>4, <3>1, <3>2 DEF OneWorker
    <3>3. CASE j # k
      <4>1. ran'[j] = ran[j] /\ (j \in leaky' <=> j \in leaky)
        BY <1>1, <2>2, <2>3, <3>3
      <4>2. \A q \in ran[j] : pc[q] \in {"complete", "dead"} => q # r
        BY <1>1
      <4> QED BY <1>1, <2>4, <3>1, <4>1, <4>2 DEF OneWorker
    <3>4. CASE j = k /\ j \in leaky'
      BY <3>4 DEF OneWorker
    <3> QED BY <2>3, <3>2, <3>3, <3>4
  <2>7. ASSUME NEW q \in Requests PROVE Created(q)'
    <3>1. CASE q = r
      BY <1>1, <2>1, <2>2, <3>1 DEF Created
    <3>2. CASE q # r
      <4>1. pc[q] = "complete" => Kind(q) = "create"
        BY DEF TypeInv, LabelOK, KeyedOnly
      <4>2. pc[q] = "complete" => call[q].key \in Keys
        BY <4>1, OwnKey
      <4> QED BY <1>1, <2>2, <2>4, <3>2, <4>2 DEF KeyInv, Created
    <3> QED BY <3>1, <3>2
  <2> QED BY <2>5, <2>6, <2>7 DEF KeyInv
<1> QED BY <1>2, <1>3

\* The TTL index starts a new life of a key nobody works under.
LEMMA SweepKeys ==
  ASSUME TypeInv, KeyInv, NEW k \in Keys, Sweep(k)
  PROVE  KeyInv'
<1>1. /\ UNCHANGED <<pc, call>> /\ keys' = [keys EXCEPT ![k] = None]
      /\ ran' = [ran EXCEPT ![k] = {}] /\ leaky' = leaky \ {k}
      /\ \A r \in Requests : ~Works(r, k)
      /\ \A r \in Requests : pc[r] = "complete" => call[r].key # k
  BY DEF Sweep, Works, UnderKey, InSession, Live, Final, TypeInv, LabelOK, KeyedOnly
<1>2. /\ keys'[k] = None /\ ran'[k] = {}
      /\ \A j \in Keys \ {k} : /\ keys'[j] = keys[j] /\ ran'[j] = ran[j]
                               /\ j \in leaky' <=> j \in leaky
  BY <1>1 DEF TypeInv, TypeOK, StoreTypeOK
<1>3. \A r \in Requests, j \in Keys : Works(r, j)' <=> Works(r, j)
  BY <1>1 DEF Works, Kind
<1>4. ASSUME NEW j \in Keys PROVE DocumentOK(j)' /\ OneWorker(j)'
  <2>1. keys[j] # None => keys[j].by \in Requests
    BY DEF KeyDocs, TypeInv, TypeOK, StoreTypeOK
  <2>2. CASE j = k
    BY <1>1, <1>2, <1>3, <2>2 DEF DocumentOK, OneWorker
  <2>3. CASE j # k
    BY <1>1, <1>2, <1>3, <2>1, <2>3 DEF KeyInv, DocumentOK, OneWorker, InProgress
  <2> QED BY <2>2, <2>3
<1>5. ASSUME NEW r \in Requests PROVE Created(r)'
  <2>1. pc[r] = "complete" => Kind(r) = "create"
    BY DEF TypeInv, LabelOK, KeyedOnly
  <2>2. pc[r] = "complete" => call[r].key \in Keys
    BY <2>1, OwnKey
  <2> QED BY <1>1, <1>2, <2>2 DEF KeyInv, Created
<1> QED BY <1>4, <1>5 DEF KeyInv

\* Every step keeps KeyInv, and it holds at the start.
LEMMA StepKeys ==
  ASSUME TypeInv, KeyInv, [Next]_vars
  PROVE  KeyInv'
<1>1. ASSUME NEW r \in Requests, Acts(r) PROVE KeyInv'
  BY <1>1, OtherStepsKeys, ReserveInsertKeys, ReserveFindKeys, CompleteKeys, ReleaseKeys,
     CommitKeys DEF Acts, Step, Fault
<1>2. CASE UNCHANGED vars
  BY <1>2 DEF vars, store, domain, KeyInv, DocumentOK, OneWorker, Created, Works, Kind, InProgress
<1> QED BY <1>1, <1>2, SweepKeys DEF Next, Acts

\* No key is held at first, and nobody created anything.
LEMMA InitKeys == ASSUME Init PROVE KeyInv
BY DEF Init, StoreInit, KeyInv, DocumentOK, OneWorker, Created, Works, UnderKey, InSession

-----------------------------------------------------------------------------
(* Sessions.                                                               *)

\* A session without a transaction is blank; one with a transaction holds the
\* document of its change, unless the change was made outside it.
SessionOK(r) ==
  /\ InTxn(r) \/ txn[r] = Closed
  /\ InTxn(r) => (txn[r].change <=> Kind(r) # "revoke")

\* A transaction that starts met no other that holds its document.
Opens(r) ==
  /\ pc[r] = "begin" /\ pc'[r] = "head" /\ ~InTxn(r)
  /\ txn'[r] = [Closed EXCEPT !.open = TRUE, !.snap = sequence,
                              !.change = (Kind(r) # "revoke")]
  /\ Kind(r) # "revoke" => /\ ~Blocked(r)
                           /\ Kind(r) = "decide" => approval.state = "pending"
                           /\ local'[r].todo = EventsOf(call[r])

\* A step starts its request's transaction, ends it, buffers in it or leaves it.
LEMMA SessionMoves ==
  ASSUME TypeInv, NEW r \in Requests, Acts(r)
  PROVE  \/ txn' = txn
         \/ txn'[r] = Closed
         \/ Opens(r)
         \/ InTxn(r) /\ txn'[r].open /\ txn'[r].change = txn[r].change
<1> USE DEF TypeInv, TypeOK, StoreTypeOK
<1>1. CASE \/ Arrive(r) \/ ReserveInsert(r) \/ ReserveFind(r) \/ Complete(r) \/ Release(r)
           \/ Load(r) \/ Attempt(r) \/ Settle(r) \/ AuditHead(r) \/ RefusalHead(r)
  BY <1>1 DEF Arrive, ReserveInsert, ReserveFind, Complete, Release, Load, Attempt, Settle,
     AuditHead, RefusalHead, store
<1>2. CASE Begin(r) \/ BeginRevoke(r)
  <2>1. pc[r] = "begin" /\ ~InTxn(r) /\ call[r] \in Calls
    BY <1>2 DEF Begin, BeginRevoke, LabelOK, InSession
  <2>2. CASE Goto(r, Failure(r)) /\ txn' = txn
    BY <2>2
  <2>3. CASE /\ Begin(r) /\ StartTransaction(r, TRUE) /\ Goto(r, "head")
             /\ ~Blocked(r) /\ (Kind(r) = "decide" => approval.state = "pending")
             /\ Remember(r, "todo", EventsOf(call[r]))
    <3>1. local'[r].todo = EventsOf(call[r])
      BY <2>1, <2>3, ConstantsAssumption, CallFields, RememberTodo
    <3>2. Kind(r) # "revoke" /\ pc'[r] = "head"
      BY <2>3 DEF Begin, Goto
    <3>3. txn'[r] = [Closed EXCEPT !.open = TRUE, !.snap = sequence, !.change = TRUE]
      BY <2>3 DEF StartTransaction
    <3> QED BY <2>1, <2>3, <3>1, <3>2, <3>3 DEF Opens, Closed
  <2>4. CASE BeginRevoke(r) /\ StartTransaction(r, FALSE) /\ Goto(r, "head")
    <3>1. Kind(r) = "revoke" /\ pc'[r] = "head"
      BY <2>4 DEF BeginRevoke, Goto
    <3>2. txn'[r] = [Closed EXCEPT !.open = TRUE, !.snap = sequence, !.change = FALSE]
      BY <2>4 DEF StartTransaction
    <3> QED BY <2>1, <3>1, <3>2 DEF Opens, Closed
  <2> QED BY <1>2, <2>2, <2>3, <2>4 DEF Begin, BeginRevoke
<1>3. CASE AuditAppend(r) \/ RefusalAppend(r) \/ NextSequence(r) \/ AddEvent(r)
  BY <1>3 DEF AuditAppend, RefusalAppend, NextSequence, AddEvent, InsertRecord, TakeNumber,
     InsertEvent, Abort, InTxn, Sessions
<1>4. CASE Commit(r) \/ CommitUnacknowledged(r) \/ StoreFails(r) \/ Crash(r)
  BY <1>4 DEF Commit, CommitUnacknowledged, StoreFails, Crash, CommitWrites, Abort
<1> QED BY <1>1, <1>2, <1>3, <1>4 DEF Acts, Step, Fault

\* The session of every request stays as it should be.
LEMMA StepSessions ==
  ASSUME TypeInv, \A q \in Requests : SessionOK(q), NEW r \in Requests, Acts(r)
  PROVE  \A q \in Requests : SessionOK(q)'
<1>1. /\ pc[r] # "idle" => call' = call
      /\ \A q \in Requests \ {r} : call'[q] = call[q] /\ txn'[q] = txn[q]
  BY ActorMoves, OnlyOneActs DEF OthersStay
<1>2. \A q \in Requests \ {r} : SessionOK(q)'
  BY <1>1 DEF SessionOK, InTxn, Kind
<1>3. ~Closed.open
  BY DEF Closed
<1>4. InTxn(r) => pc[r] # "idle"
  BY DEF TypeInv, LabelOK, InSession
<1>5. CASE txn' = txn
  BY <1>1, <1>4, <1>5 DEF SessionOK, InTxn, Kind
<1>6. CASE txn'[r] = Closed
  BY <1>3, <1>6, <1>2 DEF SessionOK, InTxn
<1>7. CASE Opens(r)
  BY <1>1, <1>2, <1>7 DEF Opens, SessionOK, InTxn, Kind, Closed
<1>8. CASE InTxn(r) /\ txn'[r].open /\ txn'[r].change = txn[r].change
  BY <1>1, <1>2, <1>4, <1>8 DEF SessionOK, InTxn, Kind
<1> QED BY <1>5, <1>6, <1>7, <1>8, SessionMoves

-----------------------------------------------------------------------------
(* Decisions.                                                              *)

\* The decision a request is taking: it can still be rolled back.
Deciding(r) == InTxn(r) /\ Kind(r) = "decide"

\* While a decision is being taken the refund is pending, and no other is being
\* taken; the requester never comes so far.
DecisionOK(r) ==
  /\ Deciding(r) => /\ approval.state = "pending"
                    /\ \A q \in Requests : Deciding(q) => q = r
  /\ pc[r] \in {"begin"} \cup InSession /\ Kind(r) = "decide" => call[r].actor # Requester

\* What was changed was asked for.
ChangedCalled == \A r \in changed : pc[r] # "idle"

DecisionInv ==
  /\ ChangedCalled /\ OneDecision
  /\ \A r \in Requests : SessionOK(r) /\ DecisionOK(r)

\* A step changes state in the name of its own request, a transactional one by its
\* commit; only the commit of a decision touches the refund.
LEMMA ChangeMoves ==
  ASSUME TypeInv, NEW r \in Requests, Acts(r)
  PROVE  /\ changed' \in {changed, changed \cup {r}}
         /\ changed' # changed => pc[r] # "idle"
         /\ changed' # changed /\ Kind(r) \notin {"revoke", "authenticate"} => pc[r] = "commit"
         /\ pc[r] = "commit" => txn'[r] = Closed \/ (changed' = changed /\ approval' = approval)
         /\ \/ approval' = approval /\ (changed' # changed => Kind(r) # "decide")
            \/ /\ pc[r] = "commit" /\ Kind(r) = "decide" /\ changed' = changed \cup {r}
               /\ approval' = [state |-> call[r].body, by |-> r]
<1> USE DEF TypeInv, TypeOK, StoreTypeOK
<1>1. CASE \/ Arrive(r) \/ ReserveInsert(r) \/ ReserveFind(r) \/ Complete(r) \/ Release(r)
           \/ Load(r) \/ Settle(r) \/ AuditHead(r) \/ RefusalHead(r) \/ Begin(r)
  BY <1>1 DEF Arrive, ReserveInsert, ReserveFind, Complete, Release, Load, Settle,
     AuditHead, RefusalHead, Begin, domain
<1>2. CASE AuditAppend(r) \/ RefusalAppend(r) \/ NextSequence(r) \/ AddEvent(r)
           \/ StoreFails(r) \/ Crash(r)
  BY <1>2 DEF AuditAppend, RefusalAppend, NextSequence, AddEvent, StoreFails, Crash, domain
<1>3. CASE BeginRevoke(r) \/ Attempt(r)
  BY <1>3 DEF BeginRevoke, Attempt, LabelOK
<1>4. CASE Commit(r) \/ CommitUnacknowledged(r)
  BY <1>4 DEF Commit, CommitUnacknowledged, ApplyChange, CommitWrites
<1> QED BY <1>1, <1>2, <1>3, <1>4 DEF Acts, Step, Fault

\* A decision passes the reading of the refund, which refuses its requester.
LEMMA DecisionMoves ==
  ASSUME TypeInv, NEW r \in Requests, Acts(r),
         pc'[r] \in {"begin"} \cup InSession, Kind(r)' = "decide"
  PROVE  \/ pc[r] \in {"begin"} \cup InSession
         \/ pc[r] # "idle" /\ call[r].actor # Requester
<1> USE DEF TypeInv, TypeOK, InSession, Goto, Answer, Kind
<1>1. CASE Arrive(r)
  <2>1. PICK c \in Calls : /\ call' = [call EXCEPT ![r] = c]
                           /\ Goto(r, IF HasAccess(c) THEN FirstStep(c) ELSE "refuse")
    BY <1>1 DEF Arrive
  <2> QED BY <2>1 DEF FirstStep
<1>2. CASE Load(r)
  BY <1>2 DEF Load
<1>3. CASE ReserveInsert(r) \/ ReserveFind(r) \/ Complete(r) \/ Release(r)
           \/ Attempt(r) \/ Settle(r) \/ RefusalHead(r) \/ RefusalAppend(r)
  BY <1>3 DEF ReserveInsert, ReserveFind, Complete, Release, Attempt, Settle, RefusalHead,
     RefusalAppend, LabelOK, KeyedOnly, domain
<1>4. CASE \/ Begin(r) \/ BeginRevoke(r) \/ AuditHead(r) \/ AuditAppend(r) \/ NextSequence(r)
           \/ AddEvent(r) \/ Commit(r) \/ CommitUnacknowledged(r)
  BY <1>4 DEF Begin, BeginRevoke, AuditHead, AuditAppend, NextSequence, AddEvent, Commit,
     CommitUnacknowledged
<1>5. CASE StoreFails(r) \/ Crash(r)
  BY <1>5 DEF StoreFails, Crash, LabelOK
<1> QED BY <1>1, <1>2, <1>3, <1>4, <1>5 DEF Acts, Step, Fault

\* The decision of a request that changed state was a decision there is.
LEMMA DecidedOnce ==
  ASSUME TypeInv, ChangedCalled, OneDecision, NEW q \in changed, Kind(q) = "decide"
  PROVE  approval.state # "pending"
<1>1. call[q] \in Calls /\ q \in Requests
  BY DEF TypeInv, TypeOK, LabelOK, ChangedCalled
<1>2. call[q].body \in Decisions
  BY <1>1, ConstantsAssumption, CallFields DEF Kind
<1> QED BY <1>2 DEF OneDecision, Decisions

\* Every step keeps at most one decision.
LEMMA ActDecision ==
  ASSUME TypeInv, DecisionInv, NEW r \in Requests, Acts(r)
  PROVE  DecisionInv'
<1>1. /\ pc[r] \notin Final /\ pc'[r] # "idle" /\ (pc[r] # "idle" => call' = call)
      /\ \A q \in Requests \ {r} : /\ pc'[q] = pc[q] /\ call'[q] = call[q]
                                   /\ txn'[q] = txn[q]
  BY ActorMoves, OnlyOneActs DEF OthersStay
<1>2. \A q \in Requests : SessionOK(q)'
  BY StepSessions DEF DecisionInv
<1>3. ChangedCalled'
  <2>1. \A q \in changed' : q \in Requests /\ (q # r => pc[q] # "idle")
    BY ChangeMoves DEF DecisionInv, ChangedCalled, TypeInv, TypeOK
  <2> QED BY <1>1, <2>1 DEF ChangedCalled
<1>4. \A q \in Requests \ {r} : Deciding(q)' <=> Deciding(q)
  BY <1>1 DEF Deciding, InTxn, Kind
<1>5. InTxn(r) => pc[r] # "idle"
  BY DEF TypeInv, LabelOK, InSession
<1>6. ASSUME NEW q \in Requests, pc'[q] \in {"begin"} \cup InSession, Kind(q)' = "decide"
      PROVE  call'[q].actor # Requester
  <2>1. CASE q # r
    BY <1>1, <1>6, <2>1 DEF DecisionInv, DecisionOK, Kind
  <2>2. CASE q = r
    <3>1. pc[r] # "idle" /\ call' = call
      BY <1>1, <1>6, <2>2, DecisionMoves DEF InSession
    <3> QED BY <1>6, <2>2, <3>1, DecisionMoves DEF DecisionInv, DecisionOK, Kind
  <2> QED BY <2>1, <2>2
<1>7. CASE approval' = approval /\ (changed' # changed => Kind(r) # "decide")
  <2>1. OneDecision'
    <3>1. ASSUME NEW q \in changed', Kind(q)' = "decide"
          PROVE  q \in changed /\ call'[q] = call[q]
      BY <1>1, <1>7, <3>1, ChangeMoves DEF DecisionInv, ChangedCalled, Kind, TypeInv, TypeOK
    <3> QED BY <1>7, <3>1 DEF DecisionInv, OneDecision, Kind
  <2>2. Deciding(r)' => Deciding(r) \/ /\ approval.state = "pending"
                                       /\ \A q \in Requests \ {r} : ~Deciding(q)
    <3>1. CASE txn' = txn \/ (InTxn(r) /\ txn'[r].open /\ txn'[r].change = txn[r].change)
      BY <1>1, <1>5, <3>1 DEF Deciding, InTxn, Kind
    <3>2. CASE txn'[r] = Closed
      BY <3>2 DEF Deciding, InTxn, Closed
    <3>3. CASE Opens(r)
      BY <1>1, <3>3 DEF Opens, Blocked, Deciding, DecisionInv, SessionOK, Kind
    <3> QED BY <3>1, <3>2, <3>3, SessionMoves
  <2>3. ASSUME NEW q \in Requests, Deciding(q)'
        PROVE  approval'.state = "pending" /\ \A p \in Requests : Deciding(p)' => p = q
    <3>1. CASE q # r
      BY <1>4, <1>7, <2>2, <2>3, <3>1 DEF DecisionInv, DecisionOK
    <3>2. CASE q = r
      BY <1>4, <1>7, <2>2, <2>3, <3>2 DEF DecisionInv, DecisionOK
    <3> QED BY <3>1, <3>2
  <2> QED BY <1>2, <1>3, <1>6, <2>1, <2>3 DEF DecisionInv, DecisionOK
<1>8. CASE /\ pc[r] = "commit" /\ Kind(r) = "decide" /\ changed' = changed \cup {r}
           /\ approval' = [state |-> call[r].body, by |-> r] /\ approval' # approval
  <2>1. Deciding(r) /\ call[r].actor # Requester
    BY <1>8 DEF Deciding, TypeInv, LabelOK, DecisionInv, DecisionOK, InSession
  <2>2. \A q \in changed : Kind(q) # "decide"
    BY <2>1, DecidedOnce DEF DecisionInv, DecisionOK
  <2>3. ~Deciding(r)' /\ \A q \in Requests \ {r} : ~Deciding(q)'
    <3>1. txn'[r] = Closed
      BY <1>8, ChangeMoves
    <3> QED BY <1>4, <2>1, <3>1 DEF Deciding, InTxn, Closed, DecisionInv, DecisionOK
  <2>4. OneDecision'
    BY <1>1, <1>8, <2>1, <2>2 DEF OneDecision, Kind
  <2> QED BY <1>2, <1>3, <1>6, <2>3, <2>4 DEF DecisionInv, DecisionOK
<1>9. CASE /\ pc[r] = "commit" /\ Kind(r) = "decide" /\ changed' = changed \cup {r}
           /\ approval' = [state |-> call[r].body, by |-> r] /\ approval' = approval
  <2>1. approval.state = "pending"
    BY <1>9 DEF Deciding, TypeInv, LabelOK, DecisionInv, DecisionOK, InSession
  <2>2. call[r].body \in Decisions
    BY <1>9, ConstantsAssumption, CallFields DEF TypeInv, LabelOK, Kind
  <2> QED BY <1>9, <2>1, <2>2 DEF Decisions
<1> QED BY <1>7, <1>8, <1>9, ChangeMoves

\* Every step keeps DecisionInv, and it holds at the start.
LEMMA StepDecision ==
  ASSUME TypeInv, DecisionInv, [Next]_vars
  PROVE  DecisionInv'
<1>1. CASE UNCHANGED vars \/ \E k \in Keys : Sweep(k)
  <2>1. UNCHANGED <<txn, approval, changed, pc, call>>
    BY <1>1 DEF Sweep, vars, store, domain
  <2> QED BY <2>1 DEF DecisionInv, ChangedCalled, OneDecision, SessionOK, DecisionOK, Deciding,
          InTxn, Kind
<1> QED BY <1>1, ActDecision DEF Next, Acts

\* The refund request is undecided at first.
LEMMA InitDecision == ASSUME Init PROVE DecisionInv
BY DEF Init, StoreInit, DecisionInv, ChangedCalled, OneDecision, SessionOK, DecisionOK, Deciding,
   InTxn, Closed, InSession

-----------------------------------------------------------------------------
(* The order of events.                                                    *)

\* A number drawn inside a transaction is the next one and nobody else's; the
\* events that carry it wait in the session.  One drawn outside is counted at once.
NumberOK(r) ==
  /\ txn[r].number # 0 => /\ txn[r].number = sequence + 1
                          /\ \A q \in Requests : txn[q].number # 0 => q = r
  /\ \A e \in txn[r].events : e.by = r /\ e.seq = txn[r].number /\ txn[r].number # 0
  /\ pc[r] = "add" => IF InTxn(r) THEN txn[r].number # 0 /\ local[r].number = txn[r].number
                      ELSE local[r].number <= sequence

OrderInv == /\ \A e \in outbox : e.seq <= sequence
            /\ \A r \in Requests : SessionOK(r) /\ NumberOK(r)

\* A step that neither draws a number nor stores an event.
LEMMA NumbersUntouched ==
  ASSUME TypeInv, OrderInv, NEW r \in Requests, Acts(r), UNCHANGED <<sequence, outbox>>,
         pc'[r] # "add",
         txn'[r].number \in {0, txn[r].number},
         \A e \in txn'[r].events : e \in txn[r].events /\ txn'[r].number = txn[r].number
  PROVE  OrderInv'
<1>1. \A q \in Requests \ {r} : /\ pc'[q] = pc[q] /\ local'[q] = local[q]
                                /\ txn'[q] = txn[q]
  BY OnlyOneActs DEF OthersStay
<1>2. \A q \in Requests : SessionOK(q)'
  BY StepSessions DEF OrderInv
<1>3. NumberOK(r)'
  BY <1>1 DEF OrderInv, NumberOK
<1>4. \A q \in Requests \ {r} : NumberOK(q)'
  BY <1>1 DEF OrderInv, NumberOK, InTxn
<1> QED BY <1>2, <1>3, <1>4 DEF OrderInv

\* The steps that leave the counter and the outbox alone.
LEMMA OtherStepsOrder ==
  ASSUME TypeInv, OrderInv, NEW r \in Requests,
         \/ Arrive(r) \/ ReserveInsert(r) \/ ReserveFind(r) \/ Complete(r) \/ Release(r)
         \/ Load(r) \/ Begin(r) \/ BeginRevoke(r) \/ Attempt(r) \/ Settle(r)
         \/ AuditHead(r) \/ AuditAppend(r) \/ RefusalHead(r) \/ RefusalAppend(r)
         \/ StoreFails(r) \/ Crash(r)
  PROVE  OrderInv'
<1> USE DEF Goto, Answer, TypeInv, TypeOK, StoreTypeOK
<1>0. Acts(r)
  BY DEF Acts, Step, Fault
<1>1. CASE Arrive(r) \/ ReserveInsert(r) \/ ReserveFind(r) \/ Complete(r) \/ Release(r)
  <2>1. UNCHANGED <<sequence, outbox, txn>>
    BY <1>1 DEF Arrive, ReserveInsert, ReserveFind, Complete, Release, store
  <2>2. pc'[r] # "add"
    BY <1>1, ConstantsAssumption, CallFields
       DEF Arrive, ReserveInsert, ReserveFind, Complete, Release, Operate, FirstStep
  <2> QED BY <1>0, <2>1, <2>2, NumbersUntouched
<1>2. CASE Load(r) \/ Attempt(r) \/ Settle(r) \/ AuditHead(r) \/ RefusalHead(r)
  BY <1>0, <1>2, NumbersUntouched DEF Load, Attempt, Settle, AuditHead, RefusalHead, store
<1>3. CASE Begin(r) \/ BeginRevoke(r)
  <2>1. UNCHANGED <<sequence, outbox>> /\ pc'[r] # "add"
    BY <1>3 DEF Begin, BeginRevoke, Failure
  <2>2. txn' = txn \/ (txn'[r].number = 0 /\ txn'[r].events = {})
    <3>1. ~InTxn(r)
      BY <1>3 DEF Begin, BeginRevoke, LabelOK, InSession
    <3>2. TypeInv
      OBVIOUS
    <3> HIDE DEF TypeInv, TypeOK, StoreTypeOK, Goto, Answer
    <3>3. CASE txn'[r] = Closed
      BY <3>3 DEF Closed
    <3>4. CASE Opens(r)
      BY <3>4 DEF Opens, Closed
    <3> QED BY <1>0, <3>1, <3>2, <3>3, <3>4, SessionMoves
  <2> QED BY <1>0, <2>1, <2>2, NumbersUntouched
<1>4. CASE AuditAppend(r) \/ RefusalAppend(r)
  <2>1. UNCHANGED <<sequence, outbox>> /\ pc'[r] # "add"
    BY <1>4 DEF AuditAppend, RefusalAppend, Failure, AfterRecording
  <2>2. \/ txn'[r].number = 0 /\ txn'[r].events = {}
        \/ txn'[r].number = txn[r].number /\ txn'[r].events = txn[r].events
    BY <1>4 DEF AuditAppend, RefusalAppend, InsertRecord, Abort, Closed, Sessions
  <2> QED BY <1>0, <2>1, <2>2, NumbersUntouched
<1>5. CASE StoreFails(r) \/ Crash(r)
  <2>1. UNCHANGED <<sequence, outbox>> /\ pc'[r] # "add"
    BY <1>5 DEF StoreFails, Crash, Failure
  <2>2. txn'[r].number = 0 /\ txn'[r].events = {}
    BY <1>5 DEF StoreFails, Crash, Abort, Closed
  <2> QED BY <1>0, <2>1, <2>2, NumbersUntouched
<1> QED BY <1>1, <1>2, <1>3, <1>4, <1>5

\* A number is drawn inside a transaction while nobody else holds one, or outside
\* while nobody at all does.
LEMMA NextSequenceOrder ==
  ASSUME TypeInv, OrderInv, NEW r \in Requests, NextSequence(r)
  PROVE  OrderInv'
<1>0. Acts(r)
  BY DEF Acts, Step
<1>1. /\ pc[r] = "inc" /\ outbox' = outbox
      /\ \A q \in Requests \ {r} : /\ pc'[q] = pc[q] /\ local'[q] = local[q]
                                   /\ txn'[q] = txn[q]
  BY <1>0, OnlyOneActs DEF NextSequence, OthersStay
<1>2. \A q \in Requests : SessionOK(q)'
  BY <1>0, StepSessions DEF OrderInv
<1>3. CASE Abort(r) /\ Goto(r, Failure(r)) /\ sequence' = sequence
  <2>1. txn'[r].number = 0 /\ txn'[r].events = {} /\ pc'[r] # "add"
    BY <1>3 DEF Abort, Closed, Goto, Failure, TypeInv, TypeOK, StoreTypeOK
  <2> QED BY <1>0, <1>1, <1>3, <2>1, NumbersUntouched
<1>4. CASE /\ TakeNumber(r) /\ ~CounterHeld(r) /\ Goto(r, "add")
           /\ Remember(r, "number", sequence + 1)
  <2>1. sequence \in Nat /\ local \in [Requests -> Locals] /\ txn \in [Requests -> Sessions]
    BY DEF TypeInv, TypeOK, StoreTypeOK
  <2>2. pc'[r] = "add" /\ local'[r].number = sequence + 1
    BY <1>4, <2>1, RememberNumber DEF Goto, TypeInv, TypeOK
  <2>3. \A q \in Requests \ {r} : txn[q].number = 0
    BY <1>4 DEF CounterHeld
  <2>4. CASE InTxn(r)
    <3>1. /\ txn'[r].number = sequence + 1 /\ txn'[r].events = txn[r].events
          /\ txn'[r].open /\ sequence' = sequence
      BY <1>4, <2>1, <2>4 DEF TakeNumber, InTxn, Sessions
    <3>2. NumberOK(r)'
      BY <1>1, <2>1, <2>2, <2>3, <3>1 DEF OrderInv, NumberOK, InTxn
    <3>3. \A q \in Requests \ {r} : NumberOK(q)'
      BY <1>1, <2>3, <3>1 DEF OrderInv, NumberOK, InTxn
    <3> QED BY <1>1, <1>2, <3>1, <3>2, <3>3 DEF OrderInv
  <2>5. CASE ~InTxn(r)
    <3>1. txn' = txn /\ sequence' = sequence + 1
      BY <1>4, <2>5 DEF TakeNumber
    <3>2. \A q \in Requests : txn[q].number = 0
      BY <2>3, <2>5 DEF OrderInv, SessionOK, Closed
    <3>3. \A q \in Requests : NumberOK(q)'
      <4>1. \A q \in Requests : pc[q] = "add" /\ ~InTxn(q) => local[q].number <= sequence
        BY DEF OrderInv, NumberOK
      <4>2. \A q \in Requests : local[q].number \in Nat
        BY <2>1 DEF Locals
      <4>3. \A q \in Requests \ {r} : NumberOK(q)'
        BY <1>1, <2>1, <3>1, <3>2, <4>1, <4>2 DEF OrderInv, NumberOK, InTxn
      <4>4. NumberOK(r)'
        BY <2>1, <2>2, <2>5, <3>1, <3>2 DEF OrderInv, NumberOK, InTxn
      <4> QED BY <4>3, <4>4
    <3>4. \A e \in outbox' : e.seq <= sequence'
      BY <1>1, <2>1, <3>1 DEF OrderInv, TypeInv, TypeOK, StoreTypeOK, Events
    <3> QED BY <1>2, <3>3, <3>4 DEF OrderInv
  <2> QED BY <2>4, <2>5
<1> QED BY <1>3, <1>4 DEF NextSequence, CounterConflict

\* An event takes the number its handler drew.
LEMMA AddEventOrder ==
  ASSUME TypeInv, OrderInv, NEW r \in Requests, AddEvent(r)
  PROVE  OrderInv'
<1>0. Acts(r)
  BY DEF Acts, Step
<1>1. /\ pc[r] = "add" /\ sequence' = sequence
      /\ \A q \in Requests \ {r} : /\ pc'[q] = pc[q] /\ local'[q] = local[q]
                                   /\ txn'[q] = txn[q]
  BY <1>0, OnlyOneActs DEF AddEvent, OthersStay
<1>2. \A q \in Requests : SessionOK(q)'
  BY <1>0, StepSessions DEF OrderInv
<1>3. pc'[r] # "add"
  BY DEF AddEvent, Goto, AfterRecording, TypeInv, TypeOK
<1>4. InsertEvent(r, [seq |-> local[r].number, by |-> r])
  BY DEF AddEvent
<1>5. CASE InTxn(r)
  <2>1. /\ txn'[r].number = txn[r].number /\ outbox' = outbox
        /\ txn'[r].events = txn[r].events \cup {[seq |-> local[r].number, by |-> r]}
    BY <1>4, <1>5 DEF InsertEvent, InTxn, TypeInv, TypeOK, StoreTypeOK, Sessions
  <2>2. NumberOK(r)'
    BY <1>1, <1>3, <1>5, <2>1 DEF OrderInv, NumberOK
  <2>3. \A q \in Requests \ {r} : NumberOK(q)'
    BY <1>1, <2>1 DEF OrderInv, NumberOK, InTxn
  <2> QED BY <1>1, <1>2, <2>1, <2>2, <2>3 DEF OrderInv
<1>6. CASE ~InTxn(r)
  <2>1. txn' = txn /\ outbox' = outbox \cup {[seq |-> local[r].number, by |-> r]}
    BY <1>4, <1>6 DEF InsertEvent
  <2>2. local[r].number <= sequence
    BY <1>1, <1>6 DEF OrderInv, NumberOK
  <2>3. \A q \in Requests : NumberOK(q)'
    BY <1>1, <1>3, <2>1 DEF OrderInv, NumberOK, InTxn
  <2> QED BY <1>1, <1>2, <2>1, <2>2, <2>3 DEF OrderInv
<1> QED BY <1>5, <1>6

\* What a commit does to the counter and the outbox.
LEMMA CommitOrder ==
  ASSUME TypeInv, OrderInv, NEW r \in Requests, Commit(r) \/ CommitUnacknowledged(r)
  PROVE  OrderInv'
<1>0. Acts(r)
  BY DEF Acts, Step, Fault
<1>1. /\ pc[r] = "commit" /\ CommitWrites(r)
      /\ \A q \in Requests \ {r} : /\ pc'[q] = pc[q] /\ local'[q] = local[q]
                                   /\ txn'[q] = txn[q]
  BY <1>0, OnlyOneActs DEF Commit, CommitUnacknowledged, OthersStay
<1>2. \A q \in Requests : SessionOK(q)'
  BY <1>0, StepSessions DEF OrderInv
<1>3. pc'[r] # "add"
  BY DEF Commit, CommitUnacknowledged, Goto, Answer, Failure, TypeInv, TypeOK
<1>4. /\ txn'[r] = Closed /\ outbox' = outbox \cup txn[r].events
      /\ sequence' = IF txn[r].number = 0 THEN sequence ELSE txn[r].number
  BY <1>1 DEF CommitWrites, TypeInv, TypeOK, StoreTypeOK
<1>5. sequence \in Nat /\ sequence' \in {sequence, sequence + 1}
  BY <1>4 DEF OrderInv, NumberOK, TypeInv, TypeOK, StoreTypeOK
<1>6. \A e \in outbox' : e.seq <= sequence'
  BY <1>4, <1>5 DEF OrderInv, NumberOK, TypeInv, TypeOK, StoreTypeOK, Events
<1>7. NumberOK(r)'
  BY <1>3, <1>4 DEF NumberOK, Closed
<1>8. ASSUME NEW q \in Requests \ {r} PROVE NumberOK(q)'
  <2>1. txn[q].number # 0 => sequence' = sequence
    BY <1>4 DEF OrderInv, NumberOK
  <2>2. local[q].number \in Nat
    BY DEF TypeInv, TypeOK, Locals
  <2>3. \A p \in Requests : txn'[p].number # 0 => txn[p].number # 0
    BY <1>1, <1>4 DEF Closed
  <2> QED BY <1>1, <1>5, <2>1, <2>2, <2>3 DEF OrderInv, NumberOK, InTxn
<1> QED BY <1>2, <1>6, <1>7, <1>8 DEF OrderInv

\* Every step keeps OrderInv, and it holds at the start.
LEMMA StepOrder ==
  ASSUME TypeInv, OrderInv, [Next]_vars
  PROVE  OrderInv'
<1>1. CASE UNCHANGED vars \/ \E k \in Keys : Sweep(k)
  <2>1. UNCHANGED <<txn, sequence, outbox, pc, call, local>>
    BY <1>1 DEF Sweep, vars, store
  <2> QED BY <2>1 DEF OrderInv, NumberOK, SessionOK, InTxn, Kind
<1>2. ASSUME NEW r \in Requests, Acts(r) PROVE OrderInv'
  BY <1>2, OtherStepsOrder, NextSequenceOrder, AddEventOrder, CommitOrder DEF Acts, Step, Fault
<1> QED BY <1>1, <1>2 DEF Next, Acts

\* No number is drawn and no event visible at first.
LEMMA InitOrder == ASSUME Init PROVE OrderInv
BY DEF Init, StoreInit, OrderInv, NumberOK, SessionOK, InTxn, Closed

-----------------------------------------------------------------------------
(* A change, its record and its event.                                     *)

\* A transaction of a change holds the record once it was appended, and the event
\* it owes, if it owes one, once there is nothing left to do but commit.
OwesOK(r) ==
  InTxn(r) /\ Kind(r) # "revoke" =>
    /\ pc[r] \in {"inc", "add", "commit"} => \E x \in txn[r].records : x.id = <<r, "accepted">>
    /\ EventsOf(call[r]) = 1 =>
         IF pc[r] = "commit" THEN txn[r].events # {} ELSE local[r].todo = 1
    /\ EventsOf(call[r]) = 0 => local[r].todo = 0 /\ txn[r].events = {}

TogetherInv ==
  /\ \A e \in outbox : pc[e.by] # "idle"
  /\ \A r \in Requests : OwesOK(r)
  /\ ChangeRecordEventTogether

\* What a step adds to the trail and the outbox is its own request's; a change
\* that is transactional adds its record and its events when it commits.
LEMMA Additions ==
  ASSUME TypeInv, ChainInv, OrderInv, NEW r \in Requests, Acts(r)
  PROVE  /\ audit \subseteq audit' /\ outbox \subseteq outbox'
         /\ \A x \in audit' \ audit : /\ pc[r] # "idle"
                                      /\ x.id \in {<<r, Verdict(r)>>, <<r, "refused">>}
         /\ \A e \in outbox' \ outbox : pc[r] # "idle" /\ e.by = r
         /\ \A x \in audit' \ audit :
              \/ x.id = <<r, "refused">> \/ Kind(r) = "authenticate"
              \/ pc[r] = "commit" /\ r \in changed'
         /\ \A e \in outbox' \ outbox :
              \/ Kind(r) = "authenticate"
              \/ pc[r] = "commit" /\ r \in changed' /\ e \in txn[r].events
<1>1. CASE \/ Arrive(r) \/ ReserveInsert(r) \/ ReserveFind(r) \/ Complete(r) \/ Release(r)
           \/ Load(r) \/ Settle(r) \/ AuditHead(r) \/ RefusalHead(r) \/ Begin(r)
           \/ BeginRevoke(r) \/ Attempt(r) \/ StoreFails(r) \/ Crash(r)
  BY <1>1 DEF Arrive, ReserveInsert, ReserveFind, Complete, Release, Load, Settle,
     AuditHead, RefusalHead, Begin, BeginRevoke, Attempt, StoreFails, Crash, store
<1>2. CASE AuditAppend(r)
  <2>1. pc[r] = "append" /\ outbox' = outbox /\ (InTxn(r) \/ Kind(r) = "authenticate")
    BY <1>2 DEF AuditAppend, TypeInv, LabelOK, InSession
  <2>2. audit' = audit \/ (~InTxn(r) /\ audit' = audit \cup {NextRecord(r, Verdict(r))})
    BY <1>2 DEF AuditAppend, InsertRecord
  <2> QED BY <2>1, <2>2 DEF NextRecord
<1>3. CASE RefusalAppend(r)
  <2>1. pc[r] = "record" /\ outbox' = outbox
    BY <1>3 DEF RefusalAppend
  <2>2. audit' = audit \/ audit' = audit \cup {NextRecord(r, "refused")}
    BY <1>3 DEF RefusalAppend, InsertRecord
  <2> QED BY <2>1, <2>2 DEF NextRecord
<1>4. CASE NextSequence(r)
  BY <1>4 DEF NextSequence
<1>5. CASE AddEvent(r)
  <2>1. pc[r] = "add" /\ audit' = audit /\ (InTxn(r) \/ Kind(r) = "authenticate")
    BY <1>5 DEF AddEvent, TypeInv, LabelOK, InSession
  <2>2. outbox' = outbox
        \/ (~InTxn(r) /\ outbox' = outbox \cup {[seq |-> local[r].number, by |-> r]})
    BY <1>5 DEF AddEvent, InsertEvent
  <2> QED BY <2>1, <2>2
<1>6. CASE Commit(r) \/ CommitUnacknowledged(r)
  <2>1. /\ pc[r] = "commit" /\ audit' = audit \cup txn[r].records
        /\ outbox' = outbox \cup txn[r].events /\ changed' = changed \cup {r}
    BY <1>6 DEF Commit, CommitUnacknowledged, CommitWrites, ApplyChange
  <2>2. \A x \in txn[r].records : x.id = <<r, Verdict(r)>>
    BY DEF ChainInv, BufferOK
  <2>3. \A e \in txn[r].events : e.by = r
    BY DEF OrderInv, NumberOK
  <2> QED BY <2>1, <2>2, <2>3
<1> QED BY <1>1, <1>2, <1>3, <1>4, <1>5, <1>6 DEF Acts, Step, Fault

\* The steps inside a transaction.
LEMMA OwesSteps ==
  ASSUME TypeInv, ChainInv, NEW r \in Requests, OwesOK(r), InTxn(r), InTxn(r)',
         AuditHead(r) \/ AuditAppend(r) \/ NextSequence(r) \/ AddEvent(r)
  PROVE  OwesOK(r)'
<1> USE DEF OwesOK
<1>1. /\ pc[r] \in InSession /\ Kind(r) # "authenticate" /\ call' = call
      /\ local \in [Requests -> Locals] /\ txn \in [Requests -> Sessions]
      /\ audit \subseteq AuditRecords /\ outbox \subseteq Events /\ sequence \in Nat
  BY DEF TypeInv, TypeOK, StoreTypeOK, LabelOK, AuditHead, AuditAppend, NextSequence, AddEvent,
     domain
<1>2. CASE AuditHead(r)
  <2>1. LastRecord \in [seq : Nat, id : EntryIds \cup {Genesis}]
    BY <1>1, ContiguousHasLast, LastRecordFacts DEF ChainInv
  <2>2. local'[r].todo = local[r].todo /\ txn' = txn
    BY <1>1, <1>2, <2>1, RememberHead DEF AuditHead, store
  <2> QED BY <1>1, <1>2, <2>2 DEF AuditHead, Goto, TypeInv, TypeOK, Kind, store
<1>3. CASE AuditAppend(r)
  <2>1. NextRecord(r, Verdict(r)) \in AuditRecords /\ NextRecord(r, Verdict(r)).id = <<r, "accepted">>
    BY <1>1, NextRecordType DEF Verdict, Verdicts
  <2>2. /\ pc[r] = "append" /\ InsertRecord(r, NextRecord(r, Verdict(r)))
        /\ Goto(r, AfterRecording(r, local[r].todo)) /\ local' = local
    BY <1>1, <1>3 DEF AuditAppend, Abort, InTxn, Closed
  <2>3. /\ txn'[r].records = txn[r].records \cup {NextRecord(r, Verdict(r))}
        /\ txn'[r].events = txn[r].events
    BY <1>1, <2>1, <2>2 DEF InsertRecord, InTxn, Sessions
  <2>4. pc'[r] = IF local[r].todo > 0 THEN "inc" ELSE "commit"
    BY <2>2 DEF Goto, AfterRecording, TypeInv, TypeOK
  <2> QED BY <1>1, <2>1, <2>2, <2>3, <2>4 DEF Kind
<1>4. CASE NextSequence(r)
  <2>1. /\ pc[r] = "inc" /\ TakeNumber(r) /\ Goto(r, "add")
        /\ Remember(r, "number", sequence + 1)
    BY <1>1, <1>4 DEF NextSequence, Abort, InTxn, Closed
  <2>2. local'[r].todo = local[r].todo
    BY <1>1, <2>1, RememberNumber
  <2>3. txn'[r].records = txn[r].records /\ txn'[r].events = txn[r].events
    BY <1>1, <2>1 DEF TakeNumber, InTxn, Sessions
  <2> QED BY <1>1, <2>1, <2>2, <2>3 DEF Goto, TypeInv, TypeOK, Kind
<1>5. CASE AddEvent(r)
  <2>1. /\ pc[r] = "add" /\ InsertEvent(r, [seq |-> local[r].number, by |-> r])
        /\ Goto(r, AfterRecording(r, local[r].todo - 1))
        /\ Remember(r, "todo", local[r].todo - 1)
        /\ local[r].todo \in 1 .. 2 /\ local[r].number \in Nat \ {0}
    BY <1>1, <1>5 DEF AddEvent, TypeInv, LabelOK, Locals
  <2>2. local'[r].todo = local[r].todo - 1
    BY <1>1, <2>1, RememberTodo
  <2>3. /\ txn'[r].records = txn[r].records
        /\ txn'[r].events = txn[r].events \cup {[seq |-> local[r].number, by |-> r]}
    BY <1>1, <2>1 DEF InsertEvent, InTxn, Sessions
  <2>4. pc'[r] = IF local[r].todo - 1 > 0 THEN "inc" ELSE "commit"
    BY <2>1 DEF Goto, AfterRecording, TypeInv, TypeOK
  <2> QED BY <1>1, <2>1, <2>2, <2>3, <2>4 DEF Kind
<1> QED BY <1>2, <1>3, <1>4, <1>5

\* What a transaction owes it comes to hold before it can commit.
LEMMA ActOwes ==
  ASSUME TypeInv, ChainInv, \A q \in Requests : OwesOK(q), NEW r \in Requests, Acts(r)
  PROVE  \A q \in Requests : OwesOK(q)'
<1>1. ASSUME NEW q \in Requests \ {r} PROVE OwesOK(q)'
  <2>1. pc'[q] = pc[q] /\ call'[q] = call[q] /\ local'[q] = local[q] /\ txn'[q] = txn[q]
    BY OnlyOneActs DEF OthersStay
  <2>2. EventsOf(call'[q]) = EventsOf(call[q])
    BY <2>1
  <2> QED BY <2>1, <2>2 DEF OwesOK, InTxn, Kind
<1>2. CASE ~InTxn(r)'
  BY <1>1, <1>2 DEF OwesOK
<1>3. CASE InTxn(r)' /\ InTxn(r)
  <2>1. pc[r] \in InSession
    BY <1>3 DEF TypeInv, LabelOK
  <2>2. ~(Commit(r) \/ CommitUnacknowledged(r) \/ StoreFails(r) \/ Crash(r))
    BY <1>3 DEF Commit, CommitUnacknowledged, StoreFails, Crash, CommitWrites, Abort, InTxn,
       Closed, TypeInv, TypeOK, StoreTypeOK
  <2>3. AuditHead(r) \/ AuditAppend(r) \/ NextSequence(r) \/ AddEvent(r)
    BY <2>1, <2>2 DEF Acts, Step, Fault, InSession, Arrive, ReserveInsert, ReserveFind,
       Complete, Release, Load, Begin, BeginRevoke, Attempt, Settle, RefusalHead, RefusalAppend
  <2> QED BY <1>1, <1>3, <2>3, OwesSteps
<1>4. CASE InTxn(r)' /\ ~InTxn(r)
  <2>1. Opens(r)
    BY <1>4, SessionMoves DEF InTxn, Closed
  <2>2. call' = call
    BY <2>1, ActorMoves DEF Opens
  <2>3. /\ pc'[r] = "head" /\ txn'[r].events = {}
        /\ Kind(r) # "revoke" => local'[r].todo = EventsOf(call[r])
    BY <2>1 DEF Opens, Closed
  <2>4. EventsOf(call'[r]) = EventsOf(call[r])
    BY <2>2
  <2>5. OwesOK(r)'
    BY <2>2, <2>3, <2>4 DEF OwesOK, Kind
  <2> QED BY <1>1, <2>5
<1> QED BY <1>2, <1>3, <1>4

\* A change, its record and its event become durable together.
LEMMA ActTogether ==
  ASSUME TypeInv, ChainInv, OrderInv, ChangedCalled, TogetherInv, NEW r \in Requests, Acts(r)
  PROVE  TogetherInv'
<1>1. /\ pc'[r] # "idle" /\ (pc[r] # "idle" => call' = call)
      /\ \A q \in Requests \ {r} : pc'[q] = pc[q] /\ call'[q] = call[q]
  BY ActorMoves, OnlyOneActs DEF OthersStay
<1>2. \A q \in Requests : OwesOK(q)'
  BY ActOwes DEF TogetherInv
<1>3. \A e \in outbox' : pc'[e.by] # "idle"
  <2>1. \A e \in outbox : e.by \in Requests
    BY DEF TypeInv, TypeOK, StoreTypeOK, Events
  <2> QED BY <1>1, <2>1, Additions DEF TogetherInv
<1>4. ASSUME NEW q \in Requests \ {r}
      PROVE  /\ q \in changed' <=> q \in changed
             /\ Recorded(q, "accepted")' <=> Recorded(q, "accepted")
             /\ Emitted(q)' <=> Emitted(q)
  BY Additions, ChangeMoves DEF Recorded, Emitted
<1>5. ASSUME IsTransactional(r)', pc[r] # "commit"
      PROVE  \/ r \notin changed' /\ ~Recorded(r, "accepted")' /\ ~Emitted(r)'
             \/ /\ IsTransactional(r) /\ call' = call
                /\ r \in changed' <=> r \in changed
                /\ Recorded(r, "accepted")' <=> Recorded(r, "accepted")
                /\ Emitted(r)' <=> Emitted(r)
  <2>1. CASE pc[r] = "idle"
    <3>1. r \notin changed /\ ~Recorded(r, "accepted") /\ ~Emitted(r)
      BY <2>1 DEF ChainInv, RecordedOK, Verdicts, After, Final, ChangedCalled, TogetherInv, Emitted
    <3> QED BY <2>1, <3>1, Additions, ChangeMoves DEF Recorded, Emitted
  <2>2. CASE pc[r] # "idle"
    <3>1. IsTransactional(r) /\ call' = call /\ Kind(r) \in Transactional
      BY <1>1, <1>5, <2>2 DEF IsTransactional, Called, Kind
    <3> QED BY <1>5, <3>1, Additions, ChangeMoves DEF Recorded, Emitted, Transactional
  <2> QED BY <2>1, <2>2
<1>6. ASSUME IsTransactional(r)', pc[r] = "commit"
      PROVE  \/ /\ r \in changed' /\ Recorded(r, "accepted")'
                /\ EventsOf(call'[r]) = 1 => Emitted(r)'
             \/ UNCHANGED <<changed, audit, outbox, call>>
  <2>1. CASE Crash(r) \/ StoreFails(r)
    BY <2>1 DEF Crash, StoreFails, domain
  <2>2. CASE Commit(r) \/ CommitUnacknowledged(r)
    <3>1. /\ audit' = audit \cup txn[r].records /\ outbox' = outbox \cup txn[r].events
          /\ changed' = changed \cup {r} /\ call' = call /\ InTxn(r)
      BY <2>2 DEF Commit, CommitUnacknowledged, CommitWrites, ApplyChange, TypeInv, LabelOK
    <3>2. Kind(r) # "revoke"
      BY <1>6, <3>1 DEF IsTransactional, Transactional, Kind
    <3>3. Recorded(r, "accepted")'
      BY <1>6, <3>1, <3>2 DEF TogetherInv, OwesOK, Recorded
    <3>4. EventsOf(call[r]) = 1 => \E e \in txn[r].events : e.by = r
      BY <1>6, <3>1, <3>2 DEF TogetherInv, OwesOK, OrderInv, NumberOK
    <3> QED BY <3>1, <3>3, <3>4 DEF Emitted
  <2> QED
    BY <1>6, <2>1, <2>2 DEF Acts, Step, Fault, Arrive, ReserveInsert, ReserveFind, Complete,
       Release, Load, Begin, BeginRevoke, Attempt, Settle, RefusalHead, RefusalAppend,
       AuditHead, AuditAppend, NextSequence, AddEvent
<1>7. ChangeRecordEventTogether'
  <2>1. ASSUME NEW q \in Requests \ {r}, IsTransactional(q)'
        PROVE  IsTransactional(q) /\ call'[q] = call[q]
    BY <1>1, <2>1 DEF IsTransactional, Called, Kind
  <2>2. ASSUME IsTransactional(r)', UNCHANGED <<changed, audit, outbox, call>>
        PROVE  /\ IsTransactional(r) /\ (r \in changed' <=> r \in changed)
               /\ Recorded(r, "accepted")' <=> Recorded(r, "accepted")
               /\ Emitted(r)' <=> Emitted(r)
    BY <2>2 DEF IsTransactional, Called, Kind, Recorded, Emitted
  <2>3. ASSUME NEW q \in Requests, IsTransactional(q)'
        PROVE  /\ (q \in changed <=> Recorded(q, "accepted"))'
               /\ (EventsOf(call[q]) = 1 => (q \in changed <=> Emitted(q)))'
    <3>1. CASE q # r
      BY <1>4, <2>1, <2>3, <3>1 DEF TogetherInv, ChangeRecordEventTogether
    <3>2. CASE q = r /\ pc[r] = "commit"
      BY <1>6, <2>2, <2>3, <3>2 DEF TogetherInv, ChangeRecordEventTogether
    <3>3. CASE q = r /\ pc[r] # "commit"
      BY <1>5, <2>3, <3>3 DEF TogetherInv, ChangeRecordEventTogether
    <3> QED BY <3>1, <3>2, <3>3
  <2> QED BY <2>3 DEF ChangeRecordEventTogether
<1> QED BY <1>2, <1>3, <1>7 DEF TogetherInv

\* Every step keeps TogetherInv, and it holds at the start.
LEMMA StepTogether ==
  ASSUME TypeInv, ChainInv, OrderInv, ChangedCalled, TogetherInv, [Next]_vars
  PROVE  TogetherInv'
<1>1. CASE UNCHANGED vars \/ \E k \in Keys : Sweep(k)
  <2>1. UNCHANGED <<txn, audit, outbox, changed, pc, call, local>>
    BY <1>1 DEF Sweep, vars, store, domain
  <2> QED BY <2>1 DEF TogetherInv, OwesOK, ChangeRecordEventTogether, IsTransactional, Called,
          Recorded, Emitted, InTxn, Kind
<1> QED BY <1>1, ActTogether DEF Next, Acts

\* At first nothing is changed, recorded or published.
LEMMA InitTogether == ASSUME Init PROVE TogetherInv
BY DEF Init, StoreInit, TogetherInv, OwesOK, ChangeRecordEventTogether, IsTransactional, Called,
   InTxn, Closed

-----------------------------------------------------------------------------
(* What callers are told.                                                  *)

\* Who was told something has ended.
Told(r) == answer[r].status # "none" => pc[r] = "done"

\* A change that is durable is on its way to a success, unless its commit lost its
\* acknowledgement.
ChangedOK(r) ==
  IsTransactional(r) =>
    /\ pc[r] = "complete" => r \in changed
    /\ r \in changed => pc[r] \in {"complete", "release", "refuse", "record"} \cup Final
    /\ r \in changed /\ pc[r] \in {"release", "refuse", "record"} =>
         r \in unsure

AnswerInv == ChangedCalled /\ \A r \in Requests : Told(r) /\ ChangedOK(r)

\* What a step can tell its request's caller.
LEMMA AnswerMoves ==
  ASSUME TypeInv, NEW r \in Requests, Acts(r)
  PROVE  answer'[r] # answer[r] =>
           /\ pc'[r] = "done"
           /\ answer'[r].status = "replayed" =>
                /\ pc[r] = "find" /\ answer'[r].result = keys[call[r].key].result
                /\ keys[call[r].key] # None /\ keys[call[r].key].body = call[r].body
                /\ keys[call[r].key].result # None
           /\ answer'[r].status = "ok" =>
                \/ pc[r] = "complete" /\ changed' = changed
                \/ r \in changed'
                \/ Kind(r) = "authenticate"
           /\ answer'[r].status \in {"refused", "error"} =>
                \/ pc[r] = "record" /\ changed' = changed /\ unsure' = unsure
                \/ Kind(r) = "authenticate"
<1> USE DEF TypeInv, TypeOK, Answer
<1>1. CASE \/ Arrive(r) \/ ReserveInsert(r) \/ Release(r) \/ Load(r) \/ Begin(r)
           \/ BeginRevoke(r) \/ Attempt(r) \/ AuditHead(r) \/ RefusalHead(r)
           \/ NextSequence(r) \/ AddEvent(r) \/ CommitUnacknowledged(r) \/ StoreFails(r)
           \/ Crash(r)
  BY <1>1 DEF Arrive, ReserveInsert, Release, Load, Begin, BeginRevoke, Attempt, AuditHead,
     RefusalHead, NextSequence, AddEvent, CommitUnacknowledged, StoreFails, Crash
<1>2. CASE ReserveFind(r)
  BY <1>2 DEF ReserveFind
<1>3. CASE Complete(r)
  BY <1>3 DEF Complete, domain
<1>4. CASE Settle(r)
  BY <1>4 DEF Settle, LabelOK
<1>5. CASE AuditAppend(r)
  <2>1. InTxn(r) \/ Kind(r) = "authenticate"
    BY <1>5 DEF AuditAppend, LabelOK, InSession
  <2> QED BY <1>5, <2>1 DEF AuditAppend
<1>6. CASE Commit(r)
  BY <1>6 DEF Commit, ApplyChange
<1>7. CASE RefusalAppend(r)
  BY <1>7 DEF RefusalAppend, domain
<1> QED BY <1>1, <1>2, <1>3, <1>4, <1>5, <1>6, <1>7 DEF Acts, Step, Fault

\* A request whose change is durable, or becomes so.
LEMMA ActChanged ==
  ASSUME TypeInv, AnswerInv, NEW r \in Requests, Acts(r)
  PROVE  ChangedOK(r)'
<1> USE DEF TypeInv, TypeOK, Goto, Answer, Final
<1>1. /\ pc[r] # "idle" => call' = call /\ call[r] \in Calls
      /\ pc[r] = "idle" => r \notin changed
  BY ActorMoves DEF AnswerInv, ChangedCalled, LabelOK
<1>2. CASE Arrive(r)
  <2>1. r \notin changed'
    BY <1>1, <1>2 DEF Arrive, domain
  <2>2. pc'[r] # "complete"
    BY <1>2, ConstantsAssumption, CallFields DEF Arrive, FirstStep
  <2> QED BY <2>1, <2>2 DEF ChangedOK
<1>3. CASE \/ Load(r) \/ Begin(r) \/ BeginRevoke(r) \/ AuditHead(r) \/ AuditAppend(r)
           \/ NextSequence(r) \/ AddEvent(r) \/ StoreFails(r)
           \/ ReserveInsert(r) \/ ReserveFind(r) \/ Attempt(r) \/ Settle(r)
  <2>1. pc[r] \in InSession \cup {"load", "begin", "reserve", "find", "attempt", "settle"}
    BY <1>3 DEF Load, Begin, BeginRevoke, AuditHead, AuditAppend, NextSequence, AddEvent,
       StoreFails, ReserveInsert, ReserveFind, Attempt, Settle, LabelOK, InSession
  <2>2. pc'[r] # "complete"
    BY <1>3 DEF Load, Begin, BeginRevoke, AuditHead, AuditAppend, NextSequence, AddEvent,
       StoreFails, ReserveInsert, ReserveFind, Attempt, Settle, Operate, Failure, AfterRecording
  <2>3. Kind(r) \in Transactional => changed' = changed
    BY <1>3 DEF Load, Begin, BeginRevoke, AuditHead, AuditAppend, NextSequence, AddEvent,
       StoreFails, ReserveInsert, ReserveFind, Attempt, Settle, LabelOK, Transactional, domain
  <2>4. pc[r] # "idle" /\ call' = call
    BY <1>1, <2>1 DEF InSession
  <2>5. IsTransactional(r) => r \notin changed
    BY <2>1 DEF AnswerInv, ChangedOK, InSession
  <2> QED BY <2>2, <2>3, <2>4, <2>5 DEF ChangedOK, IsTransactional, Called, Kind
<1>4. CASE Commit(r)
  <2>1. /\ call' = call /\ r \in changed'
        /\ pc'[r] \in {"complete", "done"}
    BY <1>4 DEF Commit, ApplyChange
  <2> QED BY <2>1 DEF ChangedOK
<1>5. CASE CommitUnacknowledged(r)
  <2>1. /\ call' = call /\ r \in unsure' /\ pc'[r] = Failure(r)
    BY <1>5 DEF CommitUnacknowledged
  <2> QED BY <2>1 DEF ChangedOK, Failure
<1>6. CASE Complete(r) \/ Release(r) \/ RefusalHead(r) \/ RefusalAppend(r)
  <2>1. /\ pc[r] # "idle" /\ changed' = changed /\ unsure' = unsure
        /\ pc'[r] = CASE pc[r] = "release" -> "refuse" [] pc[r] = "refuse" -> "record"
                      [] OTHER -> "done"
        /\ pc[r] \in {"complete", "release", "refuse", "record"}
    BY <1>6 DEF Complete, Release, RefusalHead, RefusalAppend, domain
  <2> QED BY <1>1, <2>1 DEF AnswerInv, ChangedOK, IsTransactional, Called, Kind
<1>7. CASE Crash(r)
  BY <1>7 DEF Crash, ChangedOK
<1> QED BY <1>2, <1>3, <1>4, <1>5, <1>6, <1>7 DEF Acts, Step, Fault

\* A lost acknowledgement stays lost.
LEMMA ActAnswers ==
  ASSUME TypeInv, AnswerInv, NEW r \in Requests, Acts(r)
  PROVE  AnswerInv'
<1>1. /\ pc[r] \notin Final /\ pc'[r] # "idle" /\ (pc[r] # "idle" => call' = call)
      /\ \A q \in Requests \ {r} : /\ pc'[q] = pc[q] /\ call'[q] = call[q]
                                   /\ answer'[q] = answer[q]
  BY ActorMoves, OnlyOneActs DEF OthersStay
<1>2. ChangedCalled'
  BY <1>1, ChangeMoves DEF AnswerInv, ChangedCalled, TypeInv, TypeOK
<1>3. unsure \subseteq unsure'
  BY DEF Acts, Step, Fault, Arrive, ReserveInsert, ReserveFind, Complete, Release, Load, Begin,
     BeginRevoke, Attempt, AuditHead, AuditAppend, NextSequence, AddEvent, Settle, Commit,
     RefusalHead, RefusalAppend, CommitUnacknowledged, StoreFails, Crash, domain
<1>4. ASSUME NEW q \in Requests \ {r} PROVE Told(q)' /\ ChangedOK(q)'
  <2>1. q \in changed' <=> q \in changed
    BY ChangeMoves
  <2> QED
    BY <1>1, <1>3, <2>1 DEF AnswerInv, Told, ChangedOK, IsTransactional, Called, Kind
<1>5. Told(r)'
  BY <1>1, AnswerMoves DEF AnswerInv, Told, Final
<1> QED BY <1>2, <1>4, <1>5, ActChanged DEF AnswerInv

\* Every step keeps AnswerInv, and it holds at the start.
LEMMA StepAnswers ==
  ASSUME TypeInv, AnswerInv, [Next]_vars
  PROVE  AnswerInv'
<1>1. CASE UNCHANGED vars
  BY <1>1 DEF vars, domain, AnswerInv, ChangedCalled, Told, ChangedOK, IsTransactional, Called,
     Kind
<1>2. ASSUME NEW k \in Keys, Sweep(k) PROVE AnswerInv'
  <2>1. UNCHANGED <<changed, unsure, pc, call, answer>>
    BY <1>2 DEF Sweep
  <2>2. ASSUME NEW r \in Requests PROVE ChangedOK(r)'
    BY <2>1 DEF AnswerInv, ChangedOK, IsTransactional, Called, Kind
  <2> QED BY <2>1, <2>2 DEF AnswerInv, ChangedCalled, Told
<1> QED BY <1>1, <1>2, ActAnswers DEF Next, Acts

\* Nobody was told anything yet.
LEMMA InitAnswers == ASSUME Init PROVE AnswerInv
BY DEF Init, StoreInit, AnswerInv, ChangedCalled, Told, ChangedOK, IsTransactional, Called,
   NoAnswer

-----------------------------------------------------------------------------
(* The theorems                                                            *)

\* The inductive invariant of the write path's safety: what each idempotency key's
\* document says, what open transactions hold, what numbers and records wait to be
\* committed, in every reachable state.
THEOREM SafetyInductive == Spec => [](KeyInv /\ DecisionInv /\ OrderInv /\ TogetherInv)
<1> DEFINE SafetyInv == KeyInv /\ DecisionInv /\ OrderInv /\ TogetherInv
<1>1. Init => SafetyInv
  BY InitKeys, InitDecision, InitOrder, InitTogether
<1>2. TypeInv /\ ChainInv /\ SafetyInv /\ [Next]_vars => SafetyInv'
  BY StepKeys, StepDecision, StepOrder, StepTogether DEF DecisionInv
<1> HIDE DEF SafetyInv
<1>3. Spec => []SafetyInv
  BY <1>1, <1>2, Inductive, PTL DEF Spec
<1> QED BY <1>3 DEF SafetyInv

\* An idempotency key runs its operation once in each of its lives, unless the
\* reservation was bypassed: the document gone between the insertion that failed and
\* the search, or a commit that lost its acknowledgement (idempotency.py reserve).
THEOREM KeyRunsOnce == Spec => []OnceUnlessLeaky
<1>1. KeyInv => OnceUnlessLeaky
  BY DEF KeyInv, OneWorker, OnceUnlessLeaky
<1> QED BY <1>1, SafetyInductive, PTL

\* No refusal, conflict or failed transaction leaves a key in progress: only a
\* handler that died does (idempotent.py, release in the exception path).
THEOREM KeysAreReleased == Spec => []StuckOnlyAfterCrash
<1>1. KeyInv => StuckOnlyAfterCrash
  BY DEF KeyInv, DocumentOK, StuckOnlyAfterCrash, Works, Live, UnderKey, InSession, Final,
     InProgress
<1> QED BY <1>1, SafetyInductive, PTL

\* A replay answers with what was committed under the same key, for the same body
\* unless the key leaked (idempotency.py, fingerprint comparison).
THEOREM ReplaysAreRight == Spec => ReplayNamesTheCreation
<1> DEFINE Right(r) == answer'[r] # answer[r] /\ answer'[r].status = "replayed" =>
                         LET q == answer'[r].result
                             k == call[r].key
                         IN  /\ q \in ran[k]
                             /\ k \notin leaky => call[q].body = call[r].body
<1>1. TypeInv /\ KeyInv /\ [Next]_vars => [\A r \in Requests : Right(r)]_vars
  <2> SUFFICES ASSUME TypeInv, KeyInv, Next, NEW r \in Requests,
                      answer'[r] # answer[r], answer'[r].status = "replayed"
               PROVE  Right(r)
    BY DEF vars
  <2>1. PICK q \in Requests : Acts(q)
    BY DEF Next, Acts, Sweep, vars
  <2>2. q = r /\ Acts(r)
    BY <2>1, OnlyOneActs DEF OthersStay
  <2>3. /\ pc[r] = "find" /\ answer'[r].result = keys[call[r].key].result
        /\ keys[call[r].key] # None /\ keys[call[r].key].body = call[r].body
        /\ keys[call[r].key].result # None
    BY <2>2, AnswerMoves
  <2>4. call[r].key \in Keys
    BY <2>3, ConstantsAssumption, CallFields DEF TypeInv, LabelOK, KeyedOnly, Kind
  <2> QED BY <2>3, <2>4 DEF KeyInv, DocumentOK, OneWorker
<1> HIDE DEF Right
<1>2. Spec => [][\A r \in Requests : Right(r)]_vars
  BY <1>1, Inductive, SafetyInductive, PTL DEF Spec
<1> QED BY <1>2 DEF Right, ReplayNamesTheCreation

\* At most one decision takes effect, the refund carries it and the requester did
\* not make it, although the refund is read before the transaction that decides
\* it: the filter on the pending state and the write conflict see to it.
THEOREM DecidedAtMostOnce == Spec => []OneDecision
<1>1. DecisionInv => OneDecision
  BY DEF DecisionInv
<1> QED BY <1>1, SafetyInductive, PTL

\* Transactional events come into sight in the order of their numbers: the write
\* conflict on the counter lets one transaction at a time hold a number.
THEOREM EventsInOrder == Spec => EventsAppearInOrder
<1> DEFINE InOrder == \A e \in outbox' \ outbox :
                        IsTransactional(e.by) => \A f \in outbox : f.seq < e.seq
<1>1. TypeInv /\ ChainInv /\ OrderInv /\ [Next]_vars => [InOrder]_vars
  <2> SUFFICES ASSUME TypeInv, ChainInv, OrderInv, Next, NEW e \in outbox' \ outbox,
                      IsTransactional(e.by), NEW f \in outbox
               PROVE  f.seq < e.seq
    BY DEF vars
  <2>1. PICK r \in Requests : Acts(r)
    BY DEF Next, Acts, Sweep, vars, store
  <2>2. e.by = r /\ Kind(r) # "authenticate"
    BY <2>1, Additions DEF IsTransactional, Transactional
  <2>3. e \in txn[r].events
    BY <2>1, <2>2, Additions
  <2>4. e.seq = sequence + 1 /\ f.seq <= sequence /\ f.seq \in Nat /\ sequence \in Nat
    BY <2>3 DEF OrderInv, NumberOK, TypeInv, TypeOK, StoreTypeOK, Events
  <2> QED BY <2>4
<1> HIDE DEF InOrder
<1>2. Spec => [][InOrder]_vars
  BY <1>1, Inductive, SafetyInductive, PTL DEF Spec
<1> QED BY <1>2 DEF InOrder, EventsAppearInOrder

\* A creation, a decision or an assignment is durable exactly when its audit record
\* is and when the event it owes is in the outbox, whatever fails (recording.py).
THEOREM ChangesAreRecorded == Spec => []ChangeRecordEventTogether
<1>1. TogetherInv => ChangeRecordEventTogether
  BY DEF TogetherInv
<1> QED BY <1>1, SafetyInductive, PTL

\* A caller told of a success finds the change there; one told of a failure may try
\* again, unless the commit of its own transaction lost its acknowledgement
\* (store.py, transaction).
THEOREM CallersAreToldTheTruth == Spec => AnswersAreTrue
<1> DEFINE True(r) ==
      IsTransactional(r) /\ (answer'[r] # answer[r] \/ r \in changed' \ changed) =>
         /\ answer'[r].status = "ok" => r \in changed'
         /\ answer'[r].status \in {"refused", "error"} => r \notin changed' \/ r \in unsure'
<1>1. Init => AnswerInv
  BY InitAnswers
<1>2. TypeInv /\ AnswerInv /\ [Next]_vars => AnswerInv'
  BY StepAnswers
<1>3. TypeInv /\ AnswerInv /\ [Next]_vars => [\A r \in Requests : True(r)]_vars
  <2> SUFFICES ASSUME TypeInv, AnswerInv, Next, NEW r \in Requests, IsTransactional(r),
                      answer'[r] # answer[r] \/ r \in changed' \ changed
               PROVE  /\ answer'[r].status = "ok" => r \in changed'
                      /\ answer'[r].status \in {"refused", "error"} =>
                           r \notin changed' \/ r \in unsure'
    BY DEF vars
  <2>1. PICK q \in Requests : Acts(q)
    BY DEF Next, Acts, Sweep, vars, domain
  <2>2. q = r
    BY <2>1, OnlyOneActs, ChangeMoves DEF OthersStay
  <2>3. Acts(r) /\ Kind(r) \in Transactional /\ Told(r) /\ ChangedOK(r)
    BY <2>1, <2>2 DEF IsTransactional, AnswerInv
  <2>4. CASE answer'[r] = answer[r]
    <3>1. pc[r] = "commit"
      BY <2>1, <2>2, <2>3, <2>4, ChangeMoves DEF Transactional
    <3>2. answer'[r].status = "none"
      BY <2>4, <3>1 DEF AnswerInv, Told
    <3> QED BY <3>2
  <2>5. CASE answer'[r] # answer[r]
    <3>1. Kind(r) # "authenticate"
      BY <2>3 DEF Transactional
    <3>2. CASE answer'[r].status = "ok"
      <4>1. (pc[r] = "complete" /\ changed' = changed) \/ r \in changed'
        BY <2>3, <2>5, <3>1, <3>2, AnswerMoves
      <4> QED BY <2>3, <3>2, <4>1 DEF ChangedOK
    <3>3. CASE answer'[r].status \in {"refused", "error"}
      <4>1. pc[r] = "record" /\ changed' = changed /\ unsure' = unsure
        BY <2>3, <2>5, <3>1, <3>3, AnswerMoves
      <4> QED BY <2>3, <3>3, <4>1 DEF ChangedOK
    <3> QED BY <3>2, <3>3
  <2> QED BY <2>4, <2>5
<1> HIDE DEF True
<1>4. Spec => [][\A r \in Requests : True(r)]_vars
  BY <1>1, <1>2, <1>3, Inductive, PTL DEF Spec
<1> QED BY <1>4 DEF True, AnswersAreTrue

-----------------------------------------------------------------------------
(* Listing a finite set of numbered elements.                              *)

\* The listing of a set lists its elements.  What a rank is for every finite set
\* takes an induction; that it stays so when the set grows at its end does not.
Listed(S) ==
  /\ IsFiniteSet(S)
  /\ \A i \in 1 .. Cardinality(S) : InNumberOrder(S)[i] \in S

\* The listing of a set as a function.
LEMMA ListingIs ==
  ASSUME NEW S, NEW n \in Nat, Cardinality(S) = n
  PROVE  /\ DOMAIN InNumberOrder(S) = 1 .. n
         /\ \A i \in 1 .. n : InNumberOrder(S)[i] = CHOOSE x \in S : Rank(x, S) = i
         /\ InNumberOrder(S) = [i \in 1 .. n |-> InNumberOrder(S)[i]]
BY DEF InNumberOrder

\* The listing of a listed set is a sequence.
LEMMA ListingIsSeq ==
  ASSUME NEW S, Listed(S)
  PROVE  InNumberOrder(S) \in Seq(S) /\ Len(InNumberOrder(S)) = Cardinality(S)
<1>1. PICK n \in Nat : n = Cardinality(S)
  BY FS_CardinalityType DEF Listed
<1>2. PICK s : s = InNumberOrder(S)
  OBVIOUS
<1>3. s = [i \in 1 .. n |-> s[i]] /\ \A i \in 1 .. n : s[i] \in S
  BY <1>1, <1>2, ListingIs DEF Listed
<1>4. s \in [1 .. n -> S]
  BY <1>3
<1>5. s \in Seq(S) /\ Len(s) = n
  BY <1>1, <1>4, LenProperties
<1> QED BY <1>1, <1>2, <1>5

\* An element numbered above all others comes last.
LEMMA NewestIsLast ==
  ASSUME NEW S, Listed(S), NEW e, e \notin S, e.seq \in Nat,
         \A y \in S : y.seq \in Nat /\ y.seq < e.seq
  PROVE  /\ Listed(S \cup {e})
         /\ InNumberOrder(S \cup {e}) = Append(InNumberOrder(S), e)
<1>0. PICK T : T = S \cup {e}
  OBVIOUS
<1>1. PICK n \in Nat : n = Cardinality(S) /\ IsFiniteSet(T) /\ Cardinality(T) = n + 1
  BY <1>0, FS_AddElement, FS_CardinalityType DEF Listed
<1>2. ASSUME NEW x \in S
      PROVE  Rank(x, T) = Rank(x, S) /\ Rank(x, S) <= n /\ Rank(x, S) \in Nat
  <2>1. {y \in T : y.seq <= x.seq} = {y \in S : y.seq <= x.seq}
    BY <1>0
  <2>2. {y \in S : y.seq <= x.seq} \in SUBSET S
    OBVIOUS
  <2> QED BY <1>1, <2>1, <2>2, FS_Subset, FS_CardinalityType DEF Listed, Rank
<1>3. Rank(e, T) = n + 1
  <2>1. {y \in T : y.seq <= e.seq} = T
    BY <1>0
  <2> QED BY <1>1, <2>1 DEF Rank
<1>4. ASSUME NEW i \in 1 .. n PROVE InNumberOrder(T)[i] = InNumberOrder(S)[i]
  <2>1. ASSUME NEW x PROVE x \in S /\ Rank(x, S) = i <=> x \in T /\ Rank(x, T) = i
    <3>1. CASE x \in S
      BY <1>0, <1>2, <3>1
    <3>2. CASE x = e
      BY <1>1, <1>3, <3>2
    <3> QED BY <1>0, <3>1, <3>2
  <2>2. (CHOOSE x \in S : Rank(x, S) = i) = (CHOOSE x \in T : Rank(x, T) = i)
    BY <2>1, Zenon
  <2>3. InNumberOrder(S)[i] = CHOOSE x \in S : Rank(x, S) = i
    BY <1>1, ListingIs
  <2>4. i \in 1 .. n + 1 /\ n + 1 \in Nat
    BY <1>1
  <2>5. InNumberOrder(T)[i] = CHOOSE x \in T : Rank(x, T) = i
    BY <1>1, <2>4, ListingIs
  <2> QED BY <2>2, <2>3, <2>5
<1>5. InNumberOrder(T)[n + 1] = e
  <2>1. InNumberOrder(T)[n + 1] = CHOOSE x \in T : Rank(x, T) = n + 1
    BY <1>1, ListingIs
  <2>2. \A x \in T : Rank(x, T) = n + 1 => x = e
    BY <1>0, <1>1, <1>2
  <2> QED BY <1>0, <1>3, <2>1, <2>2
<1>6. Listed(T)
  <2>1. \A i \in 1 .. n : InNumberOrder(T)[i] \in S
    BY <1>1, <1>4 DEF Listed
  <2> QED BY <1>0, <1>1, <1>5, <2>1 DEF Listed
<1>7. InNumberOrder(T) = Append(InNumberOrder(S), e)
  <2>1. PICK s \in Seq(S) : s = InNumberOrder(S) /\ Len(s) = n
    BY <1>1, ListingIsSeq
  <2>2. PICK t \in Seq(T) : t = InNumberOrder(T) /\ Len(t) = n + 1
    BY <1>1, <1>6, ListingIsSeq
  <2>3. \A i \in 1 .. n : t[i] = s[i]
    BY <1>4, <2>1, <2>2
  <2>4. t[n + 1] = e
    BY <1>5, <2>2
  <2>5. s \in Seq(T) /\ e \in T
    BY <1>0
  <2>6. PICK a \in Seq(T) : /\ a = Append(s, e) /\ Len(a) = n + 1
                            /\ \A i \in 1 .. n : a[i] = s[i]
                            /\ a[n + 1] = e
    BY <2>1, <2>5, AppendProperties
  <2>7. \A i \in 1 .. n + 1 : t[i] = a[i]
    BY <1>1, <2>3, <2>4, <2>6
  <2>8. t = a
    BY <2>2, <2>6, <2>7, SeqEqual
  <2> QED BY <2>1, <2>2, <2>6, <2>8
<1> QED BY <1>0, <1>6, <1>7

\* A function g on 1 .. n + 1 that is f on 1 .. n, and e at the end, is f with e
\* appended.
Longer(n, f, g, e) ==
  /\ f = [i \in 1 .. n |-> f[i]] /\ g = [i \in 1 .. n + 1 |-> g[i]]
  /\ \A i \in 1 .. n : g[i] = f[i]
  /\ g[n + 1] = e

\* Such a function is the sequence with one entry more.
LEMMA LongerByOne ==
  ASSUME NEW n \in Nat, NEW f, NEW g, NEW e, Longer(n, f, g, e)
  PROVE  g = Append(f, e) /\ Len(g) = Len(f) + 1 /\ g[Len(g)] = e
<1> USE DEF Longer
<1>1. PICK S : S = {f[i] : i \in 1 .. n} \cup {e}
  OBVIOUS
<1>2. f \in [1 .. n -> S] /\ g \in [1 .. n + 1 -> S]
  BY <1>1
<1>3. f \in Seq(S) /\ Len(f) = n /\ g \in Seq(S) /\ Len(g) = n + 1
  BY <1>2, LenProperties
<1>4. e \in S
  BY <1>1
<1>5. /\ Append(f, e) \in Seq(S) /\ Len(Append(f, e)) = n + 1
      /\ \A i \in 1 .. n : Append(f, e)[i] = f[i]
      /\ Append(f, e)[n + 1] = e
  BY <1>3, <1>4, AppendProperties
<1>6. ASSUME NEW i \in 1 .. n + 1 PROVE g[i] = Append(f, e)[i]
  <2>1. i \in 1 .. n \/ i = n + 1
    OBVIOUS
  <2> QED BY <1>5, <2>1
<1> QED BY <1>3, <1>5, <1>6, SeqEqual

-----------------------------------------------------------------------------
(* How the trail and the stream grow.                                      *)

\* The events the stream is made of.
Streamed == {e \in outbox : IsTransactional(e.by)}

LedgerInv == Listed(audit) /\ Listed(Streamed)

\* What is known of a state, from the invariants of the write path.
WriteInv == TypeInv /\ ChainInv /\ OrderInv /\ TogetherInv /\ ChangedCalled

\* What a request asked for stands, once it has arrived: its entries too.
LEMMA CallsStand ==
  ASSUME TypeInv, NEW r \in Requests, Acts(r), NEW q \in Requests, pc[q] # "idle"
  PROVE  /\ call'[q] = call[q]
         /\ IsTransactional(q)' <=> IsTransactional(q)
         /\ \A v : EntryOf(<<q, v>>)' = EntryOf(<<q, v>>)
<1>1. call'[q] = call[q]
  BY ActorMoves, OnlyOneActs DEF OthersStay
<1>2. IsTransactional(q)' <=> IsTransactional(q)
  BY <1>1 DEF IsTransactional, Called, Kind
<1>3. EventsOf(call'[q]) = EventsOf(call[q])
  BY <1>1
<1> QED BY <1>1, <1>2, <1>3 DEF EntryOf

\* A step adds at most one record.
LEMMA TrailAddsOne ==
  ASSUME WriteInv, NEW r \in Requests, Acts(r)
  PROVE  audit' = audit \/ \E x : x \notin audit /\ audit' = audit \cup {x}
<1>1. CASE Commit(r) \/ CommitUnacknowledged(r)
  <2>1. audit' = audit \cup txn[r].records
    BY <1>1 DEF Commit, CommitUnacknowledged, CommitWrites
  <2>2. \A x, y \in txn[r].records : x = y
    BY DEF WriteInv, ChainInv, BuffersDiffer
  <2> QED BY <2>1, <2>2
<1>2. CASE AuditAppend(r) \/ RefusalAppend(r)
  BY <1>2 DEF AuditAppend, RefusalAppend, InsertRecord
<1>3. CASE \/ Arrive(r) \/ ReserveInsert(r) \/ ReserveFind(r) \/ Complete(r) \/ Release(r)
           \/ Load(r) \/ Settle(r) \/ AuditHead(r) \/ RefusalHead(r) \/ Begin(r)
           \/ BeginRevoke(r) \/ Attempt(r) \/ NextSequence(r) \/ AddEvent(r)
           \/ StoreFails(r) \/ Crash(r)
  BY <1>3 DEF Arrive, ReserveInsert, ReserveFind, Complete, Release, Load, Settle, AuditHead,
     RefusalHead, Begin, BeginRevoke, Attempt, NextSequence, AddEvent, StoreFails, Crash, store
<1> QED BY <1>1, <1>2, <1>3 DEF Acts, Step, Fault

\* The record a step adds is numbered above all others.
LEMMA NewestRecord ==
  ASSUME WriteInv, WriteInv', NEW x, x \notin audit, audit' = audit \cup {x}
  PROVE  x.seq \in Nat /\ \A y \in audit : y.seq \in Nat /\ y.seq < x.seq
<1>1. audit \subseteq AuditRecords /\ x \in AuditRecords
  BY DEF WriteInv, TypeInv, TypeOK, StoreTypeOK
<1>2. x.seq \in Nat \ {0} /\ \A y \in audit : y.seq \in Nat \ {0}
  BY <1>1 DEF AuditRecords
<1>3. ~SeqStored(x.seq)
  BY DEF SeqStored, WriteInv, ChainInv, AuditChain
<1>4. PICK n \in Nat : \A i \in Nat \ {0} : SeqStored(i) <=> i <= n
  BY DEF WriteInv, ChainInv, Contiguous
<1>5. \A y \in audit : y.seq <= n
  BY <1>2, <1>4 DEF SeqStored
<1> QED BY <1>2, <1>3, <1>4, <1>5

\* The stream grows by the one event of the transactional change that commits,
\* numbered above all others, and by nothing else.
LEMMA StreamGrows ==
  ASSUME WriteInv, WriteInv', NEW r \in Requests, Acts(r)
  PROVE  \/ /\ Streamed' = Streamed
            /\ IsTransactional(r) /\ r \in changed' \ changed => EventsOf(call[r]) # 1
         \/ /\ pc[r] = "commit" /\ IsTransactional(r) /\ r \in changed'
            /\ EventsOf(call[r]) = 1
            /\ \E e \in Events : /\ e \notin Streamed /\ Streamed' = Streamed \cup {e}
                                 /\ e.by = r
                                 /\ \A f \in Streamed : f.seq \in Nat /\ f.seq < e.seq
<1> USE DEF WriteInv
<1>1. /\ outbox \subseteq outbox' /\ outbox' \subseteq Events
      /\ \A e \in outbox : e.by \in Requests /\ pc[e.by] # "idle"
  BY Additions DEF TypeInv, TypeOK, StoreTypeOK, Events, TogetherInv
<1>2. \A e \in outbox : IsTransactional(e.by)' <=> IsTransactional(e.by)
  BY <1>1, CallsStand
<1>3. Streamed \subseteq Streamed' /\ \A e \in Streamed' \ Streamed : e \in outbox' \ outbox
  BY <1>1, <1>2 DEF Streamed
<1>4. CASE Streamed' = Streamed
  <2>1. SUFFICES ASSUME IsTransactional(r), r \in changed' \ changed, EventsOf(call[r]) = 1
                 PROVE  FALSE
    BY <1>4
  <2>2. pc[r] # "idle"
    BY <2>1, ChangeMoves
  <2>3. IsTransactional(r)' /\ call'[r] = call[r]
    BY <2>1, <2>2, CallsStand
  <2>4. Emitted(r)' /\ ~Emitted(r)
    BY <2>1, <2>3 DEF TogetherInv, ChangeRecordEventTogether
  <2> QED BY <1>4, <2>3, <2>4 DEF Streamed, Emitted
<1>5. CASE Streamed' # Streamed
  <2>1. PICK e : e \in Streamed' \ Streamed
    BY <1>3, <1>5
  <2>2. e \in outbox' \ outbox /\ e.by = r /\ pc[r] # "idle" /\ IsTransactional(r)'
    BY <1>3, <2>1, Additions DEF Streamed
  <2>3. IsTransactional(r) /\ Kind(r) \in Transactional /\ call[r] \in Calls
    BY <2>2, CallsStand DEF IsTransactional, TypeInv, LabelOK
  <2>4. \A d \in Streamed' \ Streamed : d \in txn[r].events /\ pc[r] = "commit" /\ r \in changed'
    BY <1>3, <2>3, Additions DEF Transactional
  <2>5. \A d \in Streamed' \ Streamed : d \in Events /\ d.by = r /\ d.seq = sequence + 1
    BY <1>1, <1>3, <2>4 DEF OrderInv, NumberOK
  <2>6. Streamed' = Streamed \cup {e}
    BY <1>3, <2>1, <2>5 DEF Events
  <2>7. \A f \in Streamed : f.seq \in Nat /\ f.seq < e.seq
    BY <1>1, <2>1, <2>5 DEF Streamed, OrderInv, TypeInv, TypeOK, StoreTypeOK, Events
  <2>8. EventsOf(call[r]) = 1
    <3>1. EventsOf(call[r]) # 0
      BY <2>1, <2>3, <2>4 DEF TogetherInv, OwesOK, TypeInv, LabelOK, Transactional
    <3>2. call[r].kind \in {"create", "decide", "assign"}
      BY <2>3 DEF Kind, Transactional
    <3> QED BY <3>1, <3>2 DEF EventsOf
  <2> QED BY <2>1, <2>3, <2>4, <2>5, <2>6, <2>7, <2>8
<1> QED BY <1>4, <1>5

-----------------------------------------------------------------------------
(* The refinement mapping, step by step.                                   *)

\* The changes the ledger names.
Changes == {EntryOf(<<q, "accepted">>) : q \in {p \in changed : IsTransactional(p)}}

\* A request with a record in the trail or an event in the stream has arrived.
LEMMA NamedHasArrived ==
  ASSUME WriteInv
  PROVE  /\ \A x \in audit : \E q \in Requests : pc[q] # "idle" /\ \E v \in Verdicts : x.id = <<q, v>>
         /\ \A e \in Streamed : e.by \in Requests /\ pc[e.by] # "idle"
         /\ \A q \in changed : q \in Requests /\ pc[q] # "idle"
<1>1. ASSUME NEW x \in audit
      PROVE  \E q \in Requests : pc[q] # "idle" /\ \E v \in Verdicts : x.id = <<q, v>>
  <2>1. x.id \in EntryIds
    BY DEF WriteInv, TypeInv, TypeOK, StoreTypeOK, AuditRecords
  <2>2. PICK q \in Requests, v \in Verdicts : x.id = <<q, v>>
    BY <2>1 DEF EntryIds
  <2>3. Recorded(q, v)
    BY <2>2 DEF Recorded
  <2>4. pc[q] # "idle"
    BY <2>3 DEF WriteInv, ChainInv, RecordedOK, After, Final
  <2> QED BY <2>2, <2>4
<1>2. \A e \in Streamed : e.by \in Requests /\ pc[e.by] # "idle"
  BY DEF Streamed, WriteInv, TogetherInv, TypeInv, TypeOK, StoreTypeOK, Events
<1>3. \A q \in changed : q \in Requests /\ pc[q] # "idle"
  BY DEF WriteInv, ChangedCalled, TypeInv, TypeOK
<1> QED BY <1>1, <1>2, <1>3

\* A trail that grows by a record is a trail with its entry appended, and no entry
\* before it has its identity.
LEMMA TrailSteps ==
  ASSUME WriteInv, WriteInv', LedgerInv, NEW r \in Requests, Acts(r)
  PROVE  /\ Listed(audit)'
         /\ audit' = audit => TrailOf' = TrailOf
         /\ \A x : x \notin audit /\ audit' = audit \cup {x} =>
              /\ TrailOf' = Append(TrailOf, EntryOf(x.id)')
              /\ Len(TrailOf') = Len(TrailOf) + 1
              /\ TrailOf'[Len(TrailOf')] = EntryOf(x.id)'
              /\ \A i \in DOMAIN TrailOf : TrailOf[i].id # x.id
<1>1. PICK s : s = InNumberOrder(audit)
  OBVIOUS
<1>2. PICK n \in Nat : n = Cardinality(audit) /\ DOMAIN s = 1 .. n /\ \A i \in 1 .. n : s[i] \in audit
  BY <1>1, FS_CardinalityType, ListingIs DEF LedgerInv, Listed
<1>3. TrailOf = [i \in 1 .. n |-> EntryOf(s[i].id)]
  BY <1>1, <1>2 DEF TrailOf
<1>4. ASSUME NEW i \in 1 .. n PROVE EntryOf(s[i].id)' = EntryOf(s[i].id)
  <2>1. PICK q \in Requests, v \in Verdicts : pc[q] # "idle" /\ s[i].id = <<q, v>>
    BY <1>2, NamedHasArrived
  <2>2. EntryOf(<<q, v>>)' = EntryOf(<<q, v>>)
    BY <2>1, CallsStand DEF WriteInv
  <2> QED BY <2>1, <2>2
<1>5. ASSUME audit' = audit PROVE Listed(audit)' /\ TrailOf' = TrailOf
  <2>1. TrailOf' = [i \in 1 .. n |-> EntryOf(s[i].id)']
    BY <1>1, <1>2, <1>5 DEF TrailOf
  <2> QED BY <1>3, <1>4, <1>5, <2>1 DEF LedgerInv
<1>6. ASSUME NEW x, x \notin audit, audit' = audit \cup {x}
      PROVE  /\ Listed(audit)'
             /\ TrailOf' = Append(TrailOf, EntryOf(x.id)')
             /\ Len(TrailOf') = Len(TrailOf) + 1
             /\ TrailOf'[Len(TrailOf')] = EntryOf(x.id)'
             /\ \A i \in DOMAIN TrailOf : TrailOf[i].id # x.id
  <2>1. x.seq \in Nat /\ \A y \in audit : y.seq \in Nat /\ y.seq < x.seq
    BY <1>6, NewestRecord
  <2>2. PICK t : t = InNumberOrder(audit \cup {x})
    OBVIOUS
  <2>3. Listed(audit \cup {x}) /\ t = Append(s, x)
    BY <1>1, <1>6, <2>1, <2>2, NewestIsLast DEF LedgerInv
  <2>4. s \in Seq(audit) /\ Len(s) = n
    BY <1>1, <1>2, ListingIsSeq DEF LedgerInv
  <2>5. DOMAIN t = 1 .. n + 1 /\ t[n + 1] = x /\ \A i \in 1 .. n : t[i] = s[i]
    BY <2>3, <2>4
  <2>6. TrailOf' = [i \in 1 .. n + 1 |-> EntryOf(t[i].id)']
    BY <1>6, <2>2, <2>5 DEF TrailOf
  <2>7. /\ DOMAIN TrailOf' = 1 .. n + 1
        /\ \A i \in 1 .. n : TrailOf'[i] = TrailOf[i]
        /\ TrailOf'[n + 1] = EntryOf(x.id)'
    BY <1>2, <1>3, <1>4, <2>5, <2>6
  <2>8. /\ TrailOf' = Append(TrailOf, EntryOf(x.id)')
        /\ Len(TrailOf') = Len(TrailOf) + 1
        /\ TrailOf'[Len(TrailOf')] = EntryOf(x.id)'
    <3>1. PICK f : f = TrailOf
      OBVIOUS
    <3>2. PICK g : g = TrailOf'
      OBVIOUS
    <3>3. f = [i \in 1 .. n |-> f[i]] /\ g = [i \in 1 .. n + 1 |-> g[i]]
      BY <1>3, <2>6, <3>1, <3>2
    <3>4. PICK a : a = EntryOf(x.id)'
      OBVIOUS
    <3>5. (\A i \in 1 .. n : g[i] = f[i]) /\ g[n + 1] = a
      BY <2>7, <3>1, <3>2, <3>4
    <3>6. Longer(n, f, g, a)
      BY <3>3, <3>5 DEF Longer
    <3>7. g = Append(f, a) /\ Len(g) = Len(f) + 1 /\ g[Len(g)] = a
      BY <3>6, LongerByOne
    <3> QED BY <3>1, <3>2, <3>4, <3>7
  <2>9. \A i \in DOMAIN TrailOf : TrailOf[i].id # x.id
    <3>1. \A y \in audit : y.id # x.id
      BY <1>6 DEF WriteInv, ChainInv, AuditChain
    <3> QED BY <1>2, <1>3, <3>1 DEF EntryOf
  <2> QED BY <1>6, <2>3, <2>8, <2>9
<1> QED BY <1>5, <1>6, TrailAddsOne

\* A stream that grows by an event is a stream with its entry appended.
LEMMA StreamSteps ==
  ASSUME WriteInv, WriteInv', LedgerInv, NEW r \in Requests, Acts(r)
  PROVE  /\ Listed(Streamed)'
         /\ Streamed' = Streamed => StreamOf' = StreamOf
         /\ \A e : /\ e \notin Streamed /\ Streamed' = Streamed \cup {e} /\ e \in Events
                   /\ \A f \in Streamed : f.seq \in Nat /\ f.seq < e.seq
              => StreamOf' = Append(StreamOf, EntryOf(<<e.by, "accepted">>)')
<1>1. PICK s : s = InNumberOrder(Streamed)
  OBVIOUS
<1>2. PICK n \in Nat : /\ n = Cardinality(Streamed) /\ DOMAIN s = 1 .. n
                       /\ \A i \in 1 .. n : s[i] \in Streamed
  BY <1>1, FS_CardinalityType, ListingIs DEF LedgerInv, Listed
<1>3. StreamOf = [i \in 1 .. n |-> EntryOf(<<s[i].by, "accepted">>)]
  BY <1>1, <1>2 DEF StreamOf, Streamed
<1>4. \A i \in 1 .. n : EntryOf(<<s[i].by, "accepted">>)' = EntryOf(<<s[i].by, "accepted">>)
  BY <1>2, CallsStand, NamedHasArrived DEF WriteInv
<1>5. ASSUME Streamed' = Streamed PROVE Listed(Streamed)' /\ StreamOf' = StreamOf
  <2>1. StreamOf' = [i \in 1 .. n |-> EntryOf(<<s[i].by, "accepted">>)']
    BY <1>1, <1>2, <1>5 DEF StreamOf, Streamed
  <2> QED BY <1>3, <1>4, <1>5, <2>1 DEF LedgerInv
<1>6. ASSUME NEW e, e \notin Streamed, Streamed' = Streamed \cup {e}, e \in Events,
             \A f \in Streamed : f.seq \in Nat /\ f.seq < e.seq
      PROVE  /\ Listed(Streamed)'
             /\ StreamOf' = Append(StreamOf, EntryOf(<<e.by, "accepted">>)')
  <2>1. e.seq \in Nat
    BY <1>6 DEF Events
  <2>2. PICK t : t = InNumberOrder(Streamed \cup {e})
    OBVIOUS
  <2>3. Listed(Streamed \cup {e}) /\ t = Append(s, e)
    BY <1>1, <1>6, <2>1, <2>2, NewestIsLast DEF LedgerInv
  <2>4. s \in Seq(Streamed) /\ Len(s) = n
    BY <1>1, <1>2, ListingIsSeq DEF LedgerInv
  <2>5. DOMAIN t = 1 .. n + 1 /\ t[n + 1] = e /\ \A i \in 1 .. n : t[i] = s[i]
    BY <2>3, <2>4
  <2>6. StreamOf' = [i \in 1 .. n + 1 |-> EntryOf(<<t[i].by, "accepted">>)']
    BY <1>6, <2>2, <2>5 DEF StreamOf, Streamed
  <2>7. /\ DOMAIN StreamOf' = 1 .. n + 1
        /\ \A i \in 1 .. n : StreamOf'[i] = StreamOf[i]
        /\ StreamOf'[n + 1] = EntryOf(<<e.by, "accepted">>)'
    BY <1>2, <1>3, <1>4, <2>5, <2>6
  <2>8. StreamOf' = Append(StreamOf, EntryOf(<<e.by, "accepted">>)')
    <3>1. PICK f : f = StreamOf
      OBVIOUS
    <3>2. PICK g : g = StreamOf'
      OBVIOUS
    <3>3. f = [i \in 1 .. n |-> f[i]] /\ g = [i \in 1 .. n + 1 |-> g[i]]
      BY <1>3, <2>6, <3>1, <3>2
    <3>4. PICK a : a = EntryOf(<<e.by, "accepted">>)'
      OBVIOUS
    <3>5. (\A i \in 1 .. n : g[i] = f[i]) /\ g[n + 1] = a
      BY <2>7, <3>1, <3>2, <3>4
    <3>6. Longer(n, f, g, a)
      BY <3>3, <3>5 DEF Longer
    <3>7. g = Append(f, a) /\ Len(g) = Len(f) + 1
      BY <3>6, LongerByOne
    <3> QED BY <3>1, <3>2, <3>4, <3>7
  <2> QED BY <1>6, <2>3, <2>8
<1> QED BY <1>5, <1>6, StreamGrows

\* A transactional change is new when it commits.
LEMMA CommitsOnce ==
  ASSUME WriteInv, NEW r \in Requests, pc[r] = "commit", IsTransactional(r)
  PROVE  r \notin changed
<1>1. ~Recorded(r, "accepted")
  BY DEF WriteInv, TypeInv, LabelOK, ChainInv, RecordedOK, Verdicts
<1> QED BY <1>1 DEF WriteInv, TogetherInv, ChangeRecordEventTogether

\* The changes that are made are those of the request that acts.
LEMMA ChangesSteps ==
  ASSUME WriteInv, NEW r \in Requests, Acts(r)
  PROVE  /\ ~(IsTransactional(r) /\ r \in changed' \ changed) => Changes' = Changes
         /\ IsTransactional(r) /\ r \in changed' =>
              Changes' = Changes \cup {EntryOf(<<r, "accepted">>)'}
<1>1. /\ changed' \in {changed, changed \cup {r}}
      /\ changed' # changed => pc[r] # "idle"
  BY ChangeMoves DEF WriteInv
<1>2. \A q \in changed' : /\ IsTransactional(q)' <=> IsTransactional(q)
                          /\ \A v : EntryOf(<<q, v>>)' = EntryOf(<<q, v>>)
  <2>1. \A q \in changed' : q \in Requests /\ pc[q] # "idle"
    BY <1>1, NamedHasArrived
  <2> QED BY <2>1, CallsStand DEF WriteInv
<1>3. Changes' = {EntryOf(<<q, "accepted">>) : q \in {p \in changed' : IsTransactional(p)}}
  BY <1>2 DEF Changes
<1>4. CASE ~(IsTransactional(r) /\ r \in changed' \ changed)
  <2>1. {p \in changed' : IsTransactional(p)} = {p \in changed : IsTransactional(p)}
    BY <1>1, <1>4
  <2>2. Changes' = Changes
    BY <1>3, <2>1 DEF Changes
  <2>3. IsTransactional(r) /\ r \in changed' => EntryOf(<<r, "accepted">>)' \in Changes
    BY <1>2, <1>4 DEF Changes
  <2> QED BY <1>4, <2>2, <2>3
<1>5. CASE IsTransactional(r) /\ r \in changed' \ changed
  <2>1. {p \in changed' : IsTransactional(p)} = {p \in changed : IsTransactional(p)} \cup {r}
    BY <1>1, <1>5
  <2>2. EntryOf(<<r, "accepted">>)' = EntryOf(<<r, "accepted">>)
    BY <1>2, <1>5
  <2> QED BY <1>3, <1>5, <2>1, <2>2 DEF Changes
<1> QED BY <1>4, <1>5

\* A step of the write path enters one entry into the ledger or none.
LEMMA ActRefines ==
  ASSUME WriteInv, WriteInv', LedgerInv, NEW r \in Requests, Acts(r)
  PROVE  LedgerInv' /\ (L!LedgerNext \/ UNCHANGED L!ledger)
<1>0. LedgerInv'
  BY TrailSteps, StreamSteps DEF LedgerInv
<1>1. ASSUME IsTransactional(r), r \in changed' \ changed
      PROVE  /\ call'[r] = call[r] /\ IsTransactional(r)'
             /\ \E x \in audit' \ audit : x.id = <<r, "accepted">>
  <2>1. pc[r] # "idle"
    BY <1>1, ChangeMoves DEF WriteInv
  <2>2. call'[r] = call[r] /\ IsTransactional(r)'
    BY <1>1, <2>1, CallsStand DEF WriteInv
  <2>3. Recorded(r, "accepted")' /\ ~Recorded(r, "accepted")
    BY <1>1, <2>2 DEF WriteInv, TogetherInv, ChangeRecordEventTogether
  <2> QED BY <2>2, <2>3 DEF Recorded
<1>2. ~(IsTransactional(r) /\ r \in changed' \ changed) =>
        Streamed' = Streamed /\ StreamOf' = StreamOf /\ Changes' = Changes
  BY StreamGrows, StreamSteps, ChangesSteps, CommitsOnce
<1>3. CASE audit' = audit
  <2>1. ~(IsTransactional(r) /\ r \in changed' \ changed)
    BY <1>1, <1>3
  <2> QED BY <1>0, <1>2, <1>3, <2>1, TrailSteps DEF L!ledger, Changes
<1>4. ASSUME NEW x, x \notin audit, audit' = audit \cup {x}
      PROVE  L!LedgerNext
  <2>1. /\ pc[r] # "idle" /\ \E v \in Verdicts : x.id = <<r, v>>
        /\ \/ x.id = <<r, "refused">> \/ Kind(r) = "authenticate"
           \/ pc[r] = "commit" /\ r \in changed'
    BY <1>4, Additions DEF WriteInv, Verdict, Verdicts
  <2>2. PICK v \in Verdicts : x.id = <<r, v>>
    BY <2>1
  <2>3. PICK entry : entry = EntryOf(<<r, v>>)'
    OBVIOUS
  <2>4. (IsTransactional(r)' <=> IsTransactional(r)) /\ EventsOf(call'[r]) = EventsOf(call[r])
    BY <2>1, CallsStand DEF WriteInv
  <2>5. entry = [id |-> <<r, v>>,
                 change |-> v = "accepted" /\ IsTransactional(r),
                 emits |-> (v = "accepted" /\ IsTransactional(r)) /\ EventsOf(call[r]) = 1]
    BY <2>3, <2>4 DEF EntryOf
  <2>6. entry \in [id : EntryIds, change : BOOLEAN, emits : BOOLEAN]
    BY <2>5 DEF EntryIds
  <2>7. /\ TrailOf' = Append(TrailOf, entry) /\ Len(TrailOf') = Len(TrailOf) + 1
        /\ TrailOf'[Len(TrailOf')] = entry
        /\ \A i \in DOMAIN TrailOf : TrailOf[i].id # entry.id
    <3>1. EntryOf(x.id)' = entry
      BY <2>2, <2>3
    <3>2. entry.id = x.id
      BY <2>2, <2>5
    <3>3. /\ TrailOf' = Append(TrailOf, EntryOf(x.id)')
          /\ Len(TrailOf') = Len(TrailOf) + 1
          /\ TrailOf'[Len(TrailOf')] = EntryOf(x.id)'
          /\ \A i \in DOMAIN TrailOf : TrailOf[i].id # x.id
      BY <1>4, TrailSteps
    <3> QED BY <3>1, <3>2, <3>3
  <2>8. /\ Changes' = IF entry.change THEN Changes \cup {entry} ELSE Changes
        /\ StreamOf' = IF entry.emits THEN Append(StreamOf, entry) ELSE StreamOf
    <3>1. CASE v = "accepted" /\ IsTransactional(r)
      <4>1. pc[r] = "commit" /\ r \in changed' \ changed
        BY <2>1, <2>2, <3>1, CommitsOnce DEF IsTransactional, Transactional
      <4>2. Changes' = Changes \cup {entry}
        BY <2>3, <3>1, <4>1, ChangesSteps
      <4>3. CASE EventsOf(call[r]) = 1
        <5>1. PICK e \in Events : /\ e \notin Streamed /\ Streamed' = Streamed \cup {e}
                                  /\ e.by = r
                                  /\ \A f \in Streamed : f.seq \in Nat /\ f.seq < e.seq
          BY <3>1, <4>1, <4>3, StreamGrows
        <5>2. StreamOf' = Append(StreamOf, EntryOf(<<e.by, "accepted">>)')
          BY <5>1, StreamSteps
        <5>3. EntryOf(<<e.by, "accepted">>)' = entry
          BY <2>3, <3>1, <5>1
        <5>4. StreamOf' = Append(StreamOf, entry)
          BY <5>2, <5>3
        <5>5. entry.change /\ entry.emits
          BY <2>5, <3>1, <4>3
        <5> QED BY <4>2, <5>4, <5>5
      <4>4. CASE EventsOf(call[r]) # 1
        <5>1. Streamed' = Streamed
          BY <4>4, StreamGrows
        <5>2. StreamOf' = StreamOf
          BY <5>1, StreamSteps
        <5>3. entry.change /\ ~entry.emits
          BY <2>5, <3>1, <4>4
        <5> QED BY <4>2, <5>2, <5>3
      <4> QED BY <4>3, <4>4
    <3>2. CASE ~(v = "accepted" /\ IsTransactional(r))
      <4>1. ~(IsTransactional(r) /\ r \in changed' \ changed)
        BY <1>1, <1>4, <2>2, <3>2
      <4> QED BY <1>2, <2>5, <3>2, <4>1
    <3> QED BY <3>1, <3>2
  <2> QED BY <2>6, <2>7, <2>8 DEF L!LedgerNext, L!Enter, Changes
<1> QED BY <1>0, <1>3, <1>4, TrailAddsOne

\* A step that is no request's leaves the ledger alone.
LEMMA OtherStepsRefine ==
  ASSUME LedgerInv, UNCHANGED vars \/ \E k \in Keys : Sweep(k)
  PROVE  LedgerInv' /\ UNCHANGED L!ledger
<1>1. UNCHANGED <<audit, outbox, changed, call>>
  BY DEF Sweep, vars, store, domain
<1>2. \A q : /\ IsTransactional(q)' <=> IsTransactional(q)
             /\ \A v : EntryOf(<<q, v>>)' = EntryOf(<<q, v>>)
  BY <1>1 DEF IsTransactional, Called, Kind, EntryOf
<1>3. Listed(audit)' /\ TrailOf' = TrailOf
  <2>1. PICK t : t = InNumberOrder(audit)
    OBVIOUS
  <2>2. TrailOf = [i \in DOMAIN t |-> EntryOf(t[i].id)]
    BY <2>1 DEF TrailOf
  <2>3. TrailOf' = [i \in DOMAIN t |-> EntryOf(t[i].id)']
    BY <1>1, <2>1 DEF TrailOf
  <2> QED BY <1>1, <2>2, <2>3 DEF LedgerInv, EntryOf, IsTransactional, Called, Kind
<1>4. Listed(Streamed)' /\ StreamOf' = StreamOf
  <2>1. Streamed' = Streamed
    BY <1>1, <1>2 DEF Streamed
  <2>2. PICK t : t = InNumberOrder(Streamed)
    OBVIOUS
  <2>3. StreamOf = [i \in DOMAIN t |-> EntryOf(<<t[i].by, "accepted">>)]
    BY <2>2 DEF StreamOf, Streamed
  <2>4. StreamOf' = [i \in DOMAIN t |-> EntryOf(<<t[i].by, "accepted">>)']
    BY <2>1, <2>2 DEF StreamOf, Streamed
  <2> QED BY <1>2, <2>1, <2>3, <2>4 DEF LedgerInv
<1>5. Changes' = Changes
  BY <1>1, <1>2 DEF Changes
<1> QED BY <1>3, <1>4, <1>5 DEF LedgerInv, L!ledger, Changes

\* The write path starts with an empty ledger.
LEMMA InitRefines ==
  ASSUME Init
  PROVE  LedgerInv /\ L!LedgerInit
<1>1. audit = {} /\ outbox = {} /\ changed = {} /\ Streamed = {}
  BY DEF Init, StoreInit, Streamed
<1>2. IsFiniteSet({}) /\ Cardinality({}) = 0
  BY FS_EmptySet
<1>3. LedgerInv
  BY <1>1, <1>2 DEF LedgerInv, Listed
<1>4. DOMAIN InNumberOrder({}) = {}
  BY <1>2 DEF InNumberOrder
<1>5. TrailOf = <<>> /\ StreamOf = <<>>
  BY <1>1, <1>4 DEF TrailOf, StreamOf, Streamed
<1>6. Changes = {}
  BY <1>1 DEF Changes
<1> QED BY <1>3, <1>5, <1>6 DEF L!LedgerInit, Changes

\* Every step of the write path is a step of the ledger or none.
LEMMA StepRefines ==
  ASSUME WriteInv, WriteInv', LedgerInv, [Next]_vars
  PROVE  LedgerInv' /\ [L!LedgerNext]_(L!ledger)
<1>1. CASE \E r \in Requests : Acts(r)
  BY <1>1, ActRefines
<1>2. CASE UNCHANGED vars \/ \E k \in Keys : Sweep(k)
  BY <1>2, OtherStepsRefine
<1> QED BY <1>1, <1>2 DEF Next, Acts

\* The write path implements the ledger: for any requests, keys, bodies and faults,
\* every record enters the trail with its change and its event at one step, no
\* entry enters twice, none leaves, and the stream is in the order of the trail
\* (persistence.py's transactions and the unique sequence of the trail).
THEOREM WritePathImplementsLedger == Spec => ImplementsLedger
<1>1. Spec => []WriteInv
  BY Inductive, SafetyInductive, PTL DEF WriteInv, DecisionInv
<1>2. Init => LedgerInv /\ L!LedgerInit
  BY InitRefines
<1>3. WriteInv /\ WriteInv' /\ LedgerInv /\ [Next]_vars => LedgerInv' /\ [L!LedgerNext]_(L!ledger)
  BY StepRefines
<1> QED BY <1>1, <1>2, <1>3, PTL DEF Spec, ImplementsLedger, L!LedgerSpec
=============================================================================
