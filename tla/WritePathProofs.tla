-------------------------- MODULE WritePathProofs --------------------------
(***************************************************************************)
(* Theorems about WritePath, for any requests, keys, bodies and callers:   *)
(* its type invariant, and that the audit trail always verifies.           *)
(***************************************************************************)
EXTENDS WritePath, TLAPS

-----------------------------------------------------------------------------
(* What a program label says of the request that stands at it.             *)

\* A request holds a session only between the first and the last operation of
\* its transaction.
InSession == {"head", "append", "inc", "add", "commit"}
KeyedOnly == {"reserve", "find", "complete", "release"}

LabelOK(r) ==
  /\ pc[r] # "idle" => call[r] \in Calls
  /\ pc[r] \in KeyedOnly => Kind(r) = "create"
  /\ pc[r] \in (InSession \cup {"begin"} \cup KeyedOnly) \ {"reserve"} /\ Kind(r) = "create"
       => call[r].key # None
  /\ pc[r] = "load" => Kind(r) = "decide"
  /\ pc[r] \in {"attempt", "settle"} => Kind(r) = "authenticate"
  /\ pc[r] = "begin" => Kind(r) # "authenticate"
  /\ pc[r] = "commit" => InTxn(r)
  /\ InTxn(r) => pc[r] \in InSession /\ Kind(r) # "authenticate"
  /\ pc[r] \in InSession /\ Kind(r) # "authenticate" => InTxn(r)
  /\ pc[r] \in {"inc", "add"} => local[r].todo > 0
  /\ pc[r] = "add" => local[r].number > 0

TypeInv == TypeOK /\ \A r \in Requests : LabelOK(r)

-----------------------------------------------------------------------------
(* What the helpers of the handlers do, one fact each.                     *)

\* A value updated at one request keeps its type, and its other values.
LEMMA Update ==
  ASSUME NEW S, NEW f \in [Requests -> S], NEW g, NEW r \in Requests, NEW v \in S,
         g = [f EXCEPT ![r] = v]
  PROVE  /\ g \in [Requests -> S]
         /\ g[r] = v
         /\ \A q \in Requests \ {r} : g[q] = f[q]
OBVIOUS

\* Remember(r, "head", h) keeps everything but the head.
LEMMA RememberHead ==
  ASSUME NEW r \in Requests, local \in [Requests -> Locals],
         NEW h \in [seq : Nat, id : EntryIds \cup {Genesis}],
         Remember(r, "head", h)
  PROVE  /\ local' \in [Requests -> Locals]
         /\ local'[r].head = h
         /\ local'[r].number = local[r].number
         /\ local'[r].todo = local[r].todo
         /\ \A q \in Requests \ {r} : local'[q] = local[q]
BY DEF Remember, Locals

\* Remember(r, "number", n) keeps everything but the number.
LEMMA RememberNumber ==
  ASSUME NEW r \in Requests, local \in [Requests -> Locals],
         NEW n \in Nat, Remember(r, "number", n)
  PROVE  /\ local' \in [Requests -> Locals]
         /\ local'[r].head = local[r].head
         /\ local'[r].number = n
         /\ local'[r].todo = local[r].todo
         /\ \A q \in Requests \ {r} : local'[q] = local[q]
BY DEF Remember, Locals

\* Remember(r, "todo", n) keeps everything but the number of events to emit.
LEMMA RememberTodo ==
  ASSUME NEW r \in Requests, local \in [Requests -> Locals],
         NEW n \in 0 .. 2, Remember(r, "todo", n)
  PROVE  /\ local' \in [Requests -> Locals]
         /\ local'[r].head = local[r].head
         /\ local'[r].number = local[r].number
         /\ local'[r].todo = n
         /\ \A q \in Requests \ {r} : local'[q] = local[q]
BY DEF Remember, Locals

\* A session that starts is open and has buffered nothing.
LEMMA Starting ==
  ASSUME NEW r \in Requests, txn \in [Requests -> Sessions], sequence \in Nat,
         NEW change \in BOOLEAN, StartTransaction(r, change)
  PROVE  /\ txn' \in [Requests -> Sessions]
         /\ txn'[r].open /\ txn'[r].records = {}
         /\ \A q \in Requests \ {r} : txn'[q] = txn[q]
<1>1. [Closed EXCEPT !.open = TRUE, !.snap = sequence, !.change = change] \in Sessions
  BY DEF Closed, Sessions
<1>2. QED BY <1>1 DEF StartTransaction, Closed

\* A session that aborts is closed and has buffered nothing.
LEMMA Aborting ==
  ASSUME NEW r \in Requests, txn \in [Requests -> Sessions], Abort(r)
  PROVE  /\ txn' \in [Requests -> Sessions]
         /\ ~txn'[r].open /\ txn'[r].records = {}
         /\ \A q \in Requests \ {r} : txn'[q] = txn[q]
BY DEF Abort, Closed, Sessions

\* An insertion into audit_records reaches the collection or the session.
LEMMA Inserting ==
  ASSUME NEW r \in Requests, txn \in [Requests -> Sessions], audit \subseteq AuditRecords,
         NEW rec \in AuditRecords, InsertRecord(r, rec)
  PROVE  /\ txn' \in [Requests -> Sessions] /\ audit' \subseteq AuditRecords
         /\ InTxn(r) => /\ audit' = audit
                        /\ txn'[r].records = txn[r].records \cup {rec}
         /\ ~InTxn(r) => audit' = audit \cup {rec} /\ txn' = txn
         /\ txn'[r].open = txn[r].open
         /\ \A q \in Requests \ {r} : txn'[q] = txn[q]
BY DEF InsertRecord, InTxn, Sessions

\* A number is drawn from the counter or buffered in the session.
LEMMA Drawing ==
  ASSUME NEW r \in Requests, txn \in [Requests -> Sessions], sequence \in Nat, TakeNumber(r)
  PROVE  /\ txn' \in [Requests -> Sessions] /\ sequence' \in Nat
         /\ txn'[r].open = txn[r].open
         /\ txn'[r].records = txn[r].records
         /\ \A q \in Requests \ {r} : txn'[q] = txn[q]
BY DEF TakeNumber, InTxn, Sessions

\* An event reaches the outbox or the session.
LEMMA Emitting ==
  ASSUME NEW r \in Requests, txn \in [Requests -> Sessions], outbox \subseteq Events,
         NEW e \in Events, InsertEvent(r, e)
  PROVE  /\ txn' \in [Requests -> Sessions] /\ outbox' \subseteq Events
         /\ txn'[r].open = txn[r].open
         /\ txn'[r].records = txn[r].records
         /\ \A q \in Requests \ {r} : txn'[q] = txn[q]
BY DEF InsertEvent, InTxn, Sessions

\* A commit closes the session and stores what it had buffered.
LEMMA Committing ==
  ASSUME NEW r \in Requests, StoreTypeOK, CommitWrites(r)
  PROVE  /\ txn' \in [Requests -> Sessions]
         /\ audit' \subseteq AuditRecords /\ outbox' \subseteq Events /\ sequence' \in Nat
         /\ audit' = audit \cup txn[r].records
         /\ ~txn'[r].open /\ txn'[r].records = {}
         /\ \A q \in Requests \ {r} : txn'[q] = txn[q]
BY DEF StoreTypeOK, CommitWrites, Closed, Sessions

\* Every kind of call has its fields.
LEMMA CallFields ==
  ASSUME ConstantsAssumption, NEW c \in Calls
  PROVE  /\ c.kind \in {"create", "decide", "assign", "revoke", "authenticate"}
         /\ EventsOf(c) \in 0 .. 2
         /\ c.kind = "create" => c.key \in Keys \cup {None} /\ c.body \in Bodies
         /\ c.kind = "decide" => c.body \in Decisions
         /\ c.kind \in {"assign", "revoke"} => c.body \in Agents
         /\ c.kind = "authenticate" => c.body \in Outcomes
<1>1. c \in CallTypes
  BY DEF ConstantsAssumption
<1>2. QED BY <1>1 DEF CallTypes, EventsOf

\* The record a handler would append is a record, whatever head it read.
LEMMA NextRecordType ==
  ASSUME NEW r \in Requests, local \in [Requests -> Locals], NEW v \in Verdicts
  PROVE  /\ NextRecord(r, v) \in AuditRecords
         /\ NextRecord(r, v).seq = local[r].head.seq + 1
         /\ NextRecord(r, v).prev = local[r].head.id
         /\ NextRecord(r, v).id = <<r, v>>
BY DEF NextRecord, Locals, AuditRecords, EntryIds

\* What a step of one request leaves alone keeps the other labels right.
LEMMA OtherLabels ==
  ASSUME NEW r \in Requests, \A q \in Requests : LabelOK(q), LabelOK(r)',
         \A q \in Requests \ {r} : /\ pc'[q] = pc[q] /\ call'[q] = call[q]
                                   /\ local'[q] = local[q] /\ txn'[q] = txn[q]
  PROVE  \A q \in Requests : LabelOK(q)'
<1>1. ASSUME NEW q \in Requests \ {r} PROVE LabelOK(q)'
  BY <1>1 DEF LabelOK, Kind, InTxn
<1>2. QED BY <1>1

-----------------------------------------------------------------------------
(* Every step keeps TypeInv.                                               *)

\* An arriving call is let in or refused: no shared state changes.
LEMMA ArriveType ==
  ASSUME ConstantsAssumption, TypeInv, NEW r \in Requests, Arrive(r)
  PROVE  TypeInv'
<1>1. PICK c \in Calls :
        /\ call' = [call EXCEPT ![r] = c]
        /\ Goto(r, IF HasAccess(c) THEN FirstStep(c) ELSE "refuse")
  BY DEF Arrive
<1>2. c.kind \in {"create", "decide", "assign", "revoke", "authenticate"}
  BY CallFields
<1>3. ~InTxn(r) /\ UNCHANGED <<store, domain, local, answer>>
  BY DEF Arrive, TypeInv, LabelOK, InSession
<1>4. TypeOK'
  BY <1>1, <1>2, <1>3 DEF TypeInv, TypeOK, StoreTypeOK, Goto, FirstStep, Labels, store, domain
<1>5. LabelOK(r)'
  BY <1>1, <1>2, <1>3 DEF TypeInv, TypeOK, LabelOK, Goto, FirstStep, InSession, KeyedOnly, Kind,
     InTxn, store, domain
<1>6. QED
  BY <1>1, <1>3, <1>4, <1>5, OtherLabels DEF TypeInv, TypeOK, Goto, store

\* reserve, its insertion: the key's document, or the search for it.
LEMMA ReserveInsertType ==
  ASSUME ConstantsAssumption, TypeInv, NEW r \in Requests, ReserveInsert(r)
  PROVE  TypeInv'
<1>1. /\ pc[r] = "reserve" /\ Kind(r) = "create" /\ call[r] \in Calls /\ ~InTxn(r)
      /\ UNCHANGED <<audit, sequence, outbox, txn, domain, call, local, answer>>
  BY DEF ReserveInsert, TypeInv, LabelOK, KeyedOnly, InSession
<1>2. PICK l \in Labels : /\ Goto(r, l)
                          /\ l \in {"refuse", "begin", "release", "find"}
                          /\ call[r].key = None => l = "refuse"
  BY DEF ReserveInsert, Operate, Labels
<1>3. keys' \in [Keys -> KeyDocs \cup {None}]
  <2>1. CASE keys' = keys
    BY <2>1 DEF TypeInv, TypeOK, StoreTypeOK
  <2>2. CASE call[r].key # None /\ InsertKey(r, call[r].key, call[r].body)
    BY <1>1, <2>2, CallFields DEF TypeInv, TypeOK, StoreTypeOK, InsertKey, Kind, KeyDocs
  <2>3. QED BY <2>1, <2>2 DEF ReserveInsert
<1>4. TypeOK'
  BY <1>1, <1>2, <1>3 DEF TypeInv, TypeOK, StoreTypeOK, Goto, domain
<1>5. LabelOK(r)'
  BY <1>1, <1>2 DEF TypeInv, TypeOK, LabelOK, Goto, InSession, KeyedOnly, Kind, InTxn
<1>6. QED
  BY <1>1, <1>2, <1>4, <1>5, OtherLabels DEF TypeInv, TypeOK, Goto

\* reserve, its search: the operation, a refusal or a replay.
LEMMA ReserveFindType ==
  ASSUME ConstantsAssumption, TypeInv, NEW r \in Requests, ReserveFind(r)
  PROVE  TypeInv'
<1>1. /\ pc[r] = "find" /\ Kind(r) = "create" /\ call[r] \in Calls /\ ~InTxn(r)
      /\ call[r].key \in Keys
      /\ UNCHANGED <<store, approval, assigned, changed, ran, unsure, call>>
  BY CallFields DEF ReserveFind, TypeInv, LabelOK, KeyedOnly, InSession, Kind
<1>2. leaky' \subseteq Keys
  BY <1>1 DEF ReserveFind, TypeInv, TypeOK
<1>3. CASE UNCHANGED <<answer, local>> /\ \E l \in {"begin", "release", "refuse"} : Goto(r, l)
  <2>1. TypeOK'
    BY <1>1, <1>2, <1>3 DEF TypeInv, TypeOK, StoreTypeOK, Goto, Labels, store
  <2>2. LabelOK(r)'
    BY <1>1, <1>3 DEF TypeInv, TypeOK, LabelOK, Goto, InSession, KeyedOnly, Kind, InTxn, store
  <2>3. QED
    BY <1>1, <1>3, <2>1, <2>2, OtherLabels DEF TypeInv, TypeOK, Goto, store
<1>4. CASE keys[call[r].key] # None /\ Answer(r, "replayed", keys[call[r].key].result)
  <2>1. keys[call[r].key].result \in Requests \cup {None}
    BY <1>1, <1>4 DEF TypeInv, TypeOK, StoreTypeOK, KeyDocs
  <2>2. TypeOK'
    BY <1>1, <1>2, <1>4, <2>1 DEF TypeInv, TypeOK, StoreTypeOK, Answer, Answers, Labels, Final,
       Locals, NoLocal, store
  <2>3. LabelOK(r)'
    BY <1>1, <1>4 DEF TypeInv, TypeOK, LabelOK, Answer, InSession, KeyedOnly, Kind, InTxn, store
  <2>4. QED
    BY <1>1, <1>4, <2>2, <2>3, OtherLabels DEF TypeInv, TypeOK, Answer, store
<1>5. QED BY <1>3, <1>4 DEF ReserveFind, Operate

\* A step that ends the handler keeps the labels right, when it leaves the
\* request without a session.
LEMMA AnswerLabels ==
  ASSUME TypeInv, NEW r \in Requests, pc[r] # "idle", NEW status, NEW result,
         Answer(r, status, result), call' = call, ~InTxn(r)',
         \A q \in Requests \ {r} : txn'[q] = txn[q]
  PROVE  \A q \in Requests : LabelOK(q)'
<1>1. LabelOK(r)'
  BY DEF TypeInv, TypeOK, LabelOK, Answer, InSession, KeyedOnly, Kind, InTxn
<1>2. QED BY <1>1, OtherLabels DEF TypeInv, TypeOK, Answer

\* What Answer leaves behind at the request that ended.
LEMMA AnswerType ==
  ASSUME TypeOK, NEW r \in Requests, NEW status \in {"ok", "refused", "error"},
         NEW result \in Requests \cup {None}, Answer(r, status, result)
  PROVE  /\ pc' \in [Requests -> Labels]
         /\ answer' \in [Requests -> Answers]
         /\ local' \in [Requests -> Locals]
BY DEF TypeOK, Answer, Answers, Labels, Final, Locals, NoLocal

\* A jump of a handler that holds no session, to where nothing is required.
LEMMA GotoLabels ==
  ASSUME TypeInv, NEW r \in Requests, pc[r] # "idle",
         NEW l \in {"refuse", "record", "dead", "release"}, Goto(r, l),
         l = "release" => Kind(r) = "create" /\ call[r].key # None,
         call' = call, ~InTxn(r)',
         \A q \in Requests \ {r} : txn'[q] = txn[q] /\ local'[q] = local[q]
  PROVE  pc' \in [Requests -> Labels] /\ \A q \in Requests : LabelOK(q)'
<1>1. pc' \in [Requests -> Labels]
  BY DEF TypeInv, TypeOK, Goto, Labels, Final
<1>2. LabelOK(r)'
  BY DEF TypeInv, TypeOK, LabelOK, Goto, InSession, KeyedOnly, Kind, InTxn
<1>3. QED BY <1>1, <1>2, OtherLabels DEF TypeInv, TypeOK, Goto

\* complete names the request as the key's result.
LEMMA CompleteType ==
  ASSUME ConstantsAssumption, TypeInv, NEW r \in Requests, Complete(r)
  PROVE  TypeInv'
<1>1. /\ pc[r] = "complete" /\ Kind(r) = "create" /\ ~InTxn(r)
      /\ call[r] \in Calls /\ call[r].key # None
      /\ UNCHANGED <<audit, sequence, outbox, txn, domain, call>>
  BY DEF Complete, TypeInv, LabelOK, KeyedOnly, InSession
<1>2. call[r].key \in Keys
  BY <1>1, CallFields DEF Kind
<1>3. keys' \in [Keys -> KeyDocs \cup {None}]
  BY <1>2 DEF Complete, CompleteKey, TypeInv, TypeOK, StoreTypeOK, KeyDocs
<1>4. TypeOK'
  BY <1>1, <1>3, AnswerType DEF Complete, TypeInv, TypeOK, StoreTypeOK, domain
<1>5. QED BY <1>1, <1>4, AnswerLabels DEF Complete, TypeInv, InTxn

\* release frees the key and goes on to the refusal.
LEMMA ReleaseType ==
  ASSUME ConstantsAssumption, TypeInv, NEW r \in Requests, Release(r)
  PROVE  TypeInv'
<1>1. /\ pc[r] = "release" /\ ~InTxn(r) /\ Goto(r, "refuse")
      /\ UNCHANGED <<audit, sequence, outbox, txn, domain, call, local, answer>>
  BY DEF Release, TypeInv, LabelOK, KeyedOnly, InSession
<1>2. keys' \in [Keys -> KeyDocs \cup {None}]
  BY DEF Release, ReleaseKey, TypeInv, TypeOK, StoreTypeOK
<1>3. pc' \in [Requests -> Labels] /\ \A q \in Requests : LabelOK(q)'
  BY <1>1, GotoLabels DEF InTxn
<1>4. QED BY <1>1, <1>2, <1>3 DEF TypeInv, TypeOK, StoreTypeOK, domain

\* A failed operation hands a creation to release, anything else to the refusal.
LEMMA FailureLabel ==
  ASSUME TypeInv, NEW r \in Requests, pc[r] \in InSession \cup {"begin"}
  PROVE  /\ Failure(r) \in {"release", "refuse"}
         /\ Failure(r) = "release" => Kind(r) = "create" /\ call[r].key # None
BY DEF Failure, TypeInv, LabelOK, InSession, KeyedOnly

\* The refund is read before the decision's transaction.
LEMMA LoadType ==
  ASSUME ConstantsAssumption, TypeInv, NEW r \in Requests, Load(r)
  PROVE  TypeInv'
<1>1. /\ pc[r] = "load" /\ ~InTxn(r) /\ call[r] \in Calls /\ Kind(r) = "decide"
      /\ UNCHANGED <<store, domain, call, local, answer>>
      /\ \E l \in {"begin", "refuse"} : Goto(r, l)
  BY DEF Load, TypeInv, LabelOK, InSession
<1>2. TypeOK'
  BY <1>1 DEF TypeInv, TypeOK, StoreTypeOK, Goto, Labels, store, domain
<1>3. LabelOK(r)'
  BY <1>1 DEF TypeInv, TypeOK, LabelOK, Goto, InSession, KeyedOnly, Kind, InTxn, store
<1>4. QED
  BY <1>1, <1>2, <1>3, OtherLabels DEF TypeInv, TypeOK, Goto, store

\* The first write of a transaction opens the session.
LEMMA BeginType ==
  ASSUME ConstantsAssumption, TypeInv, NEW r \in Requests, Begin(r)
  PROVE  TypeInv'
<1>1. /\ pc[r] = "begin" /\ ~InTxn(r) /\ call[r] \in Calls /\ Kind(r) # "authenticate"
      /\ UNCHANGED <<audit, sequence, outbox, keys, domain, call, answer>>
  BY DEF Begin, TypeInv, LabelOK, InSession, KeyedOnly
<1>2. CASE Goto(r, Failure(r)) /\ UNCHANGED <<txn, local>>
  <2>1. pc' \in [Requests -> Labels] /\ \A q \in Requests : LabelOK(q)'
    BY <1>1, <1>2, FailureLabel, GotoLabels DEF InTxn
  <2>2. QED BY <1>1, <1>2, <2>1 DEF TypeInv, TypeOK, StoreTypeOK, domain
<1>3. CASE /\ StartTransaction(r, TRUE)
           /\ Remember(r, "todo", EventsOf(call[r]))
           /\ Goto(r, "head")
  <2>1. /\ local' \in [Requests -> Locals]
        /\ \A q \in Requests \ {r} : local'[q] = local[q]
    BY <1>1, <1>3, CallFields, RememberTodo DEF TypeInv, TypeOK
  <2>2. /\ txn' \in [Requests -> Sessions] /\ txn'[r].open
        /\ \A q \in Requests \ {r} : txn'[q] = txn[q]
    BY <1>3, Starting DEF TypeInv, TypeOK, StoreTypeOK
  <2>3. TypeOK'
    BY <1>1, <1>3, <2>1, <2>2 DEF TypeInv, TypeOK, StoreTypeOK, Goto, Labels, domain
  <2>4. LabelOK(r)'
    BY <1>1, <1>3, <2>2 DEF TypeInv, TypeOK, LabelOK, Goto, InSession, KeyedOnly, Kind, InTxn
  <2>5. QED
    BY <1>1, <1>3, <2>1, <2>2, <2>3, <2>4, OtherLabels DEF TypeInv, TypeOK, Goto
<1>4. QED BY <1>2, <1>3 DEF Begin

\* A revocation deletes at once and opens a session without a change.
LEMMA BeginRevokeType ==
  ASSUME ConstantsAssumption, TypeInv, NEW r \in Requests, BeginRevoke(r)
  PROVE  TypeInv'
<1>1. /\ pc[r] = "begin" /\ Kind(r) = "revoke" /\ ~InTxn(r) /\ call[r] \in Calls
      /\ UNCHANGED <<audit, sequence, outbox, keys, approval, ran, leaky, unsure, call, local, answer>>
  BY DEF BeginRevoke, TypeInv, LabelOK, InSession
<1>2. assigned' \subseteq Agents /\ changed' \subseteq Requests
  BY DEF BeginRevoke, TypeInv, TypeOK
<1>3. CASE Goto(r, Failure(r)) /\ txn' = txn
  <2>1. pc' \in [Requests -> Labels] /\ \A q \in Requests : LabelOK(q)'
    BY <1>1, <1>3, FailureLabel, GotoLabels DEF InTxn
  <2>2. QED BY <1>1, <1>2, <1>3, <2>1 DEF TypeInv, TypeOK, StoreTypeOK
<1>4. CASE StartTransaction(r, FALSE) /\ Goto(r, "head")
  <2>1. /\ txn' \in [Requests -> Sessions] /\ txn'[r].open
        /\ \A q \in Requests \ {r} : txn'[q] = txn[q]
    BY <1>4, Starting DEF TypeInv, TypeOK, StoreTypeOK
  <2>2. TypeOK'
    BY <1>1, <1>2, <1>4, <2>1 DEF TypeInv, TypeOK, StoreTypeOK, Goto, Labels
  <2>3. LabelOK(r)'
    BY <1>1, <1>4, <2>1 DEF TypeInv, TypeOK, LabelOK, Goto, InSession, KeyedOnly, Kind, InTxn
  <2>4. QED
    BY <1>1, <1>4, <2>1, <2>2, <2>3, OtherLabels DEF TypeInv, TypeOK, Goto
<1>5. QED BY <1>3, <1>4 DEF BeginRevoke

\* A passcode attempt opens no session.
LEMMA AttemptType ==
  ASSUME ConstantsAssumption, TypeInv, NEW r \in Requests, Attempt(r)
  PROVE  TypeInv'
<1>1. /\ pc[r] = "attempt" /\ Kind(r) = "authenticate" /\ ~InTxn(r) /\ call[r] \in Calls
      /\ UNCHANGED <<store, approval, assigned, ran, leaky, unsure, call, answer>>
      /\ changed' \subseteq Requests
  BY DEF Attempt, TypeInv, TypeOK, LabelOK, InSession
<1>2. /\ local' \in [Requests -> Locals]
      /\ \A q \in Requests \ {r} : local'[q] = local[q]
  BY <1>1, CallFields, RememberTodo DEF Attempt, TypeInv, TypeOK
<1>3. \E l \in {"refuse", "head"} : Goto(r, l)
  BY DEF Attempt
<1>4. TypeOK'
  BY <1>1, <1>2, <1>3 DEF TypeInv, TypeOK, StoreTypeOK, Goto, Labels, store
<1>5. LabelOK(r)'
  BY <1>1, <1>3 DEF TypeInv, TypeOK, LabelOK, Goto, InSession, KeyedOnly, Kind, InTxn, store
<1>6. QED
  BY <1>1, <1>2, <1>3, <1>4, <1>5, OtherLabels DEF TypeInv, TypeOK, Goto, store

\* A passcode check ends or is refused.
LEMMA SettleType ==
  ASSUME ConstantsAssumption, TypeInv, NEW r \in Requests, Settle(r)
  PROVE  TypeInv'
<1>1. pc[r] = "settle" /\ ~InTxn(r) /\ UNCHANGED <<store, domain, call>>
  BY DEF Settle, TypeInv, LabelOK, InSession
<1>2. CASE Answer(r, "ok", None)
  <2>1. TypeOK'
    BY <1>1, <1>2, AnswerType DEF TypeInv, TypeOK, StoreTypeOK, store, domain
  <2>2. QED BY <1>1, <1>2, <2>1, AnswerLabels DEF TypeInv, InTxn, store
<1>3. CASE Goto(r, "refuse") /\ UNCHANGED <<answer, local>>
  <2>1. pc' \in [Requests -> Labels] /\ \A q \in Requests : LabelOK(q)'
    BY <1>1, <1>3, GotoLabels DEF InTxn, store
  <2>2. QED BY <1>1, <1>3, <2>1 DEF TypeInv, TypeOK, StoreTypeOK, store, domain
<1>4. QED BY <1>2, <1>3 DEF Settle

\* head() answers with the record that has the highest number, if one has.
HasLast == audit = {} \/ \E x \in audit : \A y \in audit : y.seq <= x.seq

\* The last record of a trail that is not empty is one of its records.
LEMMA LastRecordFacts ==
  ASSUME audit \subseteq AuditRecords, HasLast
  PROVE  /\ LastRecord \in [seq : Nat, id : EntryIds \cup {Genesis}]
         /\ audit = {} => LastRecord = [seq |-> 0, id |-> Genesis]
         /\ audit # {} => \E x \in audit : /\ LastRecord.seq = x.seq
                                          /\ LastRecord.id = x.id
                                          /\ \A y \in audit : y.seq <= x.seq
<1>1. CASE audit = {}
  BY <1>1 DEF LastRecord
<1>2. CASE audit # {}
  <2>1. DEFINE last == CHOOSE x \in audit : \A y \in audit : y.seq <= x.seq
  <2>2. last \in audit /\ \A y \in audit : y.seq <= last.seq
    BY <1>2 DEF HasLast
  <2>3. LastRecord = [seq |-> last.seq, id |-> last.id]
    BY <1>2 DEF LastRecord
  <2>4. QED BY <1>2, <2>2, <2>3 DEF AuditRecords
<1>3. QED BY <1>1, <1>2

\* The number drawn is positive and remembered.
LEMMA NextSequenceType ==
  ASSUME ConstantsAssumption, TypeInv, NEW r \in Requests, NextSequence(r)
  PROVE  TypeInv'
<1>1. /\ pc[r] = "inc" /\ call[r] \in Calls /\ local[r].todo > 0
      /\ UNCHANGED <<audit, outbox, keys, domain, call, answer>>
  BY DEF NextSequence, TypeInv, LabelOK
<1>2. CASE /\ Abort(r) /\ Goto(r, Failure(r)) /\ UNCHANGED <<sequence, local>>
  <2>1. /\ txn' \in [Requests -> Sessions] /\ ~txn'[r].open
        /\ \A q \in Requests \ {r} : txn'[q] = txn[q]
    BY <1>2, Aborting DEF TypeInv, TypeOK, StoreTypeOK
  <2>2. pc' \in [Requests -> Labels] /\ \A q \in Requests : LabelOK(q)'
    BY <1>1, <1>2, <2>1, FailureLabel, GotoLabels DEF InTxn, InSession
  <2>3. QED BY <1>1, <1>2, <2>1, <2>2 DEF TypeInv, TypeOK, StoreTypeOK, domain
<1>3. CASE TakeNumber(r) /\ Remember(r, "number", sequence + 1) /\ Goto(r, "add")
  <2>1. /\ txn' \in [Requests -> Sessions] /\ txn'[r].open = txn[r].open /\ sequence' \in Nat
        /\ \A q \in Requests \ {r} : txn'[q] = txn[q]
    BY <1>3, Drawing DEF TypeInv, TypeOK, StoreTypeOK
  <2>2. /\ local' \in [Requests -> Locals]
        /\ local'[r].number > 0 /\ local'[r].todo = local[r].todo
        /\ \A q \in Requests \ {r} : local'[q] = local[q]
    BY <1>3, RememberNumber DEF TypeInv, TypeOK, StoreTypeOK
  <2>3. TypeOK'
    BY <1>1, <1>3, <2>1, <2>2 DEF TypeInv, TypeOK, StoreTypeOK, Goto, Labels, domain
  <2>4. LabelOK(r)'
    BY <1>1, <1>3, <2>1, <2>2 DEF TypeInv, TypeOK, LabelOK, Goto, InSession, KeyedOnly, Kind, InTxn
  <2>5. QED
    BY <1>1, <1>3, <2>1, <2>2, <2>3, <2>4, OtherLabels DEF TypeInv, TypeOK, Goto
<1>4. QED BY <1>2, <1>3 DEF NextSequence

\* Where a handler goes after a record or an event.
LEMMA AfterRecordingLabels ==
  ASSUME TypeInv, NEW r \in Requests, pc[r] \in InSession,
         NEW todo \in 0 .. 2, local' \in [Requests -> Locals], local'[r].todo = todo,
         Goto(r, AfterRecording(r, todo)), call' = call, txn'[r].open = txn[r].open,
         \A q \in Requests \ {r} : txn'[q] = txn[q] /\ local'[q] = local[q]
  PROVE  pc' \in [Requests -> Labels] /\ \A q \in Requests : LabelOK(q)'
<1>1. pc[r] # "idle" /\ LabelOK(r)
  BY DEF InSession, TypeInv
<1>2. CASE AfterRecording(r, todo) = "inc" /\ todo > 0
  <2>1. LabelOK(r)'
    BY <1>1, <1>2 DEF TypeInv, TypeOK, LabelOK, Goto, InSession, KeyedOnly, Kind, InTxn
  <2>2. QED BY <1>2, <2>1, OtherLabels DEF TypeInv, TypeOK, Goto, Labels
<1>3. CASE AfterRecording(r, todo) = "commit" /\ InTxn(r)
  <2>1. LabelOK(r)'
    BY <1>1, <1>3 DEF TypeInv, TypeOK, LabelOK, Goto, InSession, KeyedOnly, Kind, InTxn
  <2>2. QED BY <1>3, <2>1, OtherLabels DEF TypeInv, TypeOK, Goto, Labels
<1>4. CASE AfterRecording(r, todo) = "settle" /\ ~InTxn(r)
  <2>1. LabelOK(r)'
    BY <1>1, <1>4 DEF TypeInv, TypeOK, LabelOK, Goto, InSession, KeyedOnly, Kind, InTxn
  <2>2. QED BY <1>4, <2>1, OtherLabels DEF TypeInv, TypeOK, Goto, Labels
<1>5. QED BY <1>2, <1>3, <1>4 DEF AfterRecording

\* The append inserts a record, aborts the session or reports an error.
LEMMA AuditAppendType ==
  ASSUME ConstantsAssumption, TypeInv, NEW r \in Requests, AuditAppend(r)
  PROVE  TypeInv'
<1>1. DEFINE rec == NextRecord(r, Verdict(r))
<1>2. /\ pc[r] = "append" /\ call[r] \in Calls
      /\ UNCHANGED <<sequence, outbox, keys, domain, call>>
  BY DEF AuditAppend, TypeInv, LabelOK
<1>3. CASE /\ Abort(r) /\ Goto(r, Failure(r)) /\ UNCHANGED <<audit, answer, local>>
  <2>1. /\ txn' \in [Requests -> Sessions] /\ ~txn'[r].open
        /\ \A q \in Requests \ {r} : txn'[q] = txn[q]
    BY <1>3, Aborting DEF TypeInv, TypeOK, StoreTypeOK
  <2>2. pc' \in [Requests -> Labels] /\ \A q \in Requests : LabelOK(q)'
    BY <1>2, <1>3, <2>1, FailureLabel, GotoLabels DEF InTxn, InSession
  <2>3. QED BY <1>2, <1>3, <2>1, <2>2 DEF TypeInv, TypeOK, StoreTypeOK, domain
<1>4. CASE ~InTxn(r) /\ Answer(r, "error", None) /\ UNCHANGED <<audit, txn>>
  <2>1. TypeOK'
    BY <1>2, <1>4, AnswerType DEF TypeInv, TypeOK, StoreTypeOK, domain
  <2>2. QED BY <1>2, <1>4, <2>1, AnswerLabels DEF TypeInv, InTxn
<1>5. CASE /\ InsertRecord(r, rec)
           /\ Goto(r, AfterRecording(r, local[r].todo))
           /\ UNCHANGED <<answer, local>>
  <2>1. rec \in AuditRecords
    BY NextRecordType DEF TypeInv, TypeOK, Verdict, Verdicts
  <2>2. /\ txn' \in [Requests -> Sessions] /\ audit' \subseteq AuditRecords
        /\ txn'[r].open = txn[r].open
        /\ \A q \in Requests \ {r} : txn'[q] = txn[q]
    BY <1>5, <2>1, Inserting DEF TypeInv, TypeOK, StoreTypeOK
  <2>3. pc' \in [Requests -> Labels] /\ \A q \in Requests : LabelOK(q)'
    <3>1. local[r].todo \in 0 .. 2 /\ local' \in [Requests -> Locals]
      BY <1>5 DEF TypeInv, TypeOK, Locals
    <3>2. QED BY <1>2, <1>5, <2>2, <3>1, AfterRecordingLabels DEF InSession
  <2>4. QED BY <1>2, <1>5, <2>2, <2>3 DEF TypeInv, TypeOK, StoreTypeOK, domain
<1>6. QED BY <1>3, <1>4, <1>5 DEF AuditAppend

\* An event carries the number its handler drew.
LEMMA AddEventType ==
  ASSUME ConstantsAssumption, TypeInv, NEW r \in Requests, AddEvent(r)
  PROVE  TypeInv'
<1>1. /\ pc[r] = "add" /\ local[r].todo > 0 /\ local[r].number > 0
      /\ InsertEvent(r, [seq |-> local[r].number, by |-> r])
      /\ Remember(r, "todo", local[r].todo - 1)
      /\ Goto(r, AfterRecording(r, local[r].todo - 1))
      /\ UNCHANGED <<audit, sequence, keys, domain, call, answer>>
  BY DEF AddEvent, TypeInv, LabelOK
<1>2. local[r] \in Locals
  BY DEF TypeInv, TypeOK
<1>3. /\ txn' \in [Requests -> Sessions] /\ outbox' \subseteq Events
      /\ txn'[r].open = txn[r].open
      /\ \A q \in Requests \ {r} : txn'[q] = txn[q]
  <2>1. [seq |-> local[r].number, by |-> r] \in Events
    BY <1>1, <1>2 DEF Events, Locals
  <2>2. QED BY <1>1, <2>1, Emitting DEF TypeInv, TypeOK, StoreTypeOK
<1>4. local[r].todo - 1 \in 0 .. 2
  BY <1>1, <1>2 DEF Locals
<1>5. /\ local' \in [Requests -> Locals] /\ local'[r].todo = local[r].todo - 1
      /\ \A q \in Requests \ {r} : local'[q] = local[q]
  BY <1>1, <1>4, RememberTodo DEF TypeInv, TypeOK
<1>6. pc' \in [Requests -> Labels] /\ \A q \in Requests : LabelOK(q)'
  BY <1>1, <1>3, <1>4, <1>5, AfterRecordingLabels DEF InSession
<1>7. QED BY <1>1, <1>3, <1>5, <1>6 DEF TypeInv, TypeOK, StoreTypeOK, domain

\* Reading the head disturbs nothing but what the handler remembers.
LEMMA AuditHeadType ==
  ASSUME ConstantsAssumption, TypeInv, HasLast, NEW r \in Requests, AuditHead(r)
  PROVE  TypeInv'
<1>1. /\ pc[r] = "head" /\ Remember(r, "head", LastRecord) /\ Goto(r, "append")
      /\ UNCHANGED <<store, domain, call, answer>>
  BY DEF AuditHead
<1>2. /\ local' \in [Requests -> Locals]
      /\ \A q \in Requests \ {r} : local'[q] = local[q]
  BY <1>1, LastRecordFacts, RememberHead DEF TypeInv, TypeOK, StoreTypeOK
<1>3. TypeOK'
  BY <1>1, <1>2 DEF TypeInv, TypeOK, StoreTypeOK, Goto, Labels, store, domain
<1>4. LabelOK(r)'
  BY <1>1 DEF TypeInv, TypeOK, LabelOK, Goto, InSession, KeyedOnly, Kind, InTxn, store
<1>5. QED
  BY <1>1, <1>2, <1>3, <1>4, OtherLabels DEF TypeInv, TypeOK, Goto, store

\* What a commit adds to the domain state has the domain's types.
LEMMA ApplyChangeType ==
  ASSUME ConstantsAssumption, TypeInv, NEW r \in Requests, pc[r] = "commit", ApplyChange(r)
  PROVE  /\ approval' \in [state : Decisions \cup {"pending"}, by : Requests \cup {None}]
         /\ assigned' \subseteq Agents
         /\ changed' \subseteq Requests
         /\ ran' \in [Keys -> SUBSET Requests]
<1>1. call[r] \in Calls /\ (Kind(r) = "create" => call[r].key # None)
  BY DEF TypeInv, LabelOK, InSession
<1>2. /\ approval' \in [state : Decisions \cup {"pending"}, by : Requests \cup {None}]
      /\ assigned' \subseteq Agents
      /\ changed' \subseteq Requests
  BY <1>1, CallFields DEF ApplyChange, TypeInv, TypeOK, Kind
<1>3. ran' \in [Keys -> SUBSET Requests]
  <2>1. CASE Kind(r) = "create"
    <3>1. call[r].key \in Keys
      BY <1>1, <2>1, CallFields DEF Kind
    <3>2. QED BY <2>1, <3>1 DEF ApplyChange, TypeInv, TypeOK
  <2>2. CASE Kind(r) # "create"
    BY <2>2 DEF ApplyChange, TypeInv, TypeOK
  <2>3. QED BY <2>1, <2>2
<1>4. QED BY <1>2, <1>3

\* A commit closes the session and completes or answers.
LEMMA CommitType ==
  ASSUME ConstantsAssumption, TypeInv, NEW r \in Requests, Commit(r)
  PROVE  TypeInv'
<1>1. /\ pc[r] = "commit" /\ call[r] \in Calls
      /\ Kind(r) = "create" => call[r].key # None
      /\ CommitWrites(r) /\ ApplyChange(r) /\ UNCHANGED <<keys, leaky, unsure, call>>
  BY DEF Commit, TypeInv, LabelOK, InSession
<1>2. /\ txn' \in [Requests -> Sessions]
      /\ audit' \subseteq AuditRecords /\ outbox' \subseteq Events /\ sequence' \in Nat
      /\ ~txn'[r].open
      /\ \A q \in Requests \ {r} : txn'[q] = txn[q]
  BY <1>1, Committing DEF TypeInv, TypeOK
<1>3. CASE Kind(r) = "create" /\ Goto(r, "complete") /\ UNCHANGED <<answer, local>>
  <2>1. TypeOK'
    BY <1>1, <1>2, <1>3, ApplyChangeType DEF TypeInv, TypeOK, StoreTypeOK, Goto, Labels
  <2>2. LabelOK(r)'
    BY <1>1, <1>2, <1>3 DEF TypeInv, TypeOK, LabelOK, Goto, InSession, KeyedOnly, Kind, InTxn
  <2>3. QED
    BY <1>1, <1>2, <1>3, <2>1, <2>2, OtherLabels DEF TypeInv, TypeOK, Goto
<1>4. CASE Answer(r, "ok", None)
  <2>1. TypeOK'
    BY <1>1, <1>2, <1>4, ApplyChangeType, AnswerType DEF TypeInv, TypeOK, StoreTypeOK
  <2>2. QED BY <1>1, <1>2, <1>4, <2>1, AnswerLabels DEF TypeInv, InTxn
<1>5. QED BY <1>3, <1>4 DEF Commit

\* A commit whose acknowledgement is lost closes the session as well.
LEMMA CommitUnacknowledgedType ==
  ASSUME ConstantsAssumption, TypeInv, NEW r \in Requests, CommitUnacknowledged(r)
  PROVE  TypeInv'
<1>1. /\ pc[r] = "commit" /\ call[r] \in Calls
      /\ Kind(r) = "create" => call[r].key \in Keys
      /\ CommitWrites(r) /\ ApplyChange(r) /\ Goto(r, Failure(r))
      /\ UNCHANGED <<keys, call, local, answer>>
  BY CallFields DEF CommitUnacknowledged, TypeInv, LabelOK, InSession, Kind
<1>2. /\ txn' \in [Requests -> Sessions]
      /\ audit' \subseteq AuditRecords /\ outbox' \subseteq Events /\ sequence' \in Nat
      /\ ~txn'[r].open
      /\ \A q \in Requests \ {r} : txn'[q] = txn[q]
  BY <1>1, Committing DEF TypeInv, TypeOK
<1>3. leaky' \subseteq Keys /\ unsure' \subseteq Requests
  BY <1>1 DEF CommitUnacknowledged, TypeInv, TypeOK
<1>4. pc' \in [Requests -> Labels] /\ \A q \in Requests : LabelOK(q)'
  BY <1>1, <1>2, FailureLabel, GotoLabels DEF InTxn, InSession
<1>5. QED
  BY <1>1, <1>2, <1>3, <1>4, ApplyChangeType DEF TypeInv, TypeOK, StoreTypeOK

\* A database error closes the session and goes on to the failure.
LEMMA StoreFailsType ==
  ASSUME ConstantsAssumption, TypeInv, NEW r \in Requests, StoreFails(r)
  PROVE  TypeInv'
<1>1. /\ pc[r] \in InSession /\ Abort(r) /\ Goto(r, Failure(r))
      /\ UNCHANGED <<audit, sequence, outbox, keys, domain, call, local, answer>>
  BY DEF StoreFails, TypeInv, LabelOK
<1>2. /\ txn' \in [Requests -> Sessions] /\ ~txn'[r].open
      /\ \A q \in Requests \ {r} : txn'[q] = txn[q]
  BY <1>1, Aborting DEF TypeInv, TypeOK, StoreTypeOK
<1>3. pc' \in [Requests -> Labels] /\ \A q \in Requests : LabelOK(q)'
  BY <1>1, <1>2, FailureLabel, GotoLabels DEF InTxn, InSession
<1>4. QED BY <1>1, <1>2, <1>3 DEF TypeInv, TypeOK, StoreTypeOK, domain

\* A refusal reads the head outside any session.
LEMMA RefusalHeadType ==
  ASSUME ConstantsAssumption, TypeInv, HasLast, NEW r \in Requests, RefusalHead(r)
  PROVE  TypeInv'
<1>1. /\ pc[r] = "refuse" /\ ~InTxn(r)
      /\ Remember(r, "head", LastRecord) /\ Goto(r, "record")
      /\ UNCHANGED <<store, domain, call, answer>>
  BY DEF RefusalHead, TypeInv, LabelOK, InSession
<1>2. /\ local' \in [Requests -> Locals]
      /\ \A q \in Requests \ {r} : local'[q] = local[q]
  BY <1>1, LastRecordFacts, RememberHead DEF TypeInv, TypeOK, StoreTypeOK
<1>3. pc' \in [Requests -> Labels] /\ \A q \in Requests : LabelOK(q)'
  BY <1>1, <1>2, GotoLabels DEF InTxn, store
<1>4. QED BY <1>1, <1>2, <1>3 DEF TypeInv, TypeOK, StoreTypeOK, store, domain

\* A refusal is recorded, or not, and answered.
LEMMA RefusalAppendType ==
  ASSUME ConstantsAssumption, TypeInv, NEW r \in Requests, RefusalAppend(r)
  PROVE  TypeInv'
<1>1. /\ pc[r] = "record" /\ ~InTxn(r) /\ Answer(r, "refused", None)
      /\ UNCHANGED <<sequence, outbox, keys, domain, call>>
  BY DEF RefusalAppend, TypeInv, LabelOK, InSession
<1>2. audit' \subseteq AuditRecords /\ txn' = txn
  <2>1. CASE InsertRecord(r, NextRecord(r, "refused"))
    <3>1. NextRecord(r, "refused") \in AuditRecords
      BY NextRecordType DEF TypeInv, TypeOK, Verdicts
    <3>2. QED BY <1>1, <2>1, <3>1, Inserting DEF TypeInv, TypeOK, StoreTypeOK
  <2>2. CASE UNCHANGED <<audit, txn>>
    BY <2>2 DEF TypeInv, TypeOK, StoreTypeOK
  <2>3. QED BY <2>1, <2>2 DEF RefusalAppend
<1>3. TypeOK'
  BY <1>1, <1>2, AnswerType DEF TypeInv, TypeOK, StoreTypeOK, domain
<1>4. QED BY <1>1, <1>2, <1>3, AnswerLabels DEF TypeInv, InTxn

\* A dead handler holds no session.
LEMMA CrashType ==
  ASSUME ConstantsAssumption, TypeInv, NEW r \in Requests, Crash(r)
  PROVE  TypeInv'
<1>1. /\ pc[r] # "idle" /\ Goto(r, "dead") /\ Abort(r)
      /\ local' = [local EXCEPT ![r] = NoLocal]
      /\ UNCHANGED <<audit, sequence, outbox, keys, domain, call, answer>>
  BY DEF Crash, Live
<1>2. /\ txn' \in [Requests -> Sessions] /\ ~txn'[r].open
      /\ \A q \in Requests \ {r} : txn'[q] = txn[q]
  BY <1>1, Aborting DEF TypeInv, TypeOK, StoreTypeOK
<1>3. /\ local' \in [Requests -> Locals]
      /\ \A q \in Requests \ {r} : local'[q] = local[q]
  BY <1>1 DEF TypeInv, TypeOK, NoLocal, Locals
<1>4. pc' \in [Requests -> Labels] /\ \A q \in Requests : LabelOK(q)'
  BY <1>1, <1>2, <1>3, GotoLabels DEF InTxn
<1>5. QED BY <1>1, <1>2, <1>3, <1>4 DEF TypeInv, TypeOK, StoreTypeOK, domain

\* The TTL index touches the key and its history only.
LEMMA SweepType ==
  ASSUME TypeInv, NEW k \in Keys, Sweep(k)
  PROVE  TypeInv'
BY DEF Sweep, TypeInv, TypeOK, StoreTypeOK, LabelOK, Kind, InTxn

\* Every step keeps TypeInv, as long as head() has a record to answer with.
LEMMA StepType ==
  ASSUME ConstantsAssumption, TypeInv, HasLast, [Next]_vars
  PROVE  TypeInv'
<1>1. ASSUME NEW r \in Requests, Arrive(r) PROVE TypeInv'
  BY <1>1, ArriveType
<1>2. ASSUME NEW r \in Requests, Step(r) PROVE TypeInv'
  BY <1>2, ReserveInsertType, ReserveFindType, CompleteType, ReleaseType, LoadType, BeginType,
     BeginRevokeType, AttemptType, AuditHeadType, AuditAppendType, NextSequenceType,
     AddEventType, SettleType, CommitType, RefusalHeadType, RefusalAppendType DEF Step
<1>3. ASSUME NEW r \in Requests, Fault(r) PROVE TypeInv'
  BY <1>3, CommitUnacknowledgedType, StoreFailsType, CrashType DEF Fault
<1>4. ASSUME NEW k \in Keys, Sweep(k) PROVE TypeInv'
  BY <1>4, SweepType
<1>5. CASE UNCHANGED vars
  BY <1>5 DEF TypeInv, TypeOK, StoreTypeOK, LabelOK, Kind, InTxn, vars, store, domain
<1>6. QED BY <1>1, <1>2, <1>3, <1>4, <1>5 DEF Next

\* The initial states satisfy TypeInv.
LEMMA InitType == ASSUME Init PROVE TypeInv
BY DEF Init, StoreInit, TypeInv, TypeOK, StoreTypeOK, LabelOK, InTxn, Closed, Sessions, Labels,
   Locals, NoLocal, Answers, NoAnswer, Pending, InSession, KeyedOnly, Final

-----------------------------------------------------------------------------
(* The inductive invariant of the audit trail.                             *)

\* The numbers in use are 1 .. n: a gap would leave the record above it with
\* nothing to follow.
Contiguous ==
  \E n \in Nat : \A i \in Nat \ {0} : SeqStored(i) <=> i <= n

\* The head a handler read is still in the trail when it appends, though no
\* longer the last perhaps.
HeadOK(r) ==
  pc[r] \in {"append", "record"} =>
    \/ local[r].head = [seq |-> 0, id |-> Genesis]
    \/ \E y \in audit : y.seq = local[r].head.seq /\ y.id = local[r].head.id

\* A buffered record follows the trail, and its number is still free.
BufferOK(r) ==
  \A x \in txn[r].records :
    /\ InTxn(r) /\ pc[r] \in {"inc", "add", "commit"}
    /\ Follows(x) /\ ~SeqStored(x.seq) /\ x.id = <<r, Verdict(r)>>

\* Open transactions hold different numbers, each one record at most.
BuffersDiffer ==
  \A q, r \in Requests : \A x \in txn[q].records, y \in txn[r].records :
    x.seq = y.seq \/ q = r => x = y

\* A request that has its record in the trail does not come to append another
\* of the same identity.
After == {"inc", "add", "settle", "complete", "release", "refuse", "record"} \cup Final
RecordedOK(r) ==
  \A v \in Verdicts : Recorded(r, v) =>
    IF v = "refused" THEN pc[r] = "done" ELSE pc[r] \in After /\ ~InTxn(r)

ChainInv ==
  /\ AuditChain /\ Contiguous /\ BuffersDiffer
  /\ \A r \in Requests : HeadOK(r) /\ BufferOK(r) /\ RecordedOK(r)

\* A trail without gaps has a record with the highest number: LastRecord names it.
LEMMA ContiguousHasLast ==
  ASSUME TypeInv, Contiguous
  PROVE  HasLast
<1>1. PICK n \in Nat : \A i \in Nat \ {0} : SeqStored(i) <=> i <= n
  BY DEF Contiguous
<1>2. \A x \in audit : x.seq \in Nat \ {0} /\ x.seq <= n
  BY <1>1 DEF SeqStored, TypeInv, TypeOK, StoreTypeOK, AuditRecords
<1>3. CASE n = 0
  BY <1>2, <1>3 DEF HasLast
<1>4. CASE n # 0
  <2>1. PICK x \in audit : x.seq = n
    BY <1>1, <1>4 DEF SeqStored
  <2>2. QED BY <1>2, <2>1 DEF HasLast
<1>5. QED BY <1>3, <1>4

\* One more record, following the trail under a free number, keeps the trail.
LEMMA TrailGrows ==
  ASSUME TypeInv, AuditChain, Contiguous, NEW x \in AuditRecords,
         audit' = audit \cup {x}, Follows(x), ~SeqStored(x.seq),
         \A y \in audit : y.id # x.id
  PROVE  /\ AuditChain' /\ Contiguous'
         /\ \A y : Follows(y) => Follows(y)'
<1>1. \A y : Follows(y) => Follows(y)'
  BY DEF Follows
<1>2. AuditChain'
  BY <1>1 DEF AuditChain, SeqStored
<1>3. Contiguous'
  <2>1. PICK n \in Nat : \A i \in Nat \ {0} : SeqStored(i) <=> i <= n
    BY DEF Contiguous
  <2>2. x.seq \in Nat \ {0}
    BY DEF AuditRecords
  <2>3. x.seq = n + 1
    <3>1. ~(x.seq <= n)
      BY <2>1, <2>2
    <3>2. CASE x.seq = 1
      BY <2>2, <3>1, <3>2
    <3>3. CASE \E y \in audit : y.seq = x.seq - 1
      <4>1. PICK y \in audit : y.seq = x.seq - 1
        BY <3>3
      <4>2. y.seq \in Nat \ {0} /\ SeqStored(y.seq)
        BY DEF SeqStored, TypeInv, TypeOK, StoreTypeOK, AuditRecords
      <4>3. y.seq <= n
        BY <2>1, <4>2
      <4>4. QED BY <2>2, <3>1, <4>1, <4>2, <4>3
    <3>4. QED BY <3>2, <3>3 DEF Follows
  <2>4. \A i \in Nat \ {0} : SeqStored(i)' <=> i <= n + 1
    <3>1. \A i \in Nat \ {0} : SeqStored(i)' <=> SeqStored(i) \/ i = x.seq
      BY DEF SeqStored
    <3>2. QED BY <2>1, <2>3, <3>1
  <2>5. QED BY <2>4 DEF Contiguous
<1>4. QED BY <1>1, <1>2, <1>3

\* A step of r that leaves the trail alone, and of its buffer keeps everything
\* or nothing, keeps the chain when r itself still satisfies its parts.
LEMMA TrailUntouched ==
  ASSUME ChainInv, NEW r \in Requests, audit' = audit,
         \A q \in Requests \ {r} : /\ pc'[q] = pc[q] /\ call'[q] = call[q]
                                   /\ local'[q] = local[q] /\ txn'[q] = txn[q],
         \/ txn'[r].records = {}
         \/ /\ txn'[r].records = txn[r].records /\ txn'[r].open
            /\ pc'[r] \in {"inc", "add", "commit"} /\ call'[r] = call[r],
         HeadOK(r)', RecordedOK(r)'
  PROVE  ChainInv'
<1>1. AuditChain' /\ Contiguous'
  BY DEF ChainInv, AuditChain, Contiguous, Follows, SeqStored
<1>2. BuffersDiffer'
  BY DEF ChainInv, BuffersDiffer
<1>3. BufferOK(r)'
  BY DEF ChainInv, BufferOK, Follows, SeqStored, InTxn, Verdict, Kind
<1>4. ASSUME NEW q \in Requests \ {r} PROVE HeadOK(q)' /\ BufferOK(q)' /\ RecordedOK(q)'
  BY <1>4 DEF ChainInv, HeadOK, BufferOK, RecordedOK, Follows, SeqStored, Recorded, InTxn,
     Verdict, Kind
<1>5. QED BY <1>1, <1>2, <1>3, <1>4 DEF ChainInv

\* The same for a record that joins the trail, r's own buffer being emptied.
LEMMA TrailExtended ==
  ASSUME TypeInv, ChainInv, NEW r \in Requests, NEW x \in AuditRecords,
         NEW v \in Verdicts, x.id = <<r, v>>, ~Recorded(r, v),
         audit' = audit \cup {x}, Follows(x), ~SeqStored(x.seq),
         \A q \in Requests \ {r} : \A y \in txn[q].records : y.seq # x.seq,
         \A q \in Requests \ {r} : /\ pc'[q] = pc[q] /\ call'[q] = call[q]
                                   /\ local'[q] = local[q] /\ txn'[q] = txn[q],
         txn'[r].records = {}, HeadOK(r)', RecordedOK(r)'
  PROVE  ChainInv'
<1>1. AuditChain' /\ Contiguous' /\ \A y : Follows(y) => Follows(y)'
  BY TrailGrows DEF ChainInv, Recorded
<1>2. BuffersDiffer'
  BY DEF ChainInv, BuffersDiffer
<1>3. BufferOK(r)'
  BY DEF BufferOK
<1>4. ASSUME NEW q \in Requests \ {r} PROVE HeadOK(q)' /\ BufferOK(q)' /\ RecordedOK(q)'
  <2>1. HeadOK(q)'
    BY <1>4 DEF ChainInv, HeadOK
  <2>2. BufferOK(q)'
    BY <1>1, <1>4 DEF ChainInv, BufferOK, SeqStored, InTxn, Verdict, Kind
  <2>3. RecordedOK(q)'
    BY <1>4 DEF ChainInv, RecordedOK, Recorded, InTxn
  <2>4. QED BY <2>1, <2>2, <2>3
<1>5. QED BY <1>1, <1>2, <1>3, <1>4 DEF ChainInv

\* What a handler appends follows the head it read.
LEMMA NextRecordFollows ==
  ASSUME TypeInv, ChainInv, NEW r \in Requests, pc[r] \in {"append", "record"},
         NEW v \in Verdicts
  PROVE  Follows(NextRecord(r, v))
<1>1. local[r] \in Locals
  BY DEF TypeInv, TypeOK
<1>2. CASE local[r].head = [seq |-> 0, id |-> Genesis]
  BY <1>2, NextRecordType DEF Follows, TypeInv, TypeOK
<1>3. CASE \E y \in audit : y.seq = local[r].head.seq /\ y.id = local[r].head.id
  <2>1. PICK y \in audit : y.seq = local[r].head.seq /\ y.id = local[r].head.id
    BY <1>3
  <2>2. NextRecord(r, v).seq = local[r].head.seq + 1 /\ NextRecord(r, v).prev = y.id
    BY <2>1, NextRecordType DEF TypeInv, TypeOK
  <2>3. local[r].head.seq \in Nat
    BY <1>1 DEF Locals
  <2>4. QED BY <2>1, <2>2, <2>3 DEF Follows
<1>4. QED BY <1>2, <1>3 DEF ChainInv, HeadOK

-----------------------------------------------------------------------------
(* Every step keeps ChainInv.                                              *)

\* The head a handler reads stays the record it was, however the trail grows.
LEMMA AuditHeadChain ==
  ASSUME TypeInv, ChainInv, NEW r \in Requests, AuditHead(r) \/ RefusalHead(r)
  PROVE  ChainInv'
<1>1. PICK l \in {"append", "record"} :
        /\ pc[r] = IF l = "append" THEN "head" ELSE "refuse"
        /\ Remember(r, "head", LastRecord) /\ Goto(r, l)
        /\ UNCHANGED <<store, domain, call, answer>>
  BY DEF AuditHead, RefusalHead
<1>2. HasLast
  BY ContiguousHasLast DEF ChainInv
<1>3. /\ local'[r].head = LastRecord
      /\ \A q \in Requests \ {r} : local'[q] = local[q]
  BY <1>1, <1>2, LastRecordFacts, RememberHead DEF TypeInv, TypeOK, StoreTypeOK
<1>4. HeadOK(r)'
  <2>1. audit \subseteq AuditRecords
    BY DEF TypeInv, TypeOK, StoreTypeOK
  <2>2. QED BY <1>1, <1>2, <1>3, <2>1, LastRecordFacts DEF HeadOK, store
<1>5. txn[r].records = {}
  BY <1>1 DEF ChainInv, BufferOK
<1>6. RecordedOK(r)'
  BY <1>1 DEF ChainInv, RecordedOK, Recorded, After, Final, Goto, InTxn, TypeInv, TypeOK,
     store
<1>7. QED
  BY <1>1, <1>3, <1>4, <1>5, <1>6, TrailUntouched DEF Goto, TypeInv, TypeOK, store

\* A step of a request that reads no head, appends nothing and does not reach a
\* commit: the label decides the rest.
LEMMA OtherStepsChain ==
  ASSUME TypeInv, ChainInv, NEW r \in Requests, audit' = audit, pc' \in [Requests -> Labels],
         pc[r] # "done", pc'[r] \notin {"append", "record"},
         \A q \in Requests \ {r} : /\ pc'[q] = pc[q] /\ call'[q] = call[q]
                                   /\ local'[q] = local[q] /\ txn'[q] = txn[q],
         \/ txn'[r].records = {}
         \/ /\ txn'[r].records = txn[r].records /\ txn'[r].open
            /\ pc'[r] \in {"inc", "add", "commit"} /\ call'[r] = call[r],
         pc[r] \in After => pc'[r] \in After /\ (~InTxn(r) => ~InTxn(r)')
  PROVE  ChainInv'
<1>1. HeadOK(r)'
  BY DEF HeadOK
<1>2. RecordedOK(r)'
  <2>1. ASSUME NEW v \in Verdicts, Recorded(r, v)'
        PROVE  v # "refused" /\ pc'[r] \in After /\ ~InTxn(r)'
    <3>1. Recorded(r, v)
      BY <2>1 DEF Recorded
    <3>2. QED BY <3>1 DEF ChainInv, RecordedOK
  <2>2. QED BY <2>1 DEF RecordedOK
<1>3. QED BY <1>1, <1>2, TrailUntouched

\* The steps that do not touch the store's sessions.
LEMMA OutsideSession ==
  ASSUME TypeInv, ChainInv, NEW r \in Requests, UNCHANGED <<audit, txn>>,
         pc[r] \notin {"inc", "add", "commit", "done"},
         pc' \in [Requests -> Labels], pc'[r] \notin {"append", "record"},
         pc[r] \in After => pc'[r] \in After,
         \A q \in Requests \ {r} : /\ pc'[q] = pc[q] /\ call'[q] = call[q]
                                   /\ local'[q] = local[q]
  PROVE  ChainInv'
<1>1. txn'[r].records = {}
  BY DEF ChainInv, BufferOK
<1>2. QED BY <1>1, OtherStepsChain DEF InTxn

\* The steps that leave the trail, the heads and the sessions alone.
LEMMA LocalStepsChain ==
  ASSUME ConstantsAssumption, TypeInv, TypeInv', ChainInv, NEW r \in Requests,
         \/ Arrive(r) \/ ReserveInsert(r) \/ ReserveFind(r) \/ Complete(r) \/ Release(r)
         \/ Load(r) \/ Attempt(r) \/ Settle(r)
  PROVE  ChainInv'
<1>1. CASE Arrive(r)
  <2>1. PICK c \in Calls : Goto(r, IF HasAccess(c) THEN FirstStep(c) ELSE "refuse")
    BY <1>1 DEF Arrive
  <2>2. pc'[r] \notin {"append", "record"}
    BY <2>1, CallFields DEF FirstStep, Goto, TypeInv, TypeOK
  <2>3. QED BY <1>1, <2>2, OutsideSession DEF Arrive, Goto, TypeInv, TypeOK, After, Final, store
<1>2. CASE ReserveInsert(r)
  BY <1>2, OutsideSession DEF ReserveInsert, Operate, Goto, TypeInv, TypeOK, After, Final
<1>3. CASE ReserveFind(r)
  BY <1>3, OutsideSession DEF ReserveFind, Operate, Goto, Answer, TypeInv, TypeOK, After, Final,
     store
<1>4. CASE Complete(r)
  BY <1>4, OutsideSession DEF Complete, Answer, TypeInv, TypeOK, After, Final
<1>5. CASE Release(r)
  BY <1>5, OutsideSession DEF Release, Goto, TypeInv, TypeOK, After, Final
<1>6. CASE Load(r)
  BY <1>6, OutsideSession DEF Load, Goto, TypeInv, TypeOK, After, Final, store
<1>7. CASE Attempt(r)
  BY <1>7, OutsideSession DEF Attempt, Goto, Remember, TypeInv, TypeOK, After, Final, store
<1>8. CASE Settle(r)
  BY <1>8, OutsideSession DEF Settle, Goto, Answer, TypeInv, TypeOK, After, Final, store
<1>9. QED BY <1>1, <1>2, <1>3, <1>4, <1>5, <1>6, <1>7, <1>8

\* A session that starts or aborts has an empty buffer.
LEMMA SessionStepsChain ==
  ASSUME TypeInv, TypeInv', ChainInv, NEW r \in Requests,
         Begin(r) \/ BeginRevoke(r) \/ StoreFails(r) \/ Crash(r)
  PROVE  ChainInv'
<1>1. txn'[r].records = {} /\ \A q \in Requests \ {r} : txn'[q] = txn[q]
  <2>1. txn \in [Requests -> Sessions] /\ sequence \in Nat
    BY DEF TypeInv, TypeOK, StoreTypeOK
  <2>2. CASE \E change \in BOOLEAN : StartTransaction(r, change)
    BY <2>1, <2>2, Starting
  <2>3. CASE Abort(r)
    BY <2>1, <2>3, Aborting
  <2>4. CASE pc[r] = "begin" /\ txn' = txn
    BY <2>4 DEF ChainInv, BufferOK
  <2>5. QED BY <2>2, <2>3, <2>4 DEF Begin, BeginRevoke, StoreFails, Crash
<1>2. /\ audit' = audit /\ pc[r] # "done"
      /\ \A q \in Requests \ {r} : call'[q] = call[q] /\ local'[q] = local[q]
  BY DEF Begin, BeginRevoke, StoreFails, Crash, Remember, TypeInv, TypeOK, LabelOK, Live, Final,
     InSession
<1>3. PICK l \in {"release", "refuse", "head", "dead"} :
        /\ Goto(r, l)
        /\ pc[r] \in After => l # "head" /\ ~InTxn(r)'
  <2>1. CASE Begin(r) \/ BeginRevoke(r)
    BY <2>1 DEF Begin, BeginRevoke, Failure, After, Final
  <2>2. CASE StoreFails(r) \/ Crash(r)
    BY <2>2, Aborting DEF StoreFails, Crash, Failure, InTxn, TypeInv, TypeOK, StoreTypeOK
  <2>3. QED BY <2>1, <2>2
<1>4. pc' = [pc EXCEPT ![r] = l] /\ pc \in [Requests -> Labels] /\ pc' \in [Requests -> Labels]
  BY <1>3 DEF Goto, TypeInv, TypeOK
<1>5. QED BY <1>1, <1>2, <1>3, <1>4, OtherStepsChain DEF After, Final

\* The counter and the outbox are no part of the trail.
LEMMA EventStepsChain ==
  ASSUME TypeInv, TypeInv', ChainInv, NEW r \in Requests, NextSequence(r) \/ AddEvent(r)
  PROVE  ChainInv'
<1>1. /\ audit' = audit /\ call' = call /\ pc[r] \in {"inc", "add"} /\ pc[r] \in InSession
      /\ \A q \in Requests \ {r} : local'[q] = local[q]
  BY DEF NextSequence, AddEvent, Remember, TypeInv, TypeOK, InSession
<1>2. CASE Abort(r) /\ Goto(r, Failure(r))
  <2>1. ~txn'[r].open /\ txn'[r].records = {} /\ \A q \in Requests \ {r} : txn'[q] = txn[q]
    BY <1>2, Aborting DEF TypeInv, TypeOK, StoreTypeOK
  <2>2. pc'[r] \in {"release", "refuse"} /\ \A q \in Requests \ {r} : pc'[q] = pc[q]
    BY <1>1, <1>2, FailureLabel DEF Goto, TypeInv, TypeOK
  <2>3. QED BY <1>1, <2>1, <2>2, OtherStepsChain DEF After, Final, TypeInv, TypeOK, InTxn
<1>3. CASE \/ TakeNumber(r) /\ Goto(r, "add")
           \/ AddEvent(r)
  <2>1. /\ txn'[r].open = txn[r].open /\ txn'[r].records = txn[r].records
        /\ \A q \in Requests \ {r} : txn'[q] = txn[q]
    <3>1. CASE TakeNumber(r)
      BY <3>1, Drawing DEF TypeInv, TypeOK, StoreTypeOK
    <3>2. CASE AddEvent(r)
      <4>1. [seq |-> local[r].number, by |-> r] \in Events
        BY <3>2 DEF AddEvent, Events, TypeInv, TypeOK, LabelOK, Locals
      <4>2. QED BY <3>2, <4>1, Emitting DEF AddEvent, TypeInv, TypeOK, StoreTypeOK
    <3>3. QED BY <1>3, <3>1, <3>2
  <2>2. /\ pc'[r] \in {"inc", "add", "commit", "settle"}
        /\ pc'[r] \in {"commit"} => InTxn(r)
        /\ pc'[r] = "settle" => ~InTxn(r)
        /\ \A q \in Requests \ {r} : pc'[q] = pc[q]
    BY <1>3 DEF AddEvent, AfterRecording, Goto, TypeInv, TypeOK
  <2>3. txn[r].records = {} \/ InTxn(r)
    BY DEF ChainInv, BufferOK
  <2>4. pc[r] \in After /\ (InTxn(r) \/ pc'[r] \in After)
    BY <1>1, <2>2 DEF After, Final
  <2>5. CASE ~InTxn(r)
    BY <1>1, <2>1, <2>2, <2>3, <2>4, <2>5, OtherStepsChain DEF TypeInv, TypeOK, InTxn
  <2>6. CASE InTxn(r)
    <3>1. HeadOK(r)'
      BY <2>2 DEF HeadOK
    <3>2. RecordedOK(r)'
      BY <1>1, <2>6 DEF ChainInv, RecordedOK, Recorded
    <3>3. QED BY <1>1, <2>1, <2>2, <2>6, <3>1, <3>2, TrailUntouched DEF InTxn
  <2>7. QED BY <2>5, <2>6
<1>4. QED BY <1>2, <1>3 DEF NextSequence

\* A record appended without a session joins the trail at once.
LEMMA DirectAppendChain ==
  ASSUME TypeInv, ChainInv, NEW r \in Requests, NEW v \in Verdicts,
         pc[r] \in {"append", "record"}, ~InTxn(r), ~Recorded(r, v),
         ~SeqTaken(r, NextRecord(r, v).seq), InsertRecord(r, NextRecord(r, v)),
         call' = call, pc' \in [Requests -> Labels],
         \A q \in Requests \ {r} : pc'[q] = pc[q] /\ local'[q] = local[q],
         IF v = "refused" THEN pc'[r] = "done"
         ELSE /\ pc'[r] \in {"inc", "settle"} /\ ~Recorded(r, "refused")
  PROVE  ChainInv'
<1>1. DEFINE x == NextRecord(r, v)
<1>2. x \in AuditRecords /\ x.id = <<r, v>> /\ Follows(x)
  BY NextRecordType, NextRecordFollows DEF TypeInv, TypeOK
<1>3. audit' = audit \cup {x} /\ txn' = txn
  BY <1>2, Inserting DEF TypeInv, TypeOK, StoreTypeOK
<1>4. /\ ~SeqStored(x.seq)
      /\ \A q \in Requests \ {r} : \A y \in txn[q].records : y.seq # x.seq
  BY DEF SeqTaken, SeqHeld
<1>5. txn'[r].records = {}
  BY <1>3 DEF ChainInv, BufferOK
<1>6. HeadOK(r)'
  BY DEF HeadOK
<1>7. RecordedOK(r)'
  <2>1. ASSUME NEW w \in Verdicts, Recorded(r, w)'
        PROVE  IF w = "refused" THEN pc'[r] = "done" ELSE pc'[r] \in After /\ ~InTxn(r)'
    <3>1. w = v \/ Recorded(r, w)
      BY <1>2, <1>3, <2>1 DEF Recorded
    <3>2. Recorded(r, "refused") => pc[r] = "done"
      BY DEF ChainInv, RecordedOK, Verdicts
    <3>3. QED BY <1>3, <3>1, <3>2 DEF After, Final, InTxn
  <2>2. QED BY <2>1 DEF RecordedOK
<1>8. QED BY <1>2, <1>3, <1>4, <1>5, <1>6, <1>7, TrailExtended

\* A refusal's record goes where no record is, right after the head it read.
LEMMA RefusalAppendChain ==
  ASSUME TypeInv, TypeInv', ChainInv, NEW r \in Requests, RefusalAppend(r)
  PROVE  ChainInv'
<1>1. /\ pc[r] = "record" /\ ~InTxn(r) /\ call' = call /\ pc'[r] = "done"
      /\ pc' \in [Requests -> Labels]
      /\ \A q \in Requests \ {r} : pc'[q] = pc[q] /\ local'[q] = local[q]
  BY DEF RefusalAppend, Answer, TypeInv, TypeOK, LabelOK, InSession
<1>2. CASE /\ ~SeqTaken(r, NextRecord(r, "refused").seq)
           /\ InsertRecord(r, NextRecord(r, "refused"))
  <2>1. ~Recorded(r, "refused")
    BY <1>1 DEF ChainInv, RecordedOK, Verdicts
  <2>2. QED BY <1>1, <1>2, <2>1, DirectAppendChain DEF Verdicts
<1>3. CASE UNCHANGED <<audit, txn>>
  BY <1>1, <1>3, OutsideSession DEF After, Final
<1>4. QED BY <1>2, <1>3 DEF RefusalAppend

\* An append inside a session is buffered; outside one it extends the trail.
LEMMA AuditAppendChain ==
  ASSUME TypeInv, TypeInv', ChainInv, NEW r \in Requests, AuditAppend(r)
  PROVE  ChainInv'
<1>1. DEFINE v == Verdict(r)
             x == NextRecord(r, v)
<1>2. /\ pc[r] = "append" /\ call' = call /\ v \in Verdicts /\ v # "refused"
      /\ pc' \in [Requests -> Labels] /\ txn \in [Requests -> Sessions]
      /\ audit \subseteq AuditRecords /\ pc[r] \in InSession
  BY DEF AuditAppend, Verdict, Verdicts, TypeInv, TypeOK, StoreTypeOK, InSession
<1>3. \A w \in Verdicts : ~Recorded(r, w)
  BY <1>2 DEF ChainInv, RecordedOK, After, Final
<1>4. txn[r].records = {}
  BY <1>2 DEF ChainInv, BufferOK
<1>5. CASE Abort(r) /\ Goto(r, Failure(r)) /\ UNCHANGED <<audit, answer, local>>
  <2>1. ~txn'[r].open /\ txn'[r].records = {} /\ \A q \in Requests \ {r} : txn'[q] = txn[q]
    BY <1>2, <1>5, Aborting
  <2>2. pc'[r] \in {"release", "refuse"} /\ \A q \in Requests \ {r} : pc'[q] = pc[q]
    BY <1>2, <1>5, FailureLabel DEF Goto, TypeInv, TypeOK
  <2>3. QED BY <1>2, <1>5, <2>1, <2>2, OtherStepsChain DEF After, Final, InTxn
<1>6. CASE ~InTxn(r) /\ Answer(r, "error", None) /\ UNCHANGED <<audit, txn>>
  BY <1>2, <1>6, OutsideSession DEF Answer, After, Final, TypeInv, TypeOK
<1>7. CASE /\ ~SeqTaken(r, x.seq) /\ InsertRecord(r, x)
           /\ Goto(r, AfterRecording(r, local[r].todo))
           /\ UNCHANGED <<answer, local>>
  <2>1. /\ x \in AuditRecords /\ x.id = <<r, v>> /\ Follows(x)
        /\ ~SeqStored(x.seq)
        /\ \A q \in Requests \ {r} : \A y \in txn[q].records : y.seq # x.seq
    BY <1>2, <1>7, NextRecordType, NextRecordFollows DEF SeqTaken, SeqHeld, TypeInv, TypeOK
  <2>2. \A q \in Requests \ {r} : pc'[q] = pc[q] /\ local'[q] = local[q] /\ txn'[q] = txn[q]
    BY <1>2, <1>7, <2>1, Inserting DEF Goto, TypeInv, TypeOK
  <2>3. CASE ~InTxn(r)
    <3>1. pc'[r] \in {"inc", "settle"}
      BY <1>7, <2>3 DEF AfterRecording, Goto, TypeInv, TypeOK
    <3>2. QED BY <1>2, <1>3, <1>7, <2>2, <2>3, <3>1, DirectAppendChain DEF Verdicts
  <2>4. CASE InTxn(r)
    <3>1. audit' = audit /\ txn'[r].records = {x} /\ txn'[r].open
      BY <1>2, <1>4, <1>7, <2>1, <2>4, Inserting DEF InTxn
    <3>2. pc'[r] \in {"inc", "commit"}
      BY <1>7, <2>4 DEF AfterRecording, Goto, TypeInv, TypeOK
    <3>3. AuditChain' /\ Contiguous' /\ \A y : Follows(y)' <=> Follows(y)
      BY <3>1 DEF ChainInv, AuditChain, Contiguous, Follows, SeqStored
    <3>4. BuffersDiffer'
      BY <2>1, <2>2, <3>1 DEF ChainInv, BuffersDiffer
    <3>5. HeadOK(r)' /\ RecordedOK(r)'
      BY <1>3, <3>1, <3>2 DEF HeadOK, RecordedOK, Recorded
    <3>6. BufferOK(r)'
      BY <1>2, <2>1, <3>1, <3>2, <3>3 DEF BufferOK, InTxn, SeqStored, Verdict, Kind
    <3>7. ASSUME NEW q \in Requests \ {r} PROVE HeadOK(q)' /\ BufferOK(q)' /\ RecordedOK(q)'
      BY <1>2, <2>2, <3>1, <3>3, <3>7 DEF ChainInv, HeadOK, BufferOK, RecordedOK, SeqStored,
         Recorded, InTxn, Verdict, Kind
    <3>8. QED BY <3>3, <3>4, <3>5, <3>6, <3>7 DEF ChainInv
  <2>5. QED BY <2>3, <2>4
<1>8. QED BY <1>5, <1>6, <1>7 DEF AuditAppend

\* A commit makes its buffered record visible: still the next after the last.
LEMMA CommitChain ==
  ASSUME TypeInv, TypeInv', ChainInv, NEW r \in Requests,
         Commit(r) \/ CommitUnacknowledged(r)
  PROVE  ChainInv'
<1>1. /\ pc[r] = "commit" /\ CommitWrites(r) /\ call' = call
      /\ pc' \in [Requests -> Labels] /\ audit \subseteq AuditRecords
      /\ txn \in [Requests -> Sessions]
      /\ pc[r] \in InSession
  BY DEF Commit, CommitUnacknowledged, TypeInv, TypeOK, StoreTypeOK, InSession
<1>2. /\ audit' = audit \cup txn[r].records /\ ~txn'[r].open /\ txn'[r].records = {}
      /\ \A q \in Requests \ {r} : txn'[q] = txn[q]
  BY <1>1, Committing DEF TypeInv, TypeOK
<1>3. /\ pc'[r] \in {"complete", "done", "release", "refuse"}
      /\ \A q \in Requests \ {r} : pc'[q] = pc[q] /\ local'[q] = local[q]
  BY FailureLabel, <1>1 DEF Commit, CommitUnacknowledged, Goto, Answer, TypeInv, TypeOK
<1>4. \A w \in Verdicts : ~Recorded(r, w)
  BY <1>1 DEF ChainInv, RecordedOK, After, Final
<1>5. CASE txn[r].records = {}
  BY <1>1, <1>2, <1>3, <1>5, OtherStepsChain DEF After, Final
<1>6. CASE txn[r].records # {}
  <2>1. PICK x \in txn[r].records : TRUE
    BY <1>6
  <2>2. txn[r].records = {x}
    BY <2>1 DEF ChainInv, BuffersDiffer
  <2>3. /\ x \in AuditRecords /\ x.id = <<r, Verdict(r)>> /\ Follows(x) /\ ~SeqStored(x.seq)
    BY <1>1, <2>1 DEF ChainInv, BufferOK, Sessions
  <2>4. \A q \in Requests \ {r} : \A y \in txn[q].records : y.seq # x.seq
    <3>1. ASSUME NEW q \in Requests \ {r}, NEW y \in txn[q].records, y.seq = x.seq
          PROVE  FALSE
      <4>1. y = x
        BY <2>1, <3>1 DEF ChainInv, BuffersDiffer
      <4>2. y.id = <<q, Verdict(q)>>
        BY <3>1 DEF ChainInv, BufferOK
      <4>3. QED BY <2>3, <4>1, <4>2
    <3>2. QED BY <3>1
  <2>5. HeadOK(r)'
    BY <1>3 DEF HeadOK
  <2>6. RecordedOK(r)'
    <3>1. \A w \in Verdicts : Recorded(r, w)' => w = Verdict(r)
      BY <1>2, <1>4, <2>2, <2>3 DEF Recorded
    <3>2. QED BY <1>2, <1>3, <3>1 DEF RecordedOK, After, Final, InTxn, Verdict
  <2>7. Verdict(r) \in Verdicts
    BY DEF Verdict, Verdicts
  <2>8. QED
    BY <1>1, <1>2, <1>3, <1>4, <2>2, <2>3, <2>4, <2>5, <2>6, <2>7, TrailExtended
<1>7. QED BY <1>5, <1>6

\* Every step of the next-state relation keeps ChainInv.
LEMMA StepChain ==
  ASSUME ConstantsAssumption, TypeInv, TypeInv', ChainInv, [Next]_vars
  PROVE  ChainInv'
<1>1. ASSUME NEW r \in Requests, Arrive(r) \/ Step(r) \/ Fault(r) PROVE ChainInv'
  BY <1>1, LocalStepsChain, SessionStepsChain, EventStepsChain, AuditHeadChain,
     AuditAppendChain, RefusalAppendChain, CommitChain DEF Step, Fault
<1>2. CASE UNCHANGED vars \/ \E k \in Keys : Sweep(k)
  <2>1. UNCHANGED <<audit, txn, pc, call, local>>
    BY <1>2 DEF Sweep, vars, store
  <2>2. AuditChain' /\ Contiguous' /\ BuffersDiffer'
    BY <2>1 DEF ChainInv, AuditChain, Contiguous, BuffersDiffer, Follows, SeqStored
  <2>3. \A r \in Requests : HeadOK(r)' /\ BufferOK(r)' /\ RecordedOK(r)'
    BY <2>1 DEF ChainInv, HeadOK, BufferOK, RecordedOK, Follows, SeqStored, Recorded, InTxn,
       Verdict, Kind
  <2>4. QED BY <2>2, <2>3 DEF ChainInv
<1>3. QED BY <1>1, <1>2 DEF Next

\* The initial states satisfy ChainInv: the trail is empty.
LEMMA InitChain == ASSUME Init PROVE ChainInv
<1>1. audit = {} /\ \A r \in Requests : pc[r] = "idle" /\ txn[r].records = {}
  BY DEF Init, StoreInit, Closed
<1>2. AuditChain /\ BuffersDiffer
  BY <1>1 DEF AuditChain, BuffersDiffer
<1>3. Contiguous
  <2>1. \A i \in Nat \ {0} : SeqStored(i) <=> i <= 0
    BY <1>1 DEF SeqStored
  <2>2. QED BY <2>1 DEF Contiguous
<1>4. \A r \in Requests : HeadOK(r) /\ BufferOK(r) /\ RecordedOK(r)
  BY <1>1 DEF HeadOK, BufferOK, RecordedOK, Recorded
<1>5. QED BY <1>2, <1>3, <1>4 DEF ChainInv

-----------------------------------------------------------------------------
(* The theorems                                                            *)

\* In every reachable state the store, the handlers and what the label of each
\* handler says of it are as they should be, and so is the chain.
THEOREM Inductive == Spec => [](TypeInv /\ ChainInv)
<1>1. Init => TypeInv /\ ChainInv
  BY InitType, InitChain
<1>2. TypeInv /\ ChainInv /\ [Next]_vars => TypeInv' /\ ChainInv'
  <2>1. SUFFICES ASSUME TypeInv, ChainInv, [Next]_vars PROVE TypeInv' /\ ChainInv'
    OBVIOUS
  <2>2. TypeInv'
    BY <2>1, ConstantsAssumption, ContiguousHasLast, StepType DEF ChainInv
  <2>3. QED BY <2>1, <2>2, ConstantsAssumption, StepChain
<1>3. QED BY <1>1, <1>2, PTL DEF Spec

\* Types: every variable keeps its shape, whatever requests arrive, however they
\* interleave and whatever fails.
THEOREM TypeCorrect == Spec => []TypeOK
<1>1. TypeInv => TypeOK
  BY DEF TypeInv
<1>2. QED BY <1>1, Inductive, PTL

\* The audit trail is a chain: the unique index on (tenant_id, seq), a head read
\* that may be stale, appends inside and outside transactions, aborted and
\* unacknowledged commits never break what verify_chain walks.
THEOREM ChainNeverBreaks == Spec => []AuditChain
<1>1. ChainInv => AuditChain
  BY DEF ChainInv
<1>2. QED BY <1>1, Inductive, PTL

=============================================================================
