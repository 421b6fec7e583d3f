----------------------------- MODULE WritePath -----------------------------
(***************************************************************************)
(* The write handlers of the middleware API, running concurrently against  *)
(* MongoDB: keyed creations (tickets, callbacks, refund requests), refund  *)
(* decisions, account assignments, passcode checks, and the recording of   *)
(* refusals.  One process per request; one action per database call, since *)
(* each is an await at which other requests (of this replica or another)   *)
(* run.  One tenant, one customer account, one refund request awaiting a   *)
(* decision: every key, filter and index in the code starts with the       *)
(* tenant, so tenants do not meet.                                         *)
(***************************************************************************)
EXTENDS MongoStore

CONSTANTS Actors,     \* identities that call the service
          Agents,     \* those that act for a customer through an assignment
          Requester,  \* the identity that asked for the refund
          Calls,      \* the requests a run lets arrive
          Faults      \* which faults may strike

Decisions == {"approved", "rejected"}
Outcomes == {"match", "mismatch", "lockout", "locked", "unknown"}

\* "crash": the handler is cancelled, its process dies, or a driver error
\* escapes it; "store": a database error inside a transaction; "lost_commit": a
\* commit is applied and its acknowledgement lost; "sweep": the TTL index.
FaultNames == {"crash", "store", "lost_commit", "sweep"}

CallTypes ==
  [kind : {"create"}, actor : Actors, key : Keys \cup {None}, body : Bodies, valid : BOOLEAN]
  \cup [kind : {"decide"}, actor : Actors, body : Decisions]
  \cup [kind : {"assign", "revoke"}, actor : Actors, body : Agents]
  \cup [kind : {"authenticate"}, actor : Actors, body : Outcomes]

ASSUME ConstantsAssumption ==
  /\ Agents \subseteq Actors
  /\ Requester \in Actors
  /\ Calls \subseteq CallTypes
  /\ Faults \subseteq FaultNames
  /\ None \notin Requests \cup Keys
  /\ None \notin KeyDocs /\ None \notin CallTypes

VARIABLES pc,        \* request -> the database call it makes next
          call,      \* request -> what it asks for
          local,     \* request -> what its handler holds across awaits
          answer,    \* request -> what the caller was told
          approval,  \* the refund request
          assigned,  \* agents assigned to the account
          changed,   \* history: requests whose state change is durable
          ran,       \* history: key -> requests that changed state under its reservation
          leaky,     \* history: keys whose reservation was bypassed
          unsure     \* history: requests whose commit lost its acknowledgement

store == <<audit, sequence, outbox, keys, txn>>
domain == <<approval, assigned, changed, ran, leaky, unsure>>
vars == <<store, domain, pc, call, local, answer>>

Pending == [state |-> "pending", by |-> None]
NoAnswer == [status |-> "none", result |-> None]
NoLocal == [head |-> [seq |-> 0, id |-> Genesis], number |-> 0, todo |-> 0]
Final == {"done", "dead"}
Live(r) == pc[r] \notin Final \cup {"idle"}

Kind(r) == call[r].kind
Goto(r, label) == pc' = [pc EXCEPT ![r] = label]
\* The handler ends, its local state with it.
Answer(r, status, result) ==
  /\ pc' = [pc EXCEPT ![r] = "done"]
  /\ answer' = [answer EXCEPT ![r] = [status |-> status, result |-> result]]
  /\ local' = [local EXCEPT ![r] = NoLocal]
Remember(r, field, value) == local' = [local EXCEPT ![r][field] = value]
-----------------------------------------------------------------------------
(* Entry: authentication of the caller has succeeded; account access next. *)

\* A customer is checked against the token, an agent against the assignments.
HasAccess(c) ==
  c.kind \in {"create", "authenticate"} /\ c.actor \in Agents => c.actor \in assigned

FirstStep(c) ==
  CASE c.kind = "create" -> "reserve"
    [] c.kind = "decide" -> "load"
    [] c.kind \in {"assign", "revoke"} -> "begin"
    [] c.kind = "authenticate" -> "attempt"

Arrive(r) ==
  /\ pc[r] = "idle"
  /\ \E c \in Calls :
       /\ call' = [call EXCEPT ![r] = c]
       /\ Goto(r, IF HasAccess(c) THEN FirstStep(c) ELSE "refuse")
  /\ UNCHANGED <<store, domain, local, answer>>

-----------------------------------------------------------------------------
(* idempotent_write: reserve, run the operation, complete or release.      *)

\* The operation of a refund request reads the invoice first and may raise.
Operate(r) == Goto(r, IF call[r].valid THEN "begin" ELSE "release")

\* Mutant: an upsert where the code inserts, so a reservation is taken over.
ReserveUpsert(r) ==
  /\ pc[r] = "reserve"
  /\ IF call[r].key = None
       THEN Goto(r, "refuse") /\ keys' = keys
       ELSE InsertKey(r, call[r].key, call[r].body) /\ Operate(r)
  /\ UNCHANGED <<audit, sequence, outbox, txn, domain, call, local, answer>>

ReserveInsert(r) ==
  /\ pc[r] = "reserve"
  /\ \/ /\ call[r].key = None
        /\ Goto(r, "refuse")
        /\ keys' = keys
     \/ /\ call[r].key # None
        /\ keys[call[r].key] = None
        /\ InsertKey(r, call[r].key, call[r].body)
        /\ Operate(r)
     \/ /\ call[r].key # None
        /\ keys[call[r].key] # None
        /\ Goto(r, "find")
        /\ keys' = keys
  /\ UNCHANGED <<audit, sequence, outbox, txn, domain, call, local, answer>>

\* Mutant: the stored fingerprint is not compared.
ReserveFindAnyBody(r) ==
  /\ pc[r] = "find"
  /\ LET k == call[r].key IN
     IF keys[k] = None
       THEN leaky' = leaky \cup {k} /\ Operate(r) /\ UNCHANGED <<answer, local>>
     ELSE IF keys[k].result = None
       THEN Goto(r, "refuse") /\ UNCHANGED <<leaky, answer, local>>
     ELSE Answer(r, "replayed", keys[k].result) /\ leaky' = leaky
  /\ UNCHANGED <<store, approval, assigned, changed, ran, unsure, call>>

ReserveFind(r) ==
  /\ pc[r] = "find"
  /\ LET k == call[r].key IN
     \/ /\ keys[k] = None
        /\ leaky' = leaky \cup {k}
        /\ Operate(r)
        /\ UNCHANGED <<answer, local>>
     \/ /\ keys[k] # None
        /\ \/ keys[k].body # call[r].body
           \/ keys[k].result = None
        /\ Goto(r, "refuse")
        /\ UNCHANGED <<leaky, answer, local>>
     \/ /\ keys[k] # None
        /\ keys[k].body = call[r].body
        /\ keys[k].result # None
        /\ Answer(r, "replayed", keys[k].result)
        /\ leaky' = leaky
  /\ UNCHANGED <<store, approval, assigned, changed, ran, unsure, call>>

Complete(r) ==
  /\ pc[r] = "complete"
  /\ CompleteKey(call[r].key, r)
  /\ Answer(r, "ok", r)
  /\ UNCHANGED <<audit, sequence, outbox, txn, domain, call>>

Release(r) ==
  /\ pc[r] = "release"
  /\ ReleaseKey(call[r].key)
  /\ Goto(r, "refuse")
  /\ UNCHANGED <<audit, sequence, outbox, txn, domain, call, local, answer>>

-----------------------------------------------------------------------------
(* The state change itself, the first operation of the transaction.        *)

\* Mutant: the exception is swallowed, and the operation counted as done.
FailureIgnored(r) == IF Kind(r) = "create" THEN "complete" ELSE "refuse"

\* Mutant: the exception goes straight to the caller.
FailureKeepsKey(r) == "refuse"

\* StoreUnavailableError, or any error raised inside the transaction.
Failure(r) == IF Kind(r) = "create" THEN "release" ELSE "refuse"

Load(r) ==
  /\ pc[r] = "load"
  /\ Goto(r, IF approval.state = "pending" /\ call[r].actor # Requester
               THEN "begin" ELSE "refuse")
  /\ UNCHANGED <<store, domain, call, local, answer>>

\* Does another open transaction hold the document this one would write?
Blocked(r) ==
  \E q \in Requests \ {r} :
    /\ txn[q].change
    /\ \/ Kind(r) = "decide" /\ Kind(q) = "decide"
       \/ /\ Kind(r) \in {"assign", "revoke"}
          /\ Kind(q) = "assign"
          /\ call[q].body = call[r].body

\* How many events the handler emits after its audit record.
EventsOf(c) ==
  CASE c.kind \in {"create", "decide"} -> 1
    [] c.kind \in {"assign", "revoke"} -> 0
    [] c.kind = "authenticate" ->
         CASE c.body = "match" -> 0
           [] c.body = "lockout" -> 2
           [] OTHER -> 1

\* Mutant: decide() without "state: pending" in its filter.
BeginUnfiltered(r) ==
  /\ pc[r] = "begin"
  /\ Kind(r) # "revoke"
  /\ IF Blocked(r)
       THEN /\ Goto(r, Failure(r))
            /\ UNCHANGED <<txn, local>>
       ELSE /\ StartTransaction(r, TRUE)
            /\ Remember(r, "todo", EventsOf(call[r]))
            /\ Goto(r, "head")
  /\ UNCHANGED <<audit, sequence, outbox, keys, domain, call, answer>>

Begin(r) ==
  /\ pc[r] = "begin"
  /\ Kind(r) # "revoke"
  /\ IF Blocked(r) \/ (Kind(r) = "decide" /\ approval.state # "pending")
       THEN /\ Goto(r, Failure(r))
            /\ UNCHANGED <<txn, local>>
       ELSE /\ StartTransaction(r, TRUE)
            /\ Remember(r, "todo", EventsOf(call[r]))
            /\ Goto(r, "head")
  /\ UNCHANGED <<audit, sequence, outbox, keys, domain, call, answer>>

\* revoke() passes no session: the deletion is durable at once, whatever becomes
\* of the transaction around it.  It waits for a transaction that holds the
\* document; one that is only being inserted it does not see.
BeginRevoke(r) ==
  /\ pc[r] = "begin"
  /\ Kind(r) = "revoke"
  /\ IF call[r].body \in assigned
       THEN /\ ~Blocked(r)
            /\ assigned' = assigned \ {call[r].body}
            /\ changed' = changed \cup {r}
            /\ StartTransaction(r, FALSE)
            /\ Goto(r, "head")
       ELSE /\ Goto(r, Failure(r))
            /\ UNCHANGED <<assigned, changed, txn>>
  /\ UNCHANGED <<audit, sequence, outbox, keys, approval, ran, leaky, unsure, call, local, answer>>

\* A passcode attempt is one atomic update, outside any transaction.
Attempt(r) ==
  /\ pc[r] = "attempt"
  /\ IF call[r].body = "locked"
       THEN /\ Goto(r, "refuse")
            /\ UNCHANGED <<changed, local>>
       ELSE /\ changed' = IF call[r].body = "unknown" THEN changed ELSE changed \cup {r}
            /\ Remember(r, "todo", EventsOf(call[r]))
            /\ Goto(r, "head")
  /\ UNCHANGED <<store, approval, assigned, ran, leaky, unsure, call, answer>>

-----------------------------------------------------------------------------
(* Recorder.audit and Recorder.emit                                        *)

Verdict(r) ==
  IF Kind(r) = "authenticate" /\ call[r].body # "match" THEN "rejected" ELSE "accepted"

\* The record that would follow the head this handler read.
NextRecord(r, verdict) ==
  [seq |-> local[r].head.seq + 1, prev |-> local[r].head.id, id |-> <<r, verdict>>]

\* Mutant: one event too many.
AfterRecordingOffByOne(r, todo) ==
  IF todo >= 0 THEN "inc"
  ELSE IF InTxn(r) THEN "commit"
  ELSE "settle"

AfterRecording(r, todo) ==
  IF todo > 0 THEN "inc"
  ELSE IF InTxn(r) THEN "commit"
  ELSE "settle"

AuditHead(r) ==
  /\ pc[r] = "head"
  /\ Remember(r, "head", LastRecord)
  /\ Goto(r, "append")
  /\ UNCHANGED <<store, domain, call, answer>>

AuditAppend(r) ==
  /\ pc[r] = "append"
  /\ LET rec == NextRecord(r, Verdict(r)) IN
     \/ /\ InTxn(r)
        /\ SeqTaken(r, rec.seq)
        /\ Abort(r)
        /\ Goto(r, Failure(r))
        /\ UNCHANGED <<audit, answer, local>>
     \/ /\ ~InTxn(r)
        /\ SeqStored(rec.seq)            \* DuplicateKeyError, reported as a 500
        /\ Answer(r, "error", None)
        /\ UNCHANGED <<audit, txn>>
     \/ /\ ~SeqTaken(r, rec.seq)
        /\ InsertRecord(r, rec)
        /\ Goto(r, AfterRecording(r, local[r].todo))
        /\ UNCHANGED <<answer, local>>
  /\ UNCHANGED <<sequence, outbox, keys, domain, call>>

NextSequence(r) ==
  /\ pc[r] = "inc"
  /\ \/ /\ InTxn(r)
        /\ CounterConflict(r)
        /\ Abort(r)
        /\ Goto(r, Failure(r))
        /\ UNCHANGED <<sequence, local>>
     \/ /\ IF InTxn(r) THEN ~CounterConflict(r) ELSE ~CounterHeld(r)
        /\ TakeNumber(r)
        /\ Remember(r, "number", sequence + 1)
        /\ Goto(r, "add")
  /\ UNCHANGED <<audit, outbox, keys, domain, call, answer>>

AddEvent(r) ==
  /\ pc[r] = "add"
  /\ InsertEvent(r, [seq |-> local[r].number, by |-> r])
  /\ Remember(r, "todo", local[r].todo - 1)
  /\ Goto(r, AfterRecording(r, local[r].todo - 1))
  /\ UNCHANGED <<audit, sequence, keys, domain, call, answer>>

\* A passcode check ends: a wrong passcode is raised as a refusal.
Settle(r) ==
  /\ pc[r] = "settle"
  /\ \/ /\ Verdict(r) = "accepted"
        /\ Answer(r, "ok", None)
     \/ /\ Verdict(r) = "rejected"
        /\ Goto(r, "refuse")
        /\ UNCHANGED <<answer, local>>
  /\ UNCHANGED <<store, domain, call>>

-----------------------------------------------------------------------------
(* The end of the transaction                                              *)

\* What the commit makes durable besides the record and the event.
ApplyChange(r) ==
  /\ approval' = IF Kind(r) = "decide" THEN [state |-> call[r].body, by |-> r] ELSE approval
  /\ assigned' = IF Kind(r) = "assign" THEN assigned \cup {call[r].body} ELSE assigned
  /\ changed' = changed \cup {r}
  /\ ran' = IF Kind(r) = "create"
              THEN [ran EXCEPT ![call[r].key] = @ \cup {r}] ELSE ran

Commit(r) ==
  /\ pc[r] = "commit"
  /\ CommitWrites(r)
  /\ ApplyChange(r)
  /\ IF Kind(r) = "create"
       THEN Goto(r, "complete") /\ UNCHANGED <<answer, local>>
       ELSE Answer(r, "ok", None)
  /\ UNCHANGED <<keys, leaky, unsure, call>>

\* The commit took effect, and the driver reports that it may not have.
CommitUnacknowledged(r) ==
  /\ "lost_commit" \in Faults
  /\ pc[r] = "commit"
  /\ CommitWrites(r)
  /\ ApplyChange(r)
  /\ leaky' = IF Kind(r) = "create" THEN leaky \cup {call[r].key} ELSE leaky
  /\ unsure' = unsure \cup {r}
  /\ Goto(r, Failure(r))
  /\ UNCHANGED <<keys, call, local, answer>>

\* Any driver error inside the transaction aborts it.
StoreFails(r) ==
  /\ "store" \in Faults
  /\ InTxn(r)
  /\ Abort(r)
  /\ Goto(r, Failure(r))
  /\ UNCHANGED <<audit, sequence, outbox, keys, domain, call, local, answer>>

-----------------------------------------------------------------------------
(* _audit_refusal: best effort, outside any transaction                    *)

RefusalHead(r) ==
  /\ pc[r] = "refuse"
  /\ Remember(r, "head", LastRecord)
  /\ Goto(r, "record")
  /\ UNCHANGED <<store, domain, call, answer>>

\* Whatever the insertion raises is logged and swallowed.
\* Mutant: the append is retried with the head first read.
RefusalAppendRetried(r) ==
  /\ pc[r] = "record"
  /\ LET rec == NextRecord(r, "refused") IN
     /\ ~SeqTaken(r, rec.seq)
     /\ InsertRecord(r, rec)
  /\ Answer(r, "refused", None)
  /\ UNCHANGED <<sequence, outbox, keys, domain, call>>

RefusalAppend(r) ==
  /\ pc[r] = "record"
  /\ LET rec == NextRecord(r, "refused") IN
     \/ /\ ~SeqTaken(r, rec.seq)
        /\ InsertRecord(r, rec)
     \/ /\ SeqStored(rec.seq)
        /\ UNCHANGED <<audit, txn>>
  /\ Answer(r, "refused", None)
  /\ UNCHANGED <<sequence, outbox, keys, domain, call>>

-----------------------------------------------------------------------------
Crash(r) ==
  /\ "crash" \in Faults
  /\ Live(r)
  /\ Goto(r, "dead")
  /\ Abort(r)
  /\ local' = [local EXCEPT ![r] = NoLocal]
  /\ UNCHANGED <<audit, sequence, outbox, keys, domain, call, answer>>

\* The TTL index removes a key a day after it was inserted: by then no handler
\* that was given the key is still running, but others may be on their way to it.
Sweep(k) ==
  /\ "sweep" \in Faults
  /\ keys[k] # None
  /\ \A r \in Requests : Live(r) /\ Kind(r) = "create" /\ call[r].key = k =>
       pc[r] \in {"reserve", "find", "refuse", "record"}
  /\ keys' = [keys EXCEPT ![k] = None]
  /\ ran' = [ran EXCEPT ![k] = {}]
  /\ leaky' = leaky \ {k}
  /\ UNCHANGED <<audit, sequence, outbox, txn, approval, assigned, changed, unsure,
                 pc, call, local, answer>>

Step(r) ==
  \/ ReserveInsert(r) \/ ReserveFind(r) \/ Complete(r) \/ Release(r)
  \/ Load(r) \/ Begin(r) \/ BeginRevoke(r) \/ Attempt(r)
  \/ AuditHead(r) \/ AuditAppend(r) \/ NextSequence(r) \/ AddEvent(r) \/ Settle(r)
  \/ Commit(r) \/ RefusalHead(r) \/ RefusalAppend(r)

Fault(r) == CommitUnacknowledged(r) \/ StoreFails(r) \/ Crash(r)

Finished == \A r \in Requests : pc[r] \in Final

Next ==
  \/ \E r \in Requests : Arrive(r) \/ Step(r) \/ Fault(r)
  \/ \E k \in Keys : Sweep(k)
  \/ Finished /\ UNCHANGED vars

Init ==
  /\ StoreInit
  /\ pc = [r \in Requests |-> "idle"]
  /\ call = [r \in Requests |-> None]
  /\ local = [r \in Requests |-> NoLocal]
  /\ answer = [r \in Requests |-> NoAnswer]
  /\ approval = Pending
  /\ assigned = Agents
  /\ changed = {}
  /\ ran = [k \in Keys |-> {}]
  /\ leaky = {}
  /\ unsure = {}

Spec == Init /\ [][Next]_vars

\* A handler that was started and can take its next step eventually does: each
\* is a task of its own on the event loop, and the driver's calls return.
FairSpec == Spec /\ \A r \in Requests : WF_vars(Step(r))

-----------------------------------------------------------------------------
Labels == {"idle", "reserve", "find", "complete", "release", "load", "begin", "attempt",
           "head", "append", "inc", "add", "settle", "commit", "refuse", "record"}
          \cup Final
Locals == [head : [seq : Nat, id : EntryIds \cup {Genesis}], number : Nat, todo : 0 .. 2]
Answers == [status : {"none", "ok", "replayed", "refused", "error"},
            result : Requests \cup {None}]

TypeOK ==
  /\ StoreTypeOK
  /\ pc \in [Requests -> Labels]
  /\ call \in [Requests -> Calls \cup {None}]
  /\ local \in [Requests -> Locals]
  /\ answer \in [Requests -> Answers]
  /\ approval \in [state : Decisions \cup {"pending"}, by : Requests \cup {None}]
  /\ assigned \subseteq Agents
  /\ changed \subseteq Requests
  /\ ran \in [Keys -> SUBSET Requests]
  /\ leaky \subseteq Keys
  /\ unsure \subseteq Requests

-----------------------------------------------------------------------------
Transactional == {"create", "decide", "assign"}
Called(r) == call[r] # None
IsTransactional(r) == Called(r) /\ Kind(r) \in Transactional
Recorded(r, verdict) == \E x \in audit : x.id = <<r, verdict>>
Emitted(r) == \E e \in outbox : e.by = r

\* Is x the first record, or does it carry the hash of the one numbered before it?
Follows(x) ==
  \/ x.seq = 1 /\ x.prev = Genesis
  \/ \E y \in audit : y.seq = x.seq - 1 /\ x.prev = y.id

\* The audit trail always verifies: no two records share a number or an identity,
\* and each follows the one before it - what verify_chain walks - although heads
\* are read outside the transactions that append and some appends have none.
AuditChain ==
  /\ \A x, y \in audit : x.seq = y.seq \/ x.id = y.id => x = y
  /\ \A x \in audit : Follows(x)

\* A creation, a decision or an assignment is durable exactly when its audit
\* record is, and exactly when the event it owes is in the outbox (recording.py).
ChangeRecordEventTogether ==
  \A r \in Requests : IsTransactional(r) =>
    /\ r \in changed <=> Recorded(r, "accepted")
    /\ EventsOf(call[r]) = 1 => (r \in changed <=> Emitted(r))

\* Events written in a transaction become visible in the order of their
\* numbers: none appears below a number a subscriber may already have passed.
EventsAppearInOrder ==
  [][\A e \in outbox' \ outbox :
       IsTransactional(e.by) => \A f \in outbox : f.seq < e.seq]_vars

\* Two requests change state under one life of an idempotency key only when the
\* reservation was bypassed: a key found gone after the insertion failed
\* (idempotency.py reserve), or a commit whose acknowledgement was lost.
OnceUnlessLeaky ==
  \A k \in Keys \ leaky : \A p, q \in ran[k] : p = q

\* A replay answers with a creation that committed under the same key, during
\* the same life of it and, unless the key leaked, for the same request body.
ReplayNamesTheCreation ==
  [][\A r \in Requests :
       answer'[r] # answer[r] /\ answer'[r].status = "replayed" =>
         LET q == answer'[r].result
             k == call[r].key
         IN  /\ q \in ran[k]
             /\ k \notin leaky => call[q].body = call[r].body]_vars

\* A key reads "in progress" only while the handler that inserted it runs, or
\* after that handler died: no refusal or conflict leaves a key behind.
StuckOnlyAfterCrash ==
  \A k \in Keys : InProgress(k) => Live(keys[k].by) \/ pc[keys[k].by] = "dead"

\* A caller told that a creation, a decision or an assignment failed may try
\* again: nothing of it is durable, nor becomes so later, unless its own commit lost
\* its acknowledgement.  A caller told it succeeded finds it there.
AnswersAreTrue ==
  [][\A r \in Requests :
       IsTransactional(r) /\ (answer'[r] # answer[r] \/ r \in changed' \ changed) =>
         /\ answer'[r].status = "ok" => r \in changed'
         /\ answer'[r].status \in {"refused", "error"} => r \notin changed' \/ r \in unsure']_vars

\* One decision at most takes effect, the refund carries it, and the requester
\* did not make it, although the checks read the refund before the transaction.
OneDecision ==
  \A r \in changed : Kind(r) = "decide" =>
    /\ approval = [state |-> call[r].body, by |-> r]
    /\ call[r].actor # Requester

\* Every request that was let in is answered, whatever waits on whatever.
EveryRequestEnds == \A r \in Requests : Live(r) ~> ~Live(r)

\* A key does not stay "in progress", unless the handler that inserted it died.
KeysAreFreed ==
  \A k \in Keys : InProgress(k) ~> ~InProgress(k) \/ pc[keys[k].by] = "dead"

-----------------------------------------------------------------------------
(* What the code's own comments say, and the code does not keep.           *)

\* idempotent.py: "Run operation at most once per key."
AtMostOncePerKey == \A k \in Keys : \A p, q \in ran[k] : p = q

\* errors.py, StoreUnavailableError: "no action was completed", told of every
\* transaction whose commit raised.
NoActionCompleted ==
  \A r \in Requests :
    IsTransactional(r) /\ answer[r].status = "refused" => r \notin changed

\* recording.py: "Every state change and every refusal produces one audit record", and
\* "a change cannot commit without its record": a change leaves some record of its request.
EveryChangeIsRecorded ==
  \A r \in changed : pc[r] = "done" =>
    \E v \in {"accepted", "rejected", "refused"} : Recorded(r, v)
=============================================================================
