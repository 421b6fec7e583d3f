----------------------------- MODULE MongoStore -----------------------------
(***************************************************************************)
(* The MongoDB collections one tenant's write handlers share, and what the *)
(* repository methods do to them: the hash-chained audit trail, the event  *)
(* counter, the transactional outbox, the idempotency keys, and the        *)
(* sessions (client sessions with an open multi-document transaction).     *)
(*                                                                         *)
(* A transaction buffers its writes; nobody else sees them before it       *)
(* commits.  Two facts about the server matter and are kept:               *)
(*  - a write inside a transaction that meets a document another open      *)
(*    transaction wrote, or that was committed after this transaction's    *)
(*    snapshot, fails the whole transaction (a write conflict);            *)
(*  - a write outside any transaction waits for such a document instead.   *)
(* An entry hash is represented by the identity of the entry it covers:    *)
(* the hash is taken to be collision free.                                 *)
(***************************************************************************)
EXTENDS Integers, FiniteSets

CONSTANTS Requests,   \* the write requests the service is given
          Keys,       \* Idempotency-Key header values, within one scope
          Bodies,     \* what a keyed write asks for (its request fingerprint)
          None        \* no key, no entry, no result

VARIABLES audit,      \* committed audit_records
          sequence,   \* tenant_sequences.value, committed
          outbox,     \* committed outbox events
          keys,       \* idempotency_keys: key -> its document, or None
          txn         \* request -> the session it holds

Verdicts == {"accepted", "rejected", "refused"}
EntryIds == Requests \X Verdicts
Genesis == <<None, "genesis">>

AuditRecords == [seq : Nat \ {0}, prev : EntryIds \cup {Genesis}, id : EntryIds]
Events == [seq : Nat \ {0}, by : Requests]
KeyDocs == [body : Bodies, result : Requests \cup {None}, by : Requests]

Sessions == [open : BOOLEAN, snap : Nat, number : Nat, change : BOOLEAN,
             records : SUBSET AuditRecords, events : SUBSET Events]
Closed == [open |-> FALSE, snap |-> 0, number |-> 0, change |-> FALSE,
           records |-> {}, events |-> {}]

InTxn(r) == txn[r].open

-----------------------------------------------------------------------------
(* Sessions                                                                *)

\* A session's first operation takes its snapshot; change says whether the
\* domain write is one of the buffered writes.
StartTransaction(r, change) ==
  txn' = [txn EXCEPT ![r] = [Closed EXCEPT !.open = TRUE, !.snap = sequence,
                                           !.change = change]]

Abort(r) == txn' = [txn EXCEPT ![r] = Closed]

\* Every buffered write becomes visible at once.
CommitWrites(r) ==
  /\ audit' = audit \cup txn[r].records
  /\ outbox' = outbox \cup txn[r].events
  /\ sequence' = IF txn[r].number = 0 THEN sequence ELSE txn[r].number
  /\ txn' = [txn EXCEPT ![r] = Closed]

-----------------------------------------------------------------------------
(* audit_records, under the unique index on (tenant_id, seq)               *)

\* head() passes no session: it reads what is committed, also inside a
\* transaction.
LastRecord ==
  IF audit = {}
    THEN [seq |-> 0, id |-> Genesis]
    ELSE LET last == CHOOSE x \in audit : \A y \in audit : y.seq <= x.seq
         IN  [seq |-> last.seq, id |-> last.id]

SeqStored(n) == \E x \in audit : x.seq = n
SeqHeld(r, n) == \E q \in Requests \ {r} : \E x \in txn[q].records : x.seq = n

\* Mutant: an index that does not see what open transactions inserted.
SeqTakenByCommitted(r, n) == SeqStored(n)

SeqTaken(r, n) == SeqStored(n) \/ SeqHeld(r, n)

\* Mutant: the insertion forgets its session.
InsertRecordWithoutSession(r, rec) ==
  /\ audit' = audit \cup {rec}
  /\ txn' = txn

InsertRecord(r, rec) ==
  IF InTxn(r)
    THEN /\ txn' = [txn EXCEPT ![r].records = @ \cup {rec}]
         /\ audit' = audit
    ELSE /\ audit' = audit \cup {rec}
         /\ txn' = txn

-----------------------------------------------------------------------------
(* tenant_sequences and outbox                                             *)

CounterHeld(r) == \E q \in Requests \ {r} : txn[q].number # 0
CounterConflict(r) == CounterHeld(r) \/ sequence # txn[r].snap

\* Mutant: the increment forgets its session.
TakeNumberWithoutSession(r) ==
  /\ sequence' = sequence + 1
  /\ txn' = txn

\* $inc: buffered inside a transaction, immediate outside one.
TakeNumber(r) ==
  IF InTxn(r)
    THEN /\ txn' = [txn EXCEPT ![r].number = sequence + 1]
         /\ sequence' = sequence
    ELSE /\ sequence' = sequence + 1
         /\ txn' = txn

\* Mutant: the outbox insertion forgets its session.
InsertEventWithoutSession(r, e) ==
  /\ outbox' = outbox \cup {e}
  /\ txn' = txn

InsertEvent(r, e) ==
  IF InTxn(r)
    THEN /\ txn' = [txn EXCEPT ![r].events = @ \cup {e}]
         /\ outbox' = outbox
    ELSE /\ outbox' = outbox \cup {e}
         /\ txn' = txn

-----------------------------------------------------------------------------
(* idempotency_keys, under the unique index on (tenant_id, scope, key).    *)
(* The field by is a history field: no code reads it.                      *)

InsertKey(r, k, body) ==
  keys' = [keys EXCEPT ![k] = [body |-> body, result |-> None, by |-> r]]

\* complete(): an update that names the key and no owner; no document, no effect.
CompleteKey(k, result) ==
  keys' = IF keys[k] = None THEN keys ELSE [keys EXCEPT ![k].result = result]

\* Mutant: a release that never deletes.
ReleaseNothing(k) == keys' = keys

\* release(): deletes the document when it has no result yet, whoever wrote it.
ReleaseKey(k) ==
  keys' = IF keys[k] # None /\ keys[k].result = None
            THEN [keys EXCEPT ![k] = None]
            ELSE keys

InProgress(k) == keys[k] # None /\ keys[k].result = None
-----------------------------------------------------------------------------
StoreInit ==
  /\ audit = {}
  /\ sequence = 0
  /\ outbox = {}
  /\ keys = [k \in Keys |-> None]
  /\ txn = [r \in Requests |-> Closed]

StoreTypeOK ==
  /\ audit \subseteq AuditRecords
  /\ sequence \in Nat
  /\ outbox \subseteq Events
  /\ keys \in [Keys -> KeyDocs \cup {None}]
  /\ txn \in [Requests -> Sessions]
=============================================================================
