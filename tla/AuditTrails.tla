----------------------------- MODULE AuditTrails -----------------------------
(***************************************************************************)
(* The hash chains and who reads them.  The middleware keeps one trail per  *)
(* tenant in a store and answers GET /audit with a window of it and a       *)
(* verdict (services/recording.py, api/routes/admin.py); the tools server   *)
(* appends its own chain to a file (security/audit.py).                     *)
(*                                                                         *)
(* A hash is the content it was computed from, hashes being taken to be     *)
(* collision free.  An instant is told apart only by whether it has digits  *)
(* below the millisecond: datetime.now has, a BSON date has not.            *)
(***************************************************************************)
EXTENDS Integers, Sequences, FiniteSets, FiniteSetsExt, SequencesExt

CONSTANTS TrailStores,   \* the stores a run considers
          Correlations,
          Limits,        \* ?limit=
          MaxRecords,    \* bound: records appended to each log
          MaxTampering   \* bound: edits and deletions

ASSUME AuditTrailsAssumption ==
  TrailStores \subseteq {"mongodb", "memory"} /\ Limits \subseteq Nat \ {0}

VARIABLES kept,      \* the store of this deployment
          trail,     \* the records of the tenant, by seq
          appended,  \* history: what Recorder.audit computed, by seq
          meddled,   \* history: edits and deletions
          verdict,   \* chain_broken_at of the last answer of GET /audit
          log,       \* the tools server's file
          head,      \* AuditLog._previous_hash
          starts     \* history: positions of log at which a process began

auditTrails == <<kept, trail, appended, meddled, verdict, log, head, starts>>

Genesis == [genesis |-> TRUE]
Intact == 0     \* chain_broken_at is None; a broken index is counted from 1
Unfiltered == "any"

Content(r) == [r EXCEPT !.hash = Genesis]
Sealed(r) == [r EXCEPT !.hash = Content(r)]

TrailsInit ==
  /\ kept \in TrailStores
  /\ trail = <<>> /\ appended = <<>> /\ meddled = 0
  /\ verdict = Intact
  /\ log = <<>> /\ head = Genesis /\ starts = {1}

-----------------------------------------------------------------------------
(* The middleware                                                          *)

Stored(r) == IF kept = "mongodb" THEN [r EXCEPT !.fine = FALSE] ELSE r

\* Recorder.audit: the head, one more, the hash over the instant as the clock
\* gave it.  (That two handlers do not append one number is WritePath's
\* subject.)
Record(corr, fine) ==
  /\ Len(trail) < MaxRecords
  /\ LET seq == IF trail = <<>> THEN 1 ELSE Last(trail).seq + 1
         prev == IF trail = <<>> THEN Genesis ELSE Last(trail).hash
         r == Sealed([seq |-> seq, prev |-> prev, corr |-> corr, fine |-> fine,
                      edited |-> FALSE, hash |-> Genesis]) IN
     /\ trail' = Append(trail, Stored(r))
     /\ appended' = Append(SubSeq(appended, 1, seq - 1), Stored(r))
  /\ UNCHANGED <<kept, meddled, verdict, log, head, starts>>

\* Somebody edits or deletes a record in the database.
Tamper(i) ==
  /\ meddled < MaxTampering
  /\ meddled' = meddled + 1
  /\ \/ trail' = [trail EXCEPT ![i].edited = TRUE]
     \/ trail' = RemoveAt(trail, i)
  /\ UNCHANGED <<kept, appended, verdict, log, head, starts>>

\* Mutant: the hash of a record is not computed again.
SoundLinksOnly(records, i) ==
  /\ records[i].prev = IF i = 1 THEN Genesis ELSE records[i - 1].hash
  /\ records[i].seq = i

Sound(records, i) ==
  /\ records[i].prev = IF i = 1 THEN Genesis ELSE records[i - 1].hash
  /\ records[i].seq = i
  /\ records[i].hash = Content(records[i])

FirstWhere(S) == IF S = {} THEN Intact ELSE Min(S)
VerifyChain(records) == FirstWhere({i \in DOMAIN records : ~Sound(records, i)})

\* list_recent, and the verdict only on a window that begins with record 1.
ListRecent(limit, corr) ==
  LET found == IF corr = Unfiltered THEN trail
               ELSE SelectSeq(trail, LAMBDA r : r.corr = corr)
  IN  SubSeq(found, IF Len(found) > limit THEN Len(found) - limit + 1 ELSE 1, Len(found))

FromTheFirst(records) == records # <<>> /\ records[1].seq = 1
Verdict(records) == IF FromTheFirst(records) THEN VerifyChain(records) ELSE Intact

ReadAudit(limit, corr) ==
  /\ verdict' = Verdict(ListRecent(limit, corr))
  /\ UNCHANGED <<kept, trail, appended, meddled, log, head, starts>>

-----------------------------------------------------------------------------
(* The tools server                                                        *)

\* AuditLog.record: the sink is written before the head moves, so a write that
\* raises leaves no gap.
LogRecord ==
  /\ Len(log) < MaxRecords
  /\ LET r == Sealed([n |-> Len(log) + 1, prev |-> head, hash |-> Genesis]) IN
     \/ log' = Append(log, r) /\ head' = r.hash
     \/ UNCHANGED <<log, head>>
  /\ UNCHANGED <<kept, trail, appended, meddled, verdict, starts>>

\* A new process begins at GENESIS_HASH: the container passes no previous_hash,
\* and the file is opened to append.
LogRestart ==
  /\ head # Genesis
  /\ head' = Genesis
  /\ starts' = starts \cup {Len(log) + 1}
  /\ UNCHANGED <<kept, trail, appended, meddled, verdict, log>>

\* verify_chain(records, start_hash=GENESIS_HASH)
VerifyLog(records) ==
  FirstWhere({i \in DOMAIN records :
    \/ records[i].prev # IF i = 1 THEN Genesis ELSE records[i - 1].hash
    \/ records[i].hash # Content(records[i])})

-----------------------------------------------------------------------------
TrailsNext ==
  \/ \E corr \in Correlations, fine \in BOOLEAN : Record(corr, fine)
  \/ \E i \in DOMAIN trail : Tamper(i)
  \/ \E limit \in Limits, corr \in Correlations \cup {Unfiltered} : ReadAudit(limit, corr)
  \/ LogRecord \/ LogRestart

TrailsSpec == TrailsInit /\ [][TrailsNext]_auditTrails

-----------------------------------------------------------------------------
TrailsTypeOK ==
  /\ kept \in TrailStores
  /\ Len(trail) <= MaxRecords /\ Len(appended) <= MaxRecords + MaxTampering
  /\ \A i \in DOMAIN trail : trail[i].seq \in 1..MaxRecords + MaxTampering
  /\ meddled \in 0..MaxTampering
  /\ verdict \in 0..MaxRecords
  /\ Len(log) <= MaxRecords /\ starts \subseteq 1..MaxRecords + 1

\* No instant lost digits in the store.
AsComputed(records) == \A i \in DOMAIN records : records[i].hash.fine = records[i].fine

\* recording.py:9-10 "deleting or editing a record breaks the chain from that
\* point and a single pass finds it": over a window that begins with the first
\* record, unfiltered, of a store that keeps instants as they are, the verdict
\* is the first record that is not the one that was appended there (one deleted
\* at the end, and its number given to another, cannot be seen).  And the tools
\* server's file breaks where a process began again, and nowhere else.
VerdictIsExact ==
  /\ \A limit \in Limits :
       LET records == ListRecent(limit, Unfiltered) IN
       FromTheFirst(records) /\ AsComputed(records) =>
         Verdict(records) = FirstWhere({i \in DOMAIN records : records[i] # appended[i]})
  /\ VerifyLog(log) = FirstWhere(starts \ {1, Len(log) + 1})

\* recording.py:141 "or None when the chain is intact", and the assertion of
\* testsprite/tests/middleware/06: the verdict on a trail that nobody touched is
\* that it holds.
UntouchedTrailVerifies == meddled = 0 => verdict = Intact
=============================================================================
