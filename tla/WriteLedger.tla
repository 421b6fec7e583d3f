---------------------------- MODULE WriteLedger ----------------------------
(***************************************************************************)
(* The write path implements the ledger.  The refinement mapping: the      *)
(* trail is the audit collection in the order of its numbers, the stream   *)
(* the transactional events in the order of theirs.                        *)
(***************************************************************************)
EXTENDS WritePath

EntryOf(id) ==
  LET change == id[2] = "accepted" /\ IsTransactional(id[1])
  IN  [id |-> id, change |-> change, emits |-> change /\ EventsOf(call[id[1]]) = 1]

Rank(x, S) == Cardinality({y \in S : y.seq <= x.seq})
InNumberOrder(S) ==
  [i \in 1 .. Cardinality(S) |-> CHOOSE x \in S : Rank(x, S) = i]

TrailOf ==
  LET s == InNumberOrder(audit) IN [i \in DOMAIN s |-> EntryOf(s[i].id)]
StreamOf ==
  LET s == InNumberOrder({e \in outbox : IsTransactional(e.by)})
  IN  [i \in DOMAIN s |-> EntryOf(<<s[i].by, "accepted">>)]

L == INSTANCE Ledger WITH
       Entries <- [id : EntryIds, change : BOOLEAN, emits : BOOLEAN],
       trail <- TrailOf,
       changes <- {EntryOf(<<r, "accepted">>) : r \in {q \in changed : IsTransactional(q)}},
       stream <- StreamOf

\* The write path implements the ledger: its steps append one entry, together
\* with the change and the event that entry stands for, or change nothing of it.
ImplementsLedger == L!LedgerSpec
=============================================================================
