------------------------------- MODULE Ledger -------------------------------
(***************************************************************************)
(* What the write path promises, with its concurrency and its failures     *)
(* hidden: one append-only trail.  An entry that stands for a state change *)
(* makes that change, and publishes the event it owes, in the same step;   *)
(* any other entry (a refusal, a passcode check, a revocation) adds itself *)
(* only.  So the changes are those the trail names, and the events come in *)
(* the order of the trail.                                                 *)
(***************************************************************************)
EXTENDS Sequences, Integers

CONSTANT Entries   \* records [id, change, emits]: emits implies change

VARIABLES trail,   \* the entries so far, oldest first
          changes, \* the state changes made, by entry
          stream   \* the entries whose events were published, in order

ledger == <<trail, changes, stream>>

LedgerInit == trail = <<>> /\ changes = {} /\ stream = <<>>

Enter(entry) ==
  /\ trail' = Append(trail, entry)
  /\ \A i \in DOMAIN trail : trail[i].id # entry.id
  /\ changes' = IF entry.change THEN changes \cup {entry} ELSE changes
  /\ stream' = IF entry.emits THEN Append(stream, entry) ELSE stream

\* A step adds one entry, the last of the trail after it.  The first conjunct
\* lets the evaluation of a step that adds none stop early.
LedgerNext ==
  /\ Len(trail') = Len(trail) + 1
  /\ LET entry == trail'[Len(trail')]
     IN  entry \in Entries /\ Enter(entry)

LedgerSpec == LedgerInit /\ [][LedgerNext]_ledger
=============================================================================
