------------------------- MODULE IdempotencyStores -------------------------
(***************************************************************************)
(* The two idempotency stores of the tools server (adapters/idempotency.py)*)
(* and what a call sees of them.  The in-memory store does each operation  *)
(* under its lock; the Redis store takes one round trip per action, and    *)
(* other calls, of this replica or another, run in between.                *)
(*                                                                         *)
(* A key stands for the scoped key (tenant, customer, tool and the         *)
(* caller's key) and a body for the fingerprint of the request; both are   *)
(* taken to be collision free.  Entries carry, as a history, the call that *)
(* wrote them.                                                             *)
(***************************************************************************)
EXTENDS Integers, FiniteSets

CONSTANTS Requests,   \* the calls that use the store
          Keys,       \* scoped keys
          Bodies,     \* request fingerprints
          None        \* no entry, no result, no fingerprint

VARIABLES entry,      \* key -> its entry, or None
          seen,       \* request -> what the GET of complete or release returned
          fallback    \* history: keys reserved by a SET without NX

Entries == [body : Bodies \cup {None}, result : Bodies \cup {None},
            by : Requests]

StoresInit == /\ entry = [k \in Keys |-> None]
              /\ seen = [r \in Requests |-> None]
              /\ fallback = {}

StoresTypeOK == /\ entry \in [Keys -> Entries \cup {None}]
                /\ seen \in [Requests -> Entries \cup {None}]
                /\ fallback \subseteq Keys

Reserved(r, body) == [body |-> body, result |-> None, by |-> r]

\* Mutant: the fingerprint is not compared.
VerdictAnyBody(e, body) == IF e.result = None THEN "in_progress" ELSE "completed"

\* What an entry tells a call that did not create it.
Verdict(e, body) == IF e.body # body THEN "reused"
                    ELSE IF e.result = None THEN "in_progress" ELSE "completed"

-----------------------------------------------------------------------------
(* MemoryIdempotencyStore                                                  *)

\* What reserve answers; it writes only when there is no entry.
MemoryReserve(r, k, body) ==
  /\ entry' = IF entry[k] = None THEN [entry EXCEPT ![k] = Reserved(r, body)] ELSE entry
  /\ UNCHANGED <<seen, fallback>>

MemoryAnswer(k, body) == IF entry[k] = None THEN "new" ELSE Verdict(entry[k], body)

MemoryComplete(k, result) ==
  /\ entry' = IF entry[k] = None THEN entry ELSE [entry EXCEPT ![k].result = result]
  /\ UNCHANGED <<seen, fallback>>

MemoryRelease(k) ==
  /\ entry' = IF entry[k] # None /\ entry[k].result = None
              THEN [entry EXCEPT ![k] = None] ELSE entry
  /\ UNCHANGED <<seen, fallback>>

-----------------------------------------------------------------------------
(* RedisIdempotencyStore: one action per round trip                        *)

\* Mutant: SET without NX.
CreatesAlways(k) == TRUE

\* SET key NX: creates, or answers that there is an entry.
Creates(k) == entry[k] = None

SetIfAbsent(r, k, body) ==
  /\ entry' = IF Creates(k) THEN [entry EXCEPT ![k] = Reserved(r, body)] ELSE entry
  /\ UNCHANGED <<seen, fallback>>

\* complete and release read the entry first and keep what they found.
Get(r, k) ==
  /\ seen' = [seen EXCEPT ![r] = entry[k]]
  /\ UNCHANGED <<entry, fallback>>

\* "The entry expired between the two calls; treat this attempt as the first":
\* the second SET has no NX.
SetFallback(r, k, body) ==
  /\ entry' = [entry EXCEPT ![k] = Reserved(r, body)]
  /\ fallback' = fallback \cup {k}
  /\ UNCHANGED seen

\* complete: the fingerprint is the one the GET found.
SetResult(r, k, result) ==
  /\ entry' = [entry EXCEPT ![k] =
       [body |-> IF seen[r] = None THEN None ELSE seen[r].body, result |-> result, by |-> r]]
  /\ seen' = [seen EXCEPT ![r] = None]
  /\ UNCHANGED fallback

\* release: the decision was taken on what the GET found.
DeleteIfSeenOpen(r, k) ==
  /\ entry' = IF seen[r] # None /\ seen[r].result = None
              THEN [entry EXCEPT ![k] = None] ELSE entry
  /\ seen' = [seen EXCEPT ![r] = None]
  /\ UNCHANGED fallback

-----------------------------------------------------------------------------
(* Both                                                                    *)

\* The time to live runs out: Redis drops the entry, the in-memory store at the
\* next reserve.
Expire(k) ==
  /\ entry[k] # None
  /\ entry' = [entry EXCEPT ![k] = None]
  /\ UNCHANGED <<seen, fallback>>
=============================================================================
