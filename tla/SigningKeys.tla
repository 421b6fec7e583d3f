----------------------------- MODULE SigningKeys -----------------------------
(***************************************************************************)
(* The cached signing keys of the identity provider: JwksKeyStore of the    *)
(* middleware and the same two methods of JwksVerifier in the tools server  *)
(* (security/verifier.py of each).  Verifications are coroutines: they give *)
(* up control while a document is fetched, and others then see the cache,   *)
(* and the reset of its age, as they left it.                              *)
(*                                                                         *)
(* A document is a set of key identifiers.  The cache remembers the reading *)
(* of a monotonic clock, and 0.0 stands for "never": what is compared is    *)
(* the time since, which after a reset is the time since the clock began.   *)
(***************************************************************************)
EXTENDS Integers, FiniteSets, FiniteSetsExt

CONSTANTS Verifiers,     \* concurrent verifications
          CacheTtl,      \* cache_ttl_s
          Stale,         \* stale_if_error_s
          SlowestFetch,  \* bound: the time a fetch may take
          MaxRotations   \* bound: keys the provider introduces

ASSUME SigningKeysAssumption ==
  CacheTtl \in Nat /\ Stale \in Nat \ {0} /\ SlowestFetch \in Nat /\ MaxRotations \in Nat

VARIABLES published,  \* the provider's current document
          keys,       \* _keys, or NoDocument
          since,      \* monotonic() - _fetched_at, counted up to LongestAge
          uptime,     \* monotonic(), counted up to LongestAge
          verifying,  \* verification -> where it stands
          truth       \* history: what happened to the keys, below

signingKeys == <<published, keys, since, uptime, verifying, truth>>

NoDocument == {}

\* The settings bound neither of the two ages by the other.
LongestAge == IF CacheTtl > Stale THEN CacheTtl ELSE Stale
Beyond == LongestAge + 2 * SlowestFetch
Forgotten == uptime

Resting(answer) == [at |-> answer, kid |-> 0, age |-> 0, second |-> FALSE, doc |-> NoDocument,
                    took |-> 0, seen |-> FALSE, failed |-> FALSE, old |-> FALSE]

\* published holds at most the two latest keys; gone is the time since a key was
\* last published; real the time since the cached document landed; reset, that
\* the age of it was thrown away since.  Of a verification, seen is whether its
\* key was published all the while, failed whether its last fetch did, old
\* whether the cache was of no use in an outage when it began to fetch.
KeysInit ==
  /\ published = {1} /\ keys = NoDocument
  /\ uptime \in {0, LongestAge} /\ since = uptime
  /\ verifying = [v \in Verifiers |-> Resting("idle")]
  /\ truth = [gone |-> [k \in 1..MaxRotations + 1 |-> 0], real |-> 0, reset |-> FALSE]

\* Mutant: a failure to refresh counts as a refresh.
AfterFailureRenewed(v) == since' = 0

AfterFailure(v) == UNCHANGED since

-----------------------------------------------------------------------------
(* One call of signing_key, cut at the awaits                              *)

Set(v, r) == verifying' = [verifying EXCEPT ![v] = r]

\* _ensure_keys waits for a document; age is what it computed before.
Await(v, r, age, second) ==
  Set(v, [r EXCEPT !.at = "fetch", !.age = age, !.second = second, !.took = 0,
                   !.failed = FALSE,
                   !.old = keys = NoDocument \/ truth.real >= Stale \/ truth'.reset])

Unknown(v, r) ==
  Set(v, [Resting("unknown") EXCEPT !.kid = r.kid, !.seen = r.seen, !.failed = r.failed])

\* The document is looked up.  A kid it does not have resets the age, once, and
\* a clock that is itself younger than the ttl then makes it fresh again.
AnswerToken(v, r, document) ==
  /\ keys' = document
  /\ \/ /\ r.kid \in document
        /\ Set(v, [Resting("key") EXCEPT !.kid = r.kid])
     \/ /\ r.kid \notin document /\ r.second
        /\ Unknown(v, r)

Reset(v, r, document) ==
  /\ keys' = document /\ r.kid \notin document /\ ~r.second
  /\ since' = Forgotten
  /\ IF document # NoDocument /\ uptime < CacheTtl
     THEN Unknown(v, r)
     ELSE Await(v, r, Forgotten, TRUE)

\* A verification begins: the header gave it a kid.  (One that was answered
\* begins the next after a tick.)
Begin(v, kid) ==
  /\ verifying[v].at = "idle"
  /\ LET r == [Resting("fetch") EXCEPT !.kid = kid, !.seen = kid \in published] IN
     IF keys # NoDocument /\ since < CacheTtl
     THEN \/ AnswerToken(v, r, keys) /\ UNCHANGED <<since, truth>>
          \/ truth' = [truth EXCEPT !.reset = TRUE] /\ Reset(v, r, keys)
     ELSE UNCHANGED <<keys, since, truth>> /\ Await(v, r, since, FALSE)
  /\ UNCHANGED <<published, uptime>>

\* The provider answers with what it publishes at that moment.
Respond(v) ==
  /\ verifying[v].at = "fetch"
  /\ Set(v, [verifying[v] EXCEPT !.at = "land", !.doc = published])
  /\ UNCHANGED <<published, keys, since, uptime, truth>>

\* The response is here, perhaps after one that left the provider later.
Land(v) ==
  /\ verifying[v].at = "land"
  /\ LET r == verifying[v] IN
     \/ /\ AnswerToken(v, r, r.doc)
        /\ since' = 0 /\ truth' = [truth EXCEPT !.real = 0, !.reset = FALSE]
     \/ /\ truth' = [truth EXCEPT !.real = 0, !.reset = TRUE]
        /\ Reset(v, r, r.doc)
  /\ UNCHANGED <<published, uptime>>

\* The fetch fails: what is cached serves as long as it was young enough before.
FetchFails(v) ==
  /\ verifying[v].at \in {"fetch", "land"}
  /\ LET r == [verifying[v] EXCEPT !.failed = TRUE] IN
     IF keys # NoDocument /\ r.age < Stale
     THEN \/ AnswerToken(v, r, keys) /\ AfterFailure(v) /\ UNCHANGED truth
          \/ truth' = [truth EXCEPT !.reset = TRUE] /\ Reset(v, r, keys)
     ELSE /\ Set(v, [Resting("unavailable") EXCEPT !.old = r.old])
          /\ AfterFailure(v) /\ UNCHANGED <<keys, truth>>
  /\ UNCHANGED <<published, uptime>>

-----------------------------------------------------------------------------
(* The provider, and time                                                  *)

Pending(v) == verifying[v].at \in {"fetch", "land"}

\* A new key is published beside the latest, or the latest alone is left.
Rotate ==
  /\ \/ /\ Max(published) <= MaxRotations
        /\ published' = {Max(published), Max(published) + 1}
     \/ /\ published # {Max(published)}
        /\ published' = {Max(published)}
  /\ verifying' = [v \in Verifiers |->
       IF verifying[v].kid \notin published' THEN [verifying[v] EXCEPT !.seen = FALSE]
       ELSE verifying[v]]
  /\ UNCHANGED <<keys, since, uptime, truth>>

Older(n, limit) == IF n < limit THEN n + 1 ELSE limit

ClockTicks ==
  /\ \A v \in Verifiers : Pending(v) => verifying[v].took < SlowestFetch
  /\ since' = Older(since, LongestAge) /\ uptime' = Older(uptime, LongestAge)
  /\ verifying' = [v \in Verifiers |->
       IF Pending(v) THEN [verifying[v] EXCEPT !.took = @ + 1] ELSE Resting("idle")]
  /\ truth' = [truth EXCEPT !.real = Older(@, Beyond),
       !.gone = [k \in DOMAIN truth.gone |->
                  IF k \in published \/ k > Max(published) THEN 0
                  ELSE Older(truth.gone[k], Beyond)]]
  /\ UNCHANGED <<published, keys>>

KeysNext ==
  \/ Rotate \/ ClockTicks
  \/ \E v \in Verifiers :
       \/ \E kid \in 1..Max(published) : Begin(v, kid)
       \/ Begin(v, MaxRotations + 2)
       \/ Respond(v) \/ Land(v) \/ FetchFails(v)

KeysSpec == KeysInit /\ [][KeysNext]_signingKeys

-----------------------------------------------------------------------------
Stands == {"idle", "fetch", "land", "key", "unknown", "unavailable"}

KeysTypeOK ==
  /\ published \subseteq 1..MaxRotations + 1 /\ keys \subseteq 1..MaxRotations + 1
  /\ since \in 0..LongestAge /\ uptime \in 0..LongestAge
  /\ \A v \in Verifiers :
       /\ verifying[v].at \in Stands
       /\ verifying[v].age \in 0..LongestAge /\ verifying[v].took \in 0..SlowestFetch
  /\ truth.real \in 0..Beyond

\* "Served stale through a provider outage, but only for a bounded window; past
\* it, this fails closed": a key that verifies a token was published within the
\* longer of the two windows and two fetches.
WithdrawnKeysExpire ==
  \A v \in Verifiers :
    verifying[v].at = "key" => truth.gone[verifying[v].kid] < Beyond

\* A key that is cached, and young enough, is served through an outage, unless a
\* token with an unknown kid has thrown the age of the cache away.
OutageIsBridged ==
  \A v \in Verifiers :
    verifying[v].at = "unavailable" => verifying[v].old

\* "a rotated key must still be picked up": a token is refused for an unknown key
\* only if the key was not published all the while, or the provider did not
\* answer, or the clock is younger than the ttl.
RotationIsSeen ==
  \A v \in Verifiers :
    verifying[v].at = "unknown" =>
      ~verifying[v].seen \/ verifying[v].failed \/ uptime < CacheTtl

KeysHold == WithdrawnKeysExpire /\ OutageIsBridged /\ RotationIsSeen
=============================================================================
