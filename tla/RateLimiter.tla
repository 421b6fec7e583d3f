----------------------------- MODULE RateLimiter -----------------------------
(***************************************************************************)
(* The token bucket of the tools server (guardrails/rate_limit.py), and     *)
(* what GuardrailPipeline.check_input does after it (guardrails/pipeline.py)*)
(* up to the budget, which ActionBudget models.                            *)
(*                                                                         *)
(* A bucket is brought up to date when its identity calls; what a caller    *)
(* should have is a debt that falls as time passes.  Instants are kept as   *)
(* ages; a bucket refills by one part per unit of time and a call costs     *)
(* Parts of them, so that no fraction is lost.                             *)
(***************************************************************************)
EXTENDS OrderedTable, FiniteSets

CONSTANTS Identities,  \* tenant and subject
          Burst,       \* max(rate_limit_burst, 1)
          Parts,       \* units of time it takes to earn one call
          MaxTracked   \* max_tracked

ASSUME RateLimiterAssumption ==
  Burst \in Nat \ {0} /\ Parts \in Nat \ {0} /\ MaxTracked \in Nat \ {0}

VARIABLES buckets,  \* [who, tokens, age of updated_at], used longest ago first
          debt,     \* history: identity -> parts it used and has not earned back;
                    \* not kept once it was forgotten
          forgot,   \* history: identities whose bucket was dropped
          last      \* history: what the last call was told, and was owed

rateLimiter == <<buckets, debt, forgot, last>>

\* What check_arguments, check_unicode_safety, check_for_injection and
\* check_business_rules, in this order, make of the arguments.
Contents == {"clean", "condemned"}
Full == Burst * Parts
Lesser(a, b) == IF a < b THEN a ELSE b

LimiterInit ==
  /\ buckets = <<>>
  /\ debt = [s \in Identities |-> 0]
  /\ forgot = {}
  /\ last = [stage |-> "allowed", who |-> CHOOSE s \in Identities : TRUE, owed |-> 0]

Bucket(s) == buckets[RowAt(buckets, s)]

\* Mutant: what was earned since is added without a ceiling.
RefilledUncapped(e) == e.tokens + e.age

Refilled(e) == Lesser(Full, e.tokens + e.age)
Tokens(s) == IF HasRow(buckets, s) THEN Refilled(Bucket(s)) ELSE Full
Empty(s) == Tokens(s) < Parts

\* The bucket of a caller, brought up to date, and a token taken if there is one.
Touched(s) == [who |-> s, age |-> 0, tokens |-> IF Empty(s) THEN Tokens(s) ELSE Tokens(s) - Parts]

\* One call: the bucket first, then the arguments; the first refusal is the
\* answer.  An empty bucket is brought up to date all the same, and a call that
\* the arguments condemn has spent its token.
CheckInput(s, content) ==
  /\ buckets' = Latest(buckets, Touched(s), MaxTracked)
  /\ debt' = [debt EXCEPT ![s] =
                IF s \in forgot THEN 0 ELSE IF Empty(s) THEN @ ELSE Lesser(@ + Parts, Full + Parts)]
  /\ forgot' = forgot \cup (Names(buckets) \ Names(buckets'))
  /\ last' = [stage |-> IF Empty(s) THEN "rate_limit"
                        ELSE IF content = "clean" THEN "allowed" ELSE "arguments",
              who |-> s, owed |-> debt[s]]

\* One unit of time.  An age beyond the one that fills the bucket, and one call
\* more, makes no difference.
BucketsAge ==
  /\ buckets' = [i \in DOMAIN buckets |-> [buckets[i] EXCEPT
                  !.age = Lesser(@ + 1, Full + Parts - buckets[i].tokens)]]
  /\ debt' = [s \in Identities |-> IF debt[s] = 0 THEN 0 ELSE debt[s] - 1]
  /\ UNCHANGED <<forgot, last>>

LimiterNext ==
  BucketsAge \/ \E s \in Identities, content \in Contents : CheckInput(s, content)
LimiterSpec == LimiterInit /\ [][LimiterNext]_rateLimiter

-----------------------------------------------------------------------------
LimiterTypeOK ==
  /\ Len(buckets) <= MaxTracked
  /\ \A i \in DOMAIN buckets : buckets[i].tokens \in 0..Full /\ buckets[i].age \in 0..Full + Parts
  /\ \A s \in Identities : debt[s] \in 0..Full + Parts
  /\ forgot \subseteq Identities

\* rate_limit.py:8-10: however calls and pauses fall, an identity that was not
\* forgotten never has more calls behind it than the burst and what it has
\* earned; and one is refused only when one call more would be too many.
RateIsExact ==
  /\ \A s \in Identities \ forgot : debt[s] <= Full
  /\ last.stage = "rate_limit" /\ last.who \notin forgot => last.owed + Parts > Full
=============================================================================
