---------------------------- MODULE ReportProofs ----------------------------
(***************************************************************************)
(* What the tools server reports is what happened (Reports), for every set  *)
(* of tools, edges of buckets, limit of series and objective.  A count is a *)
(* set of occurrences, so an increment adds one element to it.             *)
(***************************************************************************)
EXTENDS Reports, FiniteSetTheorems, WellFoundedInduction, TLAPS

-----------------------------------------------------------------------------
(* Counting occurrences.                                                   *)

\* How many of these occurrences are of an element of a set.
CountIn(occurrences, Q) == Cardinality({o \in occurrences : o[1] \in Q})

\* One more occurrence of an element.
Grows(old, new, k) == \E n : <<k, n>> \notin old /\ new = old \cup {<<k, n>>}

LEMMA CountsAreNumbers ==
  ASSUME NEW A, IsFiniteSet(A), NEW Q
  PROVE  /\ CountIn(A, Q) \in Nat /\ IsFiniteSet({o \in A : o[1] \in Q})
         /\ CountIn(A, {}) = 0
<1>1. {o \in A : o[1] \in Q} \in SUBSET A
  OBVIOUS
<1>2. IsFiniteSet({o \in A : o[1] \in Q})
  BY <1>1, FS_Subset
<1>3. CountIn(A, Q) \in Nat
  BY <1>2, FS_CardinalityType DEF CountIn
<1>4. {o \in A : o[1] \in {}} = {}
  OBVIOUS
<1> QED BY <1>2, <1>3, <1>4, FS_EmptySet DEF CountIn

LEMMA CountGrows ==
  ASSUME NEW A, NEW B, NEW k, IsFiniteSet(A), Grows(A, B, k), NEW Q
  PROVE  /\ IsFiniteSet(B)
         /\ CountIn(B, Q) = IF k \in Q THEN CountIn(A, Q) + 1 ELSE CountIn(A, Q)
<1>1. PICK n : <<k, n>> \notin A /\ B = A \cup {<<k, n>>}
  BY DEF Grows
<1>2. IsFiniteSet(B)
  BY <1>1, FS_AddElement
<1> DEFINE a == {o \in A : o[1] \in Q}
           b == {o \in B : o[1] \in Q}
<1>3. IsFiniteSet(a) /\ <<k, n>> \notin a
  BY <1>1, CountsAreNumbers
<1>4. CASE k \in Q
  <2>1. b = a \cup {<<k, n>>}
    BY <1>1, <1>4
  <2> HIDE DEF a, b
  <2>2. Cardinality(b) = Cardinality(a) + 1
    BY <2>1, <1>3, FS_AddElement
  <2> QED BY <2>2, <1>2, <1>4 DEF CountIn, a, b
<1>5. CASE k \notin Q
  <2>1. b = a
    BY <1>1, <1>5
  <2> QED BY <2>1, <1>2, <1>5 DEF CountIn
<1> QED BY <1>4, <1>5

LEMMA CountSmaller ==
  ASSUME NEW A, IsFiniteSet(A), NEW P, NEW Q,
         \A o \in A : o[1] \in P => o[1] \in Q
  PROVE  CountIn(A, P) <= CountIn(A, Q)
<1>1. {o \in A : o[1] \in P} \in SUBSET {o \in A : o[1] \in Q}
  OBVIOUS
<1>2. IsFiniteSet({o \in A : o[1] \in Q})
  BY CountsAreNumbers
<1> QED BY <1>1, <1>2, FS_Subset DEF CountIn

LEMMA CountAlike ==
  ASSUME NEW A, NEW P, NEW Q, \A o \in A : o[1] \in P <=> o[1] \in Q
  PROVE  CountIn(A, P) = CountIn(A, Q)
<1>1. {o \in A : o[1] \in P} = {o \in A : o[1] \in Q}
  OBVIOUS
<1> QED BY <1>1 DEF CountIn

\* What is in a set, less what is in a part of it, is in the rest.
LEMMA CountSplits ==
  ASSUME NEW A, IsFiniteSet(A), NEW P, NEW Q, NEW R,
         \A o \in A : o[1] \in P <=> (o[1] \in Q \/ o[1] \in R),
         \A o \in A : ~(o[1] \in Q /\ o[1] \in R)
  PROVE  CountIn(A, R) = CountIn(A, P) - CountIn(A, Q)
<1> DEFINE p == {o \in A : o[1] \in P}
           q == {o \in A : o[1] \in Q}
           r == {o \in A : o[1] \in R}
<1>1. p = q \cup r /\ q \cap r = {}
  OBVIOUS
<1>2. /\ IsFiniteSet(q) /\ IsFiniteSet(r)
      /\ Cardinality(q) \in Nat /\ Cardinality(r) \in Nat
  BY CountsAreNumbers DEF CountIn
<1> HIDE DEF p, q, r
<1>3. Cardinality(p) = Cardinality(q) + Cardinality(r) - Cardinality(q \cap r)
  BY <1>1, <1>2, FS_Union
<1>4. Cardinality(q \cap r) = 0
  BY <1>1, FS_EmptySet
<1> QED BY <1>2, <1>3, <1>4 DEF CountIn, p, q, r

\* One copy more in a bag is one occurrence more.
LEMMA BagGrows ==
  ASSUME NEW b, IsABag(b), NEW k
  PROVE  LET c == b (+) SetToBag({k}) IN
         IsABag(c) /\ DOMAIN c = DOMAIN b \cup {k} /\ Grows(Occurrences(b), Occurrences(c), k)
<1> DEFINE c == b (+) SetToBag({k})
           n == IF k \in DOMAIN b THEN b[k] + 1 ELSE 1
<1>1. \A x \in DOMAIN b : b[x] \in Nat /\ b[x] > 0
  BY DEF IsABag
<1>2. c = [e \in DOMAIN b \cup {k} |->
             (IF e \in DOMAIN b THEN b[e] ELSE 0) + (IF e \in {k} THEN 1 ELSE 0)]
  BY DEF (+), SetToBag
<1>3. /\ DOMAIN c = DOMAIN b \cup {k} /\ c[k] = n
      /\ \A x \in DOMAIN b : x # k => c[x] = b[x]
  BY <1>1, <1>2
<1>4. n \in Nat /\ n > 0
  BY <1>1
<1> HIDE DEF c
<1>5. c \in [DOMAIN c -> {m \in Nat : m > 0}]
  <2>1. \A x \in DOMAIN c : c[x] \in {m \in Nat : m > 0}
    BY <1>1, <1>3, <1>4
  <2>2. c = [x \in DOMAIN c |-> c[x]]
    BY <1>2 DEF c
  <2> QED BY <2>1, <2>2
<1>6. \A x, m : <<x, m>> \in Occurrences(b) <=> x \in DOMAIN b /\ m \in 1..b[x]
  BY DEF Occurrences
<1>7. \A x, m : <<x, m>> \in Occurrences(c) <=> x \in DOMAIN c /\ m \in 1..c[x]
  BY DEF Occurrences
<1>8. /\ \A o \in Occurrences(b) : \E x, m : o = <<x, m>>
      /\ \A o \in Occurrences(c) : \E x, m : o = <<x, m>>
  BY DEF Occurrences
<1>9. <<k, n>> \notin Occurrences(b)
  BY <1>1, <1>6
<1>10. ASSUME NEW x, NEW m
       PROVE  <<x, m>> \in Occurrences(c) <=> <<x, m>> \in Occurrences(b) \/ (x = k /\ m = n)
  <2>1. CASE x # k
    BY <2>1, <1>3, <1>6, <1>7
  <2>2. CASE x = k /\ k \in DOMAIN b
    <3>1. b[k] \in Nat /\ c[k] = b[k] + 1 /\ n = b[k] + 1
      BY <2>2, <1>1, <1>3
    <3> QED BY <2>2, <3>1, <1>3, <1>6, <1>7
  <2>3. CASE x = k /\ k \notin DOMAIN b
    <3>1. c[k] = 1 /\ n = 1
      BY <2>3, <1>3
    <3> QED BY <2>3, <3>1, <1>3, <1>6, <1>7
  <2> QED BY <2>1, <2>2, <2>3
<1> HIDE DEF n
<1>11. Occurrences(c) = Occurrences(b) \cup {<<k, n>>}
  BY <1>8, <1>10
<1>12. Grows(Occurrences(b), Occurrences(c), k)
  BY <1>9, <1>11 DEF Grows
<1> QED BY <1>3, <1>5, <1>12 DEF IsABag, c

-----------------------------------------------------------------------------
(* The registry                                                            *)

Full(series) == ~(Cardinality(series) < MaxSeries)

\* An increment counts one more, unless the registry is full and the series new.
LEMMA IncrementIs ==
  ASSUME NEW bag, IsABag(bag), NEW key
  PROVE  LET new == Increment(bag, key) IN
         /\ IsABag(new) /\ DOMAIN bag \subseteq DOMAIN new
         /\ DOMAIN new \subseteq DOMAIN bag \cup {key}
         /\ Full(DOMAIN bag) => DOMAIN new = DOMAIN bag
         /\ \/ key \in DOMAIN new /\ Grows(Occurrences(bag), Occurrences(new), key)
            \/ key \notin DOMAIN new /\ new = bag /\ Full(DOMAIN bag)
<1> DEFINE new == Increment(bag, key)
<1>1. CASE HasRoom(DOMAIN bag, key)
  <2>1. new = bag (+) SetToBag({key})
    BY <1>1 DEF Increment
  <2>2. /\ IsABag(new) /\ DOMAIN new = DOMAIN bag \cup {key}
        /\ Grows(Occurrences(bag), Occurrences(new), key)
    BY <2>1, BagGrows
  <2>3. Full(DOMAIN bag) => key \in DOMAIN bag
    BY <1>1 DEF HasRoom, Full
  <2> HIDE DEF new
  <2>4. Full(DOMAIN bag) => DOMAIN new = DOMAIN bag
    BY <2>2, <2>3
  <2> QED BY <2>2, <2>4 DEF new
<1>2. CASE ~HasRoom(DOMAIN bag, key)
  BY <1>2 DEF HasRoom, Full, Increment
<1> QED BY <1>1, <1>2

Buckets == Len(Edges) + 1

\* The edges are ascending numbers.
LEMMA EdgesAre ==
  /\ Len(Edges) \in Nat \ {0} /\ DOMAIN Edges = 1..Len(Edges) /\ Buckets \in Nat
  /\ \A i \in DOMAIN Edges : Edges[i] \in Int
  /\ \A i, j \in DOMAIN Edges : i < j => Edges[i] < Edges[j]
<1>1. Edges \in Seq(Int) /\ Edges # <<>>
  BY ReportsAssumption
<1>2. Len(Edges) \in Nat \ {0} /\ DOMAIN Edges = 1..Len(Edges)
  BY <1>1
<1>3. \A i \in DOMAIN Edges : Edges[i] \in Int
  BY <1>1
<1> QED BY <1>2, <1>3, ReportsAssumption DEF Buckets

LEMMA LeastIndex ==
  ASSUME NEW S \in SUBSET Nat, S # {}
  PROVE  Min(S) \in S /\ \A y \in S : Min(S) <= y
<1>1. PICK R : R = {ss \in Nat \X Nat : ss[1] < ss[2]}
  OBVIOUS
<1>2. IsWellFoundedOn(R, Nat)
  BY <1>1, NatLessThanWellFounded DEF OpToRel
<1>3. PICK x \in S : \A y \in S : ~(<<y, x>> \in R)
  BY <1>2, WFMin
<1>4. ASSUME NEW y \in S PROVE x <= y
  <2>1. x \in Nat /\ y \in Nat /\ <<y, x>> \in Nat \X Nat
    OBVIOUS
  <2>2. y < x => <<y, x>> \in R
    BY <1>1, <2>1
  <2> QED BY <1>3, <2>1, <2>2
<1>5. \E z \in S : \A y \in S : z <= y
  BY <1>4
<1> QED BY <1>5 DEF Min

\* The bucket of a time is the first whose edge it does not exceed.
LEMMA BucketIs ==
  ASSUME NEW time \in Int
  PROVE  /\ BucketOf(time) \in 1..Buckets
         /\ \A i \in DOMAIN Edges : BucketOf(time) <= i <=> time <= Edges[i]
<1> DEFINE fits == {i \in DOMAIN Edges : time <= Edges[i]}
           b == BucketOf(time)
<1>1. fits \in SUBSET Nat
  BY EdgesAre
<1>2. CASE fits # {}
  <2>1. b = Min(fits)
    BY <1>2 DEF BucketOf
  <2>2. b \in fits /\ \A i \in fits : b <= i
    <3> HIDE DEF fits, b
    <3> QED BY <1>1, <1>2, <2>1, LeastIndex
  <2>3. b \in DOMAIN Edges /\ time <= Edges[b]
    BY <2>2
  <2>4. ASSUME NEW i \in DOMAIN Edges, b <= i PROVE time <= Edges[i]
    <3>1. b = i \/ b < i
      BY <2>3, <2>4, EdgesAre
    <3> HIDE DEF b
    <3>2. Edges[b] \in Int /\ Edges[i] \in Int
      BY <2>3, EdgesAre
    <3>3. b < i => Edges[b] < Edges[i]
      BY <2>3, EdgesAre
    <3> QED BY <2>3, <3>1, <3>2, <3>3
  <2>5. ASSUME NEW i \in DOMAIN Edges, time <= Edges[i] PROVE b <= i
    BY <2>2, <2>5
  <2> HIDE DEF b
  <2>6. b \in 1..Buckets
    BY <2>3, EdgesAre DEF Buckets
  <2> QED BY <2>4, <2>5, <2>6 DEF b
<1>3. CASE fits = {}
  <2>1. b = Len(Edges) + 1
    BY <1>3 DEF BucketOf
  <2>2. \A i \in DOMAIN Edges : ~(time <= Edges[i])
    BY <1>3
  <2> HIDE DEF b
  <2>3. b \in 1..Buckets /\ \A i \in DOMAIN Edges : ~(b <= i)
    BY <2>1, EdgesAre DEF Buckets
  <2> QED BY <2>2, <2>3 DEF b
<1> QED BY <1>2, <1>3

TimingsOf(f) ==
  UNION {UNION {{<<t, j>>} \X (1..f[t][j]) : j \in DOMAIN f[t]} : t \in DOMAIN f}

\* The occurrences of the observations.
LEMMA TimingsAre ==
  ASSUME NEW f, \A t \in DOMAIN f : f[t] \in [1..Buckets -> Nat], NEW t, NEW j, NEW n
  PROVE  <<<<t, j>>, n>> \in TimingsOf(f) <=>
           t \in DOMAIN f /\ j \in 1..Buckets /\ n \in 1..f[t][j]
<1>1. ASSUME <<<<t, j>>, n>> \in TimingsOf(f)
      PROVE  t \in DOMAIN f /\ j \in 1..Buckets /\ n \in 1..f[t][j]
  <2>1. PICK t0 \in DOMAIN f :
          <<<<t, j>>, n>> \in UNION {{<<t0, i>>} \X (1..f[t0][i]) : i \in DOMAIN f[t0]}
    BY <1>1 DEF TimingsOf
  <2>2. PICK j0 \in DOMAIN f[t0] : <<<<t, j>>, n>> \in {<<t0, j0>>} \X (1..f[t0][j0])
    BY <2>1
  <2>3. <<t, j>> = <<t0, j0>> /\ n \in 1..f[t0][j0]
    BY <2>2
  <2>4. t = t0 /\ j = j0
    BY <2>3
  <2> QED BY <2>2, <2>3, <2>4
<1>2. ASSUME t \in DOMAIN f, j \in 1..Buckets, n \in 1..f[t][j]
      PROVE  <<<<t, j>>, n>> \in TimingsOf(f)
  <2>1. <<<<t, j>>, n>> \in {<<t, j>>} \X (1..f[t][j]) /\ j \in DOMAIN f[t]
    BY <1>2
  <2>2. <<<<t, j>>, n>> \in UNION {{<<t, i>>} \X (1..f[t][i]) : i \in DOMAIN f[t]}
    BY <2>1
  <2> QED BY <2>2, <1>2 DEF TimingsOf
<1> QED BY <1>1, <1>2

\* An observation counts one more in its bucket, unless the registry is full.
LEMMA ObserveIs ==
  ASSUME \A t \in DOMAIN timed : timed[t] \in [1..Buckets -> Nat],
         NEW tool, NEW time \in Int, timed' = Observe(tool, time)
  PROVE  /\ \A t \in DOMAIN timed' : timed'[t] \in [1..Buckets -> Nat]
         /\ DOMAIN timed \subseteq DOMAIN timed' /\ DOMAIN timed' \subseteq DOMAIN timed \cup {tool}
         /\ Full(DOMAIN timed) => DOMAIN timed' = DOMAIN timed
         /\ \/ tool \in DOMAIN timed' /\ Grows(Timings, Timings', <<tool, BucketOf(time)>>)
            \/ tool \notin DOMAIN timed' /\ timed' = timed /\ Full(DOMAIN timed)
<1> DEFINE b == BucketOf(time)
           before == IF tool \in DOMAIN timed THEN timed[tool] ELSE NoCounts
           after == [before EXCEPT ![b] = @ + 1]
<1>1. b \in 1..Buckets
  BY BucketIs
<1>2. CASE ~HasRoom(DOMAIN timed, tool)
  BY <1>2 DEF Observe, HasRoom, Full
<1>3. CASE HasRoom(DOMAIN timed, tool)
  <2>1. timed' = [t \in DOMAIN timed \cup {tool} |->
          IF t = tool THEN after ELSE IF t \in DOMAIN timed THEN timed[t] ELSE NoCounts]
    BY <1>3 DEF Observe
  <2>2. NoCounts \in [1..Buckets -> Nat] /\ \A j \in 1..Buckets : NoCounts[j] = 0
    BY DEF NoCounts, Buckets
  <2>3. before \in [1..Buckets -> Nat]
    BY <2>2
  <2>4. tool \notin DOMAIN timed => \A j \in 1..Buckets : before[j] = 0
    BY <2>2
  <2> HIDE DEF before, b
  <2>5. /\ after \in [1..Buckets -> Nat] /\ after[b] = before[b] + 1
        /\ \A j \in 1..Buckets : j # b => after[j] = before[j]
    BY <1>1, <2>3
  <2>6. tool \in DOMAIN timed => before = timed[tool]
    BY DEF before
  <2> HIDE DEF after
  <2>7. /\ DOMAIN timed' = DOMAIN timed \cup {tool} /\ timed'[tool] = after
        /\ \A t \in DOMAIN timed : t # tool => timed'[t] = timed[t]
    BY <2>1
  <2>8. \A t \in DOMAIN timed' : timed'[t] \in [1..Buckets -> Nat]
    BY <2>5, <2>7
  <2>9. Full(DOMAIN timed) => DOMAIN timed' = DOMAIN timed
    BY <1>3, <2>7 DEF HasRoom, Full
  <2>u. Timings = TimingsOf(timed) /\ Timings' = TimingsOf(timed')
    BY DEF Timings, TimingsOf
  <2>10. \A t, j, n : <<<<t, j>>, n>> \in Timings <=>
            t \in DOMAIN timed /\ j \in 1..Buckets /\ n \in 1..timed[t][j]
    BY <2>u, TimingsAre
  <2>11. \A t, j, n : <<<<t, j>>, n>> \in Timings' <=>
            t \in DOMAIN timed' /\ j \in 1..Buckets /\ n \in 1..timed'[t][j]
    BY <2>8, <2>u, TimingsAre
  <2>12. /\ \A o \in Timings : \E t, j, n : o = <<<<t, j>>, n>>
         /\ \A o \in Timings' : \E t, j, n : o = <<<<t, j>>, n>>
    BY DEF Timings
  <2> DEFINE n0 == before[b] + 1
  <2>13. n0 \in Nat /\ n0 > 0 /\ before[b] \in Nat /\ after[b] = n0
    BY <1>1, <2>3, <2>5
  <2>14. <<<<tool, b>>, n0>> \notin Timings
    BY <2>6, <2>10, <2>13
  <2>15. ASSUME NEW t, NEW j, NEW n
         PROVE  <<<<t, j>>, n>> \in Timings' <=>
                  <<<<t, j>>, n>> \in Timings \/ (t = tool /\ j = b /\ n = n0)
    <3>1. CASE t # tool
      BY <3>1, <2>7, <2>10, <2>11
    <3>2. CASE t = tool /\ j # b
      <4>1. CASE tool \in DOMAIN timed /\ j \in 1..Buckets
        <5>1. timed'[t][j] = timed[t][j]
          BY <4>1, <3>2, <2>5, <2>6, <2>7
        <5> QED BY <5>1, <4>1, <3>2, <2>7, <2>10, <2>11
      <4>2. CASE tool \notin DOMAIN timed /\ j \in 1..Buckets
        <5>1. timed'[t][j] = 0
          BY <4>2, <3>2, <2>4, <2>5, <2>7
        <5> QED BY <5>1, <4>2, <3>2, <2>10, <2>11
      <4>3. CASE j \notin 1..Buckets
        BY <4>3, <3>2, <2>10, <2>11
      <4> QED BY <4>1, <4>2, <4>3
    <3>3. CASE t = tool /\ j = b
      <4>1. <<<<t, j>>, n>> \in Timings' <=> n \in 1..n0
        BY <3>3, <1>1, <2>7, <2>11, <2>13
      <4>2. CASE tool \in DOMAIN timed
        <5>1. <<<<t, j>>, n>> \in Timings <=> n \in 1..before[b]
          BY <3>3, <4>2, <1>1, <2>6, <2>10
        <5> QED BY <4>1, <5>1, <3>3, <2>13
      <4>3. CASE tool \notin DOMAIN timed
        <5>1. <<<<t, j>>, n>> \notin Timings /\ before[b] = 0
          BY <3>3, <4>3, <1>1, <2>4, <2>10
        <5> QED BY <4>1, <5>1, <3>3
      <4> QED BY <4>2, <4>3
    <3> QED BY <3>1, <3>2, <3>3
  <2> HIDE DEF n0
  <2>16. Timings' = Timings \cup {<<<<tool, b>>, n0>>}
    BY <2>12, <2>15
  <2>17. Grows(Timings, Timings', <<tool, b>>)
    BY <2>14, <2>16 DEF Grows
  <2> QED BY <2>7, <2>8, <2>9, <2>17 DEF b
<1> QED BY <1>2, <1>3

-----------------------------------------------------------------------------
(* What relates the counts and the calls.                                  *)

Labels == Codes \cup {NoCode}
Series == [tool : Tools \cup MadeUp, outcome : TerminalOutcomes, code : Labels]
CallRecords == [tool : Tools \cup MadeUp, outcome : TerminalOutcomes,
                code : Labels, time : Int]
SeriesOf(c) == [tool |-> c.tool, outcome |-> c.outcome, code |-> c.code]
Counters == [tool : Tools \cup MadeUp, outcome : TerminalOutcomes \cup {"shed"},
             code : Labels]
CallsOf(Q) == {c \in CallRecords : SeriesOf(c) \in Q}

\* The answered calls whose time fell in one of the first buckets.
UpTo(i) == {p \in Tools \X (1..Buckets) : p[2] <= i}
FitsIn(i) == {c \in CallRecords : c.outcome \in AnsweredCalls /\ BucketOf(c.time) <= i}

Withheld == {k \in [tool : Tools, stage : CallStages] : k.stage = "output_secret"}
BlockedCalls == {c \in CallRecords : c.outcome = "guardrail_blocked"}

RecordsInv ==
  /\ IsABag(collected) /\ IsABag(tried) /\ IsABag(blocked)
  /\ IsFiniteSet(DOMAIN collected) /\ Cardinality(DOMAIN collected) <= MaxSeries
  /\ DOMAIN blocked \subseteq [tool : Tools, stage : CallStages]
  /\ IsABag(happened.calls) /\ IsABag(happened.attempts)
  /\ happened = [calls |-> happened.calls, attempts |-> happened.attempts]
  /\ DOMAIN happened.calls \subseteq CallRecords
  /\ DOMAIN collected \subseteq Counters
  /\ DOMAIN timed \subseteq Tools /\ \A t \in DOMAIN timed : timed[t] \in [1..Buckets -> Nat]
  /\ IsFiniteSet(Occurrences(collected)) /\ IsFiniteSet(Occurrences(blocked))
  /\ IsFiniteSet(Occurrences(happened.calls)) /\ IsFiniteSet(Timings)

\* A series is missing only where the registry is full, and it never has room again.
RoomInv ==
  /\ \A c \in DOMAIN happened.calls :
       /\ SeriesOf(c) \in DOMAIN collected \/ Full(DOMAIN collected)
       /\ c.outcome \in AnsweredCalls => c.tool \in DOMAIN timed \/ Full(DOMAIN timed)
  /\ \A a \in DOMAIN happened.attempts : a \in DOMAIN tried \/ Full(DOMAIN tried)

\* No count exceeds what happened, and while nothing was refused each is exact.
CallSums ==
  \A Q \in SUBSET Series :
    LET counted == CountIn(Occurrences(collected), Q)
        were == CountIn(Occurrences(happened.calls), CallsOf(Q)) IN
    counted <= were /\ (NothingRefused => counted = were)
TimeSums ==
  \A i \in Nat :
    LET counted == CountIn(Timings, UpTo(i))
        were == CountIn(Occurrences(happened.calls), FitsIn(i)) IN
    counted <= were /\ (NothingRefused => counted = were)
BlockSums ==
  CountIn(Occurrences(blocked), Withheld)
    <= CountIn(Occurrences(happened.calls), BlockedCalls)

ReportsInv == RecordsInv /\ RoomInv /\ CallSums /\ TimeSums /\ BlockSums

LEMMA ReportsInitially == ReportsInit => ReportsInv
<1> SUFFICES ASSUME ReportsInit PROVE ReportsInv
  OBVIOUS
<1>1. /\ collected = EmptyBag /\ tried = EmptyBag /\ blocked = EmptyBag /\ DOMAIN timed = {}
      /\ happened.calls = EmptyBag /\ happened.attempts = EmptyBag
      /\ happened = [calls |-> happened.calls, attempts |-> happened.attempts]
  BY DEF ReportsInit
<1>2. DOMAIN EmptyBag = {} /\ IsABag(EmptyBag) /\ Occurrences(EmptyBag) = {}
  BY DEF EmptyBag, SetToBag, IsABag, Occurrences
<1>3. Timings = {}
  BY <1>1 DEF Timings
<1>4. IsFiniteSet({}) /\ Cardinality({}) = 0 /\ MaxSeries \in Nat
  BY FS_EmptySet, ReportsAssumption
<1>5. RecordsInv
  BY <1>1, <1>2, <1>3, <1>4 DEF RecordsInv
<1>6. RoomInv
  BY <1>1, <1>2 DEF RoomInv
<1>7. \A Q : CountIn({}, Q) = 0
  <2> SUFFICES ASSUME NEW Q PROVE CountIn({}, Q) = 0
    OBVIOUS
  <2>1. {o \in {} : o[1] \in Q} = {}
    OBVIOUS
  <2> QED BY <2>1, <1>4 DEF CountIn
<1>8. CallSums /\ TimeSums /\ BlockSums
  BY <1>1, <1>2, <1>3, <1>7 DEF CallSums, TimeSums, BlockSums
<1> QED BY <1>5, <1>6, <1>8 DEF ReportsInv

\* Nothing refused after a step means nothing refused before it.
LEMMA RefusedBefore ==
  ASSUME RoomInv, NothingRefused',
         DOMAIN happened.calls \subseteq DOMAIN happened'.calls,
         DOMAIN happened.attempts \subseteq DOMAIN happened'.attempts,
         Full(DOMAIN collected) => DOMAIN collected' = DOMAIN collected,
         Full(DOMAIN timed) => DOMAIN timed' = DOMAIN timed,
         Full(DOMAIN tried) => DOMAIN tried' = DOMAIN tried
  PROVE  NothingRefused
BY DEF RoomInv, NothingRefused, SeriesOf

LEMMA RoomKept ==
  ASSUME RoomInv,
         DOMAIN collected \subseteq DOMAIN collected', DOMAIN timed \subseteq DOMAIN timed',
         DOMAIN tried \subseteq DOMAIN tried',
         Full(DOMAIN collected) => DOMAIN collected' = DOMAIN collected,
         Full(DOMAIN timed) => DOMAIN timed' = DOMAIN timed,
         Full(DOMAIN tried) => DOMAIN tried' = DOMAIN tried,
         \A c \in DOMAIN happened'.calls \ DOMAIN happened.calls :
           /\ SeriesOf(c) \in DOMAIN collected' \/ Full(DOMAIN collected')
           /\ c.outcome \in AnsweredCalls => c.tool \in DOMAIN timed' \/ Full(DOMAIN timed'),
         \A a \in DOMAIN happened'.attempts \ DOMAIN happened.attempts :
           a \in DOMAIN tried' \/ Full(DOMAIN tried')
  PROVE  RoomInv'
BY DEF RoomInv

\* A registry that takes a series in had room for it.
LEMMA SeriesLimited ==
  ASSUME NEW bag, IsABag(bag), IsFiniteSet(DOMAIN bag), Cardinality(DOMAIN bag) <= MaxSeries,
         NEW key
  PROVE  /\ IsFiniteSet(DOMAIN Increment(bag, key))
         /\ Cardinality(DOMAIN Increment(bag, key)) <= MaxSeries
<1>1. CASE HasRoom(DOMAIN bag, key) /\ key \notin DOMAIN bag
  <2>1. DOMAIN Increment(bag, key) = DOMAIN bag \cup {key}
    BY <1>1, BagGrows DEF Increment
  <2>2. Cardinality(DOMAIN bag) < MaxSeries /\ Cardinality(DOMAIN bag) \in Nat
    BY <1>1, FS_CardinalityType DEF HasRoom
  <2>3. /\ IsFiniteSet(DOMAIN bag \cup {key})
        /\ Cardinality(DOMAIN bag \cup {key}) = Cardinality(DOMAIN bag) + 1
    BY <1>1, FS_AddElement
  <2> QED BY <2>1, <2>2, <2>3, ReportsAssumption
<1>2. CASE HasRoom(DOMAIN bag, key) /\ key \in DOMAIN bag
  <2>1. DOMAIN Increment(bag, key) = DOMAIN bag \cup {key}
    BY <1>2, BagGrows DEF Increment
  <2>2. DOMAIN bag \cup {key} = DOMAIN bag
    BY <1>2
  <2> QED BY <2>1, <2>2
<1>3. CASE ~HasRoom(DOMAIN bag, key)
  BY <1>3 DEF Increment
<1> QED BY <1>1, <1>2, <1>3

-----------------------------------------------------------------------------
(* Every step keeps it.                                                    *)

\* A call that ends is counted once, and observed if it was answered.
CallEnded(call) ==
  /\ call \in CallRecords
  /\ Counted(call.tool, call.outcome, call.code) /\ Happens(call) /\ tried' = tried
  /\ \/ call.outcome \notin AnsweredCalls /\ timed' = timed
     \/ call.outcome \in AnsweredCalls /\ call.tool \in Tools
        /\ timed' = Observe(call.tool, call.time)
  /\ \/ blocked' = blocked
     \/ call.outcome = "guardrail_blocked" /\ call.tool \in Tools
        /\ \E stage \in CallStages :
             blocked' = Increment(blocked, [tool |-> call.tool, stage |-> stage])

LEMMA CallIsCounted ==
  ASSUME ReportsInv, NEW call, CallEnded(call)
  PROVE  /\ RecordsInv' /\ RoomInv'
         /\ Grows(Occurrences(happened.calls), Occurrences(happened'.calls), call)
         /\ NothingRefused' => NothingRefused
         /\ \/ Grows(Occurrences(collected), Occurrences(collected'), SeriesOf(call))
            \/ Occurrences(collected') = Occurrences(collected) /\ ~NothingRefused'
         /\ \/ call.outcome \notin AnsweredCalls /\ Timings' = Timings
            \/ /\ call.outcome \in AnsweredCalls /\ call.tool \in Tools
               /\ \/ Grows(Timings, Timings', <<call.tool, BucketOf(call.time)>>)
                  \/ Timings' = Timings /\ ~NothingRefused'
         /\ \/ Occurrences(blocked') = Occurrences(blocked)
            \/ /\ call.outcome = "guardrail_blocked"
               /\ \E k : Grows(Occurrences(blocked), Occurrences(blocked'), k)
<1>0. RecordsInv /\ RoomInv /\ call \in CallRecords
  BY DEF ReportsInv, CallEnded
<1> DEFINE key == SeriesOf(call)
           G == happened.calls
           H == happened'.calls
<1>1. collected' = Increment(collected, key)
  BY DEF CallEnded, Counted, SeriesOf
<1>2. /\ happened' = [happened EXCEPT !.calls = G (+) SetToBag({call})]
      /\ H = G (+) SetToBag({call}) /\ happened'.attempts = happened.attempts
      /\ happened' = [calls |-> H, attempts |-> happened'.attempts]
  BY <1>0 DEF CallEnded, Happens, RecordsInv
<1>3. IsABag(H) /\ DOMAIN H = DOMAIN G \cup {call} /\ Grows(Occurrences(G), Occurrences(H), call)
  BY <1>0, <1>2, BagGrows DEF RecordsInv
<1>4. /\ IsABag(collected') /\ DOMAIN collected \subseteq DOMAIN collected'
      /\ DOMAIN collected' \subseteq DOMAIN collected \cup {key}
      /\ Full(DOMAIN collected) => DOMAIN collected' = DOMAIN collected
      /\ \/ key \in DOMAIN collected' /\ Grows(Occurrences(collected), Occurrences(collected'), key)
         \/ key \notin DOMAIN collected' /\ collected' = collected /\ Full(DOMAIN collected)
  <2> HIDE DEF key
  <2> QED BY <1>0, <1>1, IncrementIs DEF RecordsInv
<1>5. IsFiniteSet(DOMAIN collected') /\ Cardinality(DOMAIN collected') <= MaxSeries
  <2> HIDE DEF key
  <2> QED BY <1>0, <1>1, SeriesLimited DEF RecordsInv
<1>6. /\ \A t \in DOMAIN timed' : timed'[t] \in [1..Buckets -> Nat]
      /\ DOMAIN timed' \subseteq Tools
      /\ DOMAIN timed \subseteq DOMAIN timed'
      /\ Full(DOMAIN timed) => DOMAIN timed' = DOMAIN timed
      /\ \/ call.outcome \notin AnsweredCalls /\ Timings' = Timings
         \/ /\ call.outcome \in AnsweredCalls /\ call.tool \in Tools
            /\ \/ /\ call.tool \in DOMAIN timed'
                  /\ Grows(Timings, Timings', <<call.tool, BucketOf(call.time)>>)
               \/ call.tool \notin DOMAIN timed' /\ timed' = timed /\ Full(DOMAIN timed)
  <2>1. /\ \A t \in DOMAIN timed : timed[t] \in [1..Buckets -> Nat]
        /\ DOMAIN timed \subseteq Tools /\ call.time \in Int
    BY <1>0 DEF RecordsInv, CallRecords
  <2>2. CASE call.outcome \notin AnsweredCalls /\ timed' = timed
    BY <2>1, <2>2 DEF Timings
  <2>3. CASE /\ call.outcome \in AnsweredCalls /\ call.tool \in Tools
             /\ timed' = Observe(call.tool, call.time)
    <3>1. /\ \A t \in DOMAIN timed' : timed'[t] \in [1..Buckets -> Nat]
          /\ DOMAIN timed \subseteq DOMAIN timed'
          /\ DOMAIN timed' \subseteq DOMAIN timed \cup {call.tool}
          /\ Full(DOMAIN timed) => DOMAIN timed' = DOMAIN timed
          /\ \/ /\ call.tool \in DOMAIN timed'
                /\ Grows(Timings, Timings', <<call.tool, BucketOf(call.time)>>)
             \/ call.tool \notin DOMAIN timed' /\ timed' = timed /\ Full(DOMAIN timed)
      BY <2>1, <2>3, ObserveIs
    <3> QED BY <2>1, <2>3, <3>1
  <2> QED BY <2>2, <2>3 DEF CallEnded
<1>7. /\ IsABag(blocked') /\ DOMAIN blocked' \subseteq [tool : Tools, stage : CallStages]
      /\ \/ Occurrences(blocked') = Occurrences(blocked)
         \/ /\ call.outcome = "guardrail_blocked"
            /\ \E k : Grows(Occurrences(blocked), Occurrences(blocked'), k)
  <2>1. CASE blocked' = blocked
    BY <1>0, <2>1 DEF RecordsInv
  <2>2. ASSUME call.outcome = "guardrail_blocked", call.tool \in Tools, NEW stage \in CallStages,
               blocked' = Increment(blocked, [tool |-> call.tool, stage |-> stage])
        PROVE  /\ IsABag(blocked') /\ DOMAIN blocked' \subseteq [tool : Tools, stage : CallStages]
               /\ \/ Occurrences(blocked') = Occurrences(blocked)
                  \/ /\ call.outcome = "guardrail_blocked"
                     /\ \E k : Grows(Occurrences(blocked), Occurrences(blocked'), k)
    <3> DEFINE k == [tool |-> call.tool, stage |-> stage]
    <3>1. k \in [tool : Tools, stage : CallStages]
      BY <2>2
    <3> HIDE DEF k
    <3>2. /\ IsABag(blocked') /\ DOMAIN blocked' \subseteq DOMAIN blocked \cup {k}
          /\ \/ Grows(Occurrences(blocked), Occurrences(blocked'), k)
             \/ blocked' = blocked
      BY <1>0, <2>2, IncrementIs DEF RecordsInv, k
    <3>3. DOMAIN blocked' \subseteq [tool : Tools, stage : CallStages]
      BY <1>0, <3>1, <3>2 DEF RecordsInv
    <3> QED BY <2>2, <3>2, <3>3
  <2> QED BY <2>1, <2>2 DEF CallEnded
<1>8. tried' = tried
  BY DEF CallEnded
<1>9. NothingRefused' => NothingRefused
  <2>1. DOMAIN G \subseteq DOMAIN H
    BY <1>3
  <2> QED BY <1>0, <1>2, <1>4, <1>6, <1>8, <2>1, RefusedBefore
<1>10. /\ key \notin DOMAIN collected' => ~NothingRefused'
       /\ call.outcome \in AnsweredCalls /\ call.tool \notin DOMAIN timed' => ~NothingRefused'
  BY <1>3 DEF NothingRefused, SeriesOf
<1>11. RoomInv'
  <2>1. \A c \in DOMAIN H \ DOMAIN G : c = call
    BY <1>3
  <2>2. \/ key \in DOMAIN collected' \/ Full(DOMAIN collected')
    BY <1>4
  <2>3. call.outcome \in AnsweredCalls => call.tool \in DOMAIN timed' \/ Full(DOMAIN timed')
    BY <1>6
  <2>4. DOMAIN tried \subseteq DOMAIN tried' /\ (Full(DOMAIN tried) => DOMAIN tried' = DOMAIN tried)
    BY <1>8
  <2> QED BY <1>0, <1>2, <1>4, <1>6, <2>1, <2>2, <2>3, <2>4, RoomKept
<1>12. key \in Series
  BY <1>0 DEF CallRecords, SeriesOf, Series
<1>13. /\ IsFiniteSet(Occurrences(collected)) /\ IsFiniteSet(Occurrences(blocked))
       /\ IsFiniteSet(Occurrences(G)) /\ IsFiniteSet(Timings)
  BY <1>0 DEF RecordsInv
<1> HIDE DEF key
<1>14. IsFiniteSet(Occurrences(collected'))
  BY <1>4, <1>13, CountGrows
<1>15. IsFiniteSet(Occurrences(blocked'))
  BY <1>7, <1>13, CountGrows
<1>16. IsFiniteSet(Occurrences(H))
  BY <1>3, <1>13, CountGrows
<1>17. Timings' = Timings \/ Grows(Timings, Timings', <<call.tool, BucketOf(call.time)>>)
  BY <1>6 DEF Timings
<1>18. IsFiniteSet(Timings')
  BY <1>17, <1>13, CountGrows
<1>19. DOMAIN collected' \subseteq Counters
  <2>1. key \in Counters
    BY <1>12 DEF Series, Counters
  <2> QED BY <1>0, <1>4, <2>1 DEF RecordsInv
<1>20. RecordsInv'
  BY <1>0, <1>2, <1>3, <1>4, <1>5, <1>6, <1>7, <1>8, <1>14, <1>15, <1>16, <1>18, <1>19
     DEF RecordsInv
<1>21. \/ Grows(Occurrences(collected), Occurrences(collected'), key)
       \/ Occurrences(collected') = Occurrences(collected) /\ ~NothingRefused'
  BY <1>4, <1>10
<1>22. \/ call.outcome \notin AnsweredCalls /\ Timings' = Timings
       \/ /\ call.outcome \in AnsweredCalls /\ call.tool \in Tools
          /\ \/ Grows(Timings, Timings', <<call.tool, BucketOf(call.time)>>)
             \/ Timings' = Timings /\ ~NothingRefused'
  BY <1>6, <1>10 DEF Timings
<1> QED BY <1>3, <1>7, <1>9, <1>11, <1>20, <1>21, <1>22 DEF key

LEMMA CallEndedStep == ASSUME ReportsInv, NEW call, CallEnded(call) PROVE ReportsInv'
<1>0. RecordsInv /\ CallSums /\ TimeSums /\ BlockSums /\ call \in CallRecords
  BY DEF ReportsInv, CallEnded
<1> DEFINE before == Occurrences(happened.calls)
           after == Occurrences(happened'.calls)
<1>1. /\ RecordsInv' /\ RoomInv' /\ Grows(before, after, call)
      /\ NothingRefused' => NothingRefused
  BY CallIsCounted
<1>2. IsFiniteSet(before) /\ IsFiniteSet(after)
  BY <1>0, <1>1 DEF RecordsInv
<1> HIDE DEF before, after
<1>3. \A Q : CountIn(after, Q) = IF call \in Q THEN CountIn(before, Q) + 1 ELSE CountIn(before, Q)
  BY <1>1, <1>2, CountGrows
<1>n. \A Q : CountIn(before, Q) \in Nat
  BY <1>2, CountsAreNumbers
<1>4. CallSums'
  <2> SUFFICES ASSUME NEW Q \in SUBSET Series
               PROVE  /\ CountIn(Occurrences(collected'), Q) <= CountIn(after, CallsOf(Q))
                      /\ NothingRefused' =>
                           CountIn(Occurrences(collected'), Q) = CountIn(after, CallsOf(Q))
    BY DEF CallSums, after
  <2> DEFINE old == Occurrences(collected)
             new == Occurrences(collected')
  <2>1. /\ CountIn(old, Q) <= CountIn(before, CallsOf(Q))
        /\ NothingRefused => CountIn(old, Q) = CountIn(before, CallsOf(Q))
    BY <1>0 DEF CallSums, before
  <2>2. call \in CallsOf(Q) <=> SeriesOf(call) \in Q
    BY <1>0 DEF CallsOf
  <2>3. CountIn(after, CallsOf(Q)) = IF SeriesOf(call) \in Q THEN CountIn(before, CallsOf(Q)) + 1
                                     ELSE CountIn(before, CallsOf(Q))
    BY <1>3, <2>2
  <2>4. CountIn(before, CallsOf(Q)) \in Nat
    BY <1>n
  <2>5. IsFiniteSet(old)
    BY <1>0 DEF RecordsInv
  <2>6. Grows(old, new, SeriesOf(call)) \/ (new = old /\ ~NothingRefused')
    BY CallIsCounted
  <2> HIDE DEF old, new
  <2>7. CountIn(old, Q) \in Nat
    BY <2>5, CountsAreNumbers
  <2>8. Grows(old, new, SeriesOf(call)) =>
          CountIn(new, Q) = IF SeriesOf(call) \in Q THEN CountIn(old, Q) + 1 ELSE CountIn(old, Q)
    BY <2>5, CountGrows
  <2>9. /\ CountIn(new, Q) <= CountIn(after, CallsOf(Q))
        /\ NothingRefused' => CountIn(new, Q) = CountIn(after, CallsOf(Q))
    BY <1>1, <2>1, <2>3, <2>4, <2>6, <2>7, <2>8
  <2> QED BY <2>9 DEF new
<1>5. TimeSums'
  <2> SUFFICES ASSUME NEW i \in Nat
               PROVE  /\ CountIn(Timings', UpTo(i)) <= CountIn(after, FitsIn(i))
                      /\ NothingRefused' => CountIn(Timings', UpTo(i)) = CountIn(after, FitsIn(i))
    BY DEF TimeSums, after, UpTo, FitsIn
  <2>1. /\ CountIn(Timings, UpTo(i)) <= CountIn(before, FitsIn(i))
        /\ NothingRefused => CountIn(Timings, UpTo(i)) = CountIn(before, FitsIn(i))
    BY <1>0 DEF TimeSums, before
  <2>2. call \in FitsIn(i) <=> call.outcome \in AnsweredCalls /\ BucketOf(call.time) <= i
    BY <1>0 DEF FitsIn
  <2>3. CountIn(after, FitsIn(i)) = IF call \in FitsIn(i) THEN CountIn(before, FitsIn(i)) + 1
                                    ELSE CountIn(before, FitsIn(i))
    BY <1>3
  <2>4. CountIn(before, FitsIn(i)) \in Nat
    BY <1>n
  <2>5. IsFiniteSet(Timings)
    BY <1>0 DEF RecordsInv
  <2>6. \/ call.outcome \notin AnsweredCalls /\ Timings' = Timings
        \/ /\ call.outcome \in AnsweredCalls /\ call.tool \in Tools
           /\ \/ Grows(Timings, Timings', <<call.tool, BucketOf(call.time)>>)
              \/ Timings' = Timings /\ ~NothingRefused'
    BY CallIsCounted
  <2>7. CountIn(Timings, UpTo(i)) \in Nat
    BY <2>5, CountsAreNumbers
  <2> DEFINE p == <<call.tool, BucketOf(call.time)>>
  <2>8. Grows(Timings, Timings', p) =>
          CountIn(Timings', UpTo(i)) = IF p \in UpTo(i) THEN CountIn(Timings, UpTo(i)) + 1
                                       ELSE CountIn(Timings, UpTo(i))
    <3> HIDE DEF p
    <3> QED BY <2>5, CountGrows
  <2>9. call.tool \in Tools => (p \in UpTo(i) <=> BucketOf(call.time) <= i)
    <3>1. BucketOf(call.time) \in 1..Buckets
      BY <1>0, BucketIs DEF CallRecords
    <3> QED BY <3>1 DEF UpTo
  <2> HIDE DEF p
  <2> QED BY <1>1, <2>1, <2>2, <2>3, <2>4, <2>6, <2>7, <2>8, <2>9 DEF p
<1>6. BlockSums'
  <2> DEFINE old == Occurrences(blocked)
             new == Occurrences(blocked')
             were == CountIn(before, BlockedCalls)
             are == CountIn(after, BlockedCalls)
  <2>1. CountIn(old, Withheld) <= were
    BY <1>0 DEF BlockSums, before
  <2>2. call \in BlockedCalls <=> call.outcome = "guardrail_blocked"
    BY <1>0 DEF BlockedCalls
  <2>3. were \in Nat /\ are = IF call \in BlockedCalls THEN were + 1 ELSE were
    BY <1>3, <1>n
  <2>4. IsFiniteSet(old)
    BY <1>0 DEF RecordsInv
  <2>5. new = old \/ (call.outcome = "guardrail_blocked" /\ \E k : Grows(old, new, k))
    BY CallIsCounted
  <2> HIDE DEF old, new, were, are
  <2>6. CountIn(old, Withheld) \in Nat
    BY <2>4, CountsAreNumbers
  <2>7. ASSUME NEW k, Grows(old, new, k) PROVE CountIn(new, Withheld) <= CountIn(old, Withheld) + 1
    <3>1. CountIn(new, Withheld) = IF k \in Withheld THEN CountIn(old, Withheld) + 1
                                   ELSE CountIn(old, Withheld)
      BY <2>4, <2>7, CountGrows
    <3> QED BY <2>6, <3>1
  <2>8. CountIn(new, Withheld) <= are
    <3>1. CASE new = old
      BY <3>1, <2>1, <2>3, <2>6
    <3>2. CASE call.outcome = "guardrail_blocked" /\ \E k : Grows(old, new, k)
      <4>1. CountIn(new, Withheld) <= CountIn(old, Withheld) + 1 /\ are = were + 1
        BY <3>2, <2>2, <2>3, <2>7
      <4>2. CountIn(new, Withheld) \in Nat
        <5>1. IsFiniteSet(new)
          BY <3>2, <2>4, CountGrows
        <5> QED BY <5>1, CountsAreNumbers
      <4> QED BY <4>1, <4>2, <2>1, <2>3, <2>6
    <3> QED BY <2>5, <3>1, <3>2
  <2> QED BY <2>8 DEF BlockSums, new, are, after
<1> QED BY <1>1, <1>4, <1>5, <1>6 DEF ReportsInv

\* Every way a call ends.
LEMMA EndsAreCalls ==
  ASSUME NEW tool \in Tools \cup MadeUp
  PROVE  /\ \A code \in Codes : RecordDenial(tool, code) => CallEnded(RunCall(tool, "denied", code, 0))
         /\ tool \in Tools =>
              /\ \A stage \in CallStages : RecordGuardrailBlock(tool, stage) =>
                   CallEnded(RunCall(tool, "guardrail_blocked", NoCode, 0))
              /\ \A outcome \in AnsweredCalls, time \in Times :
                   RecordSuccess(tool, outcome, time) =>
                     CallEnded(RunCall(tool, outcome, NoCode, time))
              /\ \A code \in Codes :
                   RecordFailure(tool, code) => CallEnded(RunCall(tool, "failed", code, 0))
<1>1. \A outcome, code, time :
        LET call == RunCall(tool, outcome, code, time) IN
        /\ call.tool = tool /\ call.outcome = outcome /\ call.code = code /\ call.time = time
        /\ outcome \in TerminalOutcomes /\ code \in Labels /\ time \in Int => call \in CallRecords
  BY DEF RunCall, CallRecords
<1>2. "denied" \in TerminalOutcomes /\ "guardrail_blocked" \in TerminalOutcomes
      /\ "failed" \in TerminalOutcomes /\ AnsweredCalls \subseteq TerminalOutcomes
      /\ "denied" \notin AnsweredCalls /\ "guardrail_blocked" \notin AnsweredCalls
      /\ "failed" \notin AnsweredCalls /\ 0 \in Int
      /\ NoCode \in Labels /\ Codes \subseteq Labels
  BY DEF TerminalOutcomes, AnsweredCalls, Labels
<1>3. Times \subseteq Int
  BY ReportsAssumption
<1>4. ASSUME NEW code \in Codes, RecordDenial(tool, code)
      PROVE  CallEnded(RunCall(tool, "denied", code, 0))
  BY <1>1, <1>2, <1>4 DEF RecordDenial, CallEnded
<1>5. ASSUME tool \in Tools, NEW stage \in CallStages, RecordGuardrailBlock(tool, stage)
      PROVE  CallEnded(RunCall(tool, "guardrail_blocked", NoCode, 0))
  BY <1>1, <1>2, <1>5 DEF RecordGuardrailBlock, CallEnded
<1>6. ASSUME tool \in Tools, NEW outcome \in AnsweredCalls, NEW time \in Times,
             RecordSuccess(tool, outcome, time)
      PROVE  CallEnded(RunCall(tool, outcome, NoCode, time))
  BY <1>1, <1>2, <1>3, <1>6 DEF RecordSuccess, CallEnded
<1>7. ASSUME NEW code \in Codes, RecordFailure(tool, code)
      PROVE  CallEnded(RunCall(tool, "failed", code, 0))
  BY <1>1, <1>2, <1>7 DEF RecordFailure, CallEnded
<1> QED BY <1>4, <1>5, <1>6, <1>7

\* A call that waits adds a series no terminal outcome has.
LEMMA ShedStep == ASSUME ReportsInv, NEW tool \in Tools, CountShed(tool) PROVE ReportsInv'
<1>0. RecordsInv /\ RoomInv /\ CallSums /\ TimeSums /\ BlockSums
  BY DEF ReportsInv
<1> DEFINE key == [tool |-> tool, outcome |-> "shed", code |-> NoCode]
           old == Occurrences(collected)
           new == Occurrences(collected')
<1>1. collected' = Increment(collected, key)
      /\ timed' = timed /\ tried' = tried /\ blocked' = blocked /\ happened' = happened
  BY DEF CountShed, Counted
<1>2. /\ key \in Counters
      /\ \A Q \in SUBSET Series : key \notin Q
  BY DEF Series, Counters, Labels, TerminalOutcomes
<1> HIDE DEF key
<1>3. /\ IsABag(collected') /\ DOMAIN collected \subseteq DOMAIN collected'
      /\ DOMAIN collected' \subseteq DOMAIN collected \cup {key}
      /\ Full(DOMAIN collected) => DOMAIN collected' = DOMAIN collected
      /\ Grows(old, new, key) \/ new = old
  BY <1>0, <1>1, IncrementIs DEF RecordsInv
<1>4. IsFiniteSet(DOMAIN collected') /\ Cardinality(DOMAIN collected') <= MaxSeries
  BY <1>0, <1>1, SeriesLimited DEF RecordsInv
<1>5. IsFiniteSet(old)
  BY <1>0 DEF RecordsInv
<1> HIDE DEF old, new
<1>6. IsFiniteSet(new) /\ \A Q \in SUBSET Series : CountIn(new, Q) = CountIn(old, Q)
  BY <1>2, <1>3, <1>5, CountGrows
<1>7. NothingRefused' => NothingRefused
  BY <1>0, <1>1, <1>3, RefusedBefore
<1>8. RoomInv'
  <2>1. /\ DOMAIN happened'.calls \ DOMAIN happened.calls = {}
        /\ DOMAIN happened'.attempts \ DOMAIN happened.attempts = {}
        /\ DOMAIN timed' = DOMAIN timed /\ DOMAIN tried' = DOMAIN tried
    BY <1>1
  <2> QED BY <1>0, <1>3, <2>1, RoomKept
<1>9. Timings' = Timings
  BY <1>1 DEF Timings
<1>10. RecordsInv'
  <2>1. DOMAIN collected' \subseteq Counters
    BY <1>0, <1>2, <1>3 DEF RecordsInv
  <2> QED BY <1>0, <1>1, <1>3, <1>4, <1>6, <1>9, <2>1 DEF RecordsInv, new
<1>11. CallSums'
  BY <1>0, <1>1, <1>6, <1>7 DEF CallSums, old, new
<1>12. TimeSums' /\ BlockSums'
  BY <1>0, <1>1, <1>7, <1>9 DEF TimeSums, BlockSums, UpTo, FitsIn, Withheld, BlockedCalls
<1> QED BY <1>8, <1>10, <1>11, <1>12 DEF ReportsInv

\* An attempt is counted beside the calls.
LEMMA AttemptStep ==
  ASSUME ReportsInv, NEW tool \in Tools, NEW n \in 0..1, OnAttempt(tool, n) PROVE ReportsInv'
<1>0. RecordsInv /\ RoomInv /\ CallSums /\ TimeSums /\ BlockSums
  BY DEF ReportsInv
<1> DEFINE key == [tool |-> tool, stage |-> n]
           G == happened.attempts
           H == happened'.attempts
<1>1. /\ tried' = Increment(tried, key)
      /\ happened' = [happened EXCEPT !.attempts = G (+) SetToBag({key})]
      /\ collected' = collected /\ timed' = timed /\ blocked' = blocked
  BY DEF OnAttempt
<1> HIDE DEF key
<1>2. /\ H = G (+) SetToBag({key}) /\ happened'.calls = happened.calls
      /\ happened' = [calls |-> happened'.calls, attempts |-> H]
  BY <1>0, <1>1 DEF RecordsInv
<1>3. IsABag(H) /\ DOMAIN H = DOMAIN G \cup {key}
  <2>1. IsABag(G)
    BY <1>0 DEF RecordsInv
  <2>2. H = G (+) SetToBag({key})
    BY <1>2
  <2> HIDE DEF G, H
  <2> QED BY <2>1, <2>2, BagGrows
<1>4. /\ IsABag(tried') /\ DOMAIN tried \subseteq DOMAIN tried'
      /\ Full(DOMAIN tried) => DOMAIN tried' = DOMAIN tried
      /\ key \in DOMAIN tried' \/ Full(DOMAIN tried')
  BY <1>0, <1>1, IncrementIs DEF RecordsInv
<1>5. NothingRefused' => NothingRefused
  BY <1>0, <1>1, <1>2, <1>3, <1>4, RefusedBefore
<1>6. RoomInv'
  <2>1. /\ DOMAIN happened'.calls \ DOMAIN happened.calls = {}
        /\ \A a \in DOMAIN H \ DOMAIN G : a = key
        /\ DOMAIN timed' = DOMAIN timed /\ DOMAIN collected' = DOMAIN collected
    BY <1>1, <1>2, <1>3
  <2> QED BY <1>0, <1>4, <2>1, RoomKept
<1>7. Timings' = Timings
  BY <1>1 DEF Timings
<1>8. RecordsInv'
  BY <1>0, <1>1, <1>2, <1>3, <1>4, <1>7 DEF RecordsInv
<1>9. CallSums' /\ TimeSums' /\ BlockSums'
  BY <1>0, <1>1, <1>2, <1>5, <1>7
     DEF CallSums, TimeSums, BlockSums, UpTo, FitsIn, Withheld, BlockedCalls, CallsOf
<1> QED BY <1>6, <1>8, <1>9 DEF ReportsInv

LEMMA ReportsStep == ReportsInv /\ [ReportsNext]_reports => ReportsInv'
<1> SUFFICES ASSUME ReportsInv, [ReportsNext]_reports PROVE ReportsInv'
  OBVIOUS
<1>1. ASSUME NEW name \in Tools \cup MadeUp, NEW code \in Codes, RecordDenial(name, code)
      PROVE  ReportsInv'
  BY <1>1, EndsAreCalls, CallEndedStep
<1>2. ASSUME NEW tool \in Tools, NEW stage \in CallStages, RecordGuardrailBlock(tool, stage)
      PROVE  ReportsInv'
  BY <1>2, EndsAreCalls, CallEndedStep
<1>3. ASSUME NEW tool \in Tools, NEW outcome \in AnsweredCalls, NEW time \in Times,
             RecordSuccess(tool, outcome, time)
      PROVE  ReportsInv'
  BY <1>3, EndsAreCalls, CallEndedStep
<1>4. ASSUME NEW tool \in Tools, NEW code \in Codes, RecordFailure(tool, code) PROVE ReportsInv'
  BY <1>4, EndsAreCalls, CallEndedStep
<1>5. ASSUME NEW tool \in Tools, CountShed(tool) PROVE ReportsInv'
  BY <1>5, ShedStep
<1>6. ASSUME NEW tool \in Tools, NEW n \in 0..1, OnAttempt(tool, n) PROVE ReportsInv'
  BY <1>6, AttemptStep
<1>7. CASE UNCHANGED reports
  <2>1. /\ collected' = collected /\ timed' = timed /\ tried' = tried
        /\ blocked' = blocked /\ happened' = happened
    BY <1>7 DEF reports
  <2>2. Timings' = Timings /\ NothingRefused' = NothingRefused
    BY <2>1 DEF Timings, NothingRefused
  <2> QED BY <2>1, <2>2
          DEF ReportsInv, RecordsInv, RoomInv, CallSums, TimeSums, BlockSums,
              UpTo, FitsIn, Withheld, BlockedCalls, CallsOf
<1> QED BY <1>1, <1>2, <1>3, <1>4, <1>5, <1>6, <1>7 DEF ReportsNext

\* No counter holds more than happened; while every series had room each is
\* exact; and a series that had none is missing for good (metrics.py).
THEOREM ReportsCountWhatHappened == ReportsSpec => []ReportsInv
BY ReportsInitially, ReportsStep, PTL DEF ReportsSpec

\* The registries hold bags of bounded series, the histograms counts per bucket.
THEOREM ReportsTyped == ReportsSpec => []ReportsTypeOK
<1>1. ReportsInv => ReportsTypeOK
  <2> SUFFICES ASSUME ReportsInv, NEW t \in DOMAIN timed PROVE timed[t] \in Seq(Nat)
    BY DEF ReportsInv, RecordsInv, ReportsTypeOK
  <2>1. timed[t] \in [1..Buckets -> Nat]
    BY DEF ReportsInv, RecordsInv
  <2>2. Buckets \in Nat
    BY EdgesAre
  <2> QED BY <2>1, <2>2
<1> QED BY <1>1, ReportsCountWhatHappened, PTL

-----------------------------------------------------------------------------
(* What the report says of them.                                           *)

\* How many of the calls that ended are in a set.
CallCount(Q) == CountIn(Occurrences(happened.calls), Q)
EndedWith(outcomes) == {c \in CallRecords : c.outcome \in outcomes}

LEMMA OccurrencesOf == ASSUME NEW bag PROVE \A o \in Occurrences(bag) : o[1] \in DOMAIN bag
BY DEF Occurrences

LEMMA CallsAre ==
  ASSUME ReportsInv
  PROVE  /\ IsFiniteSet(Occurrences(happened.calls)) /\ \A Q : CallCount(Q) \in Nat
         /\ \A o \in Occurrences(happened.calls) : o[1] \in CallRecords
<1>1. IsFiniteSet(Occurrences(happened.calls)) /\ DOMAIN happened.calls \subseteq CallRecords
  BY DEF ReportsInv, RecordsInv
<1> QED BY <1>1, CountsAreNumbers, OccurrencesOf DEF CallCount

\* The calls that ended one of some ways, and the series that count them.
LEMMA EndedIs ==
  ASSUME ReportsInv, NEW S \in SUBSET TerminalOutcomes
  PROVE  /\ Ended(S) = CallCount(EndedWith(S))
         /\ ByOutcome(S) \in Nat /\ ByOutcome(S) <= Ended(S)
         /\ NothingRefused => ByOutcome(S) = Ended(S)
<1> DEFINE Q == {k \in Series : k.outcome \in S}
           A == Occurrences(collected)
           H == Occurrences(happened.calls)
<1>1. Ended(S) = CallCount(EndedWith(S))
  <2>1. Ended(S) = Cardinality({o \in H : o[1].outcome \in S})
    BY DEF Ended, SumWhere
  <2>2. \A o \in H : o[1].outcome \in S <=> o[1] \in EndedWith(S)
    BY CallsAre DEF EndedWith
  <2> HIDE DEF H
  <2>3. {o \in H : o[1].outcome \in S} = {o \in H : o[1] \in EndedWith(S)}
    BY <2>2
  <2> QED BY <2>1, <2>3 DEF CallCount, CountIn, H
<1>2. ByOutcome(S) = CountIn(A, Q)
  <2>1. ByOutcome(S) = Cardinality({o \in A : o[1].outcome \in S})
    BY DEF ByOutcome, SumWhere
  <2>2. \A o \in A : o[1].outcome \in S <=> o[1] \in Q
    <3>1. \A o \in A : o[1] \in Counters
      BY OccurrencesOf DEF ReportsInv, RecordsInv
    <3> QED BY <3>1 DEF Series, Counters
  <2> HIDE DEF A, Q
  <2>3. {o \in A : o[1].outcome \in S} = {o \in A : o[1] \in Q}
    BY <2>2
  <2> QED BY <2>1, <2>3 DEF CountIn
<1>3. CallsOf(Q) = EndedWith(S)
  BY DEF CallsOf, EndedWith, SeriesOf, Series, CallRecords
<1>4. Q \in SUBSET Series
  OBVIOUS
<1>5. IsFiniteSet(A)
  BY DEF ReportsInv, RecordsInv
<1> HIDE DEF Q, A, H
<1>6. /\ CountIn(A, Q) <= CallCount(CallsOf(Q))
      /\ NothingRefused => CountIn(A, Q) = CallCount(CallsOf(Q))
  BY <1>4 DEF ReportsInv, CallSums, CallCount, A
<1>7. CountIn(A, Q) \in Nat
  BY <1>5, CountsAreNumbers
<1> QED BY <1>1, <1>2, <1>3, <1>6, <1>7

\* The observations up to a bucket.
LEMMA CumulativeIs ==
  ASSUME ReportsInv, NEW i \in Nat
  PROVE  /\ Cumulative(i) \in Nat /\ Cumulative(i) <= CallCount(FitsIn(i))
         /\ NothingRefused => Cumulative(i) = CallCount(FitsIn(i))
<1>1. \A o \in Timings : o[1] \in Tools \X (1..Buckets)
  <2>1. DOMAIN timed \subseteq Tools /\ \A t \in DOMAIN timed : timed[t] \in [1..Buckets -> Nat]
    BY DEF ReportsInv, RecordsInv
  <2> SUFFICES ASSUME NEW o \in Timings PROVE o[1] \in Tools \X (1..Buckets)
    OBVIOUS
  <2>2. PICK t \in DOMAIN timed :
          o \in UNION {{<<t, j>>} \X (1..timed[t][j]) : j \in DOMAIN timed[t]}
    BY DEF Timings
  <2>3. PICK j \in DOMAIN timed[t] : o \in {<<t, j>>} \X (1..timed[t][j])
    BY <2>2
  <2>4. o[1] = <<t, j>> /\ t \in Tools /\ j \in 1..Buckets
    BY <2>1, <2>3
  <2> QED BY <2>4
<1>2. Cumulative(i) = CountIn(Timings, UpTo(i))
  <2>1. {o \in Timings : o[1][2] <= i} = {o \in Timings : o[1] \in UpTo(i)}
    BY <1>1 DEF UpTo
  <2> QED BY <2>1 DEF Cumulative, CountIn
<1>3. CountIn(Timings, UpTo(i)) \in Nat
  BY CountsAreNumbers DEF ReportsInv, RecordsInv
<1>4. /\ CountIn(Timings, UpTo(i)) <= CallCount(FitsIn(i))
      /\ NothingRefused => CountIn(Timings, UpTo(i)) = CallCount(FitsIn(i))
  BY DEF ReportsInv, TimeSums, CallCount
<1> QED BY <1>2, <1>3, <1>4

\* Every answered call falls in some bucket.
LEMMA ObservationsAre ==
  ASSUME ReportsInv
  PROVE  /\ Observations \in Nat /\ Observations <= Ended(AnsweredCalls)
         /\ NothingRefused => Observations = Ended(AnsweredCalls)
<1>1. Observations = Cumulative(Buckets)
  BY DEF Observations, Buckets
<1>2. FitsIn(Buckets) = EndedWith(AnsweredCalls)
  <2>1. \A c \in CallRecords : BucketOf(c.time) \in 1..Buckets
    BY BucketIs DEF CallRecords
  <2> QED BY <2>1, EdgesAre DEF FitsIn, EndedWith
<1>3. AnsweredCalls \in SUBSET TerminalOutcomes
  BY DEF AnsweredCalls, TerminalOutcomes
<1>4. Ended(AnsweredCalls) = CallCount(EndedWith(AnsweredCalls))
  BY <1>3, EndedIs
<1> QED BY <1>1, <1>2, <1>4, CumulativeIs, EdgesAre

\* The calls a latency objective asks for.
Fast == {c \in EndedWith(AnsweredCalls) : c.time <= AtMostTime}
Late == {c \in EndedWith(AnsweredCalls) : c.time > Last(Edges)}
Sure == {c \in EndedWith(AnsweredCalls) :
           \E e \in {Edges[i] : i \in {i \in DOMAIN Edges : Edges[i] <= AtMostTime}} : c.time <= e}

LEMMA TookIs ==
  ASSUME ReportsInv
  PROVE  /\ Took(AnsweredCalls, LAMBDA time : time <= AtMostTime) = CallCount(Fast)
         /\ Took(AnsweredCalls, LAMBDA time : time > Last(Edges)) = CallCount(Late)
         /\ Took(AnsweredCalls,
                 LAMBDA time : \E e \in {Edges[i] : i \in {i \in DOMAIN Edges : Edges[i] <= AtMostTime}} :
                                 time <= e)
              = CallCount(Sure)
<1> DEFINE H == Occurrences(happened.calls)
           answered == {o \in H : o[1].outcome \in AnsweredCalls}
           edges == {Edges[i] : i \in {i \in DOMAIN Edges : Edges[i] <= AtMostTime}}
<1>1. /\ Took(AnsweredCalls, LAMBDA time : time <= AtMostTime)
           = Cardinality({o \in H : o[1].outcome \in AnsweredCalls /\ o[1].time <= AtMostTime})
      /\ Took(AnsweredCalls, LAMBDA time : time > Last(Edges))
           = Cardinality({o \in H : o[1].outcome \in AnsweredCalls /\ o[1].time > Last(Edges)})
      /\ Took(AnsweredCalls, LAMBDA time : \E e \in edges : time <= e)
           = Cardinality({o \in H : o[1].outcome \in AnsweredCalls
                                      /\ \E e \in edges : o[1].time <= e})
  BY DEF Took, SumWhere
<1>2. /\ CallCount(Fast) = Cardinality({o \in H : o[1] \in Fast})
      /\ CallCount(Late) = Cardinality({o \in H : o[1] \in Late})
      /\ CallCount(Sure) = Cardinality({o \in H : o[1] \in Sure})
  BY DEF CallCount, CountIn
<1>3. \A o \in H : o[1] \in CallRecords
  BY CallsAre
<1> HIDE DEF H, answered
<1>4. /\ {o \in H : o[1].outcome \in AnsweredCalls /\ o[1].time <= AtMostTime}
           = {o \in H : o[1] \in Fast}
      /\ {o \in H : o[1].outcome \in AnsweredCalls /\ o[1].time > Last(Edges)}
           = {o \in H : o[1] \in Late}
  BY <1>3 DEF Fast, Late, EndedWith
<1>5. {o \in H : o[1].outcome \in AnsweredCalls /\ \E e \in edges : o[1].time <= e}
        = {o \in H : o[1] \in Sure}
  BY <1>3 DEF Sure, EndedWith
<1> QED BY <1>1, <1>2, <1>4, <1>5

LEMMA CompletedIs ==
  ASSUME ReportsInv, NothingRefused, NEW tool \in Tools
  PROVE  Completed(tool) = SumWhere(happened.calls, LAMBDA c : c.tool = tool /\ c.outcome = "ok")
<1> DEFINE A == Occurrences(collected)
           H == Occurrences(happened.calls)
           Q == {k \in Series : k.tool = tool /\ k.outcome = "ok"}
<1>1. /\ Completed(tool) = Cardinality({o \in A : o[1].tool = tool /\ o[1].outcome = "ok"})
      /\ SumWhere(happened.calls, LAMBDA c : c.tool = tool /\ c.outcome = "ok")
           = Cardinality({o \in H : o[1].tool = tool /\ o[1].outcome = "ok"})
  BY DEF Completed, SumWhere
<1>2. \A o \in A : (o[1].tool = tool /\ o[1].outcome = "ok") <=> o[1] \in Q
  <2>1. \A o \in A : o[1] \in Counters
    BY OccurrencesOf DEF ReportsInv, RecordsInv
  <2> QED BY <2>1 DEF Series, Counters, TerminalOutcomes
<1>3. \A o \in H : (o[1].tool = tool /\ o[1].outcome = "ok") <=> o[1] \in CallsOf(Q)
  <2>1. \A o \in H : o[1] \in CallRecords
    BY CallsAre
  <2>2. \A c \in CallRecords : (c.tool = tool /\ c.outcome = "ok") <=> c \in CallsOf(Q)
    BY DEF CallsOf, SeriesOf, Series, CallRecords
  <2> QED BY <2>1, <2>2
<1>4. Q \in SUBSET Series
  OBVIOUS
<1>5. CountIn(A, Q) = CountIn(H, CallsOf(Q))
  <2> HIDE DEF Q
  <2> QED BY <1>4 DEF ReportsInv, CallSums
<1> HIDE DEF A, H, Q
<1>6. /\ {o \in A : o[1].tool = tool /\ o[1].outcome = "ok"} = {o \in A : o[1] \in Q}
      /\ {o \in H : o[1].tool = tool /\ o[1].outcome = "ok"} = {o \in H : o[1] \in CallsOf(Q)}
  BY <1>2, <1>3
<1> QED BY <1>1, <1>5, <1>6 DEF CountIn

\* No more guardrail blocks are reported than calls were blocked.
LEMMA BlocksAre == ReportsInv => OutputBlocks <= Ended({"guardrail_blocked"})
<1> SUFFICES ASSUME ReportsInv PROVE OutputBlocks <= Ended({"guardrail_blocked"})
  OBVIOUS
<1> DEFINE A == Occurrences(blocked)
<1>1. OutputBlocks = Cardinality({o \in A : o[1].stage = "output_secret"})
  BY DEF OutputBlocks, SumWhere
<1>2. \A o \in A : o[1].stage = "output_secret" <=> o[1] \in Withheld
  BY OccurrencesOf DEF ReportsInv, RecordsInv, Withheld
<1>3. CountIn(A, Withheld) <= CallCount(BlockedCalls)
  BY DEF ReportsInv, BlockSums, CallCount
<1> HIDE DEF A
<1>4. {o \in A : o[1].stage = "output_secret"} = {o \in A : o[1] \in Withheld}
  BY <1>2
<1>5. BlockedCalls = EndedWith({"guardrail_blocked"})
  BY DEF BlockedCalls, EndedWith
<1>6. Ended({"guardrail_blocked"}) = CallCount(EndedWith({"guardrail_blocked"}))
  <2>1. {"guardrail_blocked"} \in SUBSET TerminalOutcomes
    BY DEF TerminalOutcomes
  <2> QED BY <2>1, EndedIs
<1> QED BY <1>1, <1>3, <1>4, <1>5, <1>6 DEF CountIn

\* The success of calls is judged as the calls deserve.
LEMMA SuccessJudged ==
  ASSUME ReportsInv, NothingRefused
  PROVE  SuccessVerdict =
           IF Ended(TerminalOutcomes) < MinSample THEN "unknown"
           ELSE IF Ended(AnsweredCalls) * AtLeastPart[2] >= AtLeastPart[1] * Ended(TerminalOutcomes)
                THEN "met" ELSE "missed"
<1>1. AnsweredCalls \in SUBSET TerminalOutcomes /\ TerminalOutcomes \in SUBSET TerminalOutcomes
  BY DEF AnsweredCalls, TerminalOutcomes
<1>2. ByOutcome(AnsweredCalls) = Ended(AnsweredCalls)
  BY <1>1, EndedIs
<1>3. Terminal = Ended(TerminalOutcomes) /\ Terminal \in Nat
  BY <1>1, EndedIs DEF Terminal
<1>4. MinSample \in Nat \ {0}
  BY ReportsAssumption
<1>5. CASE Ended(TerminalOutcomes) < MinSample
  BY <1>3, <1>5 DEF SuccessVerdict, Judged
<1>6. CASE ~(Ended(TerminalOutcomes) < MinSample)
  <2>1. Terminal # 0
    BY <1>3, <1>4, <1>6
  <2>2. SuccessRatio[1] = Ended(AnsweredCalls) /\ SuccessRatio[2] = Ended(TerminalOutcomes)
    BY <1>2, <1>3, <2>1 DEF SuccessRatio, Ratio
  <2> QED BY <1>3, <1>6, <2>2 DEF SuccessVerdict, Judged
<1> QED BY <1>5, <1>6

\* A time is in the last bucket, of no edge, just when it exceeds the last edge.
LEMMA OverBudgetIs ==
  ASSUME ReportsInv, NothingRefused PROVE OverBudget = CallCount(Late)
<1> DEFINE n == Len(Edges)
           H == Occurrences(happened.calls)
<1>1. n \in DOMAIN Edges /\ Last(Edges) = Edges[n] /\ Edges[n] \in Int /\ n \in Nat
  BY EdgesAre DEF Last
<1>2. Cumulative(n) = CallCount(FitsIn(n)) /\ Observations = CallCount(EndedWith(AnsweredCalls))
  <2>1. AnsweredCalls \in SUBSET TerminalOutcomes
    BY DEF AnsweredCalls, TerminalOutcomes
  <2>2. Ended(AnsweredCalls) = CallCount(EndedWith(AnsweredCalls))
    BY <2>1, EndedIs
  <2> HIDE DEF n
  <2> QED BY <1>1, <2>2, CumulativeIs, ObservationsAre
<1>3. \A c \in CallRecords : BucketOf(c.time) <= n <=> ~(c.time > Last(Edges))
  <2> SUFFICES ASSUME NEW c \in CallRecords PROVE BucketOf(c.time) <= n <=> ~(c.time > Last(Edges))
    OBVIOUS
  <2>1. c.time \in Int
    BY DEF CallRecords
  <2>2. BucketOf(c.time) <= n <=> c.time <= Edges[n]
    BY <1>1, <2>1, BucketIs
  <2> QED BY <1>1, <2>1, <2>2
<1>4. CountIn(H, Late) = CountIn(H, EndedWith(AnsweredCalls)) - CountIn(H, FitsIn(n))
  <2>1. /\ \A c \in CallRecords : c \in EndedWith(AnsweredCalls) <=> (c \in FitsIn(n) \/ c \in Late)
        /\ \A c \in CallRecords : ~(c \in FitsIn(n) /\ c \in Late)
    BY <1>3 DEF FitsIn, Late, EndedWith
  <2>2. \A o \in H : o[1] \in CallRecords
    BY CallsAre
  <2>3. /\ \A o \in H : o[1] \in EndedWith(AnsweredCalls) <=> (o[1] \in FitsIn(n) \/ o[1] \in Late)
        /\ \A o \in H : ~(o[1] \in FitsIn(n) /\ o[1] \in Late)
    BY <2>1, <2>2
  <2>4. IsFiniteSet(H)
    BY CallsAre
  <2> HIDE DEF H, n
  <2> QED BY <2>3, <2>4, CountSplits
<1> QED BY <1>2, <1>4 DEF OverBudget, CallCount

LEMMA TimesMonotone ==
  ASSUME NEW a \in Nat, NEW b \in Nat, NEW c \in Nat, a <= b PROVE a * c <= b * c
<1>1. PICK d \in Nat : b = a + d
  <2>1. b - a \in Nat /\ b = a + (b - a)
    OBVIOUS
  <2> QED BY <2>1
<1>2. b * c = a * c + d * c /\ d * c \in Nat /\ a * c \in Nat
  BY <1>1
<1> QED BY <1>2

Reached == {i \in DOMAIN Edges : Cumulative(i) * Phi[2] >= Phi[1] * Observations}

\* Met only if enough of the answered calls were fast.
LEMMA LatencyMet ==
  ASSUME ReportsInv, NothingRefused, LatencyVerdict = "met", AtMostTime < Last(Edges)
  PROVE  CallCount(Fast) * Phi[2] >= Phi[1] * Ended(AnsweredCalls)
<1>1. Observations \in Nat /\ Observations = Ended(AnsweredCalls)
  BY ObservationsAre
<1>2. Observations # 0 /\ Quantile <= AtMostTime
  BY <1>1, ReportsAssumption DEF LatencyVerdict, Judged
<1>3. Last(Edges) \in Int /\ AtMostTime \in Int
  BY EdgesAre, ReportsAssumption DEF Last
<1>4. Quantile = IF Reached = {} THEN Last(Edges) ELSE Edges[Min(Reached)]
  BY <1>2 DEF Quantile, Reached
<1>5. Reached # {}
  BY <1>2, <1>3, <1>4
<1> DEFINE m == Min(Reached)
<1>6. m \in Reached
  <2>1. Reached \in SUBSET Nat
    BY EdgesAre DEF Reached
  <2> QED BY <1>5, <2>1, LeastIndex
<1>7. Edges[m] <= AtMostTime
  BY <1>2, <1>4, <1>5
<1> HIDE DEF m
<1>8. m \in DOMAIN Edges /\ m \in Nat /\ Cumulative(m) * Phi[2] >= Phi[1] * Observations
  BY <1>6, EdgesAre DEF Reached
<1>9. Cumulative(m) = CallCount(FitsIn(m)) /\ Cumulative(m) \in Nat
  BY <1>8, CumulativeIs
<1>10. CallCount(FitsIn(m)) <= CallCount(Fast)
  <2>1. ASSUME NEW c \in FitsIn(m) PROVE c \in Fast
    <3>1. c \in CallRecords /\ c.time \in Int /\ c.outcome \in AnsweredCalls /\ BucketOf(c.time) <= m
      BY <2>1 DEF FitsIn, CallRecords
    <3>2. c.time <= Edges[m]
      BY <3>1, <1>8, BucketIs
    <3>3. Edges[m] \in Int
      BY <1>8, EdgesAre
    <3> QED BY <3>1, <3>2, <3>3, <1>3, <1>7 DEF Fast, EndedWith
  <2> QED BY <2>1, CallsAre, CountSmaller DEF CallCount
<1>11. CallCount(Fast) \in Nat /\ Phi[2] \in Nat /\ Phi[1] \in Nat
  BY CallsAre, ReportsAssumption
<1>12. Cumulative(m) * Phi[2] <= CallCount(Fast) * Phi[2]
  BY <1>9, <1>10, <1>11, TimesMonotone
<1>13. Cumulative(m) * Phi[2] \in Int /\ CallCount(Fast) * Phi[2] \in Int
       /\ Phi[1] * Observations \in Int
  BY <1>1, <1>9, <1>11
<1> QED BY <1>1, <1>8, <1>12, <1>13

\* Missed only if too few stayed within the last edge below the objective.
LEMMA LatencyMissed ==
  ASSUME ReportsInv, NothingRefused, LatencyVerdict = "missed"
  PROVE  CallCount(Sure) * Phi[2] < Phi[1] * Ended(AnsweredCalls)
<1>1. Observations \in Nat /\ Observations = Ended(AnsweredCalls)
  BY ObservationsAre
<1>2. Observations # 0 /\ ~(Quantile <= AtMostTime)
  BY <1>1, ReportsAssumption DEF LatencyVerdict, Judged
<1>3. AtMostTime \in Int /\ Phi[1] \in Nat \ {0} /\ Phi[2] \in Nat \ {0}
  BY ReportsAssumption
<1> DEFINE j == BucketOf(AtMostTime + 1) - 1
<1>4. j \in 0..Len(Edges) /\ \A i \in DOMAIN Edges : i <= j <=> Edges[i] <= AtMostTime
  <2>1. AtMostTime + 1 \in Int
    BY <1>3
  <2>2. /\ BucketOf(AtMostTime + 1) \in 1..Len(Edges) + 1
        /\ \A i \in DOMAIN Edges :
             BucketOf(AtMostTime + 1) <= i <=> AtMostTime + 1 <= Edges[i]
    BY <2>1, BucketIs DEF Buckets
  <2>3. \A i \in DOMAIN Edges : i \in Nat /\ Edges[i] \in Int
    BY EdgesAre
  <2> QED BY <1>3, <2>2, <2>3, EdgesAre
<1> HIDE DEF j
<1>5. j \in Nat
  BY <1>4, EdgesAre
<1>6. CallCount(Sure) <= Cumulative(j)
  <2>1. ASSUME NEW c \in Sure PROVE c \in FitsIn(j)
    <3>1. c \in CallRecords /\ c.time \in Int /\ c.outcome \in AnsweredCalls
      BY <2>1 DEF Sure, EndedWith, CallRecords
    <3>2. PICK i \in DOMAIN Edges : Edges[i] <= AtMostTime /\ c.time <= Edges[i]
      BY <2>1 DEF Sure
    <3>3. i <= j /\ i \in Nat
      BY <3>2, <1>4, EdgesAre
    <3>4. BucketOf(c.time) <= i /\ BucketOf(c.time) \in Nat
      <4>1. BucketOf(c.time) \in 1..Buckets /\ BucketOf(c.time) <= i
        BY <3>1, <3>2, BucketIs
      <4> QED BY <4>1, EdgesAre
    <3>5. BucketOf(c.time) <= j
      BY <1>5, <3>3, <3>4
    <3> QED BY <3>1, <3>5 DEF FitsIn
  <2>2. CallCount(Sure) <= CallCount(FitsIn(j))
    BY <2>1, CallsAre, CountSmaller DEF CallCount
  <2> QED BY <1>5, <2>2, CumulativeIs
<1>7. Cumulative(j) \in Nat /\ CallCount(Sure) \in Nat
  BY <1>5, CumulativeIs, CallsAre
<1>8. Cumulative(j) * Phi[2] < Phi[1] * Observations
  <2>1. CASE j = 0
    <3>1. FitsIn(0) = {}
      <4>1. \A c \in CallRecords : BucketOf(c.time) \in 1..Buckets
        BY BucketIs DEF CallRecords
      <4> QED BY <4>1, EdgesAre DEF FitsIn
    <3>2. Cumulative(j) = CallCount({})
      BY <2>1, <1>5, <3>1, CumulativeIs
    <3>3. CallCount({}) = 0
      BY CallsAre, CountsAreNumbers DEF CallCount
    <3>4. Phi[1] * Observations > 0
      BY <1>1, <1>2, <1>3
    <3> QED BY <1>3, <3>2, <3>3, <3>4
  <2>2. CASE j # 0 /\ j \in Reached
    <3> DEFINE m == Min(Reached)
    <3>1. Reached \in SUBSET Nat
      BY EdgesAre DEF Reached
    <3>2. m \in Reached /\ m <= j
      BY <2>2, <3>1, LeastIndex
    <3>3. Quantile = Edges[m]
      BY <1>2, <2>2 DEF Quantile, Reached
    <3> HIDE DEF m
    <3>4. m \in DOMAIN Edges
      BY <3>2 DEF Reached
    <3> QED BY <1>2, <1>4, <3>2, <3>3, <3>4
  <2>3. CASE j # 0 /\ j \notin Reached
    <3>1. j \in DOMAIN Edges
      BY <2>3, <1>4, EdgesAre
    <3>2. ~(Cumulative(j) * Phi[2] >= Phi[1] * Observations)
      BY <2>3, <3>1 DEF Reached
    <3>3. Cumulative(j) * Phi[2] \in Int /\ Phi[1] * Observations \in Int
      BY <1>1, <1>3, <1>7
    <3> QED BY <3>2, <3>3
  <2> QED BY <2>1, <2>2, <2>3
<1>9. CallCount(Sure) * Phi[2] <= Cumulative(j) * Phi[2]
  BY <1>3, <1>6, <1>7, TimesMonotone
<1>10. CallCount(Sure) * Phi[2] \in Int /\ Cumulative(j) * Phi[2] \in Int
       /\ Phi[1] * Observations \in Int
  BY <1>1, <1>3, <1>7
<1> QED BY <1>1, <1>8, <1>9, <1>10

\* Whatever was counted, and in whatever order: the verdicts and indicators
\* are those the calls deserve while no series was refused, and never more than
\* what happened (kpi.py:298, slo.py:53-56).
THEOREM ReportsAreTrue == ReportsSpec => []ReportIsTrue
<1>1. ReportsInv => ReportIsTrue
  <2> SUFFICES ASSUME ReportsInv PROVE ReportIsTrue
    OBVIOUS
  <2>1. Terminal <= Ended(TerminalOutcomes)
    <3>1. TerminalOutcomes \in SUBSET TerminalOutcomes
      OBVIOUS
    <3> QED BY <3>1, EndedIs DEF Terminal
  <2>2. Observations <= Ended(AnsweredCalls) /\ OutputBlocks <= Ended({"guardrail_blocked"})
    BY ObservationsAre, BlocksAre
  <2>3. NothingRefused => (LatencyVerdict = "unknown") = (Ended(AnsweredCalls) < MinSample)
    BY ObservationsAre DEF LatencyVerdict, Judged
  <2>4. NothingRefused =>
          OverBudget = Took(AnsweredCalls, LAMBDA time : time > Last(Edges))
    BY OverBudgetIs, TookIs
  <2>5. NothingRefused /\ LatencyVerdict = "met" /\ AtMostTime < Last(Edges) =>
          Took(AnsweredCalls, LAMBDA time : time <= AtMostTime) * Phi[2]
            >= Phi[1] * Ended(AnsweredCalls)
    BY LatencyMet, TookIs
  <2>6. NothingRefused /\ LatencyVerdict = "missed" =>
          Took(AnsweredCalls,
               LAMBDA time : \E e \in {Edges[i] : i \in {i \in DOMAIN Edges : Edges[i] <= AtMostTime}} :
                               time <= e) * Phi[2]
            < Phi[1] * Ended(AnsweredCalls)
    BY LatencyMissed, TookIs
  <2> QED BY <2>1, <2>2, <2>3, <2>4, <2>5, <2>6, SuccessJudged, CompletedIs DEF ReportIsTrue
<1> QED BY <1>1, ReportsCountWhatHappened, PTL
=============================================================================
