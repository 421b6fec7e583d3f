-------------------------- MODULE GuardrailProofs --------------------------
(***************************************************************************)
(* GuardsHold for any identities, subjects and calls, any burst, rate,     *)
(* allowance and window, and tables of any size.  Neither part is          *)
(* inductive.  What an identity owes is what its bucket lacks, unless the  *)
(* table forgot it (LimiterInv).  The reservations of a subject that are   *)
(* not over and its calls of the last window are one to one, each          *)
(* reservation as old as its call (Paired): a bijection that every step    *)
(* carries on, and that counts them.  The other parts are about the content*)
(* guardrails and the redactor (Screening), and about the hash chains the   *)
(* services keep of what they did (AuditTrails).                           *)
(***************************************************************************)
EXTENDS Guardrails, Screening, AuditTrails, FiniteSetTheorems, SequenceTheorems,
        WellFoundedInduction, TLAPS

\* RemoveAt takes one element out and keeps the rest in order.
LEMMA RemoveAtIs ==
  ASSUME NEW S, NEW t \in Seq(S), NEW i \in DOMAIN t
  PROVE  /\ RemoveAt(t, i) \in Seq(S)
         /\ Len(RemoveAt(t, i)) = Len(t) - 1
         /\ \A j \in 1 .. Len(t) - 1 : RemoveAt(t, i)[j] = IF j < i THEN t[j] ELSE t[j + 1]
<1>1. i \in 1 .. Len(t) /\ Len(t) \in Nat /\ \A j \in 1 .. Len(t) : t[j] \in S
  BY ElementOfSeq
<1>2. PICK a : a = SubSeq(t, 1, i - 1)
  OBVIOUS
<1>3. PICK b : b = SubSeq(t, i + 1, Len(t))
  OBVIOUS
<1>4. a \in Seq(S) /\ Len(a) = i - 1 /\ \A j \in 1 .. i - 1 : a[j] = t[j]
  <2>1. i - 1 \in Int /\ \A j \in 1 .. i - 1 : t[j] \in S
    BY <1>1
  <2> QED BY <1>1, <1>2, <2>1, SubSeqProperties
<1>5. b \in Seq(S) /\ Len(b) = Len(t) - i /\ \A j \in 1 .. Len(t) - i : b[j] = t[i + j]
  <2>1. i + 1 \in Int /\ Len(t) \in Int /\ \A j \in i + 1 .. Len(t) : t[j] \in S
    BY <1>1
  <2>2. /\ b \in Seq(S) /\ Len(b) = IF i + 1 <= Len(t) THEN Len(t) - (i + 1) + 1 ELSE 0
        /\ \A j \in 1 .. Len(t) - (i + 1) + 1 : b[j] = t[i + 1 + j - 1]
    BY <1>3, <2>1, SubSeqProperties
  <2> QED BY <1>1, <2>2
<1>6. RemoveAt(t, i) = a \o b
  BY <1>2, <1>3 DEF RemoveAt
<1>7. PICK r : r = a \o b
  OBVIOUS
<1>8. /\ r \in Seq(S) /\ Len(r) = Len(a) + Len(b)
      /\ \A j \in 1 .. Len(a) + Len(b) : r[j] = IF j <= Len(a) THEN a[j] ELSE b[j - Len(a)]
  <2>1. a \in Seq(S) /\ b \in Seq(S)
    BY <1>4, <1>5
  <2> QED BY <1>7, <2>1, ConcatProperties, Zenon
<1>9. Len(r) = Len(t) - 1
  BY <1>1, <1>4, <1>5, <1>8
<1>10. ASSUME NEW j \in 1 .. Len(t) - 1 PROVE r[j] = IF j < i THEN t[j] ELSE t[j + 1]
  <2>1. r[j] = IF j <= i - 1 THEN a[j] ELSE b[j - (i - 1)]
    <3>1. j \in 1 .. Len(a) + Len(b) /\ Len(a) = i - 1
      BY <1>1, <1>4, <1>5
    <3>2. r[j] = IF j <= Len(a) THEN a[j] ELSE b[j - Len(a)]
      BY <1>8, <3>1
    <3> QED BY <3>1, <3>2
  <2>2. CASE j < i
    BY <1>1, <1>4, <2>1, <2>2
  <2>3. CASE j >= i
    <3>1. j - (i - 1) \in 1 .. Len(t) - i /\ i + (j - (i - 1)) = j + 1 /\ ~(j <= i - 1)
      BY <1>1, <2>3
    <3> QED BY <1>1, <1>5, <2>1, <3>1, <2>3
  <2> QED BY <1>1, <2>2, <2>3
<1> QED BY <1>6, <1>7, <1>8, <1>9, <1>10

\* So does Tail.
LEMMA TailIs ==
  ASSUME NEW S, NEW t \in Seq(S), t # <<>>
  PROVE  /\ Tail(t) \in Seq(S) /\ Len(Tail(t)) = Len(t) - 1
         /\ \A j \in 1 .. Len(t) - 1 : Tail(t)[j] = t[j + 1]
BY HeadTailProperties

-----------------------------------------------------------------------------
(* The tables of the guardrails                                            *)

\* A table has one row for each name it knows.
OneEach(table) == \A i, j \in DOMAIN table : table[i].who = table[j].who => i = j

\* A row that is last used goes to the end, the others stay, but for the coldest when
\* there is no more room.
Follows(S, table, row, limit, new) ==
  /\ new \in Seq(S) /\ Len(new) <= limit /\ OneEach(new)
  /\ \E j \in DOMAIN new : new[j] = row
  /\ \A j \in DOMAIN new :
       new[j] = row \/ \E i \in DOMAIN table : new[j] = table[i] /\ table[i].who # row.who

\* The table after a use follows the table before.
LEMMA LatestFollows ==
  ASSUME NEW S, NEW table \in Seq(S), NEW limit \in Nat \ {0}, Len(table) <= limit,
         OneEach(table), NEW row \in S
  PROVE  Follows(S, table, row, limit, Latest(table, row, limit))
<1> DEFINE new == Latest(table, row, limit)
<1>0. Len(table) \in Nat /\ limit \in Nat /\ limit >= 1 /\ DOMAIN table = 1 .. Len(table)
  OBVIOUS
<1>1. PICK rest : rest = IF HasRow(table, row.who) THEN RemoveAt(table, RowAt(table, row.who)) ELSE table
  OBVIOUS
<1>2. /\ rest \in Seq(S) /\ Len(rest) <= Len(table)
      /\ \A j \in 1 .. Len(rest) : \E i \in DOMAIN table : rest[j] = table[i] /\ table[i].who # row.who
      /\ \A j, k \in 1 .. Len(rest) : rest[j].who = rest[k].who => j = k
  <2>1. CASE ~HasRow(table, row.who)
    BY <1>0, <1>1, <2>1 DEF HasRow, OneEach
  <2>2. CASE HasRow(table, row.who)
    <3>1. PICK p \in 1 .. Len(table) : p = RowAt(table, row.who) /\ table[p].who = row.who
      BY <1>0, <2>2 DEF HasRow, RowAt
    <3>2. /\ rest \in Seq(S) /\ Len(rest) = Len(table) - 1
          /\ \A j \in 1 .. Len(table) - 1 : rest[j] = IF j < p THEN table[j] ELSE table[j + 1]
      BY <1>0, <1>1, <2>2, <3>1, RemoveAtIs
    <3>3. \A i, j \in 1 .. Len(table) : table[i].who = table[j].who => i = j
      BY <1>0 DEF OneEach
    <3>4. ASSUME NEW j \in 1 .. Len(rest)
          PROVE  \E i \in 1 .. Len(table) : /\ i = (IF j < p THEN j ELSE j + 1)
                                             /\ rest[j] = table[i] /\ table[i].who # row.who
      <4>1. j \in 1 .. Len(table) - 1 /\ (IF j < p THEN j ELSE j + 1) \in 1 .. Len(table)
        BY <1>0, <3>2
      <4>2. rest[j] = table[IF j < p THEN j ELSE j + 1] /\ (IF j < p THEN j ELSE j + 1) # p
        BY <3>2, <4>1
      <4> QED BY <3>1, <3>3, <4>1, <4>2
    <3>5. ASSUME NEW j \in 1 .. Len(rest), NEW k \in 1 .. Len(rest), rest[j].who = rest[k].who
          PROVE  j = k
      BY <3>3, <3>4, <3>5
    <3>6. Len(rest) <= Len(table)
      BY <1>0, <3>2
    <3>7. \A j \in 1 .. Len(rest) : \E i \in DOMAIN table : rest[j] = table[i] /\ table[i].who # row.who
      BY <1>0, <3>4
    <3>8. \A j, k \in 1 .. Len(rest) : rest[j].who = rest[k].who => j = k
      BY <3>5
    <3> QED BY <3>2, <3>6, <3>7, <3>8
  <2> QED BY <2>1, <2>2
<1>3. PICK longer : longer = Append(rest, row)
  OBVIOUS
<1>4. /\ longer \in Seq(S) /\ Len(longer) = Len(rest) + 1 /\ Len(rest) \in Nat
      /\ \A j \in 1 .. Len(rest) : longer[j] = rest[j]
      /\ longer[Len(rest) + 1] = row
  BY <1>2, <1>3, AppendProperties
<1>5. \A j, k \in 1 .. Len(longer) : longer[j].who = longer[k].who => j = k
  BY <1>2, <1>4
<1>6. PICK d \in {0, 1} : /\ new \in Seq(S) /\ Len(new) = Len(longer) - d /\ Len(new) >= 1
                          /\ Len(new) <= limit
                          /\ \A j \in 1 .. Len(new) : new[j] = longer[j + d]
  <2>1. new = IF Len(longer) > limit THEN Tail(longer) ELSE longer
    BY <1>1, <1>3 DEF Latest
  <2>2. CASE Len(longer) > limit
    <3>1. longer # <<>>
      BY <1>0, <2>2, EmptySeq
    <3>2. new \in Seq(S) /\ Len(new) = Len(longer) - 1 /\ \A j \in 1 .. Len(longer) - 1 : new[j] = longer[j + 1]
      BY <1>4, <2>1, <2>2, <3>1, TailIs
    <3> QED BY <1>0, <1>2, <1>4, <2>2, <3>2
  <2>3. CASE ~(Len(longer) > limit)
    BY <1>0, <1>4, <2>1, <2>3
  <2> QED BY <2>2, <2>3
<1>7. \A j \in 1 .. Len(new) : j + d \in 1 .. Len(longer)
  BY <1>4, <1>6
<1>8. ASSUME NEW j \in 1 .. Len(new)
       PROVE  new[j] = row \/ \E i \in DOMAIN table : new[j] = table[i] /\ table[i].who # row.who
  <2>1. CASE j + d = Len(rest) + 1
    BY <1>4, <1>6, <2>1
  <2>2. CASE j + d \in 1 .. Len(rest)
    BY <1>2, <1>4, <1>6, <2>2
  <2> QED BY <1>4, <1>7, <2>1, <2>2
<1>9. row = new[Len(new)]
  BY <1>4, <1>6
<1>10. Len(new) \in Nat /\ DOMAIN new = 1 .. Len(new)
  BY <1>6
<1>11. OneEach(new)
  <2>1. ASSUME NEW j \in 1 .. Len(new), NEW k \in 1 .. Len(new), new[j].who = new[k].who PROVE j = k
    <3>1. j + d \in 1 .. Len(longer) /\ k + d \in 1 .. Len(longer)
      BY <1>7
    <3>2. longer[j + d].who = longer[k + d].who
      BY <1>6, <2>1
    <3>3. j + d = k + d
      BY <1>5, <3>1, <3>2
    <3> QED BY <3>3
  <2> QED BY <1>10, <2>1 DEF OneEach
<1> QED BY <1>6, <1>8, <1>9, <1>10, <1>11 DEF Follows

-----------------------------------------------------------------------------
(* The rate limiter                                                        *)

Buckets == [who : Identities, tokens : 0 .. Full, age : 0 .. Full + Parts]

\* The table has one bucket for each identity it holds.
TableOK(table) ==
  /\ table \in Seq(Buckets) /\ Len(table) <= MaxTracked
  /\ OneEach(table)
  /\ \A i \in DOMAIN table : table[i].age <= Full + Parts - table[i].tokens

\* What an identity owes is what its bucket lacks; one without a bucket, that was
\* never forgotten, owes nothing.
OwesItsBucket(s) ==
  /\ \A i \in DOMAIN buckets : buckets[i].who = s => debt[s] = Full - Refilled(buckets[i])
  /\ HasRow(buckets, s) \/ debt[s] = 0

LimiterInv ==
  /\ TableOK(buckets)
  /\ debt \in [Identities -> 0 .. Full + Parts]
  /\ forgot \subseteq Identities
  /\ \A s \in Identities \ forgot : OwesItsBucket(s)
  /\ last.stage = "rate_limit" /\ last.who \notin forgot => last.owed + Parts > Full

\* What is assumed of the constants: a full bucket holds a call's parts.
LEMMA FullIs == Full \in Nat /\ Parts \in Nat \ {0} /\ Parts <= Full /\ MaxTracked \in Nat \ {0}
<1>1. Burst \in Nat /\ Burst >= 1 /\ Parts \in Nat /\ Parts >= 1 /\ MaxTracked \in Nat \ {0}
  BY RateLimiterAssumption
<1>2. \A b, p \in Nat : b >= 1 => b * p \in Nat /\ b * p >= p
  OBVIOUS
<1> QED BY <1>1, <1>2 DEF Full

\* A bucket is never more than full.
LEMMA RefilledIs ==
  ASSUME NEW e \in Buckets
  PROVE  Refilled(e) \in 0 .. Full
BY FullIs DEF Buckets, Refilled, Lesser

\* What the bucket of an identity holds now.
LEMMA TokensIs ==
  ASSUME TableOK(buckets), NEW s \in Identities
  PROVE  /\ Tokens(s) \in 0 .. Full
         /\ HasRow(buckets, s) => RowAt(buckets, s) \in DOMAIN buckets /\ Bucket(s).who = s
         /\ Touched(s) \in Buckets
<1>1. HasRow(buckets, s) => RowAt(buckets, s) \in DOMAIN buckets /\ Bucket(s).who = s
  BY DEF HasRow, RowAt, Bucket
<1>2. HasRow(buckets, s) => Bucket(s) \in Buckets
  BY <1>1 DEF TableOK, Bucket
<1>3. Tokens(s) \in 0 .. Full
  BY <1>2, RefilledIs, FullIs DEF Tokens
<1> QED BY <1>1, <1>3, FullIs DEF Touched, Empty, Buckets

\* Every table is fresh at first, and nobody owes anything.
LEMMA LimiterInitially == LimiterInit => LimiterInv
<1> SUFFICES ASSUME LimiterInit PROVE LimiterInv
  OBVIOUS
<1>1. TableOK(buckets)
  BY FullIs DEF LimiterInit, TableOK, OneEach
<1>2. debt \in [Identities -> 0 .. Full + Parts] /\ forgot = {} /\ last.stage = "allowed"
  BY FullIs DEF LimiterInit
<1>3. ASSUME NEW s \in Identities PROVE OwesItsBucket(s)
  BY <1>3 DEF LimiterInit, OwesItsBucket
<1> QED BY <1>1, <1>2, <1>3 DEF LimiterInv

\* A call spends a part of what its identity has, or is refused because it has none.
LEMMA CheckInputKeeps ==
  ASSUME LimiterInv, NEW s \in Identities, NEW content \in Contents, CheckInput(s, content)
  PROVE  LimiterInv'
<1>0. /\ TableOK(buckets) /\ debt \in [Identities -> 0 .. Full + Parts] /\ forgot \subseteq Identities
      /\ Full \in Nat /\ Parts \in Nat /\ Parts >= 1
      /\ Tokens(s) \in 0 .. Full /\ Touched(s) \in Buckets
  BY FullIs, TokensIs DEF LimiterInv
<1>1. PICK new : new = Latest(buckets, Touched(s), MaxTracked)
  OBVIOUS
<1>2. buckets' = new
  BY <1>1 DEF CheckInput
<1>3. /\ new \in Seq(Buckets) /\ Len(new) <= MaxTracked /\ OneEach(new)
      /\ \E j \in DOMAIN new : new[j] = Touched(s)
      /\ \A j \in DOMAIN new : \/ new[j] = Touched(s)
                              \/ \E i \in DOMAIN buckets : new[j] = buckets[i] /\ buckets[i].who # s
  <2>1. Touched(s).who = s
    BY DEF Touched
  <2>2. buckets \in Seq(Buckets) /\ Len(buckets) <= MaxTracked /\ OneEach(buckets)
    BY <1>0 DEF TableOK
  <2>3. Follows(Buckets, buckets, Touched(s), MaxTracked, new)
    BY <1>0, <1>1, <2>2, FullIs, LatestFollows
  <2> QED BY <2>1, <2>3 DEF Follows
<1>4. TableOK(buckets')
  <2>1. Touched(s).age = 0 /\ Touched(s).tokens \in 0 .. Full
    BY <1>0 DEF Touched, Buckets
  <2>2. ASSUME NEW j \in DOMAIN new PROVE new[j].age <= Full + Parts - new[j].tokens
    BY <1>0, <1>3, <2>1 DEF TableOK
  <2> QED BY <1>2, <1>3, <2>2 DEF TableOK
<1>5. /\ forgot' = forgot \cup (Names(buckets) \ Names(new))
      /\ last' = [stage |-> IF Empty(s) THEN "rate_limit"
                           ELSE IF content = "clean" THEN "allowed" ELSE "arguments",
                 who |-> s, owed |-> debt[s]]
      /\ debt' = [debt EXCEPT ![s] =
                   IF s \in forgot THEN 0 ELSE IF Empty(s) THEN @ ELSE Lesser(@ + Parts, Full + Parts)]
  BY <1>2 DEF CheckInput
<1>6. s \notin forgot => debt[s] = Full - Tokens(s)
  <2> SUFFICES ASSUME s \notin forgot PROVE debt[s] = Full - Tokens(s)
    OBVIOUS
  <2>1. OwesItsBucket(s)
    BY DEF LimiterInv
  <2>2. CASE HasRow(buckets, s)
    BY <1>0, <2>1, <2>2, TokensIs DEF OwesItsBucket, Tokens, Bucket
  <2>3. CASE ~HasRow(buckets, s)
    BY <1>0, <2>1, <2>3 DEF OwesItsBucket, Tokens
  <2> QED BY <2>2, <2>3
<1>7. debt' \in [Identities -> 0 .. Full + Parts]
  BY <1>0, <1>5 DEF Lesser
<1>8. forgot' \subseteq Identities
  <2>1. ASSUME NEW i \in DOMAIN buckets PROVE buckets[i].who \in Identities
    <3>1. buckets[i] \in Buckets
      BY <1>0 DEF TableOK
    <3> QED BY <3>1 DEF Buckets
  <2> QED BY <1>0, <1>5, <2>1 DEF Names
<1>9. s \notin forgot => debt'[s] = Full - Touched(s).tokens
  BY <1>0, <1>5, <1>6 DEF Touched, Empty, Lesser
<1>10. Touched(s).who = s /\ Touched(s).age = 0 /\ Touched(s).tokens \in 0 .. Full
       /\ Refilled(Touched(s)) = Touched(s).tokens
  BY <1>0 DEF Touched, Buckets, Refilled, Lesser
<1>11. ASSUME NEW q \in Identities \ forgot' PROVE OwesItsBucket(q)'
  <2>1. q \notin forgot
    BY <1>5
  <2>2. CASE q = s
    <3>1. ASSUME NEW j \in DOMAIN new, new[j].who = s PROVE debt'[s] = Full - Refilled(new[j])
      BY <1>3, <1>9, <1>10, <2>1, <2>2, <3>1
    <3>2. \E j \in DOMAIN new : new[j].who = s
      BY <1>3, <1>10
    <3>3. /\ \A j \in DOMAIN new : new[j].who = s => debt'[s] = Full - Refilled(new[j])
          /\ \E j \in DOMAIN new : new[j].who = s
      BY <3>1, <3>2
    <3> QED BY <1>2, <2>2, <3>3 DEF OwesItsBucket, HasRow, Refilled
  <2>3. CASE q # s
    <3>1. debt'[q] = debt[q] /\ OwesItsBucket(q)
      BY <1>0, <1>5, <2>1, <2>3 DEF LimiterInv
    <3>2. ASSUME NEW j \in DOMAIN new, new[j].who = q PROVE debt'[q] = Full - Refilled(new[j])
      BY <1>3, <1>10, <2>3, <3>1, <3>2 DEF OwesItsBucket
    <3>3. ASSUME \A j \in DOMAIN new : new[j].who # q PROVE debt'[q] = 0
      <4>1. q \notin Names(new) /\ q \notin Names(buckets)
        BY <1>5, <3>3 DEF Names
      <4> QED BY <3>1, <4>1 DEF OwesItsBucket, HasRow, Names
    <3>4. /\ \A j \in DOMAIN new : new[j].who = q => debt'[q] = Full - Refilled(new[j])
          /\ (\E j \in DOMAIN new : new[j].who = q) \/ debt'[q] = 0
      BY <3>2, <3>3
    <3> QED BY <1>2, <3>4 DEF OwesItsBucket, HasRow, Refilled
  <2> QED BY <2>2, <2>3
<1>12. last'.stage = "rate_limit" /\ last'.who \notin forgot' => last'.owed + Parts > Full
  BY <1>0, <1>5, <1>6 DEF Empty
<1> QED BY <1>4, <1>7, <1>8, <1>11, <1>12 DEF LimiterInv

\* Time gives every bucket what it takes from the debt.
LEMMA BucketsAgeKeeps ==
  ASSUME LimiterInv, BucketsAge
  PROVE  LimiterInv'
<1>0. /\ TableOK(buckets) /\ debt \in [Identities -> 0 .. Full + Parts]
      /\ Full \in Nat /\ Parts \in Nat /\ Parts >= 1
  BY FullIs DEF LimiterInv
<1>1. PICK new : new = buckets'
  OBVIOUS
<1>2. PICK n \in Nat : n = Len(buckets) /\ buckets \in Seq(Buckets) /\ DOMAIN buckets = 1 .. n
  BY <1>0 DEF TableOK
<1>3. ASSUME NEW i \in 1 .. n
      PROVE  /\ new[i].who = buckets[i].who /\ new[i].tokens = buckets[i].tokens
             /\ new[i].age = Lesser(buckets[i].age + 1, Full + Parts - buckets[i].tokens)
             /\ new[i] \in Buckets /\ new[i].age <= Full + Parts - new[i].tokens
             /\ buckets[i] \in Buckets /\ buckets[i].age <= Full + Parts - buckets[i].tokens
  <2>1. buckets[i] \in Buckets /\ buckets[i].age <= Full + Parts - buckets[i].tokens
    BY <1>0, <1>2 DEF TableOK
  <2>2. new[i] = [buckets[i] EXCEPT !.age = Lesser(@ + 1, Full + Parts - buckets[i].tokens)]
    BY <1>1, <1>2 DEF BucketsAge
  <2> QED BY <1>0, <2>1, <2>2 DEF Buckets, Lesser
<1>4. new \in [1 .. n -> Buckets]
  <2>1. new = [i \in 1 .. n |-> new[i]]
    BY <1>1, <1>2 DEF BucketsAge
  <2> QED BY <1>3, <2>1
<1>5. new \in Seq(Buckets) /\ Len(new) = n /\ DOMAIN new = 1 .. n
  BY <1>4
<1>6. TableOK(new)
  BY <1>0, <1>2, <1>3, <1>5 DEF TableOK, OneEach
<1>7. /\ debt' = [s \in Identities |-> IF debt[s] = 0 THEN 0 ELSE debt[s] - 1]
      /\ debt' \in [Identities -> 0 .. Full + Parts]
      /\ UNCHANGED <<forgot, last>>
  BY <1>0 DEF BucketsAge
<1>8. ASSUME NEW s \in Identities \ forgot PROVE OwesItsBucket(s)'
  <2>1. OwesItsBucket(s) /\ debt[s] \in Nat /\ debt'[s] = IF debt[s] = 0 THEN 0 ELSE debt[s] - 1
    BY <1>0, <1>7 DEF LimiterInv
  <2>2. ASSUME NEW i \in 1 .. n, new[i].who = s PROVE debt'[s] = Full - Refilled(new[i])
    <3>1. debt[s] = Full - Refilled(buckets[i])
      BY <1>2, <1>3, <2>1, <2>2 DEF OwesItsBucket
    <3> QED BY <1>0, <1>3, <2>1, <3>1 DEF Refilled, Lesser, Buckets
  <2>3. ASSUME \A i \in 1 .. n : new[i].who # s PROVE debt'[s] = 0
    BY <1>2, <1>3, <2>1, <2>3 DEF OwesItsBucket, HasRow
  <2>4. /\ \A i \in DOMAIN new : new[i].who = s => debt'[s] = Full - Refilled(new[i])
        /\ (\E i \in DOMAIN new : new[i].who = s) \/ debt'[s] = 0
    BY <1>5, <2>2, <2>3
  <2> QED BY <1>1, <2>4 DEF OwesItsBucket, HasRow, Refilled
<1> QED BY <1>1, <1>6, <1>7, <1>8 DEF LimiterInv

\* rate_limit.py:8-10, for any identities, burst, rate and size of the table: nobody has
\* more calls behind them than the burst and what they earned, and a refusal is due.
THEOREM RateStaysExact == LimiterSpec => []RateIsExact
<1>1. LimiterInv /\ [LimiterNext]_rateLimiter => LimiterInv'
  <2> SUFFICES ASSUME LimiterInv, [LimiterNext]_rateLimiter PROVE LimiterInv'
    OBVIOUS
  <2>1. CASE UNCHANGED rateLimiter
    BY <2>1 DEF rateLimiter, LimiterInv, TableOK, OneEach, OwesItsBucket, HasRow, Refilled
  <2> QED BY <2>1, BucketsAgeKeeps, CheckInputKeeps DEF LimiterNext
<1>2. LimiterInv => RateIsExact
  <2> SUFFICES ASSUME LimiterInv PROVE RateIsExact
    OBVIOUS
  <2>1. ASSUME NEW s \in Identities \ forgot PROVE debt[s] <= Full
    <3>1. OwesItsBucket(s) /\ TableOK(buckets)
      BY DEF LimiterInv
    <3>2. ASSUME NEW i \in DOMAIN buckets, buckets[i].who = s PROVE debt[s] <= Full
      <4>1. buckets[i] \in Buckets /\ debt[s] = Full - Refilled(buckets[i])
        BY <3>1, <3>2 DEF TableOK, OwesItsBucket
      <4> QED BY <4>1, RefilledIs, FullIs
    <3> QED BY <3>1, <3>2, FullIs DEF OwesItsBucket, HasRow
  <2> QED BY <2>1 DEF LimiterInv, RateIsExact
<1> QED BY <1>1, <1>2, LimiterInitially, PTL DEF LimiterSpec

-----------------------------------------------------------------------------
\* A set of naturals that is not empty has a least member.
LEMMA LeastIn ==
  ASSUME NEW T, T \subseteq Nat, T # {}
  PROVE  \E x \in T : \A y \in T : x <= y
<1>1. IsWellFoundedOn({ss \in Nat \X Nat : ss[1] < ss[2]}, Nat)
  BY NatLessThanWellFounded DEF OpToRel
<1>2. PICK R : R = {ss \in Nat \X Nat : ss[1] < ss[2]}
  OBVIOUS
<1>3. PICK x \in T : \A y \in T : ~(<<y, x>> \in R)
  BY <1>1, <1>2, WFMin
<1>4. ASSUME NEW y \in T PROVE x <= y
  <2>1. x \in Nat /\ y \in Nat /\ <<y, x>> \in Nat \X Nat
    OBVIOUS
  <2>2. y < x => <<y, x>> \in R
    BY <1>2, <2>1
  <2> QED BY <1>3, <2>1, <2>2
<1> QED BY <1>4

-----------------------------------------------------------------------------
(* The budget of consequential actions                                     *)

AgeRange == 0 .. BudgetWindow + 1

\* Reservations are kept oldest first.
Descends(ages) == \A i, j \in DOMAIN ages : i <= j => ages[j] <= ages[i]

\* The ages of the reservations of a subject, as many as it is allowed.
RowAges == {ages \in Seq(AgeRange) : Len(ages) <= Allowance /\ Descends(ages)}
BudgetRows == [who : Subjects, ages : RowAges]

\* The reservations that are not over.
Live(ages) == {j \in DOMAIN ages : ages[j] <= BudgetWindow}

\* The calls of a subject, and their reservations: one each, as old as it.
OfSubject(acts, s) == {c \in Actions : acts[c].at # "idle" /\ acts[c].by = s}
Matches(f, ages, acts, s) ==
  /\ f \in Bijection(Live(ages), OfSubject(acts, s))
  /\ \A j \in Live(ages) : ages[j] = acts[f[j]].age
Paired(ages, acts, s) == \E f : Matches(f, ages, acts, s)

\* A call runs for a bounded time, and is of no more interest after the window.
ActionRecords ==
  [at : {"idle", "running", "done"}, by : Subjects \cup {NoAction.by}, age : 0 .. BudgetWindow]
ActionsOK(acts) ==
  /\ acts \in [Actions -> ActionRecords]
  /\ \A c \in Actions : /\ acts[c].at # "idle" => acts[c].by \in Subjects
                        /\ acts[c].at = "running" => acts[c].age <= SlowestWrite

SpentOK(table) == table \in Seq(BudgetRows) /\ Len(table) <= MaxSubjects /\ OneEach(table)

BudgetInv ==
  /\ SpentOK(spent)
  /\ ActionsOK(action)
  /\ dropped \subseteq Subjects /\ swapped \subseteq Subjects
  /\ \A s \in Subjects \ (dropped \cup swapped) : Paired(AgesOf(s), action, s)

\* What is assumed of the constants.
LEMMA BudgetIs ==
  /\ Allowance \in Nat /\ Allowance >= 1 /\ MaxSubjects \in Nat \ {0}
  /\ BudgetWindow \in Nat /\ SlowestWrite \in Nat /\ SlowestWrite <= BudgetWindow
BY ActionBudgetAssumption

\* A row of ages, element by element.
LEMMA AgesAre ==
  ASSUME NEW ages \in RowAges
  PROVE  /\ ages \in Seq(AgeRange) /\ Len(ages) \in Nat /\ DOMAIN ages = 1 .. Len(ages)
         /\ Len(ages) <= Allowance
         /\ \A i \in 1 .. Len(ages) : ages[i] \in Nat /\ ages[i] <= BudgetWindow + 1
         /\ \A i, j \in 1 .. Len(ages) : i <= j => ages[j] <= ages[i]
<1>1. ages \in Seq(AgeRange) /\ Len(ages) <= Allowance /\ Descends(ages)
  BY DEF RowAges
<1>2. Len(ages) \in Nat /\ DOMAIN ages = 1 .. Len(ages)
  BY <1>1
<1>3. \A i \in 1 .. Len(ages) : ages[i] \in AgeRange
  BY <1>1, <1>2
<1>4. \A i, j \in 1 .. Len(ages) : i <= j => ages[j] <= ages[i]
  BY <1>1, <1>2 DEF Descends
<1> QED BY <1>1, <1>2, <1>3, <1>4, BudgetIs DEF AgeRange

\* A sequence with such elements is a row of ages.
LEMMA AgesIf ==
  ASSUME NEW ages \in Seq(AgeRange), Len(ages) <= Allowance,
         \A i, j \in 1 .. Len(ages) : i <= j => ages[j] <= ages[i]
  PROVE  ages \in RowAges
BY DEF RowAges, Descends

\* The expired reservations are the first ones.
LEMMA ExpiredIs ==
  ASSUME NEW ages \in RowAges
  PROVE  /\ Expired(ages) \in 0 .. Len(ages)
         /\ Live(ages) = Expired(ages) + 1 .. Len(ages)
<1>1. PICK n : n = Len(ages)
  OBVIOUS
<1>2. /\ n \in Nat /\ DOMAIN ages = 1 .. n /\ \A i \in 1 .. n : ages[i] \in Nat
      /\ \A i, j \in 1 .. n : i <= j => ages[j] <= ages[i]
  BY <1>1, AgesAre
<1>3. PICK x \in 0 .. n : /\ \A j \in 1 .. n : j > x => ages[j] <= BudgetWindow
                          /\ \A y \in 0 .. n : (\A j \in 1 .. n : j > y => ages[j] <= BudgetWindow) => x <= y
  <2>1. PICK T : T = {y \in 0 .. n : \A j \in 1 .. n : j > y => ages[j] <= BudgetWindow}
    OBVIOUS
  <2>2. T \subseteq Nat /\ n \in T
    BY <1>2, <2>1
  <2>3. PICK x \in T : \A y \in T : x <= y
    BY <2>2, LeastIn
  <2> QED BY <2>1, <2>3
<1>4. \A i \in 1 .. x : ages[i] > BudgetWindow
  <2> SUFFICES ASSUME NEW i \in 1 .. x PROVE ages[i] > BudgetWindow
    OBVIOUS
  <2>1. x - 1 \in 0 .. n /\ x \in 1 .. n /\ ~(x <= x - 1) /\ i \in 1 .. n /\ i <= x
    BY <1>2, <1>3
  <2>2. PICK j \in 1 .. n : j > x - 1 /\ ~(ages[j] <= BudgetWindow)
    BY <1>3, <2>1
  <2>3. j = x
    BY <1>2, <1>3, <2>1, <2>2
  <2> QED BY <1>2, <2>1, <2>2, <2>3, BudgetIs
<1>5. x < n => ages[x + 1] <= BudgetWindow
  BY <1>2, <1>3
<1>6. Expired(ages) = CHOOSE m \in 0 .. n : /\ \A i \in 1 .. m : ages[i] > BudgetWindow
                                            /\ m < n => ages[m + 1] <= BudgetWindow
  BY <1>1 DEF Expired
<1>7. PICK m \in 0 .. n : /\ m = Expired(ages)
                          /\ \A i \in 1 .. m : ages[i] > BudgetWindow
                          /\ m < n => ages[m + 1] <= BudgetWindow
  BY <1>4, <1>5, <1>6
<1>8. ASSUME NEW j \in 1 .. n PROVE ages[j] <= BudgetWindow <=> j \in m + 1 .. n
  <2>1. CASE j <= m
    BY <1>2, <1>7, <2>1, BudgetIs
  <2>2. CASE j > m
    <3>1. m + 1 \in 1 .. n /\ m < n /\ m + 1 <= j
      BY <1>2, <1>7, <2>2
    <3>2. ages[j] <= ages[m + 1] /\ ages[m + 1] \in Nat /\ ages[j] \in Nat
      BY <1>2, <3>1
    <3> QED BY <1>2, <1>7, <2>2, <3>1, <3>2, BudgetIs
  <2> QED BY <1>2, <1>7, <2>1, <2>2
<1>9. Live(ages) = m + 1 .. n
  <2>1. \A j \in m + 1 .. n : j \in 1 .. n
    BY <1>2, <1>7
  <2> QED BY <1>2, <1>8, <2>1 DEF Live
<1> QED BY <1>1, <1>7, <1>9

\* What stays of a row that is pruned.
LEMMA WithinIs ==
  ASSUME NEW ages \in RowAges
  PROVE  LET n == Expired(ages) w == WithinWindow(ages) IN
         /\ w \in RowAges /\ Len(w) = Len(ages) - n
         /\ \A i \in 1 .. Len(ages) - n : w[i] = ages[n + i] /\ n + i \in Live(ages)
         /\ Live(w) = 1 .. Len(w)
<1>1. PICK n : n = Expired(ages)
  OBVIOUS
<1>2. PICK w : w = WithinWindow(ages)
  OBVIOUS
<1>3. PICK l \in Nat : /\ l = Len(ages) /\ DOMAIN ages = 1 .. l /\ n \in 0 .. l /\ l <= Allowance
                       /\ Live(ages) = n + 1 .. l
                       /\ \A i \in 1 .. l : ages[i] \in AgeRange
                       /\ \A i, j \in 1 .. l : i <= j => ages[j] <= ages[i]
  BY <1>1, AgesAre, ExpiredIs, ElementOfSeq
<1>4. w = SubSeq(ages, n + 1, l)
  BY <1>1, <1>2, <1>3 DEF WithinWindow
<1>5. /\ w \in Seq(AgeRange) /\ Len(w) = (IF n + 1 <= l THEN l - (n + 1) + 1 ELSE 0)
      /\ \A i \in 1 .. l - (n + 1) + 1 : w[i] = ages[n + 1 + i - 1]
  <2>1. n + 1 \in Int /\ l \in Int /\ \A i \in n + 1 .. l : ages[i] \in AgeRange
    BY <1>3
  <2> QED BY <1>4, <2>1, SubSeqProperties
<1>6. Len(w) = l - n /\ \A i \in 1 .. l - n : w[i] = ages[n + i] /\ n + i \in n + 1 .. l
  BY <1>3, <1>5
<1>7. w \in RowAges
  <2>1. \A i, j \in 1 .. Len(w) : i <= j => w[j] <= w[i]
    BY <1>3, <1>6
  <2>2. Len(w) <= Allowance
    BY <1>3, <1>6, BudgetIs
  <2> QED BY <1>5, <2>1, <2>2, AgesIf
<1>8. Live(w) = 1 .. Len(w)
  <2>1. DOMAIN w = 1 .. Len(w)
    BY <1>5
  <2>2. ASSUME NEW i \in 1 .. Len(w) PROVE w[i] <= BudgetWindow
    BY <1>3, <1>6 DEF Live
  <2> QED BY <2>1, <2>2 DEF Live
<1> QED BY <1>1, <1>2, <1>3, <1>6, <1>7, <1>8

\* A bijection, element by element.
LEMMA MatchesIs ==
  ASSUME NEW f, NEW ages, NEW acts, NEW s
  PROVE  Matches(f, ages, acts, s) <=>
           /\ f \in [Live(ages) -> OfSubject(acts, s)]
           /\ \A i, j \in Live(ages) : f[i] = f[j] => i = j
           /\ \A c \in OfSubject(acts, s) : \E j \in Live(ages) : f[j] = c
           /\ \A j \in Live(ages) : ages[j] = acts[f[j]].age
BY DEF Matches, Bijection, Injection, Surjection, IsInjective

\* Pruning a row leaves the reservations of its calls.
LEMMA PairedWithin ==
  ASSUME NEW ages \in RowAges, NEW acts, NEW s, Paired(ages, acts, s)
  PROVE  Paired(WithinWindow(ages), acts, s)
<1>1. PICK f : Matches(f, ages, acts, s)
  BY DEF Paired
<1>2. PICK w, n : w = WithinWindow(ages) /\ n = Expired(ages)
  OBVIOUS
<1>3. PICK l : l = Len(ages)
  OBVIOUS
<1>4. /\ l \in Nat /\ n \in 0 .. l /\ Live(ages) = n + 1 .. l /\ Live(w) = 1 .. l - n
      /\ \A i \in 1 .. l - n : w[i] = ages[n + i] /\ n + i \in Live(ages)
  <2>1. l \in Nat /\ n \in 0 .. l /\ Live(ages) = n + 1 .. l
    BY <1>2, <1>3, AgesAre, ExpiredIs
  <2>2. /\ Len(w) = l - n /\ Live(w) = 1 .. Len(w)
        /\ \A i \in 1 .. l - n : w[i] = ages[n + i] /\ n + i \in Live(ages)
    BY <1>2, <1>3, WithinIs
  <2> QED BY <2>1, <2>2
<1>5. /\ f \in [Live(ages) -> OfSubject(acts, s)]
      /\ \A i, j \in Live(ages) : f[i] = f[j] => i = j
      /\ \A c \in OfSubject(acts, s) : \E j \in Live(ages) : f[j] = c
      /\ \A j \in Live(ages) : ages[j] = acts[f[j]].age
  BY <1>1, MatchesIs
<1>6. PICK g : g = [i \in Live(w) |-> f[n + i]]
  OBVIOUS
<1>7. g \in [Live(w) -> OfSubject(acts, s)] /\ \A i \in Live(w) : g[i] = f[n + i]
  BY <1>4, <1>5, <1>6
<1>8. ASSUME NEW i \in Live(w), NEW j \in Live(w), g[i] = g[j] PROVE i = j
  <2>1. n + i \in Live(ages) /\ n + j \in Live(ages) /\ f[n + i] = f[n + j]
    BY <1>4, <1>7, <1>8
  <2>2. n + i = n + j
    BY <1>5, <2>1
  <2>3. i \in Int /\ j \in Int /\ n \in Int
    BY <1>4
  <2> QED BY <2>2, <2>3
<1>9. ASSUME NEW c \in OfSubject(acts, s) PROVE \E j \in Live(w) : g[j] = c
  <2>1. PICK j \in Live(ages) : f[j] = c
    BY <1>5
  <2>2. j - n \in Live(w) /\ n + (j - n) = j
    BY <1>4
  <2> QED BY <1>7, <2>1, <2>2
<1>10. ASSUME NEW j \in Live(w) PROVE w[j] = acts[g[j]].age
  <2>1. w[j] = ages[n + j] /\ n + j \in Live(ages) /\ g[j] = f[n + j]
    BY <1>4, <1>7
  <2>2. ages[n + j] = acts[f[n + j]].age
    BY <1>5, <2>1
  <2> QED BY <2>1, <2>2
<1>11. Matches(g, w, acts, s)
  BY <1>7, <1>8, <1>9, <1>10, MatchesIs
<1> QED BY <1>2, <1>11 DEF Paired

\* A reservation more for a call more.
LEMMA PairedAppend ==
  ASSUME NEW w \in RowAges, Live(w) = 1 .. Len(w), Len(w) < Allowance, NEW acts, NEW s,
         acts \in [Actions -> ActionRecords], NEW c \in Actions, acts[c].at = "idle"
  PROVE  /\ Append(w, 0) \in RowAges
         /\ Paired(w, acts, s) =>
              Paired(Append(w, 0), [acts EXCEPT ![c] = [at |-> "running", by |-> s, age |-> 0]], s)
<1>1. PICK l \in Nat : /\ l = Len(w) /\ w \in Seq(AgeRange)
                       /\ \A i \in 1 .. l : w[i] \in Nat
                       /\ \A i, j \in 1 .. l : i <= j => w[j] <= w[i]
  BY AgesAre
<1>2. PICK a : a = Append(w, 0)
  OBVIOUS
<1>3. /\ a \in Seq(AgeRange) /\ Len(a) = l + 1
      /\ \A i \in 1 .. l : a[i] = w[i]
      /\ a[l + 1] = 0
  <2>1. 0 \in AgeRange
    BY BudgetIs DEF AgeRange
  <2> QED BY <1>1, <1>2, <2>1, AppendProperties
<1>4. \A i \in 1 .. l + 1 : i \in 1 .. l \/ i = l + 1
  BY <1>1
<1>5. a \in RowAges
  <2>1. ASSUME NEW i \in 1 .. l + 1, NEW j \in 1 .. l + 1, i <= j PROVE a[j] <= a[i]
    <3>1. CASE j = l + 1
      BY <1>1, <1>3, <1>4, <3>1
    <3>2. CASE j \in 1 .. l
      BY <1>1, <1>3, <2>1, <3>2
    <3> QED BY <1>4, <3>1, <3>2
  <2>2. Len(a) <= Allowance
    BY <1>1, <1>3, BudgetIs
  <2> QED BY <1>3, <2>1, <2>2, AgesIf
<1>6. Live(a) = 1 .. l + 1
  <2>1. DOMAIN a = 1 .. l + 1
    BY <1>1, <1>3
  <2>2. ASSUME NEW i \in 1 .. l + 1 PROVE a[i] <= BudgetWindow
    <3>1. CASE i \in 1 .. l
      <4>1. i \in Live(w)
        BY <1>1, <3>1
      <4> QED BY <1>3, <3>1, <4>1 DEF Live
    <3>2. CASE i = l + 1
      BY <1>3, <3>2, BudgetIs
    <3> QED BY <1>4, <3>1, <3>2
  <2> QED BY <2>1, <2>2 DEF Live
<1>7. PICK acts2 : acts2 = [acts EXCEPT ![c] = [at |-> "running", by |-> s, age |-> 0]]
  OBVIOUS
<1>8. /\ acts2[c] = [at |-> "running", by |-> s, age |-> 0]
      /\ \A d \in Actions : d # c => acts2[d] = acts[d]
  BY <1>7
<1>9. OfSubject(acts2, s) = OfSubject(acts, s) \cup {c} /\ c \notin OfSubject(acts, s)
  BY <1>8 DEF OfSubject
<1>10. ASSUME Paired(w, acts, s) PROVE Paired(a, acts2, s)
  <2>1. PICK f : /\ f \in [1 .. l -> OfSubject(acts, s)]
                 /\ \A i, j \in 1 .. l : f[i] = f[j] => i = j
                 /\ \A d \in OfSubject(acts, s) : \E j \in 1 .. l : f[j] = d
                 /\ \A j \in 1 .. l : w[j] = acts[f[j]].age
    <3>1. PICK f : Matches(f, w, acts, s)
      BY <1>10 DEF Paired
    <3>2. Live(w) = 1 .. l
      BY <1>1
    <3>3. /\ f \in [Live(w) -> OfSubject(acts, s)]
          /\ \A i, j \in Live(w) : f[i] = f[j] => i = j
          /\ \A d \in OfSubject(acts, s) : \E j \in Live(w) : f[j] = d
          /\ \A j \in Live(w) : w[j] = acts[f[j]].age
      BY <3>1, MatchesIs
    <3> QED BY <3>2, <3>3
  <2>2. PICK g : g = [i \in 1 .. l + 1 |-> IF i = l + 1 THEN c ELSE f[i]]
    OBVIOUS
  <2>3. g[l + 1] = c /\ \A i \in 1 .. l : g[i] = f[i] /\ f[i] \in OfSubject(acts, s)
    BY <1>1, <2>1, <2>2
  <2>4. g \in [1 .. l + 1 -> OfSubject(acts2, s)]
    BY <1>4, <1>9, <2>1, <2>2
  <2>5. ASSUME NEW i \in 1 .. l + 1, NEW j \in 1 .. l + 1, g[i] = g[j] PROVE i = j
    BY <1>4, <1>9, <2>1, <2>3, <2>5
  <2>6. ASSUME NEW d \in OfSubject(acts2, s) PROVE \E j \in 1 .. l + 1 : g[j] = d
    <3>1. CASE d = c
      BY <1>1, <2>3, <3>1
    <3>2. CASE d \in OfSubject(acts, s)
      <4>1. PICK j \in 1 .. l : f[j] = d
        BY <2>1, <3>2
      <4> QED BY <1>1, <2>3, <4>1
    <3> QED BY <1>9, <3>1, <3>2
  <2>7. ASSUME NEW j \in 1 .. l + 1 PROVE a[j] = acts2[g[j]].age
    <3>1. CASE j = l + 1
      BY <1>3, <1>8, <2>3, <3>1
    <3>2. CASE j \in 1 .. l
      <4>1. f[j] \in Actions /\ f[j] # c
        BY <1>9, <2>3, <3>2 DEF OfSubject
      <4> QED BY <1>3, <1>8, <2>1, <2>3, <3>2, <4>1
    <3> QED BY <1>4, <3>1, <3>2
  <2>8. Matches(g, a, acts2, s)
    BY <1>6, <2>4, <2>5, <2>6, <2>7, MatchesIs
  <2> QED BY <2>8 DEF Paired
<1> QED BY <1>2, <1>5, <1>7, <1>10

\* Calls of a subject that a step leaves alone keep their reservations.
LEMMA PairedSame ==
  ASSUME NEW ages, NEW acts, NEW acts2, NEW s, Paired(ages, acts, s),
         OfSubject(acts2, s) = OfSubject(acts, s),
         \A c \in OfSubject(acts, s) : acts2[c].age = acts[c].age
  PROVE  Paired(ages, acts2, s)
<1>1. PICK f : Matches(f, ages, acts, s)
  BY DEF Paired
<1>2. Matches(f, ages, acts2, s)
  BY <1>1, MatchesIs
<1> QED BY <1>2 DEF Paired

\* A row without its latest reservation.
LEMMA FrontIs ==
  ASSUME NEW ages \in RowAges, ages # <<>>
  PROVE  /\ Front(ages) \in RowAges /\ Len(ages) >= 1
         /\ Live(Front(ages)) = Live(ages) \ {Len(ages)}
         /\ \A j \in Live(Front(ages)) : Front(ages)[j] = ages[j]
<1>1. PICK l \in Nat : /\ l = Len(ages) /\ ages \in Seq(AgeRange) /\ DOMAIN ages = 1 .. l
                       /\ l <= Allowance
                       /\ \A i \in 1 .. l : ages[i] \in AgeRange /\ ages[i] \in Nat
                       /\ \A i, j \in 1 .. l : i <= j => ages[j] <= ages[i]
  BY AgesAre, ElementOfSeq
<1>2. l >= 1
  BY <1>1, EmptySeq
<1>3. PICK a : a = Front(ages)
  OBVIOUS
<1>4. a \in Seq(AgeRange) /\ Len(a) = l - 1 /\ \A i \in 1 .. l - 1 : a[i] = ages[i]
  <2>1. a = SubSeq(ages, 1, l - 1)
    BY <1>1, <1>3 DEF Front
  <2>2. 1 \in Int /\ l - 1 \in Int /\ \A i \in 1 .. l - 1 : ages[i] \in AgeRange
    BY <1>1
  <2>3. /\ a \in Seq(AgeRange) /\ Len(a) = (IF 1 <= l - 1 THEN (l - 1) - 1 + 1 ELSE 0)
        /\ \A i \in 1 .. (l - 1) - 1 + 1 : a[i] = ages[1 + i - 1]
    BY <2>1, <2>2, SubSeqProperties
  <2> QED BY <1>1, <1>2, <2>3
<1>5. a \in RowAges
  <2>1. \A i, j \in 1 .. Len(a) : i <= j => a[j] <= a[i]
    BY <1>1, <1>4
  <2>2. Len(a) <= Allowance
    BY <1>1, <1>4, BudgetIs
  <2> QED BY <1>4, <2>1, <2>2, AgesIf
<1>6. Live(a) = Live(ages) \ {l}
  <2>1. DOMAIN a = 1 .. l - 1
    BY <1>1, <1>2, <1>4
  <2> QED BY <1>1, <1>2, <1>4, <2>1 DEF Live
<1>7. \A j \in Live(a) : a[j] = ages[j]
  <2>1. DOMAIN a = 1 .. l - 1
    BY <1>1, <1>2, <1>4
  <2> QED BY <1>4, <2>1 DEF Live
<1> QED BY <1>1, <1>2, <1>3, <1>5, <1>6, <1>7

\* The latest reservation goes with a call that nobody is later than: it is as old
\* as its own, and the call that held it takes that.
LEMMA PairedFront ==
  ASSUME NEW ages \in RowAges, NEW acts, NEW s, ActionsOK(acts), Paired(ages, acts, s),
         NEW c \in OfSubject(acts, s), acts[c].at = "running",
         \A d \in OfSubject(acts, s) : acts[c].age <= acts[d].age
  PROVE  ages # <<>> /\ Paired(Front(ages), [acts EXCEPT ![c] = NoAction], s)
<1>1. PICK f : /\ f \in [Live(ages) -> OfSubject(acts, s)]
               /\ \A i, j \in Live(ages) : f[i] = f[j] => i = j
               /\ \A d \in OfSubject(acts, s) : \E j \in Live(ages) : f[j] = d
               /\ \A j \in Live(ages) : ages[j] = acts[f[j]].age
  <2>1. PICK f : Matches(f, ages, acts, s)
    BY DEF Paired
  <2> QED BY <2>1, MatchesIs
<1>2. PICK k \in Live(ages) : f[k] = c
  BY <1>1
<1>3. PICK n \in Nat : /\ n = Len(ages) /\ DOMAIN ages = 1 .. n
                       /\ \A i \in 1 .. n : ages[i] \in Nat
                       /\ \A i, j \in 1 .. n : i <= j => ages[j] <= ages[i]
  BY AgesAre
<1>4. /\ k \in 1 .. n /\ ages[k] <= BudgetWindow /\ n \in 1 .. n /\ ages[n] <= ages[k]
      /\ n \in Live(ages)
  <2>1. k \in 1 .. n /\ ages[k] <= BudgetWindow
    BY <1>2, <1>3 DEF Live
  <2>2. n \in 1 .. n /\ ages[n] <= ages[k]
    BY <1>3, <2>1
  <2>3. ages[n] <= BudgetWindow
    BY <1>3, <2>1, <2>2, BudgetIs
  <2> QED BY <1>3, <2>1, <2>2, <2>3 DEF Live
<1>5. ages[n] = ages[k] /\ ages[k] = acts[c].age
  <2>1. ages[n] = acts[f[n]].age /\ ages[k] = acts[c].age /\ f[n] \in OfSubject(acts, s)
    BY <1>1, <1>2, <1>4
  <2>2. acts[c].age <= acts[f[n]].age
    BY <2>1
  <2> QED BY <1>3, <1>4, <2>1, <2>2
<1>6. ages # <<>>
  BY <1>3, <1>4
<1>7. PICK a : a = Front(ages)
  OBVIOUS
<1>8. Live(a) = Live(ages) \ {n} /\ \A j \in Live(a) : a[j] = ages[j]
  BY <1>3, <1>6, <1>7, FrontIs
<1>9. PICK acts2 : acts2 = [acts EXCEPT ![c] = NoAction]
  OBVIOUS
<1>10. /\ c \in Actions /\ acts \in [Actions -> ActionRecords]
       /\ acts2[c].at = "idle" /\ \A d \in Actions : d # c => acts2[d] = acts[d]
  <2>1. c \in Actions /\ acts \in [Actions -> ActionRecords]
    BY DEF OfSubject, ActionsOK
  <2> QED BY <1>9, <2>1 DEF NoAction
<1>11. OfSubject(acts2, s) = OfSubject(acts, s) \ {c}
  BY <1>10 DEF OfSubject
<1>12. PICK g : g = [j \in Live(a) |-> IF j = k THEN f[n] ELSE f[j]]
  OBVIOUS
<1>13. ASSUME NEW j \in Live(a)
       PROVE  /\ j \in Live(ages) /\ j # n
              /\ g[j] = (IF j = k THEN f[n] ELSE f[j])
              /\ g[j] \in OfSubject(acts, s) /\ g[j] # c
  <2>1. j \in Live(ages) /\ j # n /\ g[j] = (IF j = k THEN f[n] ELSE f[j])
    BY <1>8, <1>12
  <2>2. CASE j = k
    BY <1>1, <1>2, <1>4, <2>1, <2>2
  <2>3. CASE j # k
    BY <1>1, <1>2, <2>1, <2>3
  <2> QED BY <2>1, <2>2, <2>3
<1>14. g \in [Live(a) -> OfSubject(acts2, s)]
  <2>1. \A j \in Live(a) : (IF j = k THEN f[n] ELSE f[j]) \in OfSubject(acts2, s)
    BY <1>11, <1>13
  <2> QED BY <1>12, <2>1
<1>15. ASSUME NEW i \in Live(a), NEW j \in Live(a), g[i] = g[j] PROVE i = j
  BY <1>1, <1>4, <1>13, <1>15
<1>16. ASSUME NEW d \in OfSubject(acts2, s) PROVE \E j \in Live(a) : g[j] = d
  <2>1. PICK j \in Live(ages) : f[j] = d /\ d # c
    BY <1>1, <1>11
  <2>2. CASE j = n
    <3>1. k # n
      BY <1>2, <2>1, <2>2
    <3>2. k \in Live(a)
      BY <1>8, <3>1
    <3> QED BY <1>13, <2>1, <2>2, <3>2
  <2>3. CASE j # n
    <3>1. j \in Live(a) /\ j # k
      BY <1>2, <1>8, <2>1, <2>3
    <3> QED BY <1>13, <2>1, <3>1
  <2> QED BY <2>2, <2>3
<1>17. ASSUME NEW j \in Live(a) PROVE a[j] = acts2[g[j]].age
  <2>1. g[j] \in Actions /\ acts2[g[j]] = acts[g[j]]
    BY <1>10, <1>13 DEF OfSubject
  <2>2. CASE j = k
    BY <1>1, <1>4, <1>5, <1>8, <1>13, <2>1, <2>2
  <2>3. CASE j # k
    BY <1>1, <1>8, <1>13, <2>1, <2>3
  <2> QED BY <2>2, <2>3
<1>18. Matches(g, a, acts2, s)
  BY <1>14, <1>15, <1>16, <1>17, MatchesIs
<1> QED BY <1>6, <1>7, <1>9, <1>18 DEF Paired

\* Every reservation as old as the window, or a unit older.
Aged(ages) == [j \in DOMAIN ages |-> LeastSubject(ages[j] + 1, BudgetWindow + 1)]

\* A row whose reservations age is a row, of which the live ones were younger.
LEMMA AgedIs ==
  ASSUME NEW ages \in RowAges
  PROVE  /\ Aged(ages) \in RowAges
         /\ Live(Aged(ages)) = {j \in Live(ages) : ages[j] < BudgetWindow}
         /\ \A j \in Live(Aged(ages)) : Aged(ages)[j] = ages[j] + 1
<1>1. PICK l \in Nat : /\ l = Len(ages) /\ DOMAIN ages = 1 .. l /\ l <= Allowance
                       /\ \A i \in 1 .. l : ages[i] \in Nat /\ ages[i] <= BudgetWindow + 1
                       /\ \A i, j \in 1 .. l : i <= j => ages[j] <= ages[i]
  BY AgesAre
<1>2. PICK a : a = Aged(ages)
  OBVIOUS
<1>3. a = [j \in 1 .. l |-> LeastSubject(ages[j] + 1, BudgetWindow + 1)]
  BY <1>1, <1>2 DEF Aged
<1>4. ASSUME NEW j \in 1 .. l
      PROVE  /\ a[j] = (IF ages[j] < BudgetWindow THEN ages[j] + 1 ELSE BudgetWindow + 1)
             /\ a[j] \in AgeRange
  BY <1>1, <1>3, BudgetIs DEF LeastSubject, AgeRange
<1>5. a \in Seq(AgeRange) /\ Len(a) = l /\ DOMAIN a = 1 .. l
  <2>1. a \in [1 .. l -> AgeRange]
    BY <1>3, <1>4
  <2> QED BY <1>1, <2>1
<1>6. \A i, j \in 1 .. l : i <= j => a[j] <= a[i]
  BY <1>1, <1>4, BudgetIs
<1>7. a \in RowAges
  BY <1>1, <1>5, <1>6, AgesIf
<1>8. Live(a) = {j \in Live(ages) : ages[j] < BudgetWindow}
  BY <1>1, <1>4, <1>5, BudgetIs DEF Live
<1>9. \A j \in Live(a) : a[j] = ages[j] + 1
  BY <1>4, <1>5, <1>8 DEF Live
<1> QED BY <1>2, <1>7, <1>8, <1>9

\* The calls a unit of time later: those that reached the end of the window are of
\* no more interest.
LaterOn(acts) ==
  [c \in Actions |-> IF acts[c].at = "idle" \/ (acts[c].age = BudgetWindow /\ acts[c].at = "done")
                     THEN NoAction ELSE [acts[c] EXCEPT !.age = @ + 1]]

\* A call and its reservation leave the window together.
LEMMA PairedAged ==
  ASSUME NEW ages \in RowAges, NEW acts, ActionsOK(acts), NEW s, Paired(ages, acts, s),
         \A c \in Actions : acts[c].at = "running" => acts[c].age < SlowestWrite
  PROVE  Paired(Aged(ages), LaterOn(acts), s)
<1>1. PICK f : /\ f \in [Live(ages) -> OfSubject(acts, s)]
               /\ \A i, j \in Live(ages) : f[i] = f[j] => i = j
               /\ \A d \in OfSubject(acts, s) : \E j \in Live(ages) : f[j] = d
               /\ \A j \in Live(ages) : ages[j] = acts[f[j]].age
  <2>1. PICK f : Matches(f, ages, acts, s)
    BY DEF Paired
  <2> QED BY <2>1, MatchesIs
<1>2. PICK a, acts2 : a = Aged(ages) /\ acts2 = LaterOn(acts)
  OBVIOUS
<1>3. /\ Live(a) = {j \in Live(ages) : ages[j] < BudgetWindow}
      /\ \A j \in Live(a) : a[j] = ages[j] + 1
  BY <1>2, AgedIs
<1>4. ASSUME NEW c \in Actions
      PROVE  /\ acts[c] \in ActionRecords
             /\ acts2[c].at # "idle" => acts[c].at # "idle" /\ acts[c].age < BudgetWindow
             /\ acts[c].at # "idle" /\ acts[c].age < BudgetWindow =>
                  /\ acts2[c].at = acts[c].at /\ acts2[c].by = acts[c].by
                  /\ acts2[c].age = acts[c].age + 1
  <2>1. acts[c] \in ActionRecords /\ (acts[c].at = "running" => acts[c].age < SlowestWrite)
    BY DEF ActionsOK
  <2>2. /\ acts[c].at \in {"idle", "running", "done"} /\ acts[c].age \in Nat
        /\ acts[c].age <= BudgetWindow
    BY <2>1, BudgetIs DEF ActionRecords
  <2>3. CASE acts[c].at = "idle" \/ (acts[c].age = BudgetWindow /\ acts[c].at = "done")
    <3>1. acts2[c] = NoAction
      BY <1>2, <2>3 DEF LaterOn
    <3> QED BY <2>1, <2>3, <3>1, BudgetIs DEF NoAction
  <2>4. CASE ~(acts[c].at = "idle" \/ (acts[c].age = BudgetWindow /\ acts[c].at = "done"))
    <3>1. acts2[c] = [acts[c] EXCEPT !.age = @ + 1]
      BY <1>2, <2>4 DEF LaterOn
    <3>2. acts[c].age < BudgetWindow
      BY <2>1, <2>2, <2>4, BudgetIs
    <3> QED BY <2>1, <2>4, <3>1, <3>2 DEF ActionRecords
  <2> QED BY <2>3, <2>4
<1>5. OfSubject(acts2, s) = {c \in OfSubject(acts, s) : acts[c].age < BudgetWindow}
  <2>1. ASSUME NEW c \in Actions
        PROVE  acts2[c].at # "idle" /\ acts2[c].by = s <=>
                 acts[c].at # "idle" /\ acts[c].by = s /\ acts[c].age < BudgetWindow
    BY <1>4
  <2> QED BY <2>1 DEF OfSubject
<1>6. PICK g : g = [j \in Live(a) |-> f[j]]
  OBVIOUS
<1>7. \A j \in Live(a) : /\ j \in Live(ages) /\ g[j] = f[j] /\ f[j] \in OfSubject(acts, s)
                         /\ acts[f[j]].age < BudgetWindow /\ a[j] = acts[f[j]].age + 1
  BY <1>1, <1>3, <1>6
<1>8. g \in [Live(a) -> OfSubject(acts2, s)]
  BY <1>5, <1>6, <1>7
<1>9. \A i, j \in Live(a) : g[i] = g[j] => i = j
  BY <1>1, <1>7
<1>10. \A d \in OfSubject(acts2, s) : \E j \in Live(a) : g[j] = d
  BY <1>1, <1>3, <1>5, <1>7
<1>11. ASSUME NEW j \in Live(a) PROVE a[j] = acts2[g[j]].age
  <2>1. f[j] \in Actions /\ acts[f[j]].at # "idle"
    BY <1>7 DEF OfSubject
  <2> QED BY <1>4, <1>7, <2>1
<1>12. Matches(g, a, acts2, s)
  BY <1>8, <1>9, <1>10, <1>11, MatchesIs
<1> QED BY <1>2, <1>12 DEF Paired

\* So many reservations are live as the subject has calls.
LEMMA PairedCounts ==
  ASSUME NEW ages \in RowAges, NEW acts, NEW s, Paired(ages, acts, s)
  PROVE  /\ Cardinality(OfSubject(acts, s)) = Len(WithinWindow(ages))
         /\ Cardinality(OfSubject(acts, s)) <= Allowance
<1>1. PICK w : w = WithinWindow(ages)
  OBVIOUS
<1>2. w \in RowAges /\ Live(w) = 1 .. Len(w) /\ Paired(w, acts, s)
  BY <1>1, WithinIs, PairedWithin
<1>3. Len(w) \in Nat /\ Len(w) <= Allowance
  BY <1>2, AgesAre
<1>4. ExistsBijection(1 .. Len(w), OfSubject(acts, s))
  BY <1>2 DEF Paired, Matches, ExistsBijection
<1>5. IsFiniteSet(1 .. Len(w)) /\ Cardinality(1 .. Len(w)) = Len(w)
  <2>1. 1 \in Int /\ Len(w) \in Int
    BY <1>3
  <2>2. /\ IsFiniteSet(1 .. Len(w))
        /\ Cardinality(1 .. Len(w)) = IF 1 > Len(w) THEN 0 ELSE Len(w) - 1 + 1
    BY <2>1, FS_Interval
  <2>3. (IF 1 > Len(w) THEN 0 ELSE Len(w) - 1 + 1) = Len(w)
    BY <1>3
  <2> QED BY <2>2, <2>3
<1> QED BY <1>1, <1>3, <1>4, <1>5, FS_Bijection

\* The reservations a table holds for a subject.
HeldAges(table, s) == IF HasRow(table, s) THEN table[RowAt(table, s)].ages ELSE <<>>

\* They are those of its row, or none.
LEMMA HeldIs ==
  ASSUME NEW table, SpentOK(table), NEW s
  PROVE  /\ HeldAges(table, s) \in RowAges
         /\ \A i \in DOMAIN table : /\ table[i] \in BudgetRows
                                    /\ table[i].who = s => HeldAges(table, s) = table[i].ages
         /\ ~HasRow(table, s) => HeldAges(table, s) = <<>>
<1>1. ASSUME NEW i \in DOMAIN table PROVE table[i] \in BudgetRows
  BY ElementOfSeq DEF SpentOK
<1>2. ASSUME NEW i \in DOMAIN table, table[i].who = s PROVE HeldAges(table, s) = table[i].ages
  <2>1. HasRow(table, s) /\ RowAt(table, s) \in DOMAIN table /\ table[RowAt(table, s)].who = s
    BY <1>2 DEF HasRow, RowAt
  <2>2. RowAt(table, s) = i
    BY <1>2, <2>1 DEF SpentOK, OneEach
  <2> QED BY <2>1, <2>2 DEF HeldAges
<1>3. ~HasRow(table, s) => HeldAges(table, s) = <<>>
  BY DEF HeldAges
<1>4. <<>> \in RowAges
  <2>1. <<>> \in Seq(AgeRange) /\ Len(<<>>) = 0 /\ 0 <= Allowance
    BY BudgetIs
  <2>2. \A i, j \in 1 .. Len(<<>>) : i <= j => <<>>[j] <= <<>>[i]
    BY <2>1
  <2> QED BY <2>1, <2>2, AgesIf
<1>5. HeldAges(table, s) \in RowAges
  <2>1. CASE ~HasRow(table, s)
    BY <1>3, <1>4, <2>1
  <2>2. CASE HasRow(table, s)
    <3>1. PICK i \in DOMAIN table : table[i].who = s
      BY <2>2 DEF HasRow
    <3> QED BY <1>1, <1>2, <3>1 DEF BudgetRows
  <2> QED BY <2>1, <2>2
<1> QED BY <1>1, <1>2, <1>3, <1>5

\* A table whose rows keep their names, and stay rows.
LEMMA SameNames ==
  ASSUME NEW table, SpentOK(table), NEW new, new = [i \in DOMAIN table |-> new[i]],
         \A i \in DOMAIN table : new[i] \in BudgetRows /\ new[i].who = table[i].who
  PROVE  SpentOK(new) /\ DOMAIN new = DOMAIN table /\ \A s : HasRow(new, s) <=> HasRow(table, s)
<1>1. PICK n \in Nat : n = Len(table) /\ DOMAIN table = 1 .. n
  BY DEF SpentOK
<1>2. new \in [1 .. n -> BudgetRows]
  BY <1>1
<1>3. new \in Seq(BudgetRows) /\ Len(new) = n /\ DOMAIN new = 1 .. n
  BY <1>2
<1>4. OneEach(new)
  BY <1>1, <1>3 DEF SpentOK, OneEach
<1> QED BY <1>1, <1>3, <1>4 DEF SpentOK, HasRow

\* The invariant, of a table, calls and histories.
NextInv(table, acts, gone, other) ==
  /\ SpentOK(table) /\ ActionsOK(acts) /\ gone \subseteq Subjects /\ other \subseteq Subjects
  /\ \A s \in Subjects \ (gone \cup other) : Paired(HeldAges(table, s), acts, s)

\* It is BudgetInv, at the variables.
LEMMA InvIs == BudgetInv <=> NextInv(spent, action, dropped, swapped)
BY DEF BudgetInv, NextInv, AgesOf, HeldAges

\* No call, no reservation.
LEMMA BudgetInitially == BudgetInit => BudgetInv
<1> SUFFICES ASSUME BudgetInit PROVE BudgetInv
  OBVIOUS
<1>1. SpentOK(spent)
  BY BudgetIs DEF BudgetInit, SpentOK, OneEach
<1>2. NoAction \in ActionRecords /\ NoAction.at = "idle"
  BY BudgetIs DEF NoAction, ActionRecords
<1>3. action = [c \in Actions |-> NoAction] /\ spent = <<>> /\ dropped = {} /\ swapped = {}
  BY DEF BudgetInit
<1>4. ActionsOK(action)
  BY <1>2, <1>3 DEF ActionsOK
<1>5. ASSUME NEW s \in Subjects PROVE Paired(HeldAges(spent, s), action, s)
  <2>1. OfSubject(action, s) = {}
    BY <1>2, <1>3 DEF OfSubject
  <2>2. PICK a : a = HeldAges(spent, s)
    OBVIOUS
  <2>3. Live(a) = {}
    BY <1>3, <2>2 DEF HeldAges, HasRow, Live
  <2>4. PICK f : f = [j \in Live(a) |-> 0]
    OBVIOUS
  <2>5. Matches(f, a, action, s)
    BY <2>1, <2>3, <2>4, MatchesIs
  <2> QED BY <2>2, <2>5 DEF Paired
<1> QED BY <1>1, <1>3, <1>4, <1>5, InvIs DEF NextInv

\* A call asks for its reservation: the row of its subject is pruned, and grows by it
\* unless the budget is exhausted.
LEMMA CheckBudgetKeeps ==
  ASSUME BudgetInv, NEW c \in Actions, NEW s \in Subjects, CheckBudget(c, s)
  PROVE  BudgetInv'
<1>0. /\ SpentOK(spent) /\ ActionsOK(action) /\ dropped \subseteq Subjects /\ swapped \subseteq Subjects
      /\ \A q \in Subjects \ (dropped \cup swapped) : Paired(HeldAges(spent, q), action, q)
  BY InvIs DEF NextInv
<1>1. PICK ages : ages = HeldAges(spent, s) /\ ages \in RowAges
  BY <1>0, HeldIs
<1>2. PICK w : w = WithinWindow(ages)
  OBVIOUS
<1>3. w \in RowAges /\ Live(w) = 1 .. Len(w) /\ Len(w) \in Nat
  BY <1>1, <1>2, WithinIs, AgesAre
<1>4. Reserved(s) = w /\ (Exhausted(s) <=> Len(w) >= Allowance)
  BY <1>1, <1>2 DEF Reserved, Exhausted, AgesOf, HeldAges
<1>5. PICK row : row = Charged(s)
  OBVIOUS
<1>6. row = [who |-> s, ages |-> IF Len(w) >= Allowance THEN w ELSE Append(w, 0)]
  BY <1>4, <1>5 DEF Charged
<1>7. action[c].at = "idle" /\ action \in [Actions -> ActionRecords]
  BY <1>0 DEF CheckBudget, NextFree, ActionsOK
<1>8. PICK acts2 : acts2 = [action EXCEPT ![c] = [at |-> "running", by |-> s, age |-> 0]]
  OBVIOUS
<1>9. Len(w) < Allowance => /\ Append(w, 0) \in RowAges
                            /\ Paired(w, action, s) => Paired(Append(w, 0), acts2, s)
  BY <1>3, <1>7, <1>8, PairedAppend
<1>10. row \in BudgetRows /\ row.who = s
  <2>1. Len(w) >= Allowance \/ Len(w) < Allowance
    BY <1>3, BudgetIs
  <2>2. row.ages \in RowAges
    BY <1>3, <1>6, <1>9, <2>1
  <2> QED BY <1>6, <2>2 DEF BudgetRows
<1>11. PICK new : new = Latest(spent, row, MaxSubjects)
  OBVIOUS
<1>12. /\ spent' = new /\ dropped' = dropped \cup (Names(spent) \ Names(new))
       /\ swapped' = swapped
       /\ action' = IF Len(w) >= Allowance THEN action ELSE acts2
  BY <1>4, <1>5, <1>8, <1>11 DEF CheckBudget
<1>13. /\ SpentOK(new) /\ \E j \in DOMAIN new : new[j] = row
       /\ \A j \in DOMAIN new :
            new[j] = row \/ \E i \in DOMAIN spent : new[j] = spent[i] /\ spent[i].who # s
  <2>1. Follows(BudgetRows, spent, row, MaxSubjects, new)
    BY <1>0, <1>10, <1>11, BudgetIs, LatestFollows DEF SpentOK
  <2> QED BY <1>10, <2>1 DEF Follows, SpentOK
<1>14. /\ acts2[c] = [at |-> "running", by |-> s, age |-> 0]
       /\ \A d \in Actions : d # c => acts2[d] = action[d]
       /\ acts2 \in [Actions -> ActionRecords]
  <2>1. [at |-> "running", by |-> s, age |-> 0] \in ActionRecords
    BY BudgetIs DEF ActionRecords
  <2> QED BY <1>7, <1>8, <2>1
<1>15. ActionsOK(action')
  <2>1. ActionsOK(acts2)
    BY <1>0, <1>14, BudgetIs DEF ActionsOK
  <2> QED BY <1>0, <1>12, <2>1
<1>16. dropped' \subseteq Subjects
  <2>1. ASSUME NEW i \in DOMAIN spent PROVE spent[i].who \in Subjects
    BY <1>0, HeldIs DEF BudgetRows
  <2> QED BY <1>0, <1>12, <2>1 DEF Names
<1>17. ASSUME NEW q \in Subjects \ (dropped' \cup swapped')
       PROVE  Paired(HeldAges(new, q), action', q)
  <2>1. q \notin dropped /\ q \notin swapped /\ Paired(HeldAges(spent, q), action, q)
    BY <1>0, <1>12
  <2>2. CASE q = s
    <3>1. HeldAges(new, s) = row.ages
      BY <1>10, <1>13, HeldIs
    <3>2. Paired(w, action, s)
      BY <1>1, <1>2, <2>1, <2>2, PairedWithin
    <3>3. CASE Len(w) >= Allowance
      BY <1>6, <1>12, <2>2, <3>1, <3>2, <3>3
    <3>4. CASE Len(w) < Allowance
      <4>1. ~(Len(w) >= Allowance)
        BY <1>3, <3>4, BudgetIs
      <4> QED BY <1>6, <1>9, <1>12, <2>2, <3>1, <3>2, <3>4, <4>1
    <3> QED BY <1>3, <3>3, <3>4, BudgetIs
  <2>3. CASE q # s
    <3>1. HeldAges(new, q) = HeldAges(spent, q)
      <4>1. CASE HasRow(new, q)
        <5>1. PICK j \in DOMAIN new : new[j].who = q
          BY <4>1 DEF HasRow
        <5>2. PICK i \in DOMAIN spent : new[j] = spent[i]
          BY <1>10, <1>13, <2>3, <5>1
        <5>3. HeldAges(new, q) = new[j].ages /\ HeldAges(spent, q) = spent[i].ages
          BY <1>0, <1>13, <5>1, <5>2, HeldIs
        <5> QED BY <5>2, <5>3
      <4>2. CASE ~HasRow(new, q)
        <5>1. ~HasRow(spent, q)
          BY <1>12, <4>2 DEF HasRow, Names
        <5> QED BY <1>0, <1>13, <4>2, <5>1, HeldIs
      <4> QED BY <4>1, <4>2
    <3>2. OfSubject(acts2, q) = OfSubject(action, q) /\ c \notin OfSubject(action, q)
      BY <1>7, <1>14, <2>3 DEF OfSubject
    <3>3. Paired(HeldAges(spent, q), acts2, q)
      <4>1. \A d \in OfSubject(action, q) : acts2[d].age = action[d].age
        BY <1>14, <3>2 DEF OfSubject
      <4> QED BY <2>1, <3>2, <4>1, PairedSame
    <3> QED BY <1>12, <2>1, <3>1, <3>3
  <2> QED BY <2>2, <2>3
<1>18. NextInv(new, action', dropped', swapped')
  BY <1>0, <1>12, <1>13, <1>15, <1>16, <1>17 DEF NextInv
<1> QED BY <1>12, <1>18 DEF BudgetInv, NextInv, AgesOf, HeldAges, HasRow, RowAt

\* A call that succeeds keeps its reservation.
LEMMA SucceedsKeeps ==
  ASSUME BudgetInv, NEW c \in Actions, Succeeds(c)
  PROVE  BudgetInv'
<1>0. /\ SpentOK(spent) /\ ActionsOK(action) /\ dropped \subseteq Subjects /\ swapped \subseteq Subjects
      /\ \A q \in Subjects \ (dropped \cup swapped) : Paired(HeldAges(spent, q), action, q)
  BY InvIs DEF NextInv
<1>1. PICK acts2 : acts2 = [action EXCEPT ![c].at = "done"]
  OBVIOUS
<1>2. action' = acts2 /\ spent' = spent /\ dropped' = dropped /\ swapped' = swapped
      /\ action[c].at = "running"
  BY <1>1 DEF Succeeds
<1>3. /\ action \in [Actions -> ActionRecords] /\ acts2 \in [Actions -> ActionRecords]
      /\ acts2[c].at = "done" /\ acts2[c].by = action[c].by /\ acts2[c].age = action[c].age
      /\ \A d \in Actions : d # c => acts2[d] = action[d]
  <2>1. action \in [Actions -> ActionRecords] /\ action[c] \in ActionRecords
    BY <1>0 DEF ActionsOK
  <2>2. acts2 = [action EXCEPT ![c] = [action[c] EXCEPT !.at = "done"]]
    BY <1>1, <2>1
  <2>3. [action[c] EXCEPT !.at = "done"] \in ActionRecords
    BY <2>1 DEF ActionRecords
  <2> QED BY <2>1, <2>2, <2>3 DEF ActionRecords
<1>4. ActionsOK(acts2)
  BY <1>0, <1>2, <1>3 DEF ActionsOK
<1>5. ASSUME NEW q \in Subjects \ (dropped \cup swapped) PROVE Paired(HeldAges(spent, q), acts2, q)
  <2>1. OfSubject(acts2, q) = OfSubject(action, q)
    BY <1>2, <1>3 DEF OfSubject
  <2>2. \A d \in OfSubject(action, q) : acts2[d].age = action[d].age
    BY <1>3 DEF OfSubject
  <2> QED BY <1>0, <2>1, <2>2, PairedSame
<1>6. NextInv(spent, acts2, dropped, swapped)
  BY <1>0, <1>4, <1>5 DEF NextInv
<1> QED BY <1>2, <1>6 DEF BudgetInv, NextInv, AgesOf, HeldAges, HasRow, RowAt

\* A call that fails gives back the latest reservation of its subject.
LEMMA GiveBackKeeps ==
  ASSUME BudgetInv, NEW c \in Actions, GiveBack(c)
  PROVE  BudgetInv'
<1>0. /\ SpentOK(spent) /\ ActionsOK(action) /\ dropped \subseteq Subjects /\ swapped \subseteq Subjects
      /\ \A q \in Subjects \ (dropped \cup swapped) : Paired(HeldAges(spent, q), action, q)
  BY InvIs DEF NextInv
<1>1. PICK s \in Subjects : s = action[c].by /\ action[c].at = "running"
  BY <1>0 DEF GiveBack, ActionsOK
<1>2. PICK acts2, new : acts2 = [action EXCEPT ![c] = NoAction] /\ new = GivenBack(s)
  OBVIOUS
<1>3. /\ spent' = new /\ action' = acts2 /\ dropped' = dropped
      /\ swapped' = IF \E d \in Actions : Later(c, d) THEN swapped \cup {s} ELSE swapped
  BY <1>1, <1>2 DEF GiveBack
<1>4. ASSUME NEW i \in DOMAIN spent
      PROVE  /\ new[i] \in BudgetRows /\ new[i].who = spent[i].who
             /\ spent[i].who # s \/ spent[i].ages = <<>> => new[i].ages = spent[i].ages
             /\ spent[i].who = s /\ spent[i].ages # <<>> => new[i].ages = Front(spent[i].ages)
  <2>1. spent[i] \in BudgetRows /\ spent[i].ages \in RowAges
    BY <1>0, HeldIs DEF BudgetRows
  <2>2. new[i] = IF spent[i].who = s /\ spent[i].ages # <<>>
                 THEN [spent[i] EXCEPT !.ages = Front(@)] ELSE spent[i]
    BY <1>2 DEF GivenBack
  <2>3. spent[i].ages # <<>> => Front(spent[i].ages) \in RowAges
    BY <2>1, FrontIs
  <2>4. CASE spent[i].who = s /\ spent[i].ages # <<>>
    <3>1. new[i] = [spent[i] EXCEPT !.ages = Front(spent[i].ages)]
      BY <2>2, <2>4
    <3> QED BY <2>1, <2>3, <2>4, <3>1 DEF BudgetRows
  <2>5. CASE ~(spent[i].who = s /\ spent[i].ages # <<>>)
    BY <2>1, <2>2, <2>5
  <2> QED BY <2>4, <2>5
<1>5. SpentOK(new) /\ DOMAIN new = DOMAIN spent /\ \A q : HasRow(new, q) <=> HasRow(spent, q)
  <2>1. new = [i \in DOMAIN spent |-> new[i]]
    BY <1>2 DEF GivenBack
  <2> QED BY <1>0, <1>4, <2>1, SameNames
<1>6. /\ NoAction \in ActionRecords /\ NoAction.at = "idle" /\ action \in [Actions -> ActionRecords]
      /\ acts2[c] = NoAction /\ \A d \in Actions : d # c => acts2[d] = action[d]
  BY <1>0, <1>2, BudgetIs DEF NoAction, ActionRecords, ActionsOK
<1>7. ActionsOK(acts2)
  BY <1>0, <1>2, <1>6 DEF ActionsOK
<1>8. swapped' \subseteq Subjects
  BY <1>0, <1>3
<1>9. ASSUME NEW q \in Subjects \ (dropped \cup swapped') PROVE Paired(HeldAges(new, q), acts2, q)
  <2>1. Paired(HeldAges(spent, q), action, q)
    BY <1>0, <1>3
  <2>2. CASE q = s
    <3>1. ASSUME NEW d \in OfSubject(action, s) PROVE action[c].age <= action[d].age
      <4>1. d \in Actions /\ ~Later(c, d)
        BY <1>3, <2>2 DEF OfSubject
      <4>2. ~(action[d].age < action[c].age)
        BY <1>1, <3>1, <4>1 DEF Later, OfSubject
      <4>3. action[d].age \in Nat /\ action[c].age \in Nat
        BY <1>6, <4>1, BudgetIs DEF ActionRecords
      <4> QED BY <4>2, <4>3
    <3>2. c \in OfSubject(action, s)
      BY <1>1 DEF OfSubject
    <3>3. PICK ages : ages = HeldAges(spent, s) /\ ages \in RowAges
      BY <1>0, HeldIs
    <3>4. ages # <<>> /\ Paired(Front(ages), acts2, s)
      BY <1>0, <1>1, <1>2, <2>1, <2>2, <3>1, <3>2, <3>3, PairedFront
    <3>5. PICK i \in DOMAIN spent : spent[i].who = s /\ spent[i].ages = ages
      BY <1>0, <3>3, <3>4, HeldIs DEF HasRow
    <3>6. HeldAges(new, s) = Front(ages)
      BY <1>4, <1>5, <3>4, <3>5, HeldIs
    <3> QED BY <2>2, <3>4, <3>6
  <2>3. CASE q # s
    <3>1. HeldAges(new, q) = HeldAges(spent, q)
      <4>1. CASE HasRow(spent, q)
        <5>1. PICK i \in DOMAIN spent : spent[i].who = q
          BY <4>1 DEF HasRow
        <5>2. new[i].who = q /\ new[i].ages = spent[i].ages /\ i \in DOMAIN new
          BY <1>4, <1>5, <2>3, <5>1
        <5>3. HeldAges(new, q) = new[i].ages
          BY <1>5, <5>2, HeldIs
        <5>4. HeldAges(spent, q) = spent[i].ages
          BY <1>0, <5>1, HeldIs
        <5> QED BY <5>2, <5>3, <5>4
      <4>2. CASE ~HasRow(spent, q)
        BY <1>0, <1>5, <4>2, HeldIs
      <4> QED BY <4>1, <4>2
    <3>2. OfSubject(acts2, q) = OfSubject(action, q) /\ c \notin OfSubject(action, q)
      BY <1>1, <1>6, <2>3 DEF OfSubject
    <3>3. \A d \in OfSubject(action, q) : acts2[d].age = action[d].age
      BY <1>6, <3>2 DEF OfSubject
    <3> QED BY <2>1, <3>1, <3>2, <3>3, PairedSame
  <2> QED BY <2>2, <2>3
<1>10. NextInv(new, acts2, dropped, swapped')
  BY <1>0, <1>5, <1>7, <1>8, <1>9 DEF NextInv
<1> QED BY <1>3, <1>10 DEF BudgetInv, NextInv, AgesOf, HeldAges, HasRow, RowAt

\* Time ages the calls and their reservations alike.
LEMMA ActionsAgeKeeps ==
  ASSUME BudgetInv, ActionsAge
  PROVE  BudgetInv'
<1>0. /\ SpentOK(spent) /\ ActionsOK(action) /\ dropped \subseteq Subjects /\ swapped \subseteq Subjects
      /\ \A q \in Subjects \ (dropped \cup swapped) : Paired(HeldAges(spent, q), action, q)
  BY InvIs DEF NextInv
<1>1. PICK acts2, new : acts2 = LaterOn(action) /\ new = spent'
  OBVIOUS
<1>2. /\ action' = acts2 /\ dropped' = dropped /\ swapped' = swapped
      /\ \A c \in Actions : action[c].at = "running" => action[c].age < SlowestWrite
  BY <1>1 DEF ActionsAge, LaterOn
<1>3. ASSUME NEW i \in DOMAIN spent
      PROVE  new[i] \in BudgetRows /\ new[i].who = spent[i].who /\ new[i].ages = Aged(spent[i].ages)
  <2>1. spent[i] \in BudgetRows /\ spent[i].ages \in RowAges
    BY <1>0, HeldIs DEF BudgetRows
  <2>2. new[i] = [spent[i] EXCEPT !.ages = Aged(spent[i].ages)]
    BY <1>1 DEF ActionsAge, Aged
  <2>3. Aged(spent[i].ages) \in RowAges
    BY <2>1, AgedIs
  <2> QED BY <2>1, <2>2, <2>3 DEF BudgetRows
<1>4. SpentOK(new) /\ DOMAIN new = DOMAIN spent /\ \A q : HasRow(new, q) <=> HasRow(spent, q)
  <2>1. new = [i \in DOMAIN spent |-> new[i]]
    BY <1>1 DEF ActionsAge
  <2> QED BY <1>0, <1>3, <2>1, SameNames
<1>5. ActionsOK(acts2)
  <2>1. ASSUME NEW c \in Actions
        PROVE  /\ acts2[c] \in ActionRecords
               /\ acts2[c].at # "idle" => acts2[c].by \in Subjects
               /\ acts2[c].at = "running" => acts2[c].age <= SlowestWrite
    <3>1. /\ action[c] \in ActionRecords
          /\ action[c].at # "idle" => action[c].by \in Subjects
          /\ action[c].at = "running" => action[c].age < SlowestWrite
      BY <1>0, <1>2 DEF ActionsOK
    <3>2. CASE action[c].at = "idle" \/ (action[c].age = BudgetWindow /\ action[c].at = "done")
      <4>1. acts2[c] = NoAction
        BY <1>1, <3>2 DEF LaterOn
      <4> QED BY <4>1, BudgetIs DEF NoAction, ActionRecords
    <3>3. CASE ~(action[c].at = "idle" \/ (action[c].age = BudgetWindow /\ action[c].at = "done"))
      <4>1. acts2[c] = [action[c] EXCEPT !.age = action[c].age + 1]
        BY <1>1, <3>3 DEF LaterOn
      <4>2. action[c].age \in Nat /\ action[c].age < BudgetWindow
        BY <3>1, <3>3, BudgetIs DEF ActionRecords
      <4> QED BY <3>1, <4>1, <4>2, BudgetIs DEF ActionRecords
    <3> QED BY <3>2, <3>3
  <2>2. acts2 = [c \in Actions |-> acts2[c]]
    BY <1>1 DEF LaterOn
  <2> QED BY <2>1, <2>2 DEF ActionsOK
<1>6. ASSUME NEW q \in Subjects \ (dropped \cup swapped) PROVE Paired(HeldAges(new, q), acts2, q)
  <2>1. PICK ages : ages = HeldAges(spent, q) /\ ages \in RowAges /\ Paired(ages, action, q)
    BY <1>0, HeldIs
  <2>2. Paired(Aged(ages), acts2, q)
    BY <1>0, <1>1, <1>2, <2>1, PairedAged
  <2>3. HeldAges(new, q) = Aged(ages)
    <3>1. CASE HasRow(spent, q)
      <4>1. PICK i \in DOMAIN spent : spent[i].who = q
        BY <3>1 DEF HasRow
      <4>2. ages = spent[i].ages
        BY <1>0, <2>1, <4>1, HeldIs
      <4>3. HeldAges(new, q) = new[i].ages
        BY <1>3, <1>4, <4>1, HeldIs
      <4> QED BY <1>3, <4>1, <4>2, <4>3
    <3>2. CASE ~HasRow(spent, q)
      <4>1. HeldAges(new, q) = <<>> /\ ages = <<>>
        BY <1>0, <1>4, <2>1, <3>2, HeldIs
      <4>2. Aged(ages) \in Seq(AgeRange) /\ DOMAIN Aged(ages) = {}
        BY <2>1, <4>1, AgedIs, AgesAre DEF Aged
      <4>3. Aged(ages) = <<>>
        BY <4>2
      <4> QED BY <4>1, <4>3
    <3> QED BY <3>1, <3>2
  <2> QED BY <2>2, <2>3
<1>7. NextInv(new, acts2, dropped, swapped)
  BY <1>0, <1>4, <1>5, <1>6 DEF NextInv
<1> QED BY <1>1, <1>2, <1>7 DEF BudgetInv, NextInv, AgesOf, HeldAges, HasRow, RowAt

\* budget.py:11-13, for any subjects, calls, allowance, window and size of the table: no
\* subject has more actions in the last window than its allowance, and no
\* reservation stands for none.
THEOREM BudgetStaysKept == BudgetSpec => []BudgetIsKept
<1>1. BudgetInv /\ [BudgetNext]_actionBudget => BudgetInv'
  <2> SUFFICES ASSUME BudgetInv, [BudgetNext]_actionBudget PROVE BudgetInv'
    OBVIOUS
  <2>1. CASE UNCHANGED actionBudget
    BY <2>1 DEF actionBudget, BudgetInv, AgesOf, HasRow, RowAt
  <2> QED BY <2>1, ActionsAgeKeeps, SucceedsKeeps, GiveBackKeeps, CheckBudgetKeeps DEF BudgetNext
<1>2. BudgetInv => BudgetIsKept
  <2> SUFFICES ASSUME BudgetInv, NEW s \in Subjects \ (dropped \cup swapped)
               PROVE  /\ Cardinality(Recent(s)) <= Allowance
                      /\ Len(Reserved(s)) = Cardinality(Recent(s))
    BY DEF BudgetIsKept
  <2>1. PICK ages : ages = HeldAges(spent, s) /\ ages \in RowAges /\ Paired(ages, action, s)
    BY InvIs, HeldIs DEF NextInv
  <2>2. Recent(s) = OfSubject(action, s) /\ Reserved(s) = WithinWindow(ages)
    BY <2>1 DEF Recent, OfSubject, Reserved, AgesOf, HeldAges
  <2> QED BY <2>1, <2>2, PairedCounts
<1> QED BY <1>1, <1>2, BudgetInitially, PTL DEF BudgetSpec

-----------------------------------------------------------------------------
\* Both guardrails at once.
THEOREM GuardsStayTrue == GuardsSpec => []GuardsHold
BY RateStaysExact, BudgetStaysKept, PTL DEF GuardsSpec, GuardsHold

-----------------------------------------------------------------------------
(* What is let out and written down                                        *)
(* ScreensHold is about the last answer and the last line.  A stored answer  *)
(* goes out later, under another policy: the invariant says of it that it is*)
(* what the redactor made of a document, and that it is there exactly when  *)
(* the write it answers was carried out.                                   *)

\* What a redacted document holds no more.
Clean(doc, inLogs) ==
  /\ ~HoldsText(doc, Everywhere \cup (IF inLogs THEN Contacts ELSE {}))
  /\ ~Bare(doc, Removing(inLogs))

\* What was told fits the policy it was told under.
FitsPolicy(told) ==
  /\ Cardinality(told.payload) <= told.under.size
  /\ told.under.scan => ~HoldsText(told.payload, AfterRedaction)

ScreeningInv ==
  /\ ScreeningTypeOK
  /\ Clean(toldCaller.payload, FALSE) /\ FitsPolicy(toldCaller) /\ Clean(line, TRUE)
  /\ IF completed = NoPayload THEN done = {}
     ELSE Clean(completed.payload, FALSE) /\ \E d : done = {d}
  /\ \A d \in done : d.call.date \in d.on..d.on + Horizon /\ d.call.amount <= Ceiling

\* The redactor leaves nothing it is to remove, wherever it stands: a walk that ends
\* early puts a marker there.
LEMMA RedactedIsClean ==
  ASSUME NEW doc, doc \subseteq Leaves, NEW inLogs \in BOOLEAN
  PROVE  Clean(Redacted(doc, inLogs), inLogs)
<1> DEFINE parts == Everywhere \cup (IF inLogs THEN Contacts ELSE {})
           Ends(leaf) == {i \in DOMAIN leaf.path :
                            \/ i > MaxDepth
                            \/ leaf.path[i].name \in Removing(inLogs)
                            \/ leaf.path[i].at > MaxItems}
<1>1. ASSUME NEW leaf \in Leaves, Ends(leaf) = {}
      PROVE  /\ RedactedLeaf(leaf, inLogs).text \cap parts = {}
             /\ \A i \in DOMAIN RedactedLeaf(leaf, inLogs).path :
                  RedactedLeaf(leaf, inLogs).path[i].name \notin Removing(inLogs)
  <2>1. PICK r : r = [leaf EXCEPT !.text = Scrubbed(leaf.text, inLogs)]
    OBVIOUS
  <2>2. RedactedLeaf(leaf, inLogs) = r
    BY <1>1, <2>1 DEF RedactedLeaf
  <2>3. r.text = Scrubbed(leaf.text, inLogs) /\ r.path = leaf.path
    BY <2>1 DEF Leaves
  <2> QED BY <1>1, <2>2, <2>3 DEF Scrubbed, Everywhere, Contacts
<1>2. ASSUME NEW leaf, Ends(leaf) # {}
      PROVE  RedactedLeaf(leaf, inLogs).text = {"marker"}
  BY <1>2 DEF RedactedLeaf
<1>3. {"marker"} \cap parts = {}
  BY DEF Everywhere, Contacts
<1>4. ASSUME NEW out \in Redacted(doc, inLogs)
      PROVE  /\ out.text \cap parts = {}
             /\ out.text = {"marker"} \/ \A i \in DOMAIN out.path : out.path[i].name \notin Removing(inLogs)
  <2>1. PICK leaf \in doc : out = RedactedLeaf(leaf, inLogs)
    BY DEF Redacted
  <2> QED BY <1>1, <1>2, <1>3, <2>1
<1> HIDE DEF Ends
<1> QED BY <1>4 DEF Clean, HoldsText, Bare

\* Nothing was told before there was a call.
LEMMA SilenceIsClean ==
  ASSUME policy \in Policies
  PROVE  Clean({}, FALSE) /\ Clean({}, TRUE) /\ FitsPolicy(Silence)
<1>1. Cardinality({}) = 0 /\ policy.size \in Nat
  BY FS_EmptySet, ScreeningAssumption
<1> QED BY <1>1 DEF Clean, HoldsText, Bare, FitsPolicy, Silence

\* An answer that goes out has been looked at under the policy of the process.
LEMMA AnswersFit ==
  ASSUME NEW payload, Clean(payload, FALSE), AnsweredWith(payload), policy \in Policies
  PROVE  Clean(toldCaller'.payload, FALSE) /\ FitsPolicy(toldCaller)' /\ toldCaller'.under \in Policies
<1>1. CASE CheckOutput(payload)
  <2>1. toldCaller' = [payload |-> payload, under |-> policy]
    BY <1>1 DEF AnsweredWith
  <2> QED BY <1>1, <2>1 DEF FitsPolicy, CheckOutput, HoldsText
<1>2. CASE ~CheckOutput(payload)
  <2>1. toldCaller' = Silence
    BY <1>2 DEF AnsweredWith
  <2> QED BY <2>1, SilenceIsClean DEF FitsPolicy, Silence
<1> QED BY <1>1, <1>2

\* Nothing has been told, written or stored.
LEMMA ScreeningInitially == ScreeningInit => ScreeningInv
<1> SUFFICES ASSUME ScreeningInit PROVE ScreeningInv
  OBVIOUS
<1>1. ScreeningTypeOK
  BY ScreeningAssumption DEF ScreeningInit, ScreeningTypeOK, Silence
<1>2. Clean(toldCaller.payload, FALSE) /\ FitsPolicy(toldCaller) /\ Clean(line, TRUE)
  BY SilenceIsClean DEF ScreeningInit, Silence
<1> QED BY <1>1, <1>2 DEF ScreeningInit, ScreeningInv

\* One step per action; a write is the one that counts.
LEMMA ScreeningStep == ScreeningInv /\ [ScreeningNext]_screening => ScreeningInv'
<1> SUFFICES ASSUME ScreeningInv, [ScreeningNext]_screening PROVE ScreeningInv'
  OBVIOUS
<1>0. ScreeningTypeOK /\ policy \in Policies /\ day \in Nat /\ Horizon \in Nat
  BY ScreeningAssumption DEF ScreeningInv, ScreeningTypeOK
<1>1. ASSUME NEW doc \in Refused, DeniedWith(doc) PROVE ScreeningInv'
  <2>1. Clean(line', TRUE)
    BY <1>1, RedactedIsClean, ScreeningAssumption DEF DeniedWith, Logged
  <2> QED BY <1>0, <1>1, <2>1, SilenceIsClean
          DEF DeniedWith, ScreeningInv, ScreeningTypeOK, FitsPolicy, Silence
<1>2. ASSUME NEW call \in Calls, Blocked(call) PROVE ScreeningInv'
  <2>1. Clean(line', TRUE)
    BY <1>2, RedactedIsClean, ScreeningAssumption DEF Blocked, Logged
  <2> QED BY <1>0, <1>2, <2>1, SilenceIsClean
          DEF Blocked, ScreeningInv, ScreeningTypeOK, FitsPolicy, Silence
<1>3. ASSUME NEW call \in Calls, Replayed(call) PROVE ScreeningInv'
  <2>1. Clean(line', TRUE)
    BY <1>3, RedactedIsClean, ScreeningAssumption DEF Replayed, Logged
  <2>2. Clean(completed.payload, FALSE)
    BY <1>3 DEF Replayed, ScreeningInv
  <2>3. Clean(toldCaller'.payload, FALSE) /\ FitsPolicy(toldCaller)' /\ toldCaller'.under \in Policies
    BY <1>0, <1>3, <2>2, AnswersFit DEF Replayed
  <2> QED BY <1>0, <1>3, <2>1, <2>3 DEF Replayed, ScreeningInv, ScreeningTypeOK
<1>4. ASSUME NEW row \in Rows, ReadRow(row) PROVE ScreeningInv'
  <2>1. Clean(line', TRUE)
    BY <1>4, RedactedIsClean, ScreeningAssumption DEF ReadRow, Logged
  <2>2. Clean(toldCaller'.payload, FALSE) /\ FitsPolicy(toldCaller)' /\ toldCaller'.under \in Policies
    BY <1>0, <1>4, RedactedIsClean, ScreeningAssumption, AnswersFit DEF ReadRow
  <2> QED BY <1>0, <1>4, <2>1, <2>2 DEF ReadRow, ScreeningInv, ScreeningTypeOK
<1>5. ASSUME NEW call \in Calls, NEW row \in Rows, Written(call, row) PROVE ScreeningInv'
  <2>1. PICK payload : payload = Redacted(row, FALSE) /\ Clean(payload, FALSE)
    BY RedactedIsClean, ScreeningAssumption
  <2>2. Clean(line', TRUE)
    BY <1>5, RedactedIsClean, ScreeningAssumption DEF Written, Logged
  <2>3. Clean(toldCaller'.payload, FALSE) /\ FitsPolicy(toldCaller)' /\ toldCaller'.under \in Policies
    BY <1>0, <1>5, <2>1, AnswersFit DEF Written
  <2>4. completed' # NoPayload /\ completed'.payload = payload
    BY <1>5, <2>1, NoPayloadAssumption DEF Written, StoredResult
  <2>5. PICK d : d = [call |-> call, on |-> day, turn |-> Cardinality(done)]
    OBVIOUS
  <2>6. done' = {d}
    BY <1>5, <2>5 DEF Written, ScreeningInv
  <2>7. d.call \in Calls /\ d.on \in 0..day /\ d.call.date \in d.on..d.on + Horizon /\ d.call.amount <= Ceiling
    BY <1>0, <1>5, <2>5 DEF Written, CheckContent, CheckBusinessRules
  <2>8. ScreeningTypeOK'
    BY <1>0, <1>5, <2>3, <2>6, <2>7 DEF Written, ScreeningTypeOK
  <2> QED BY <2>1, <2>2, <2>3, <2>4, <2>6, <2>7, <2>8 DEF ScreeningInv
<1>6. CASE Redeployed
  BY <1>0, <1>6 DEF Redeployed, ScreeningInv, ScreeningTypeOK, FitsPolicy
<1>7. CASE DayPasses
  <2>1. ScreeningTypeOK'
    BY <1>0, <1>7, ScreeningAssumption DEF DayPasses, ScreeningTypeOK
  <2> QED BY <1>7, <2>1 DEF DayPasses, ScreeningInv, FitsPolicy
<1>8. CASE UNCHANGED screening
  BY <1>8 DEF screening, ScreeningInv, ScreeningTypeOK, FitsPolicy
<1> QED BY <1>1, <1>2, <1>3, <1>4, <1>5, <1>6, <1>7, <1>8 DEF ScreeningNext

\* redaction.py:3-12, output.py:3-5, executor.py:192-196 and :226-228, for any documents,
\* calls, policies and limits.
THEOREM ScreensAlwaysHold == ScreeningSpec => []ScreensHold
<1>1. ScreeningInv => ScreensHold
  <2> SUFFICES ASSUME ScreeningInv PROVE ScreensHold
    OBVIOUS
  <2>1. /\ ~HoldsText(toldCaller.payload, Everywhere)
        /\ ~Bare(toldCaller.payload, {"never disclosed"})
    BY DEF ScreeningInv, Clean, Removing
  <2>2. ~HoldsText(line, Everywhere \cup Contacts) /\ ~Bare(line, Removing(TRUE))
    BY DEF ScreeningInv, Clean
  <2>3. Cardinality(done) <= 1
    <3>1. CASE done = {}
      BY <3>1, FS_EmptySet
    <3>2. CASE \E d : done = {d}
      BY <3>2, FS_Singleton
    <3> QED BY <3>1, <3>2 DEF ScreeningInv
  <2> QED BY <2>1, <2>2, <2>3 DEF ScreeningInv, FitsPolicy, ScreensHold
<1> QED BY <1>1, ScreeningInitially, ScreeningStep, PTL DEF ScreeningSpec

-----------------------------------------------------------------------------
(* The hash chains                                                         *)
(* A hash names the content it was computed from and, in it, the hash before:*)
(* the invariant says which record each number was first given to, what it  *)
(* linked to, and that the trail is those records with some gone and some    *)
(* edited, its numbers still rising.  Then a record is sound if and only if  *)
(* it is the one that was appended there.                                  *)

\* A sequence, whatever its elements are.
IsRow(s) == s \in Seq({s[i] : i \in DOMAIN s})

\* A sequence over any set is a row.
LEMMA SeqIsARow ==
  ASSUME NEW S, NEW s \in Seq(S)
  PROVE  IsRow(s)
<1>1. Len(s) \in Nat /\ DOMAIN s = 1 .. Len(s) /\ s = [i \in 1 .. Len(s) |-> s[i]]
  OBVIOUS
<1>2. PICK R : R = {s[i] : i \in DOMAIN s}
  OBVIOUS
<1>3. \A i \in 1 .. Len(s) : s[i] \in R
  BY <1>1, <1>2
<1>4. s \in Seq(R)
  BY <1>1, <1>3
<1> QED BY <1>2, <1>4 DEF IsRow

\* A row is numbered from 1 to its length.
LEMMA RowIs ==
  ASSUME NEW s, IsRow(s)
  PROVE  Len(s) \in Nat /\ DOMAIN s = 1 .. Len(s)
BY DEF IsRow

\* Append to a row: one more place, the others as they were.
LEMMA RowAppends ==
  ASSUME NEW s, IsRow(s), NEW e
  PROVE  /\ IsRow(Append(s, e)) /\ Len(Append(s, e)) = Len(s) + 1
         /\ Append(s, e)[Len(s) + 1] = e
         /\ \A i \in 1 .. Len(s) : Append(s, e)[i] = s[i]
<1>1. PICK S : S = {s[i] : i \in DOMAIN s} \cup {e}
  OBVIOUS
<1>2. s \in Seq(S) /\ Len(s) \in Nat
  <2>1. Len(s) \in Nat /\ DOMAIN s = 1 .. Len(s)
    BY RowIs
  <2>2. s = [i \in 1 .. Len(s) |-> s[i]]
    BY DEF IsRow
  <2>3. \A i \in 1 .. Len(s) : s[i] \in S
    BY <1>1, <2>1
  <2> QED BY <2>1, <2>2, <2>3
<1>3. PICK t : t = Append(s, e)
  OBVIOUS
<1>4. /\ t \in Seq(S) /\ Len(t) = Len(s) + 1 /\ t[Len(s) + 1] = e
      /\ \A i \in 1 .. Len(s) : t[i] = s[i]
  BY <1>1, <1>2, <1>3, AppendProperties
<1>5. IsRow(t)
  BY <1>4, SeqIsARow
<1> QED BY <1>3, <1>4, <1>5

\* The first places of a row are a row.
LEMMA RowPrefix ==
  ASSUME NEW s, IsRow(s), NEW n \in 0 .. Len(s)
  PROVE  /\ IsRow(SubSeq(s, 1, n)) /\ Len(SubSeq(s, 1, n)) = n
         /\ \A i \in 1 .. n : SubSeq(s, 1, n)[i] = s[i]
<1>1. PICK S : S = {s[i] : i \in DOMAIN s}
  OBVIOUS
<1>2. s \in Seq(S) /\ Len(s) \in Nat /\ DOMAIN s = 1 .. Len(s) /\ \A i \in 1 .. n : s[i] \in S
  BY <1>1, RowIs DEF IsRow
<1>3. PICK t : t = SubSeq(s, 1, n)
  OBVIOUS
<1>4. t \in Seq(S) /\ Len(t) = n /\ \A i \in 1 .. n : t[i] = s[i]
  <2>1. /\ t \in Seq(S) /\ Len(t) = IF 1 <= n THEN n - 1 + 1 ELSE 0
        /\ \A i \in 1 .. n - 1 + 1 : t[i] = s[1 + i - 1]
    BY <1>2, <1>3, SubSeqProperties
  <2> QED BY <1>2, <2>1
<1> QED BY <1>3, <1>4, SeqIsARow

\* A row with one place taken out: what stood behind it moves up.
LEMMA RowWithout ==
  ASSUME NEW s, IsRow(s), NEW i \in DOMAIN s
  PROVE  /\ IsRow(RemoveAt(s, i)) /\ Len(RemoveAt(s, i)) = Len(s) - 1
         /\ \A j \in 1 .. Len(s) - 1 : RemoveAt(s, i)[j] = IF j < i THEN s[j] ELSE s[j + 1]
<1>1. PICK S : S = {s[j] : j \in DOMAIN s} /\ s \in Seq(S)
  BY DEF IsRow
<1>2. PICK r : r = RemoveAt(s, i)
  OBVIOUS
<1>3. /\ r \in Seq(S) /\ Len(r) = Len(s) - 1
      /\ \A j \in 1 .. Len(s) - 1 : r[j] = IF j < i THEN s[j] ELSE s[j + 1]
  BY <1>1, <1>2, RemoveAtIs
<1> QED BY <1>2, <1>3, SeqIsARow

\* A record as Recorder.audit computes it and the store keeps it: its instant may have
\* lost its digits, and somebody may have edited it.
Entry(n, prev, corr, fine, edited, hash) ==
  [seq |-> n, prev |-> prev, corr |-> corr, fine |-> fine, edited |-> edited, hash |-> hash]
Hashed(n, prev, corr, computed) == Entry(n, prev, corr, computed, FALSE, Genesis)

GivenTo(n, prev, r) ==
  \E corr, computed, fine : r = Entry(n, prev, corr, fine, FALSE, Hashed(n, prev, corr, computed))

\* Each number links to the one before it.
FirstGiven(records) ==
  /\ IsRow(records)
  /\ \A n \in 1 .. Len(records) :
       GivenTo(n, IF n = 1 THEN Genesis ELSE records[n - 1].hash, records[n])

\* A record of the trail is the one its number was given to, edited or not.
EditOf(r, n, given) ==
  \E prev, corr, computed, fine, edited :
    /\ r = Entry(n, prev, corr, fine, edited, Hashed(n, prev, corr, computed))
    /\ given = Entry(n, prev, corr, fine, FALSE, Hashed(n, prev, corr, computed))
IsOf(r, records) ==
  /\ r.seq \in 1 .. Len(records)
  /\ EditOf(r, r.seq, records[r.seq])
LeftOf(some, records) ==
  /\ IsRow(some)
  /\ \A i \in 1 .. Len(some) : IsOf(some[i], records)
  /\ \A i, j \in 1 .. Len(some) : i < j => some[i].seq < some[j].seq

\* The file of the tools server: a link, or the beginning of a process.
LineIs(n, prev) == [n |-> n, prev |-> prev, hash |-> [n |-> n, prev |-> prev, hash |-> Genesis]]
FileOK(file, top, began) ==
  /\ IsRow(file)
  /\ 1 \in began /\ began \subseteq 1 .. Len(file) + 1
  /\ \A n \in 1 .. Len(file) :
       file[n] = LineIs(n, IF n \in began THEN Genesis ELSE file[n - 1].hash)
  /\ top = IF Len(file) + 1 \in began THEN Genesis ELSE file[Len(file)].hash

TrailsInv == FirstGiven(appended) /\ LeftOf(trail, appended) /\ FileOK(log, head, starts)

\* The fields of a record, and what overriding one of them gives.
LEMMA EntryIs ==
  ASSUME NEW n, NEW prev, NEW corr, NEW fine, NEW edited, NEW hash, NEW other
  PROVE  LET r == Entry(n, prev, corr, fine, edited, hash) IN
         /\ r.seq = n /\ r.prev = prev /\ r.corr = corr /\ r.fine = fine /\ r.edited = edited
         /\ r.hash = hash
         /\ [r EXCEPT !.hash = other] = Entry(n, prev, corr, fine, edited, other)
         /\ [r EXCEPT !.edited = other] = Entry(n, prev, corr, fine, other, hash)
         /\ [r EXCEPT !.fine = other] = Entry(n, prev, corr, other, edited, hash)
         /\ Content(r) = Entry(n, prev, corr, fine, edited, Genesis)
BY DEF Entry, Content

\* What the hash is computed from names all there is in a record.
LEMMA HashIs ==
  ASSUME NEW n, NEW prev, NEW corr, NEW fine, NEW computed, NEW edited
  PROVE  /\ Hashed(n, prev, corr, computed).fine = computed
         /\ Hashed(n, prev, corr, computed).edited = FALSE
         /\ Sealed(Hashed(n, prev, corr, computed)) =
              Entry(n, prev, corr, computed, FALSE, Hashed(n, prev, corr, computed))
<1>1. PICK no : no = FALSE
  OBVIOUS
<1>2. Hashed(n, prev, corr, computed) = Entry(n, prev, corr, computed, no, Genesis)
  BY <1>1 DEF Hashed
<1>3. PICK h : h = Hashed(n, prev, corr, computed)
  OBVIOUS
<1>4. h.fine = computed /\ h.edited = no /\ Content(h) = h
  BY <1>2, <1>3, EntryIs
<1>5. [h EXCEPT !.hash = h] = Entry(n, prev, corr, computed, no, h)
  BY <1>2, <1>3, EntryIs
<1> QED BY <1>1, <1>3, <1>4, <1>5 DEF Sealed

\* What is known of a record by the number it carries.
LEMMA EditIs ==
  ASSUME NEW r, NEW n, NEW given, EditOf(r, n, given)
  PROVE  r.seq = n /\ given.seq = n /\ r.prev = given.prev /\ r.hash = given.hash
         /\ r.fine = given.fine
<1>1. PICK no : no = FALSE
  OBVIOUS
<1>2. PICK prev, corr, computed, fine, edited :
        /\ r = Entry(n, prev, corr, fine, edited, Hashed(n, prev, corr, computed))
        /\ given = Entry(n, prev, corr, fine, no, Hashed(n, prev, corr, computed))
  BY <1>1 DEF EditOf
<1>3. PICK h : h = Hashed(n, prev, corr, computed)
  OBVIOUS
<1> QED BY <1>2, <1>3, EntryIs

\* A record carries the number it was given and links to the one before.
LEMMA GivenIs ==
  ASSUME NEW n, NEW prev, NEW r, GivenTo(n, prev, r)
  PROVE  r.seq = n /\ r.prev = prev
<1>1. PICK no : no = FALSE
  OBVIOUS
<1>2. PICK corr, computed, fine :
        r = Entry(n, prev, corr, fine, no, Hashed(n, prev, corr, computed))
  BY <1>1 DEF GivenTo
<1>3. PICK h : h = Hashed(n, prev, corr, computed)
  OBVIOUS
<1> QED BY <1>2, <1>3, EntryIs

\* An edit of an edited record is an edit of the record that was appended.
LEMMA EditAgain ==
  ASSUME NEW r, NEW n, NEW given, EditOf(r, n, given)
  PROVE  EditOf([r EXCEPT !.edited = TRUE], n, given)
<1>1. PICK yes : yes = TRUE
  OBVIOUS
<1>2. PICK prev, corr, computed, fine, edited :
        /\ r = Entry(n, prev, corr, fine, edited, Hashed(n, prev, corr, computed))
        /\ given = Entry(n, prev, corr, fine, FALSE, Hashed(n, prev, corr, computed))
  BY DEF EditOf
<1>3. [r EXCEPT !.edited = yes] = Entry(n, prev, corr, fine, yes, Hashed(n, prev, corr, computed))
  BY <1>2, EntryIs
<1>4. EditOf([r EXCEPT !.edited = yes], n, given)
  BY <1>2, <1>3 DEF EditOf
<1> QED BY <1>1, <1>4

\* A record as it was given is sound if its instant kept its digits, and no edit is.
LEMMA SoundIsGiven ==
  ASSUME NEW r, NEW n, NEW given, EditOf(r, n, given), r.hash.fine = r.fine
  PROVE  r.hash = Content(r) <=> r = given
<1>1. PICK no : no = FALSE
  OBVIOUS
<1>2. PICK prev, corr, computed, fine, edited :
        /\ r = Entry(n, prev, corr, fine, edited, Hashed(n, prev, corr, computed))
        /\ given = Entry(n, prev, corr, fine, no, Hashed(n, prev, corr, computed))
  BY <1>1 DEF EditOf
<1>3. PICK h : h = Hashed(n, prev, corr, computed)
  OBVIOUS
<1>4. h = Entry(n, prev, corr, computed, no, Genesis)
  BY <1>1, <1>3 DEF Hashed
<1>5. r.hash = h /\ r.fine = fine /\ Content(r) = Entry(n, prev, corr, fine, edited, Genesis)
  BY <1>2, <1>3, EntryIs
<1>6. h.fine = computed /\ h.edited = no /\ Content(r).edited = edited
  BY <1>4, <1>5, EntryIs
<1>7. computed = fine
  BY <1>5, <1>6
<1>8. r.hash = Content(r) <=> edited = no
  BY <1>4, <1>5, <1>6, <1>7
<1>9. r.edited = edited /\ given.edited = no
  BY <1>2, EntryIs
<1> QED BY <1>2, <1>8, <1>9

\* The numbers of a trail rise from 1, so a record stands at its number or before it.
LEMMA NumbersRise ==
  ASSUME NEW some, NEW records, LeftOf(some, records), FirstGiven(records)
  PROVE  /\ \A i \in 1 .. Len(some) : some[i].seq \in Nat /\ some[i].seq >= 1
         /\ \A i \in 1 .. Len(some) : i > 1 => some[i].seq > 1
<1>1. Len(records) \in Nat /\ Len(some) \in Nat
  BY RowIs DEF FirstGiven, LeftOf
<1>2. ASSUME NEW i \in 1 .. Len(some) PROVE some[i].seq \in Nat /\ some[i].seq >= 1
  <2>1. some[i].seq \in 1 .. Len(records)
    BY DEF LeftOf, IsOf
  <2> QED BY <1>1, <2>1
<1>3. ASSUME NEW i \in 1 .. Len(some), i > 1 PROVE some[i].seq > 1
  <2>1. 1 \in 1 .. Len(some) /\ 1 < i
    BY <1>1, <1>3
  <2>2. some[1].seq < some[i].seq
    BY <2>1 DEF LeftOf
  <2> QED BY <1>2, <2>1, <2>2
<1> QED BY <1>2, <1>3

\* An empty trail and an empty file.
LEMMA TrailsInitially == TrailsInit => TrailsInv
<1> SUFFICES ASSUME TrailsInit PROVE TrailsInv
  OBVIOUS
<1>1. IsRow(<<>>) /\ Len(<<>>) = 0
  BY SeqIsARow, EmptySeq
<1> QED BY <1>1 DEF TrailsInit, TrailsInv, FirstGiven, LeftOf, FileOK

\* A record is appended under the number after the last one; what had that number before,
\* and all after it, are gone from the trail already.
LEMMA RecordKeeps ==
  ASSUME TrailsInv, NEW corr, NEW fine, Record(corr, fine)
  PROVE  TrailsInv'
<1>1. PICK m : m = Len(trail)
  OBVIOUS
<1>2. PICK n : n = IF trail = <<>> THEN 1 ELSE Last(trail).seq + 1
  OBVIOUS
<1>3. PICK prev : prev = IF trail = <<>> THEN Genesis ELSE Last(trail).hash
  OBVIOUS
<1>4. PICK r : /\ GivenTo(n, prev, r) /\ r.seq = n
               /\ trail' = Append(trail, r)
               /\ appended' = Append(SubSeq(appended, 1, n - 1), r)
  <2>1. PICK plain : plain = [seq |-> n, prev |-> prev, corr |-> corr, fine |-> fine,
                              edited |-> FALSE, hash |-> Genesis]
    OBVIOUS
  <2>2. PICK r : r = Stored(Sealed(plain))
    OBVIOUS
  <2>3. Sealed(plain) = Entry(n, prev, corr, fine, FALSE, Hashed(n, prev, corr, fine))
    BY <2>1, HashIs DEF Hashed, Entry
  <2>4. \E lossy : r = Entry(n, prev, corr, lossy, FALSE, Hashed(n, prev, corr, fine))
    <3>1. PICK no, h : no = FALSE /\ h = Hashed(n, prev, corr, fine)
      OBVIOUS
    <3>2. PICK given : given = Entry(n, prev, corr, fine, no, h)
      OBVIOUS
    <3>3. r = IF kept = "mongodb" THEN [given EXCEPT !.fine = no] ELSE given
      BY <2>2, <2>3, <3>1, <3>2 DEF Stored
    <3>4. [given EXCEPT !.fine = no] = Entry(n, prev, corr, no, no, h)
      BY <3>2, EntryIs
    <3> QED BY <3>1, <3>2, <3>3, <3>4
  <2>5. GivenTo(n, prev, r)
    BY <2>4 DEF GivenTo
  <2>6. r.seq = n
    BY <2>5, GivenIs
  <2> QED BY <1>2, <1>3, <2>1, <2>2, <2>5, <2>6 DEF Record
<1>5. /\ IsRow(trail) /\ m \in Nat /\ IsRow(appended) /\ Len(appended) \in Nat
      /\ FirstGiven(appended) /\ LeftOf(trail, appended)
      /\ (trail = <<>> <=> m = 0) /\ (m # 0 => Last(trail) = trail[m])
  BY <1>1, RowIs, EmptySeq DEF TrailsInv, FirstGiven, LeftOf, Last, IsRow
<1>6. /\ n \in Nat /\ n >= 1 /\ n - 1 \in 0 .. Len(appended)
      /\ prev = IF n = 1 THEN Genesis ELSE appended[n - 1].hash
      /\ \A i \in 1 .. m : trail[i].seq \in 1 .. n - 1
  <2>1. CASE m = 0
    BY <1>2, <1>3, <1>5, <2>1
  <2>2. CASE m # 0
    <3>1. m \in 1 .. m /\ n = trail[m].seq + 1 /\ prev = trail[m].hash
      BY <1>2, <1>3, <1>5, <2>2
    <3>2. IsOf(trail[m], appended)
      BY <1>1, <1>5, <3>1 DEF LeftOf
    <3>3. PICK l : l = trail[m].seq /\ l \in 1 .. Len(appended)
      BY <3>2 DEF IsOf
    <3>4. trail[m].hash = appended[l].hash
      BY <3>2, <3>3, EditIs DEF IsOf
    <3>5. ASSUME NEW i \in 1 .. m PROVE trail[i].seq \in 1 .. l
      <4>1. trail[i].seq \in Nat /\ trail[i].seq >= 1
        BY <1>1, <1>5, NumbersRise
      <4>2. i = m \/ i < m
        BY <1>5
      <4>3. trail[i].seq <= l
        BY <1>1, <1>5, <3>1, <3>3, <4>1, <4>2 DEF LeftOf
      <4> QED BY <1>5, <3>3, <4>1, <4>3
    <3> QED BY <1>5, <3>1, <3>3, <3>4, <3>5
  <2> QED BY <2>1, <2>2
<1>7. PICK old : /\ old = SubSeq(appended, 1, n - 1) /\ IsRow(old) /\ Len(old) = n - 1
                 /\ \A i \in 1 .. n - 1 : old[i] = appended[i]
  BY <1>5, <1>6, RowPrefix
<1>8. /\ IsRow(appended') /\ Len(appended') = n /\ appended'[n] = r
      /\ \A i \in 1 .. n - 1 : appended'[i] = appended[i]
  <2>1. PICK grown : grown = Append(old, r)
    OBVIOUS
  <2>2. /\ IsRow(grown) /\ Len(grown) = Len(old) + 1 /\ grown[Len(old) + 1] = r
        /\ \A i \in 1 .. Len(old) : grown[i] = old[i]
    <3>1. IsRow(old)
      BY <1>7
    <3> QED BY <2>1, <3>1, RowAppends
  <2> QED BY <1>4, <1>6, <1>7, <2>1, <2>2
<1>9. FirstGiven(appended')
  <2>1. ASSUME NEW i \in 1 .. n
        PROVE  GivenTo(i, IF i = 1 THEN Genesis ELSE appended'[i - 1].hash, appended'[i])
    <3>1. CASE i = n
      <4>1. n = 1 \/ n - 1 \in 1 .. n - 1
        BY <1>6
      <4>2. prev = IF n = 1 THEN Genesis ELSE appended'[n - 1].hash
        BY <1>6, <1>8, <4>1
      <4> QED BY <1>4, <1>8, <3>1, <4>2
    <3>2. CASE i # n
      <4>1. i \in 1 .. n - 1 /\ (i = 1 \/ i - 1 \in 1 .. n - 1) /\ i \in 1 .. Len(appended)
        BY <1>5, <1>6, <3>2
      <4>2. GivenTo(i, IF i = 1 THEN Genesis ELSE appended[i - 1].hash, appended[i])
        BY <1>5, <4>1 DEF FirstGiven
      <4> QED BY <1>8, <4>1, <4>2
    <3> QED BY <3>1, <3>2
  <2> QED BY <1>8, <2>1 DEF FirstGiven
<1>10. LeftOf(trail', appended')
  <2>1. /\ IsRow(trail') /\ Len(trail') = m + 1 /\ trail'[m + 1] = r
        /\ \A i \in 1 .. m : trail'[i] = trail[i]
    BY <1>1, <1>4, <1>5, RowAppends
  <2>2. r.seq = n /\ EditOf(r, n, r)
    BY <1>4 DEF GivenTo, EditOf
  <2>3. ASSUME NEW i \in 1 .. m + 1 PROVE IsOf(trail'[i], appended')
    <3>1. CASE i = m + 1
      <4>1. n \in 1 .. n
        BY <1>6
      <4> QED BY <1>8, <2>1, <2>2, <3>1, <4>1 DEF IsOf
    <3>2. CASE i # m + 1
      <4>1. i \in 1 .. m
        BY <1>5, <3>2
      <4>2. IsOf(trail[i], appended) /\ trail[i].seq \in 1 .. n - 1
        BY <1>1, <1>5, <1>6, <4>1 DEF LeftOf
      <4>3. appended'[trail[i].seq] = appended[trail[i].seq] /\ trail[i].seq \in 1 .. n
        BY <1>6, <1>8, <4>2
      <4> QED BY <1>8, <2>1, <4>1, <4>2, <4>3 DEF IsOf
    <3> QED BY <3>1, <3>2
  <2>4. ASSUME NEW i \in 1 .. m + 1, NEW j \in 1 .. m + 1, i < j PROVE trail'[i].seq < trail'[j].seq
    <3>1. i \in 1 .. m /\ trail[i].seq \in 1 .. n - 1
      BY <1>5, <1>6, <2>4
    <3>2. CASE j = m + 1
      BY <1>6, <2>1, <2>2, <3>1, <3>2
    <3>3. CASE j # m + 1
      <4>1. j \in 1 .. m
        BY <1>5, <3>3
      <4> QED BY <1>1, <1>5, <2>1, <2>4, <3>1, <4>1 DEF LeftOf
    <3> QED BY <3>2, <3>3
  <2> QED BY <2>1, <2>3, <2>4 DEF LeftOf
<1>11. FileOK(log, head, starts)'
  BY DEF Record, TrailsInv
<1> QED BY <1>9, <1>10, <1>11 DEF TrailsInv

\* An edited record is still the one its number was given to, but for the edit; a deleted
\* one leaves the others in order.
LEMMA TamperKeeps ==
  ASSUME TrailsInv, NEW t \in DOMAIN trail, Tamper(t)
  PROVE  TrailsInv'
<1>1. PICK m : m = Len(trail)
  OBVIOUS
<1>2. /\ m \in Nat /\ DOMAIN trail = 1 .. m /\ IsRow(trail) /\ LeftOf(trail, appended)
      /\ UNCHANGED <<appended, log, head, starts>>
  BY <1>1, RowIs DEF TrailsInv, LeftOf, Tamper
<1>3. CASE trail' = [trail EXCEPT ![t].edited = TRUE]
  <2>1. PICK r : r = [trail[t] EXCEPT !.edited = TRUE] /\ trail' = [trail EXCEPT ![t] = r]
    BY <1>3
  <2>2. /\ trail' = [i \in 1 .. m |-> IF i = t THEN r ELSE trail[i]]
    BY <1>2, <2>1
  <2>3. IsRow(trail') /\ Len(trail') = m
    <3>1. PICK S : S = {trail[i] : i \in 1 .. m} \cup {r}
      OBVIOUS
    <3>2. \A i \in 1 .. m : trail'[i] \in S
      BY <2>2, <3>1
    <3>3. trail' \in Seq(S) /\ Len(trail') = m
      BY <1>2, <2>2, <3>2
    <3> QED BY <3>3, SeqIsARow
  <2>4. IsOf(r, appended) /\ r.seq = trail[t].seq
    <3>1. IsOf(trail[t], appended)
      BY <1>1, <1>2 DEF LeftOf
    <3>2. PICK n : n = trail[t].seq /\ n \in 1 .. Len(appended) /\ EditOf(trail[t], n, appended[n])
      BY <3>1 DEF IsOf
    <3>3. EditOf(r, n, appended[n])
      BY <2>1, <3>2, EditAgain
    <3>4. r.seq = n
      BY <3>3, EditIs
    <3> QED BY <3>2, <3>3, <3>4 DEF IsOf
  <2>5. \A i \in 1 .. m : trail'[i].seq = trail[i].seq /\ IsOf(trail'[i], appended)
    BY <1>1, <1>2, <2>2, <2>4 DEF LeftOf
  <2>6. LeftOf(trail', appended)
    BY <1>1, <1>2, <2>3, <2>5 DEF LeftOf
  <2> QED BY <1>2, <2>6 DEF TrailsInv
<1>4. CASE trail' = RemoveAt(trail, t)
  <2>1. /\ IsRow(trail') /\ Len(trail') = m - 1
        /\ \A i \in 1 .. m - 1 : trail'[i] = IF i < t THEN trail[i] ELSE trail[i + 1]
    BY <1>1, <1>2, <1>4, RowWithout
  <2>2. ASSUME NEW i \in 1 .. m - 1
        PROVE  /\ IsOf(trail'[i], appended)
               /\ \A j \in 1 .. m - 1 : i < j => trail'[i].seq < trail'[j].seq
    <3>1. i \in 1 .. m /\ i + 1 \in 1 .. m
      BY <1>2
    <3>2. ASSUME NEW j \in 1 .. m - 1, i < j PROVE trail'[i].seq < trail'[j].seq
      <4>1. j \in 1 .. m /\ j + 1 \in 1 .. m /\ i < j + 1 /\ i + 1 < j + 1 /\ t \in Nat
        BY <1>2, <3>2
      <4>2. CASE i < t /\ j < t
        BY <1>1, <1>2, <2>1, <3>1, <3>2, <4>1, <4>2 DEF LeftOf
      <4>3. CASE i < t /\ ~(j < t)
        BY <1>1, <1>2, <2>1, <3>1, <3>2, <4>1, <4>3 DEF LeftOf
      <4>4. CASE ~(i < t)
        <5>1. ~(j < t)
          BY <3>2, <4>1, <4>4
        <5> QED BY <1>1, <1>2, <2>1, <3>1, <3>2, <4>1, <4>4, <5>1 DEF LeftOf
      <4> QED BY <4>2, <4>3, <4>4
    <3> QED BY <1>1, <1>2, <2>1, <3>1, <3>2 DEF LeftOf
  <2>3. LeftOf(trail', appended)
    BY <2>1, <2>2 DEF LeftOf
  <2> QED BY <1>2, <2>3 DEF TrailsInv
<1> QED BY <1>3, <1>4 DEF Tamper

\* A line is written before the head moves; a new process starts at the beginning.
LEMMA FileKeeps ==
  ASSUME TrailsInv, LogRecord \/ LogRestart
  PROVE  TrailsInv'
<1>1. PICK m : m = Len(log)
  OBVIOUS
<1>2. /\ m \in Nat /\ IsRow(log) /\ FileOK(log, head, starts) /\ UNCHANGED <<trail, appended>>
  BY <1>1, RowIs DEF TrailsInv, FileOK, LogRecord, LogRestart
<1>3. CASE LogRecord
  <2>1. CASE UNCHANGED <<log, head>>
    BY <1>2, <1>3, <2>1 DEF LogRecord, TrailsInv
  <2>2. CASE ~UNCHANGED <<log, head>>
    <3>1. PICK r : r = LineIs(m + 1, head) /\ log' = Append(log, r) /\ head' = r.hash /\ starts' = starts
      <4>1. Sealed([n |-> m + 1, prev |-> head, hash |-> Genesis]) = LineIs(m + 1, head)
        BY DEF Sealed, Content, LineIs
      <4> QED BY <1>1, <1>3, <2>2, <4>1 DEF LogRecord
    <3>2. /\ IsRow(log') /\ Len(log') = m + 1 /\ log'[m + 1] = r /\ \A i \in 1 .. m : log'[i] = log[i]
      BY <1>1, <1>2, <3>1, RowAppends
    <3>3. /\ 1 \in starts /\ starts \subseteq 1 .. m + 1
          /\ head = IF m + 1 \in starts THEN Genesis ELSE log[m].hash
      BY <1>1, <1>2 DEF FileOK
    <3>4. ASSUME NEW n \in 1 .. m + 1
          PROVE  log'[n] = LineIs(n, IF n \in starts THEN Genesis ELSE log'[n - 1].hash)
      <4>1. CASE n = m + 1
        <5>1. n \in starts \/ m \in 1 .. m
          BY <1>2, <3>3, <4>1
        <5>2. head = IF n \in starts THEN Genesis ELSE log'[n - 1].hash
          BY <1>2, <3>2, <3>3, <4>1, <5>1
        <5> QED BY <3>1, <3>2, <4>1, <5>2
      <4>2. CASE n # m + 1
        <5>1. n \in 1 .. m /\ (n \in starts \/ n - 1 \in 1 .. m)
          BY <1>2, <3>3, <4>2
        <5> QED BY <1>1, <1>2, <3>2, <5>1 DEF FileOK
      <4> QED BY <4>1, <4>2
    <3>5. starts \subseteq 1 .. (m + 1) + 1 /\ (m + 1) + 1 \notin starts
      BY <1>2, <3>3
    <3>6. head' = log'[m + 1].hash
      BY <3>1, <3>2
    <3>7. FileOK(log', head', starts')
      BY <3>1, <3>2, <3>3, <3>4, <3>5, <3>6 DEF FileOK
    <3> QED BY <1>2, <3>7 DEF TrailsInv
  <2> QED BY <2>1, <2>2
<1>4. CASE LogRestart
  <2>1. head' = Genesis /\ starts' = starts \cup {m + 1} /\ log' = log
    BY <1>1, <1>4 DEF LogRestart
  <2>2. \A n \in 1 .. m : n \in starts' <=> n \in starts
    BY <1>2, <2>1
  <2>3. /\ 1 \in starts' /\ starts' \subseteq 1 .. m + 1 /\ m + 1 \in starts'
        /\ \A n \in 1 .. m : log[n] = LineIs(n, IF n \in starts THEN Genesis ELSE log[n - 1].hash)
    <3>1. /\ 1 \in starts /\ starts \subseteq 1 .. m + 1
          /\ \A n \in 1 .. m : log[n] = LineIs(n, IF n \in starts THEN Genesis ELSE log[n - 1].hash)
      BY <1>1, <1>2 DEF FileOK
    <3>2. m + 1 \in 1 .. m + 1
      BY <1>2
    <3> QED BY <2>1, <3>1, <3>2
  <2>4. \A n \in 1 .. m : log'[n] = LineIs(n, IF n \in starts' THEN Genesis ELSE log'[n - 1].hash)
    BY <2>1, <2>2, <2>3
  <2>5. FileOK(log', head', starts')
    BY <1>1, <1>2, <2>1, <2>3, <2>4 DEF FileOK
  <2> QED BY <1>2, <2>5 DEF TrailsInv
<1> QED BY <1>3, <1>4

\* Every step of either log; to read the trail changes only the verdict.
LEMMA TrailsStep == TrailsInv /\ [TrailsNext]_auditTrails => TrailsInv'
<1> SUFFICES ASSUME TrailsInv, [TrailsNext]_auditTrails PROVE TrailsInv'
  OBVIOUS
<1>1. ASSUME NEW limit, NEW corr, ReadAudit(limit, corr) PROVE TrailsInv'
  BY <1>1 DEF ReadAudit, TrailsInv
<1>2. CASE UNCHANGED auditTrails
  BY <1>2 DEF auditTrails, TrailsInv
<1> QED BY <1>1, <1>2, RecordKeeps, TamperKeeps, FileKeeps DEF TrailsNext

\* A record's number is at least its place.  (The least place where it is not cannot be.)
LEMMA NumbersReach ==
  ASSUME NEW some, NEW records, LeftOf(some, records), FirstGiven(records), NEW i \in 1 .. Len(some)
  PROVE  i <= some[i].seq
<1> DEFINE Late == {j \in 1 .. Len(some) : ~(j <= some[j].seq)}
<1>1. Len(some) \in Nat /\ \A j \in 1 .. Len(some) : some[j].seq \in Nat /\ some[j].seq >= 1
  BY RowIs, NumbersRise DEF LeftOf
<1>2. SUFFICES ASSUME i \in Late PROVE FALSE
  OBVIOUS
<1>3. PICK first \in Late : \A j \in Late : first <= j
  <2>1. Late \subseteq Nat /\ Late # {}
    BY <1>1, <1>2
  <2> HIDE DEF Late
  <2> QED BY <2>1, LeastIn
<1>4. first # 1
  BY <1>1
<1>5. PICK b \in 1 .. Len(some) : b = first - 1 /\ b < first
  BY <1>1, <1>4
<1>6. b <= some[b].seq
  BY <1>1, <1>3, <1>5
<1>7. some[b].seq < some[first].seq
  BY <1>5 DEF LeftOf
<1> QED BY <1>1, <1>3, <1>5, <1>6, <1>7

\* A window that begins with the first record is the whole trail.
LEMMA WholeTrail ==
  ASSUME TrailsInv, NEW limit \in Limits, FromTheFirst(ListRecent(limit, Unfiltered))
  PROVE  ListRecent(limit, Unfiltered) = trail
<1>1. PICK m : m = Len(trail) /\ m \in Nat /\ IsRow(trail)
  BY RowIs DEF TrailsInv, LeftOf
<1>2. PICK p : p = IF m > limit THEN m - limit + 1 ELSE 1
  OBVIOUS
<1>3. ListRecent(limit, Unfiltered) = SubSeq(trail, p, m)
  BY <1>1, <1>2 DEF ListRecent
<1>4. limit \in Nat /\ limit >= 1
  BY AuditTrailsAssumption
<1>5. PICK S : trail \in Seq(S)
  BY <1>1 DEF IsRow
<1>6. \A j \in 1 .. m : trail[j] \in S
  BY <1>1, <1>5, ElementOfSeq
<1>7. p \in Nat /\ p >= 1 /\ p <= m + 1
  BY <1>1, <1>2, <1>4
<1>8. PICK w : w = SubSeq(trail, p, m)
  OBVIOUS
<1>9. /\ w \in Seq(S) /\ Len(w) = IF p <= m THEN m - p + 1 ELSE 0
      /\ \A j \in 1 .. m - p + 1 : w[j] = trail[p + j - 1]
  <2>1. p \in Int /\ m \in Int /\ \A j \in p .. m : trail[j] \in S
    BY <1>1, <1>6, <1>7
  <2> QED BY <1>5, <1>8, <2>1, SubSeqProperties
<1>10. p = 1
  <2> SUFFICES ASSUME p # 1 PROVE FALSE
    OBVIOUS
  <2>1. p <= m
    BY <1>1, <1>2, <1>4
  <2>2. w[1] = trail[p]
    BY <1>1, <1>7, <1>9, <2>1
  <2>3. p \in 1 .. m /\ p > 1
    BY <1>1, <1>7, <2>1
  <2>4. trail[p].seq > 1 /\ trail[p].seq \in Nat
    BY <1>1, <2>3, NumbersRise DEF TrailsInv
  <2> QED BY <1>3, <1>8, <2>2, <2>4 DEF FromTheFirst
<1>11. Len(w) = m /\ \A j \in 1 .. m : w[j] = trail[j]
  BY <1>1, <1>9, <1>10
<1>12. w = trail
  BY <1>1, <1>5, <1>9, <1>11
<1> QED BY <1>3, <1>8, <1>12

\* The file does not verify where a process began, and nowhere else.
LEMMA BreaksWhereItBegan ==
  ASSUME TrailsInv
  PROVE  {i \in DOMAIN log :
            \/ log[i].prev # IF i = 1 THEN Genesis ELSE log[i - 1].hash
            \/ log[i].hash # Content(log[i])} = starts \ {1, Len(log) + 1}
<1>1. PICK m : m = Len(log) /\ m \in Nat /\ DOMAIN log = 1 .. m
  BY RowIs DEF TrailsInv, FileOK
<1>2. /\ 1 \in starts /\ starts \subseteq 1 .. m + 1
      /\ \A i \in 1 .. m : log[i] = LineIs(i, IF i \in starts THEN Genesis ELSE log[i - 1].hash)
  BY <1>1 DEF TrailsInv, FileOK
<1>3. ASSUME NEW i \in 1 .. m
      PROVE  /\ log[i].prev = IF i \in starts THEN Genesis ELSE log[i - 1].hash
             /\ log[i].hash = Content(log[i])
             /\ log[i].hash # Genesis
  <2>1. PICK prev : prev = IF i \in starts THEN Genesis ELSE log[i - 1].hash
    OBVIOUS
  <2>2. log[i] = LineIs(i, prev)
    BY <1>2, <2>1
  <2>3. [n |-> i, prev |-> prev, hash |-> Genesis] # Genesis
    <3>1. DOMAIN [n |-> i, prev |-> prev, hash |-> Genesis] = {"n", "prev", "hash"}
      OBVIOUS
    <3>2. DOMAIN Genesis = {"genesis"}
      BY DEF Genesis
    <3> QED BY <3>1, <3>2
  <2> QED BY <2>1, <2>2, <2>3 DEF LineIs, Content
<1>4. ASSUME NEW i \in 1 .. m
      PROVE  (\/ log[i].prev # IF i = 1 THEN Genesis ELSE log[i - 1].hash
              \/ log[i].hash # Content(log[i])) <=> i \in starts /\ i # 1
  <2>1. i # 1 => i - 1 \in 1 .. m
    BY <1>1
  <2>2. i # 1 => log[i - 1].hash # Genesis
    BY <1>3, <2>1
  <2> QED BY <1>2, <1>3, <2>2
<1>5. \A i \in 1 .. m : i \in starts /\ i # 1 <=> i \in starts \ {1, m + 1}
  BY <1>1
<1>6. \A i \in starts \ {1, m + 1} : i \in 1 .. m
  BY <1>1, <1>2
<1>7. PICK broken : broken = {i \in 1 .. m : \/ log[i].prev # IF i = 1 THEN Genesis ELSE log[i - 1].hash
                                             \/ log[i].hash # Content(log[i])}
  OBVIOUS
<1>8. ASSUME NEW i PROVE i \in broken <=> i \in starts \ {1, m + 1}
  BY <1>4, <1>5, <1>6, <1>7
<1>9. broken = starts \ {1, m + 1}
  BY <1>8
<1> QED BY <1>1, <1>7, <1>9

\* In a trail whose hashes were computed from what it holds, the sound records are the
\* ones that were appended there.
LEMMA SoundIsAppended ==
  ASSUME TrailsInv, AsComputed(trail), NEW i \in DOMAIN trail
  PROVE  Sound(trail, i) <=> trail[i] = appended[i]
<1>1. PICK m : m = Len(trail) /\ m \in Nat /\ DOMAIN trail = 1 .. m
  BY RowIs DEF TrailsInv, LeftOf
<1>2. \A j \in 1 .. m : IsOf(trail[j], appended) /\ trail[j].hash.fine = trail[j].fine
  BY <1>1 DEF TrailsInv, LeftOf, AsComputed
<1>3. PICK n : n = trail[i].seq
  OBVIOUS
<1>4. EditOf(trail[i], n, appended[n]) /\ n \in 1 .. Len(appended) /\ Len(appended) \in Nat
  BY <1>1, <1>2, <1>3, RowIs DEF IsOf, TrailsInv, FirstGiven
<1>5. trail[i].hash = Content(trail[i]) <=> trail[i] = appended[n]
  BY <1>1, <1>2, <1>4, SoundIsGiven
<1>6. ASSUME Sound(trail, i) PROVE trail[i] = appended[i]
  BY <1>3, <1>5, <1>6 DEF Sound
<1>7. ASSUME trail[i] = appended[i] PROVE Sound(trail, i)
  <2>1. i <= n
    BY <1>1, <1>3, NumbersReach DEF TrailsInv
  <2>2. i \in 1 .. Len(appended)
    BY <1>1, <1>4, <2>1
  <2>3. GivenTo(i, IF i = 1 THEN Genesis ELSE appended[i - 1].hash, appended[i])
    BY <2>2 DEF TrailsInv, FirstGiven
  <2>4. appended[i].seq = i /\ appended[i].prev = IF i = 1 THEN Genesis ELSE appended[i - 1].hash
    BY <2>3, GivenIs
  <2>5. n = i
    BY <1>3, <1>7, <2>4
  <2>6. i # 1 => trail[i - 1].hash = appended[i - 1].hash
    <3> SUFFICES ASSUME i # 1 PROVE trail[i - 1].hash = appended[i - 1].hash
      OBVIOUS
    <3>1. PICK j \in 1 .. m : j = i - 1 /\ j < i
      BY <1>1
    <3>2. trail[j].seq = j
      <4>1. trail[j].seq < trail[i].seq
        BY <1>1, <3>1 DEF TrailsInv, LeftOf
      <4>2. j <= trail[j].seq /\ trail[j].seq \in Nat
        BY <1>1, NumbersReach, NumbersRise DEF TrailsInv
      <4> QED BY <1>1, <1>3, <2>5, <3>1, <4>1, <4>2
    <3>3. EditOf(trail[j], j, appended[j])
      BY <1>2, <3>2 DEF IsOf
    <3> QED BY <3>1, <3>3, EditIs
  <2> QED BY <1>3, <1>5, <1>7, <2>4, <2>5, <2>6 DEF Sound
<1> QED BY <1>6, <1>7

\* recording.py:9-10 and the verifier of the tools server, for any tenant, store, window and
\* number of edits and deletions: the verdict is exact.
THEOREM VerdictsAreExact == TrailsSpec => []VerdictIsExact
<1>1. TrailsInv => VerdictIsExact
  <2> SUFFICES ASSUME TrailsInv PROVE VerdictIsExact
    OBVIOUS
  <2>1. ASSUME NEW limit \in Limits, NEW records, records = ListRecent(limit, Unfiltered),
               FromTheFirst(records), AsComputed(records)
        PROVE  Verdict(records) = FirstWhere({i \in DOMAIN records : records[i] # appended[i]})
    <3>1. records = trail
      BY <2>1, WholeTrail
    <3>2. {i \in DOMAIN records : ~Sound(records, i)} = {i \in DOMAIN records : records[i] # appended[i]}
      BY <2>1, <3>1, SoundIsAppended
    <3> QED BY <2>1, <3>2 DEF Verdict, VerifyChain
  <2>2. VerifyLog(log) = FirstWhere(starts \ {1, Len(log) + 1})
    BY BreaksWhereItBegan DEF VerifyLog
  <2> QED BY <2>1, <2>2 DEF VerdictIsExact
<1> QED BY <1>1, TrailsInitially, TrailsStep, PTL DEF TrailsSpec
=============================================================================
