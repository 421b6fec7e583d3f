--------------------------- MODULE GatewayProofs ---------------------------
(***************************************************************************)
(* The path of a tool call, for any calls, keys, bodies, slots, allowance  *)
(* and faults, over either store.                                          *)
(*                                                                         *)
(* A step of a call is a step of call_with_reliability or leaves it alone, *)
(* so what the first part shows of the breaker holds here.  The rest rests *)
(* on what a stage says of its call alone (CallOK), on what the slots and  *)
(* the case's budget account for (SlotsOK, BudgetOK), on whose the entry   *)
(* of a held key is (KeyOK), and on what a completed entry and an answer   *)
(* say of the backend's work (EntryOK, AnswerOK).                          *)
(***************************************************************************)
EXTENDS Gateway, FiniteSetTheorems, SequenceTheorems, TLAPS

-----------------------------------------------------------------------------
(* The breaker alone: OneProbe for any number of calls, any threshold, any  *)
(* two times and any delays.  OneProbe is not inductive: it says nothing of *)
(* the attempts in flight when the breaker opens.  What is: from then on    *)
(* the time gone plus what is left of such an attempt's budget never        *)
(* exceeds Timeout (Older); every attempt in flight is of that kind until   *)
(* a probe takes the flag (FreeMeansOlder), and all but one after           *)
(* (PairsAreOlder), until the breaker opens anew and all of them are.       *)

\* Enough failures open the breaker, and nothing else does.
FailuresOpen == (opened # NotOpen) <=> (failures = Threshold)

\* The flag is up in the half-open state only.
FlagMeansHalfOpen == probing => opened = ResetTimeout

\* The call was let through no later than the breaker opened.
Older(c) == attempt[c].budget + opened <= Timeout

\* An attempt that is no probe is older than the opening.
Stragglers == opened # NotOpen =>
                \A c \in Calls : InFlight(c) /\ ~attempt[c].probe => Older(c)

\* Nobody was let through since the breaker opened, as long as the flag is down.
FreeMeansOlder == opened # NotOpen /\ ~probing => \A c \in Calls : InFlight(c) => Older(c)

\* At most one was, ever.
PairsAreOlder ==
  opened # NotOpen =>
    \A c, d \in Calls : InFlight(c) /\ InFlight(d) /\ c # d => Older(c) \/ Older(d)

Waves == Stragglers /\ FreeMeansOlder /\ PairsAreOlder

\* Only a call with an attempt left sleeps.
SleepersHaveOneLeft == \A c \in Calls : attempt[c].phase = "sleep" => attempt[c].left > 0

BreakerInv == /\ ReliabilityTypeOK
              /\ SleepersHaveOneLeft
              /\ FailuresOpen
              /\ FlagMeansHalfOpen
              /\ Waves

USE DEF BreakerAssumption, SleepersHaveOneLeft, NotOpen

-----------------------------------------------------------------------------
\* The initial state satisfies the invariant: no call, a closed breaker.
LEMMA BreakerInitially == ReliabilityInit => BreakerInv
<1> SUFFICES ASSUME ReliabilityInit PROVE BreakerInv
  OBVIOUS
<1>1. NotCalled \in Attempting
  <2>1. 0 \in 0..Attempts /\ 0 \in 0..Timeout
    BY BreakerAssumption
  <2> QED BY <2>1 DEF NotCalled, AtRest, Attempting, Phases
<1>2. ReliabilityTypeOK
  <2>1. probing \in BOOLEAN /\ abandoned \in BOOLEAN
    BY DEF ReliabilityInit
  <2>2. failures \in 0..Threshold /\ opened \in 0..ResetTimeout \cup {NotOpen}
    BY BreakerAssumption DEF ReliabilityInit
  <2>3. attempt \in [Calls -> Attempting]
    BY <1>1 DEF ReliabilityInit
  <2> QED BY <2>1, <2>2, <2>3 DEF ReliabilityTypeOK
<1>3. \A c \in Calls : attempt[c].phase = "idle"
  BY DEF ReliabilityInit, NotCalled, AtRest
<1>4. FailuresOpen /\ FlagMeansHalfOpen
  BY BreakerAssumption DEF ReliabilityInit, FailuresOpen, FlagMeansHalfOpen
<1> QED
  BY <1>2, <1>3, <1>4
  DEF BreakerInv, Waves, Stragglers, FreeMeansOlder, PairsAreOlder, InFlight, ReliabilityInit

\* A call that has ended is well typed and out of flight; the others stay.
LEMMA EndedFacts ==
  ASSUME attempt \in [Calls -> Attempting], NEW c \in Calls, NEW how \in {"ok", "error"}
  PROVE  /\ Ended(c, how) \in [Calls -> Attempting]
         /\ Ended(c, how)[c].phase = how
         /\ \A d \in Calls \ {c} : Ended(c, how)[d] = attempt[d]
<1>1. AtRest(how) \in Attempting /\ AtRest(how).phase = how
  <2>1. 0 \in 0..Attempts /\ 0 \in 0..Timeout
    BY BreakerAssumption
  <2> QED BY <2>1 DEF AtRest, Attempting, Phases
<1> QED BY <1>1 DEF Ended

\* Where the breaker stays open for the same time or less, what was older stays
\* so, and with it the three facts about the attempts in flight.
LEMMA WavesStay ==
  ASSUME BreakerInv, attempt' \in [Calls -> Attempting], probing' \in BOOLEAN,
         probing => probing', opened' = opened,
         \A d \in Calls : InFlight(d)' => InFlight(d) /\ attempt'[d] = attempt[d]
  PROVE  Waves'
<1>1. \A d \in Calls : InFlight(d)' => (Older(d)' <=> Older(d)) /\ attempt'[d].probe = attempt[d].probe
  BY DEF Older
<1> QED BY <1>1 DEF BreakerInv, Waves, Stragglers, FreeMeansOlder, PairsAreOlder

\* The invariant gives OneProbe.
LEMMA InvImpliesOneProbe == BreakerInv => OneProbe
<1> SUFFICES ASSUME BreakerInv, State = "half_open",
                    NEW c \in Calls, NEW d \in Calls, InFlight(c), InFlight(d), c # d
             PROVE  Straggles(c) \/ Straggles(d)
  BY DEF OneProbe
<1>1. opened = ResetTimeout /\ opened # NotOpen
  BY BreakerAssumption DEF BreakerInv, ReliabilityTypeOK, State
<1>2. Older(c) \/ Older(d)
  BY <1>1 DEF BreakerInv, Waves, PairsAreOlder
<1> QED BY <1>1, <1>2 DEF Older, Straggles

-----------------------------------------------------------------------------
(* One lemma for each way a step goes.                                     *)

\* A call that tries an attempt: ended, refused by the breaker, or admitted.
LEMMA TryAttemptPreserves ==
  ASSUME BreakerInv, NEW c \in Calls, ~InFlight(c),
         NEW budget \in 0..Timeout, NEW left \in 1..Attempts,
         TryAttempt(c, budget, left)
  PROVE  BreakerInv'
<1> USE BreakerAssumption
<1>1. ASSUME NEW how \in {"ok", "error"}, attempt' = Ended(c, how), UNCHANGED <<failures, opened, probing, abandoned>>
      PROVE  BreakerInv'
  <2>0. attempt \in [Calls -> Attempting]
    BY DEF BreakerInv, ReliabilityTypeOK
  <2>1. /\ attempt' \in [Calls -> Attempting]
        /\ attempt'[c].phase = how
        /\ \A d \in Calls \ {c} : attempt'[d] = attempt[d]
    BY <1>1, <2>0, EndedFacts
  <2>2. \A d \in Calls : InFlight(d)' => InFlight(d) /\ attempt'[d] = attempt[d]
    BY <2>1 DEF InFlight
  <2>3. SleepersHaveOneLeft'
    BY <2>1 DEF BreakerInv
  <2>4. Waves'
    BY <1>1, <2>1, <2>2, WavesStay DEF BreakerInv, ReliabilityTypeOK
  <2> QED
    BY <1>1, <2>1, <2>3, <2>4 DEF BreakerInv, ReliabilityTypeOK, FailuresOpen, FlagMeansHalfOpen
<1>2. CASE budget = 0
  BY <1>1, <1>2 DEF TryAttempt
<1>3. CASE budget # 0 /\ ~Admits
  BY <1>1, <1>3 DEF TryAttempt
<1>4. CASE budget # 0 /\ State = "closed"
  <2>1. opened = NotOpen /\ ~probing
    BY <1>4 DEF State, BreakerInv, FlagMeansHalfOpen
  <2>2. /\ probing' = FALSE
        /\ attempt' = [attempt EXCEPT ![c] =
                         [phase |-> "run", left |-> left - 1, budget |-> budget, wake |-> 0,
                          probe |-> FALSE]]
        /\ UNCHANGED <<failures, opened, abandoned>>
    BY <1>4, <2>1 DEF TryAttempt, Admits, BreakerInv, ReliabilityTypeOK
  <2>3. ReliabilityTypeOK'
    <3>1. probing' \in BOOLEAN /\ abandoned' \in BOOLEAN
      BY <2>2 DEF BreakerInv, ReliabilityTypeOK
    <3>2. attempt' \in [Calls -> Attempting]
      BY <2>2 DEF BreakerInv, ReliabilityTypeOK, Attempting, Phases
    <3> QED BY <2>2, <3>1, <3>2 DEF BreakerInv, ReliabilityTypeOK
  <2>4. attempt \in [Calls -> Attempting]
    BY DEF BreakerInv, ReliabilityTypeOK
  <2>5. SleepersHaveOneLeft'
    BY <2>2, <2>4 DEF BreakerInv
  <2> QED
    BY <2>1, <2>2, <2>3, <2>5
    DEF BreakerInv, FailuresOpen, FlagMeansHalfOpen, Waves, Stragglers, FreeMeansOlder, PairsAreOlder
<1>5. CASE budget # 0 /\ State = "half_open" /\ ~probing
  <2>1. opened = ResetTimeout /\ opened # NotOpen
    BY <1>5 DEF BreakerInv, ReliabilityTypeOK, State
  <2>2. \A d \in Calls : InFlight(d) => Older(d)
    BY <1>5, <2>1 DEF BreakerInv, Waves, FreeMeansOlder
  <2>3. /\ probing' = TRUE
        /\ attempt' = [attempt EXCEPT ![c] =
                         [phase |-> "run", left |-> left - 1, budget |-> budget, wake |-> 0,
                          probe |-> TRUE]]
        /\ UNCHANGED <<failures, opened, abandoned>>
    BY <1>5 DEF TryAttempt, Admits
  <2>4. attempt \in [Calls -> Attempting]
    BY DEF BreakerInv, ReliabilityTypeOK
  <2>5. ReliabilityTypeOK'
    BY <2>3, <2>4 DEF BreakerInv, ReliabilityTypeOK, Attempting, Phases
  <2>6. /\ \A d \in Calls \ {c} : attempt'[d] = attempt[d]
        /\ attempt'[c].probe /\ attempt'[c].phase = "run"
    BY <2>3, <2>4
  <2>7. \A d \in Calls \ {c} : InFlight(d)' => Older(d)'
    BY <2>2, <2>3, <2>6 DEF InFlight, Older
  <2>8. Waves'
    BY <2>3, <2>6, <2>7 DEF Waves, Stragglers, FreeMeansOlder, PairsAreOlder
  <2>9. SleepersHaveOneLeft'
    BY <2>6 DEF BreakerInv
  <2> QED
    BY <2>1, <2>3, <2>5, <2>8, <2>9 DEF BreakerInv, FailuresOpen, FlagMeansHalfOpen
<1> QED BY <1>2, <1>3, <1>4, <1>5 DEF Admits

\* An outcome that closes the breaker.
LEMMA OnSuccessPreserves ==
  ASSUME BreakerInv, NEW c \in Calls, InFlight(c), OnSuccess, UNCHANGED abandoned,
         NEW how \in {"ok", "error"}, attempt' = Ended(c, how)
  PROVE  BreakerInv'
<1>1. ReliabilityTypeOK'
  <2>1. probing' \in BOOLEAN /\ abandoned' \in BOOLEAN
    BY DEF BreakerInv, ReliabilityTypeOK, OnSuccess
  <2>2. failures' \in 0..Threshold /\ opened' \in 0..ResetTimeout \cup {NotOpen}
    BY BreakerAssumption DEF OnSuccess
  <2>3. attempt' \in [Calls -> Attempting]
    BY EndedFacts DEF BreakerInv, ReliabilityTypeOK
  <2> QED BY <2>1, <2>2, <2>3 DEF ReliabilityTypeOK
<1>2. FailuresOpen' /\ FlagMeansHalfOpen' /\ Waves'
  BY BreakerAssumption
  DEF OnSuccess, FailuresOpen, FlagMeansHalfOpen, Waves, Stragglers, FreeMeansOlder, PairsAreOlder
<1>3. SleepersHaveOneLeft'
  BY EndedFacts DEF BreakerInv, ReliabilityTypeOK
<1> QED BY <1>1, <1>2, <1>3 DEF BreakerInv

\* An outcome that counts as a failure: the failing call is no longer in
\* flight, whether it ends or sleeps.
LEMMA OnFailurePreserves ==
  ASSUME BreakerInv, NEW c \in Calls, InFlight(c), OnFailure, UNCHANGED abandoned,
         attempt' \in [Calls -> Attempting], attempt'[c].phase # "run",
         attempt'[c].phase = "sleep" => attempt'[c].left > 0,
         \A d \in Calls \ {c} : attempt'[d] = attempt[d]
  PROVE  BreakerInv'
<1> USE BreakerAssumption
<1>1. failures \in 0..Threshold /\ opened \in 0..ResetTimeout \cup {NotOpen}
  BY DEF BreakerInv, ReliabilityTypeOK
<1>2. failures' \in 0..Threshold /\ opened' \in 0..ResetTimeout \cup {NotOpen} /\ probing' = FALSE
  BY <1>1 DEF OnFailure
<1>3. FailuresOpen'
  BY <1>1 DEF OnFailure, BreakerInv, FailuresOpen
<1>4. opened' = NotOpen \/ opened' = 0
  BY <1>1 DEF OnFailure, BreakerInv, FailuresOpen
<1>5. \A d \in Calls : opened' = 0 => Older(d)'
  <2> SUFFICES ASSUME NEW d \in Calls, opened' = 0 PROVE Older(d)'
    OBVIOUS
  <2>1. attempt'[d].budget \in 0..Timeout
    BY DEF Attempting
  <2> QED BY <2>1 DEF Older
<1>6. Waves'
  BY <1>4, <1>5 DEF Waves, Stragglers, FreeMeansOlder, PairsAreOlder
<1>7. SleepersHaveOneLeft'
  BY DEF BreakerInv
<1>8. ReliabilityTypeOK' /\ FlagMeansHalfOpen'
  BY <1>2 DEF BreakerInv, ReliabilityTypeOK, FlagMeansHalfOpen
<1> QED BY <1>3, <1>6, <1>7, <1>8 DEF BreakerInv

\* A step that only takes calls out of flight, or frees a slot.
LEMMA LeavingPreserves ==
  ASSUME BreakerInv, NEW c \in Calls, UNCHANGED breaker, abandoned' \in BOOLEAN,
         attempt' \in [Calls -> Attempting], attempt'[c].phase # "run",
         attempt'[c].phase = "sleep" => attempt'[c].left > 0,
         \A d \in Calls \ {c} : attempt'[d] = attempt[d]
  PROVE  BreakerInv'
<1>1. \A d \in Calls : InFlight(d)' => InFlight(d) /\ attempt'[d] = attempt[d]
  BY DEF InFlight
<1>2. Waves'
  BY <1>1, WavesStay DEF breaker, BreakerInv, ReliabilityTypeOK
<1> QED
  BY <1>2, BreakerAssumption
  DEF BreakerInv, ReliabilityTypeOK, FailuresOpen, FlagMeansHalfOpen, breaker

\* A timer counts down to zero and stays there.
LEMMA Minus1Facts ==
  \A n \in Nat : /\ Minus1(n) \in Nat /\ Minus1(n) <= n
                 /\ n > 0 => Minus1(n) = n - 1
  BY DEF Minus1

\* Time goes on: what an attempt loses of its budget, the breaker gains.
LEMMA ElapsePreserves == BreakerInv /\ Elapse => BreakerInv'
<1> SUFFICES ASSUME BreakerInv, Elapse PROVE BreakerInv'
  OBVIOUS
<1> USE BreakerAssumption
<1>0. attempt \in [Calls -> Attempting] /\ opened \in 0..ResetTimeout \cup {NotOpen}
  BY DEF BreakerInv, ReliabilityTypeOK
<1>a. opened' = IF opened = NotOpen THEN NotOpen
                ELSE IF opened < ResetTimeout THEN opened + 1 ELSE ResetTimeout
  BY DEF Elapse
<1>b. ASSUME NEW d \in Calls
      PROVE  /\ attempt'[d] = [attempt[d] EXCEPT !.budget = Minus1(attempt[d].budget),
                                                 !.wake = Minus1(attempt[d].wake)]
             /\ InFlight(d) => attempt[d].budget > 0
  BY DEF Elapse
<1>c. ASSUME NEW d \in Calls
      PROVE  attempt[d].budget \in 0..Timeout /\ attempt[d].wake \in Nat
  BY <1>0 DEF Attempting
<1>1. ReliabilityTypeOK'
  <2>1. probing' \in BOOLEAN /\ abandoned' \in BOOLEAN
    BY DEF BreakerInv, ReliabilityTypeOK, Elapse
  <2>2. opened' \in 0..ResetTimeout \cup {NotOpen}
    BY <1>0, <1>a
  <2>3. ASSUME NEW d \in Calls PROVE attempt'[d] \in Attempting
    <3>1. Minus1(attempt[d].budget) \in 0..Timeout /\ Minus1(attempt[d].wake) \in Nat
      <4>1. Timeout \in Nat /\ attempt[d].budget \in 0..Timeout /\ attempt[d].wake \in Nat
        BY <1>c
      <4>2. attempt[d].budget \in Nat
        BY <4>1
      <4>3. /\ Minus1(attempt[d].budget) \in Nat
            /\ Minus1(attempt[d].budget) <= attempt[d].budget
            /\ Minus1(attempt[d].wake) \in Nat
        BY <4>1, <4>2, Minus1Facts
      <4> QED BY <4>1, <4>3
    <3>2. attempt'[d] = [attempt[d] EXCEPT !.budget = Minus1(attempt[d].budget),
                                           !.wake = Minus1(attempt[d].wake)]
      BY <1>b
    <3>3. attempt[d] \in Attempting
      BY <1>0
    <3> QED BY <3>1, <3>2, <3>3 DEF Attempting
  <2>4. attempt' \in [Calls -> Attempting]
    BY <2>3 DEF Elapse
  <2>5. failures' \in 0..Threshold
    BY DEF Elapse, BreakerInv, ReliabilityTypeOK
  <2> QED BY <2>1, <2>2, <2>4, <2>5 DEF ReliabilityTypeOK
<1>2. ASSUME NEW d \in Calls
      PROVE  /\ InFlight(d)' <=> InFlight(d)
             /\ attempt'[d].probe = attempt[d].probe
             /\ InFlight(d) => attempt'[d].budget = attempt[d].budget - 1
             /\ attempt'[d].phase = attempt[d].phase
             /\ attempt'[d].left = attempt[d].left
  <2>1. attempt[d] \in Attempting
    BY <1>0
  <2>2. /\ attempt'[d].phase = attempt[d].phase
        /\ attempt'[d].probe = attempt[d].probe
        /\ attempt'[d].left = attempt[d].left
        /\ attempt'[d].budget = Minus1(attempt[d].budget)
    BY <1>b, <2>1 DEF Attempting
  <2>3. InFlight(d)' <=> InFlight(d)
    BY <2>2 DEF InFlight
  <2>4. attempt[d].budget \in Nat
    BY <1>c
  <2>5. InFlight(d) => attempt'[d].budget = attempt[d].budget - 1
    BY <1>b, <2>2, <2>4, Minus1Facts
  <2> QED BY <2>2, <2>3, <2>5
<1>3. /\ opened' # NotOpen <=> opened # NotOpen
      /\ opened # NotOpen => opened' <= opened + 1
      /\ opened = ResetTimeout => opened' = ResetTimeout
      /\ UNCHANGED <<failures, probing>>
  <2>1. UNCHANGED <<failures, probing>>
    BY DEF Elapse
  <2> QED BY <1>0, <1>a, <2>1
<1>4. ASSUME opened # NotOpen, NEW d \in Calls, InFlight(d), Older(d) PROVE Older(d)'
  <2>1. /\ attempt[d].budget \in Int /\ opened \in Int /\ opened' \in Int
        /\ attempt'[d].budget = attempt[d].budget - 1
    BY <1>c, <1>1, <1>2, <1>4 DEF BreakerInv, ReliabilityTypeOK
  <2> QED BY <1>3, <1>4, <2>1 DEF Older
<1>5. FailuresOpen' /\ FlagMeansHalfOpen'
  BY <1>3 DEF BreakerInv, FailuresOpen, FlagMeansHalfOpen
<1>6. Waves'
  BY <1>2, <1>3, <1>4 DEF BreakerInv, Waves, Stragglers, FreeMeansOlder, PairsAreOlder
<1>7. SleepersHaveOneLeft'
  BY <1>2 DEF BreakerInv
<1> QED
  BY <1>1, <1>5, <1>6, <1>7 DEF BreakerInv

\* Every step of the calls and of the clock preserves the invariant.
LEMMA BreakerStep == BreakerInv /\ [ReliabilityNext]_reliability => BreakerInv'
<1> SUFFICES ASSUME BreakerInv, [ReliabilityNext]_reliability PROVE BreakerInv'
  OBVIOUS
<1> USE BreakerAssumption
<1>1. CASE UNCHANGED reliability
  BY <1>1
  DEF reliability, breaker, BreakerInv, ReliabilityTypeOK, FailuresOpen, FlagMeansHalfOpen,
      Waves, Stragglers, FreeMeansOlder, PairsAreOlder, Older, InFlight
<1>2. CASE Elapse
  BY <1>2, ElapsePreserves
<1>3. ASSUME NEW c \in Calls, ReliabilityStep(c) PROVE BreakerInv'
  <2>0. attempt \in [Calls -> Attempting] /\ attempt[c] \in Attempting
    BY DEF BreakerInv, ReliabilityTypeOK
  <2>1. ASSUME NEW safe \in BOOLEAN, Begin(c, safe) PROVE BreakerInv'
    BY <2>1, TryAttemptPreserves DEF Begin, InFlight
  <2>2. CASE Wake(c)
    <3>1. attempt[c].left \in 1..Attempts /\ attempt[c].budget \in 0..Timeout
      BY <2>0, <2>2 DEF Wake, Attempting, BreakerInv
    <3> QED BY <2>2, <3>1, TryAttemptPreserves DEF Wake, InFlight
  <2>3. CASE Succeed(c)
    BY <2>3, OnSuccessPreserves DEF Succeed
  <2>4. CASE Refuse(c)
    BY <2>4, OnSuccessPreserves DEF Refuse
  <2>5. CASE Fail(c)
    <3>1. CASE attempt' = Ended(c, "error")
      BY <2>0, <2>5, <3>1, OnFailurePreserves, EndedFacts DEF Fail
    <3>2. ASSUME NEW d \in Delays, attempt' = [attempt EXCEPT ![c].phase = "sleep", ![c].wake = d]
          PROVE  BreakerInv'
      <4>1. /\ attempt' \in [Calls -> Attempting]
            /\ \A e \in Calls \ {c} : attempt'[e] = attempt[e]
        BY <2>0, <3>2 DEF Attempting, Phases
      <4>2. attempt'[c].phase = "sleep" /\ attempt'[c].left = attempt[c].left
        BY <2>0, <3>2 DEF Attempting
      <4>3. CASE attempt[c].left > 0
        <5>1. InFlight(c) /\ OnFailure /\ UNCHANGED abandoned
          BY <2>5 DEF Fail
        <5> QED BY <4>1, <4>2, <4>3, <5>1, OnFailurePreserves
      <4>4. CASE ~(attempt[c].left > 0)
        <5>1. attempt' = Ended(c, "error")
          BY <2>5, <4>4 DEF Fail
        <5> QED BY <3>1, <5>1
      <4> QED BY <4>3, <4>4
    <3> QED BY <2>5, <3>1, <3>2 DEF Fail
  <2>6. CASE TimeOut(c)
    BY <2>0, <2>6, OnFailurePreserves, EndedFacts DEF TimeOut
  <2>7. CASE Abandon(c)
    <3>1. abandoned' \in BOOLEAN
      BY <2>7 DEF Abandon, BreakerInv, ReliabilityTypeOK
    <3>2. attempt' \in [Calls -> Attempting]
      BY <2>0, <2>7, EndedFacts DEF Abandon
    <3>3. attempt'[c].phase = "error" /\ \A d \in Calls \ {c} : attempt'[d] = attempt[d]
      BY <2>0, <2>7, EndedFacts DEF Abandon
    <3>4. UNCHANGED breaker
      BY <2>7 DEF Abandon
    <3> QED BY <3>1, <3>2, <3>3, <3>4, LeavingPreserves
  <2>8. CASE Return(c)
    BY <2>0, <2>8, LeavingPreserves
    DEF Return, NotCalled, AtRest, Attempting, Phases, BreakerInv, ReliabilityTypeOK
  <2> QED BY <1>3, <2>1, <2>2, <2>3, <2>4, <2>5, <2>6, <2>7, <2>8 DEF ReliabilityStep
<1> QED BY <1>1, <1>2, <1>3 DEF ReliabilityNext

-----------------------------------------------------------------------------
\* The breaker's invariant holds in every state of every behaviour.
THEOREM BreakerInvariant == ReliabilitySafety => []BreakerInv
<1>1. ReliabilityInit => BreakerInv
  BY BreakerInitially
<1>2. BreakerInv /\ [ReliabilityNext]_reliability => BreakerInv'
  BY BreakerStep
<1> QED BY <1>1, <1>2, PTL DEF ReliabilitySafety

\* reliability.py:67, whatever the calls, the threshold, the two times and the
\* delays, and whichever outcomes come late: a half-open breaker lets one attempt
\* through; any other in flight began before it opened.
THEOREM HalfOpenLetsOneThrough == ReliabilitySafety => []OneProbe
  BY BreakerInvariant, InvImpliesOneProbe, PTL

\* reliability.py:68 "that call decides whether it closes again or reopens" holds
\* where the settings keep the budget of a call below the time a breaker stays
\* open, as their defaults do; nothing in the settings makes them.
THEOREM ShortCallsLetTheProbeDecide ==
  ASSUME Timeout < ResetTimeout
  PROVE  ReliabilitySafety => ProbeDecides
<1>1. ASSUME BreakerInv, [ReliabilityNext]_reliability, State = "half_open", State' # "half_open"
      PROVE  \E c \in Calls : InFlight(c) /\ attempt[c].probe /\ ~InFlight(c)'
  <2>0. /\ opened = ResetTimeout /\ opened # NotOpen /\ opened' # opened
        /\ attempt \in [Calls -> Attempting]
    BY <1>1, BreakerAssumption DEF BreakerInv, ReliabilityTypeOK, State
  <2>1. ~Elapse
    <3>1. ~(opened < ResetTimeout)
      BY <2>0, BreakerAssumption
    <3>2. Elapse => opened' = ResetTimeout
      BY <2>0, <3>1 DEF Elapse
    <3> QED BY <2>0, <3>2
  <2>2. PICK c \in Calls : ReliabilityStep(c)
    BY <1>1, <2>0, <2>1 DEF ReliabilityNext, reliability, breaker
  <2>3. Succeed(c) \/ Refuse(c) \/ Fail(c) \/ TimeOut(c)
    BY <2>0, <2>2 DEF ReliabilityStep, Begin, Wake, TryAttempt, Abandon, Return, breaker
  <2>4. InFlight(c)
    BY <2>3 DEF Succeed, Refuse, Fail, TimeOut
  <2>5. attempt[c].probe
    <3> SUFFICES ASSUME ~attempt[c].probe PROVE FALSE
      OBVIOUS
    <3>1. Older(c)
      BY <1>1, <2>0, <2>4 DEF BreakerInv, Waves, Stragglers, FreeMeansOlder, PairsAreOlder
    <3>2. attempt[c].budget \in 0..Timeout
      BY <2>0 DEF Attempting
    <3> QED BY <2>0, <3>1, <3>2, BreakerAssumption DEF Older
  <2>6. ~InFlight(c)'
    <3>1. CASE \E how \in {"ok", "error"} : attempt' = Ended(c, how)
      BY <2>0, <3>1, EndedFacts DEF InFlight
    <3>2. ASSUME NEW d \in Delays, attempt' = [attempt EXCEPT ![c].phase = "sleep", ![c].wake = d]
          PROVE  ~InFlight(c)'
      BY <2>0, <3>2 DEF InFlight, Attempting
    <3>3. \/ \E how \in {"ok", "error"} : attempt' = Ended(c, how)
          \/ \E d \in Delays : attempt' = [attempt EXCEPT ![c].phase = "sleep", ![c].wake = d]
      BY <2>3 DEF Succeed, Refuse, Fail, TimeOut
    <3> QED BY <3>1, <3>2, <3>3
  <2> QED BY <2>4, <2>5, <2>6
<1>2. BreakerInv /\ [ReliabilityNext]_reliability =>
        [State = "half_open" /\ State' # "half_open" =>
           \E c \in Calls : InFlight(c) /\ attempt[c].probe /\ ~InFlight(c)']_reliability
  BY <1>1
<1> QED BY <1>2, BreakerInvariant, PTL DEF ReliabilitySafety, ProbeDecides

-----------------------------------------------------------------------------
(* The path of a tool call.                                                *)

Acts(c) == CallStep(c) \/ BackendAnswers(c) \/ Land(c) \/ StoreFails(c) \/ ReplyLost(c) \/ Crash(c) \/ Cancel(c)

-----------------------------------------------------------------------------
(* The breaker inside the gateway.                                         *)

\* A step of the gateway is a step of the breaker's calls or leaves them alone.
LEMMA GatewayStepsTheBreaker == [Next]_gateway => [ReliabilityNext]_reliability
<1> SUFFICES ASSUME [Next]_gateway PROVE [ReliabilityNext]_reliability
  OBVIOUS
<1>1. ASSUME NEW c \in Calls, Acts(c) PROVE [ReliabilityNext]_reliability
  <2>1. CASE Admit(c)
    <3>1. RetrySafe(c) \in BOOLEAN
      BY DEF RetrySafe
    <3> QED BY <2>1, <3>1 DEF Admit, ReliabilityNext, ReliabilityStep
  <2>2. CASE Retry(c) \/ GiveUp(c)
    BY <2>2 DEF Retry, GiveUp, ReliabilityNext, ReliabilityStep
  <2>3. CASE BackendAnswers(c)
    BY <2>3 DEF BackendAnswers, ReliabilityNext, ReliabilityStep
  <2>4. CASE Crash(c)
    BY <2>4 DEF Crash, ReliabilityNext, ReliabilityStep
  <2>5. CASE Cancel(c)
    BY <2>5 DEF Cancel, ReliabilityNext, ReliabilityStep
  <2>6. CASE \/ Authorize(c) \/ Reserve(c) \/ ReserveGet(c) \/ ReserveFallback(c) \/ Shed(c)
             \/ Complete(c) \/ CompleteSet(c) \/ Release(c) \/ ReleaseDelete(c) \/ Land(c)
             \/ StoreFails(c) \/ ReplyLost(c)
    BY <2>6 DEF Authorize, Reserve, ReserveGet, ReserveFallback, Shed, Complete, CompleteSet,
       Release, ReleaseDelete, Land, StoreFails, ReplyLost
  <2> QED BY <1>1, <2>1, <2>2, <2>3, <2>4, <2>5, <2>6 DEF Acts, CallStep
<1>2. ASSUME NEW k \in Keys, Expires(k) PROVE [ReliabilityNext]_reliability
  BY <1>2 DEF Expires
<1>3. CASE Clock
  BY <1>3 DEF Clock, ReliabilityNext
<1>4. CASE UNCHANGED gateway
  BY <1>4 DEF gateway
<1> QED BY <1>1, <1>2, <1>3, <1>4 DEF Next, Acts

\* The gateway implements the breaker's specification (reliability.py): what it
\* adds around call_with_reliability, cancellations and crashes included, is no
\* way past the breaker.
THEOREM GatewayImplementsTheBreaker == Spec => ReliabilitySafety
<1>1. Init => ReliabilityInit
  BY DEF Init
<1> QED BY <1>1, GatewayStepsTheBreaker, PTL DEF Spec, ReliabilitySafety

\* reliability.py:67: among the tool calls too, a half-open breaker lets one attempt
\* through, whatever the settings.
THEOREM GatewayLetsOneProbeThrough == Spec => []OneProbe
  BY GatewayImplementsTheBreaker, HalfOpenLetsOneThrough, PTL

-----------------------------------------------------------------------------
(* Types, and what is known of a call at each await.                       *)

Answers == [status : Statuses, body : Bodies \cup {None}]

WireType == wire \subseteq Calls \X (0..Attempts)

GatewayType ==
  /\ StoresTypeOK
  /\ store \in Stores
  /\ pc \in [Calls -> Labels]
  /\ want \in [Calls -> Wants \cup {NoWant}]
  /\ free \in Nat
  /\ spent \in 0..Allowance /\ charged \subseteq Calls
  /\ WireType
  /\ effect \in [Keys -> Bodies \cup {None}]
  /\ audit \in [Calls -> Seq(Records)]
  /\ answer \in [Calls -> Answers]
  /\ lost \subseteq Calls

\* A request of the call is on the wire.
Sent(c) == \E request \in wire : request[1] = c

CallOK(c) ==
  /\ pc[c] = "idle" => want[c] = NoWant /\ ~Sent(c)
  /\ pc[c] # "idle" => want[c] \in Wants
  /\ pc[c] \in AtStore \/ Sent(c) => Keyed(c)
  /\ pc[c] # "done" => answer[c] = NoAnswer
  /\ Len(audit[c]) = IF pc[c] = "done" THEN 1 ELSE 0
  /\ pc[c] = "run" <=> attempt[c].phase \in {"run", "sleep"}
  /\ c \in lost => pc[c] \in {"done", "gone"}

GatewayInv == BreakerInv /\ GatewayType /\ \A c \in Calls : CallOK(c)

\* What a call asked for.
LEMMA WantFacts ==
  ASSUME GatewayType, NEW c \in Calls
  PROVE  /\ Keyed(c) => want[c].key \in Keys /\ want[c].body \in Bodies /\ want[c] \in Wants
         /\ want[c].body \in Bodies \cup {None}
         /\ NoWant.key = None
BY GatewayAssumption, NoneAssumption DEF GatewayType, Keyed, NoWant, WantTypes

\* What a step makes of an attempt: it goes on, or it ends.
LEMMA AttemptMoves ==
  ASSUME BreakerInv, NEW c \in Calls
  PROVE  /\ \A b, l : TryAttempt(c, b, l) =>
              /\ \A d \in Calls \ {c} : attempt'[d] = attempt[d]
              /\ attempt'[c].phase \in {"run", "error"}
         /\ Succeed(c) \/ Refuse(c) \/ Fail(c) \/ TimeOut(c) \/ Abandon(c) =>
              /\ \A d \in Calls \ {c} : attempt'[d] = attempt[d]
              /\ attempt'[c].phase \in {"sleep", "ok", "error"}
         /\ Succeed(c) => attempt'[c].phase = "ok"
         /\ Refuse(c) \/ TimeOut(c) \/ Abandon(c) => attempt'[c].phase = "error"
         /\ Fail(c) => attempt'[c].phase # "ok"
<1>0. attempt \in [Calls -> Attempting]
  BY DEF BreakerInv, ReliabilityTypeOK
<1>1. ASSUME NEW b, NEW l, TryAttempt(c, b, l)
      PROVE  /\ \A d \in Calls \ {c} : attempt'[d] = attempt[d]
             /\ attempt'[c].phase \in {"run", "error"}
  <2>1. CASE attempt' = Ended(c, "error")
    BY <1>0, <2>1, EndedFacts
  <2>2. CASE attempt' # Ended(c, "error")
    BY <1>0, <1>1, <2>2 DEF TryAttempt
  <2> QED BY <2>1, <2>2
<1>2. ASSUME Fail(c)
      PROVE  /\ \A d \in Calls \ {c} : attempt'[d] = attempt[d]
             /\ attempt'[c].phase \in {"sleep", "error"}
  <2>1. CASE attempt' = Ended(c, "error")
    BY <1>0, <2>1, EndedFacts
  <2>2. CASE attempt' # Ended(c, "error")
    BY <1>0, <1>2, <2>2 DEF Fail, Attempting
  <2> QED BY <2>1, <2>2
<1>3. ASSUME Succeed(c) PROVE attempt' = Ended(c, "ok")
  BY <1>3 DEF Succeed
<1>4. ASSUME Refuse(c) \/ TimeOut(c) \/ Abandon(c) PROVE attempt' = Ended(c, "error")
  BY <1>4 DEF Refuse, TimeOut, Abandon
<1> QED BY <1>0, <1>1, <1>2, <1>3, <1>4, EndedFacts

-----------------------------------------------------------------------------
(* How a call goes on: it waits again, or it leaves in one of the ways out. *)

Waits == Labels \ {"idle", "done", "gone"}

Course(c) ==
  \/ UNCHANGED <<pc, told, spent, charged>>
  \/ \E label \in Waits : Goto(c, label) /\ UNCHANGED <<spent, charged>>
  \/ Failed(c)
  \/ Crashed(c)
  \/ \E body \in Bodies \cup {None}, deduplicated \in BOOLEAN : Delivered(c, body, deduplicated)

\* What comes after the run.
LEMMA RunCourse ==
  ASSUME GatewayInv, NEW c \in Calls, NEW held, AfterRun(c, held)
  PROVE  /\ Course(c)
         /\ attempt'[c].phase \in {"run", "sleep"} => UNCHANGED <<pc, told, spent, charged>> /\ free' = held
         /\ attempt'[c].phase \notin {"run", "sleep"} =>
              /\ free' = held + 1 /\ pc'[c] \in {"complete", "release", "done"}
              /\ pc'[c] = "complete" => attempt'[c].phase = "ok" /\ Keyed(c)
              /\ Keyed(c) => pc'[c] \in {"complete", "release"}
<1>0. pc \in [Calls -> Labels]
  BY DEF GatewayInv, GatewayType
<1>1. want[c].body \in Bodies \cup {None}
  BY WantFacts DEF GatewayInv
<1>2. CASE attempt'[c].phase \in {"run", "sleep"}
  BY <1>2 DEF AfterRun, Course
<1>3. CASE attempt'[c].phase \notin {"run", "sleep"}
  <2>1. CASE Keyed(c)
    BY <1>0, <1>3, <2>1 DEF AfterRun, Course, Goto, Waits, Labels
  <2>2. CASE ~Keyed(c) /\ attempt'[c].phase = "ok"
    <3>1. free' = held + 1 /\ Delivered(c, want[c].body, FALSE)
      BY <1>3, <2>2 DEF AfterRun
    <3> QED BY <1>0, <1>1, <1>3, <2>2, <3>1 DEF Course, Delivered, End
  <2>3. CASE ~Keyed(c) /\ attempt'[c].phase # "ok"
    <3>1. free' = held + 1 /\ Failed(c)
      BY <1>3, <2>3 DEF AfterRun
    <3> QED BY <1>0, <1>3, <2>3, <3>1 DEF Course, Failed, End
  <2> QED BY <2>1, <2>2, <2>3
<1> QED BY <1>2, <1>3

\* Every step of a call but its arrival and its cancellation is one of these.
LEMMA EveryCourse ==
  ASSUME GatewayInv, NEW c \in Calls, Acts(c)
  PROVE  \/ Authorize(c) \/ Cancel(c) \/ Land(c)
         \/ pc[c] \in Waits /\ Course(c)
<1>0. /\ pc \in [Calls -> Labels]
      /\ \A k \in Keys : entry[k] # None => entry[k].result \in Bodies \cup {None}
      /\ Keyed(c) => want[c].key \in Keys
      /\ want[c].body \in Bodies \cup {None}
      /\ pc[c] \in AtStore => Keyed(c)
  BY WantFacts DEF GatewayInv, GatewayType, StoresTypeOK, Entries, CallOK
<1>1. CASE Reserve(c)
  <2>1. pc[c] \in Waits /\ want[c].key \in Keys
    BY <1>0, <1>1 DEF Reserve, Waits, Labels, AtStore
  <2>2. ASSUME NEW verdict, NEW result \in Bodies \cup {None}, AfterReserve(c, verdict, result)
        PROVE  Course(c)
    BY <2>2 DEF AfterReserve, Course, Waits, Labels
  <2>3. CASE store = "memory"
    <3>1. AfterReserve(c, MemoryAnswer(want[c].key, want[c].body),
                       IF entry[want[c].key] = None THEN None ELSE entry[want[c].key].result)
      BY <1>1, <2>3 DEF Reserve
    <3> QED BY <1>0, <2>1, <2>2, <3>1
  <2>4. CASE store # "memory"
    <3>1. Goto(c, IF Creates(want[c].key) THEN "admit" ELSE "reserve_get") /\ UNCHANGED <<spent, charged>>
      BY <1>1, <2>4 DEF Reserve
    <3> QED BY <2>1, <3>1 DEF Course, Waits, Labels
  <2> QED BY <2>3, <2>4
<1>2. CASE ReserveGet(c)
  <2>1. pc[c] \in Waits /\ want[c].key \in Keys
    BY <1>0, <1>2 DEF ReserveGet, Waits, Labels, AtStore
  <2>2. CASE entry[want[c].key] = None
    BY <1>2, <2>1, <2>2 DEF ReserveGet, Course, Waits, Labels
  <2>3. CASE entry[want[c].key] # None
    BY <1>0, <1>2, <2>1, <2>3 DEF ReserveGet, AfterReserve, Course, Waits, Labels
  <2> QED BY <2>2, <2>3
<1>3. CASE ReserveFallback(c)
  BY <1>3 DEF ReserveFallback, shared, Course, Waits, Labels
<1>4. CASE Admit(c)
  <2>1. CASE InFlight(c)'
    BY <1>4, <2>1 DEF Admit, Goto, Course, Waits, Labels
  <2>2. CASE ~InFlight(c)'
    BY <1>4, <2>2, RunCourse DEF Admit, Waits, Labels
  <2> QED BY <2>1, <2>2
<1>5. CASE Shed(c)
  BY <1>5 DEF Shed, Course, Waits, Labels
<1>6. CASE Retry(c) \/ GiveUp(c) \/ BackendAnswers(c)
  BY <1>6, RunCourse DEF Retry, GiveUp, BackendAnswers, Waits, Labels
<1>7. CASE Complete(c)
  BY <1>0, <1>7 DEF Complete, Course, Waits, Labels
<1>8. CASE CompleteSet(c)
  BY <1>0, <1>8 DEF CompleteSet, Course, Waits, Labels
<1>9. CASE Release(c) \/ ReleaseDelete(c)
  BY <1>9 DEF Release, ReleaseDelete, Course, Waits, Labels
<1>10. CASE StoreFails(c) \/ ReplyLost(c) \/ Crash(c)
  BY <1>10 DEF StoreFails, ReplyLost, Crash, AtStore, Course, Waits, Labels
<1> QED BY <1>1, <1>2, <1>3, <1>4, <1>5, <1>6, <1>7, <1>8, <1>9, <1>10 DEF Acts, CallStep

\* A way out of the call, as the caller and the audit log see it.
Leaves(c) ==
  \E record \in Records, told2 \in Answers :
    /\ pc' = [pc EXCEPT ![c] = "done"]
    /\ audit' = [audit EXCEPT ![c] = Append(@, record)]
    /\ answer' = [answer EXCEPT ![c] = told2]
    /\ told2.status # "none"

Quiet == UNCHANGED <<audit, answer>>

\* A call writes a record and answers where it is done, and nowhere else.
LEMMA ToldMoves ==
  ASSUME GatewayInv, NEW c \in Calls, Acts(c)
  PROVE  /\ lost \subseteq lost' /\ lost' \subseteq lost \cup {c}
         /\ pc[c] # "idle" => want' = want
         /\ \/ Quiet /\ pc' = pc /\ lost' = lost
            \/ Quiet /\ (\E label \in Waits : pc' = [pc EXCEPT ![c] = label]) /\ lost' = lost
                     /\ pc[c] \in Waits \cup {"idle"}
            \/ Quiet /\ pc' = [pc EXCEPT ![c] = "gone"] /\ pc[c] \in Waits
            \/ Leaves(c) /\ pc[c] \in Waits \cup {"idle"}
<1>0. pc \in [Calls -> Labels]
  BY DEF GatewayInv, GatewayType
<1>1. ASSUME NEW body \in Bodies \cup {None}, NEW status \in Statuses \ {"none"},
             NEW record \in Records, End(c, record, status, body)
      PROVE  Leaves(c) /\ lost' = lost
  <2>1. [status |-> status, body |-> body] \in Answers
    BY <1>1 DEF Answers
  <2> QED BY <1>1, <2>1 DEF End, Leaves
<1>2. \A decision \in {"accepted", "rejected"}, executed \in BOOLEAN,
         outcome \in {"success", "failure", "not_executed", "deduplicated"} :
         Record(decision, outcome, executed) \in Records
  BY DEF Record, Records
<1>3. ASSUME Failed(c) PROVE Leaves(c) /\ lost' = lost
  <2>1. End(c, Record("accepted", "failure", FALSE), "failed", None)
    BY <1>3 DEF Failed
  <2> QED BY <1>1, <1>2, <2>1 DEF Statuses
<1>4. ASSUME NEW body \in Bodies \cup {None}, NEW deduplicated \in BOOLEAN,
             Delivered(c, body, deduplicated)
      PROVE  Leaves(c) /\ lost' = lost
  <2>1. \/ End(c, Record("accepted", IF deduplicated THEN "deduplicated" ELSE "success",
                         ~deduplicated), "ok", body)
        \/ End(c, Record("accepted", "failure", TRUE), "blocked", None)
    BY <1>4 DEF Delivered
  <2>2. /\ Record("accepted", IF deduplicated THEN "deduplicated" ELSE "success",
                  ~deduplicated) \in Records
        /\ Record("accepted", "failure", TRUE) \in Records
    BY <1>2
  <2> QED BY <1>1, <2>1, <2>2 DEF Statuses
<1>5. ASSUME Crashed(c) PROVE Leaves(c) /\ lost' = lost \cup {c}
  <2>1. Record("accepted", "failure", FALSE) \in Records
    BY <1>2
  <2>2. [status |-> "failed", body |-> None] \in Answers
    BY DEF Answers, Statuses
  <2> QED BY <1>5, <2>1, <2>2 DEF Crashed, Leaves
<1>5a. pc[c] # "idle" => want' = want
  BY DEF Acts, CallStep, Authorize, Reserve, ReserveGet, ReserveFallback, Admit, Shed, Retry, GiveUp,
     Complete, CompleteSet, Release, ReleaseDelete, BackendAnswers, Land, StoreFails, ReplyLost, Crash, Cancel
<1>6. CASE Authorize(c)
  <2>1. Record("rejected", "not_executed", FALSE) \in Records
    BY <1>2
  <2>2. PICK w \in Wants :
           \/ End(c, Record("rejected", "not_executed", FALSE), "denied", None)
           \/ Goto(c, IF w.key = None THEN "admit" ELSE "reserve")
    BY <1>6 DEF Authorize
  <2>3. pc[c] = "idle"
    BY <1>6 DEF Authorize
  <2>4. CASE End(c, Record("rejected", "not_executed", FALSE), "denied", None)
    BY <1>1, <2>1, <2>3, <2>4 DEF Statuses
  <2>5. CASE Goto(c, IF w.key = None THEN "admit" ELSE "reserve")
    BY <2>3, <2>5 DEF Goto, Stay, told, Quiet, Waits, Labels
  <2> QED BY <2>2, <2>3, <2>4, <2>5
<1>7. CASE Cancel(c)
  BY <1>0, <1>7 DEF Cancel, Quiet, Waits
<1>8. CASE Land(c)
  BY <1>8 DEF Land, told, Quiet
<1>9. CASE pc[c] \in Waits /\ Course(c)
  BY <1>3, <1>4, <1>5, <1>9, <1>5a DEF Course, Goto, Stay, told, Quiet
<1> QED BY <1>6, <1>7, <1>8, <1>9, <1>5a, EveryCourse

\* The steps that touch the key store are those of a keyed call at one of its
\* awaits on it.
StoreSteps(c) ==
  \/ Reserve(c) \/ ReserveFallback(c) \/ Complete(c) \/ CompleteSet(c)
  \/ Release(c) \/ ReleaseDelete(c) \/ ReplyLost(c)

\* A call's other steps, and the backend, leave the key store alone.
LEMMA StoreStepsAlone ==
  ASSUME NEW c \in Calls, Acts(c)
  PROVE  StoreSteps(c) \/ UNCHANGED keyStore
BY DEF Acts, CallStep, StoreSteps, Authorize, ReserveGet, Admit, Shed, Retry, GiveUp, BackendAnswers,
   Land, StoreFails, Crash, Cancel

\* The entries and what was read of them keep their type.
LEMMA StoresTypeStep ==
  ASSUME GatewayInv, NEW c \in Calls, Acts(c)
  PROVE  StoresTypeOK'
<1>0. /\ entry \in [Keys -> Entries \cup {None}] /\ seen \in [Calls -> Entries \cup {None}]
      /\ fallback \subseteq Keys /\ StoresTypeOK
  BY DEF GatewayInv, GatewayType, StoresTypeOK
<1>1. CASE UNCHANGED keyStore
  BY <1>0, <1>1 DEF keyStore, StoresTypeOK
<1>2. CASE StoreSteps(c)
  <2>1. Keyed(c) /\ want[c].key \in Keys /\ want[c].body \in Bodies
    BY <1>2, WantFacts DEF StoreSteps, Reserve, ReserveFallback, Complete, CompleteSet, Release,
       ReleaseDelete, ReplyLost, GatewayInv, CallOK, AtStore
  <2>2. PICK k \in Keys : k = want[c].key
    BY <2>1
  <2>3. Reserved(c, want[c].body) \in Entries
    BY <2>1 DEF Reserved, Entries
  <2>4. CASE Reserve(c)
    BY <1>0, <2>2, <2>3, <2>4 DEF Reserve, MemoryReserve, SetIfAbsent, StoresTypeOK
  <2>5. CASE ReserveFallback(c)
    BY <1>0, <2>2, <2>3, <2>5 DEF ReserveFallback, SetFallback, StoresTypeOK
  <2>6. CASE Complete(c)
    BY <1>0, <2>1, <2>2, <2>6 DEF Complete, MemoryComplete, Get, StoresTypeOK, Entries
  <2>7. CASE CompleteSet(c)
    BY <1>0, <2>1, <2>2, <2>7 DEF CompleteSet, SetResult, StoresTypeOK, Entries
  <2>8. CASE Release(c)
    BY <1>0, <2>2, <2>8 DEF Release, MemoryRelease, Get, StoresTypeOK
  <2>9. CASE ReleaseDelete(c)
    BY <1>0, <2>2, <2>9 DEF ReleaseDelete, DeleteIfSeenOpen, StoresTypeOK
  <2>10. CASE ReplyLost(c)
    <3>1. CASE SetIfAbsent(c, k, want[c].body)
      BY <1>0, <2>3, <3>1 DEF SetIfAbsent, StoresTypeOK
    <3>2. CASE SetFallback(c, k, want[c].body)
      BY <1>0, <2>3, <3>2 DEF SetFallback, StoresTypeOK
    <3>3. CASE SetResult(c, k, want[c].body)
      BY <1>0, <2>1, <3>3 DEF SetResult, StoresTypeOK, Entries
    <3>4. CASE DeleteIfSeenOpen(c, k)
      BY <1>0, <3>4 DEF DeleteIfSeenOpen, StoresTypeOK
    <3> QED BY <2>2, <2>10, <3>1, <3>2, <3>3, <3>4 DEF ReplyLost
  <2> QED BY <1>2, <2>4, <2>5, <2>6, <2>7, <2>8, <2>9, <2>10 DEF StoreSteps
<1> QED BY <1>1, <1>2, StoreStepsAlone

\* The budget moves only where a call is charged or gives back.
LEMMA BudgetMoves ==
  ASSUME GatewayInv, NEW c \in Calls, Acts(c)
  PROVE  \/ UNCHANGED <<spent, charged>>
         \/ GiveBack(c)
         \/ /\ pc[c] = "idle" /\ Counts(c)' /\ pc'[c] = "reserve"
            /\ spent < Allowance /\ spent' = spent + 1 /\ charged' = charged \cup {c}
<1>1. CASE Authorize(c)
  <2>1. pc[c] = "idle" /\ pc \in [Calls -> Labels] /\ want \in [Calls -> Wants \cup {NoWant}]
    BY <1>1 DEF Authorize, GatewayInv, GatewayType
  <2>2. PICK w \in Wants :
          /\ want' = [want EXCEPT ![c] = w]
          /\ \/ UNCHANGED <<spent, charged>>
             \/ /\ w.key = None \/ spent < Allowance
                /\ spent' = IF w.key = None THEN spent ELSE spent + 1
                /\ charged' = IF w.key = None THEN charged ELSE charged \cup {c}
                /\ Goto(c, IF w.key = None THEN "admit" ELSE "reserve")
    BY <1>1 DEF Authorize
  <2>3. want'[c] = w
    BY <2>1, <2>2
  <2> QED BY <2>1, <2>2, <2>3 DEF Goto, Counts, Keyed
<1>2. CASE Cancel(c) \/ Land(c)
  BY <1>2 DEF Cancel, Land, shared
<1>3. CASE Course(c)
  BY <1>3 DEF Course, Failed, Crashed, Delivered
<1> QED BY <1>1, <1>2, <1>3, EveryCourse

\* A slot is taken with the first attempt and given back with the end of the run.
LEMMA SlotMoves ==
  ASSUME GatewayInv, NEW c \in Calls, Acts(c)
  PROVE  \/ free' = free /\ (pc'[c] = "run" <=> pc[c] = "run")
         \/ free > 0 /\ free' = free - 1 /\ pc[c] # "run" /\ pc'[c] = "run"
         \/ free' = free + 1 /\ pc[c] = "run" /\ pc'[c] # "run"
<1>0. free \in Int /\ pc \in [Calls -> Labels]
  BY DEF GatewayInv, GatewayType
<1>1. CASE Admit(c)
  <2>1. CASE InFlight(c)'
    BY <1>0, <1>1, <2>1 DEF Admit
  <2>2. CASE ~InFlight(c)'
    <3>1. attempt'[c].phase \notin {"run", "sleep"}
      BY <1>1, <2>2, AttemptMoves DEF Admit, Begin, InFlight, GatewayInv
    <3>2. AfterRun(c, free - 1)
      BY <1>1, <2>2 DEF Admit
    <3>3. free' = free - 1 + 1 /\ pc'[c] # "run"
      BY <3>1, <3>2, RunCourse
    <3> QED BY <1>0, <1>1, <3>3 DEF Admit
  <2> QED BY <2>1, <2>2
<1>2. CASE Retry(c) \/ GiveUp(c) \/ BackendAnswers(c)
  <2>1. pc[c] = "run" /\ AfterRun(c, free)
    BY <1>2 DEF Retry, GiveUp, BackendAnswers
  <2> QED BY <1>0, <2>1, RunCourse
<1>3. CASE Crash(c)
  BY <1>0, <1>3 DEF Crash, Crashed
<1>4. CASE Cancel(c)
  BY <1>0, <1>4 DEF Cancel
<1>5. CASE \/ Authorize(c) \/ Reserve(c) \/ ReserveGet(c) \/ ReserveFallback(c) \/ Shed(c)
           \/ Complete(c) \/ CompleteSet(c) \/ Release(c) \/ ReleaseDelete(c) \/ Land(c)
           \/ StoreFails(c) \/ ReplyLost(c)
  <2>1. free' = free
    BY <1>5 DEF Authorize, Reserve, ReserveGet, ReserveFallback, Shed, Complete, CompleteSet,
       Release, ReleaseDelete, Land, StoreFails, ReplyLost, shared
  <2>2. Land(c) => pc' = pc
    BY DEF Land
  <2>3. ASSUME ~Land(c) PROVE pc[c] # "run" /\ pc'[c] # "run"
    <3>1. pc[c] # "run"
      BY <1>5, <2>3 DEF Authorize, Reserve, ReserveGet, ReserveFallback, Shed, Complete, CompleteSet,
         Release, ReleaseDelete, StoreFails, ReplyLost, AtStore
    <3>2. pc'[c] # "run"
      BY <1>0, <1>5, <2>3 DEF Authorize, Reserve, ReserveGet, ReserveFallback, Shed, Complete,
         CompleteSet, Release, ReleaseDelete, StoreFails, ReplyLost, AfterReserve, Delivered, Failed, Crashed,
         End, Goto
    <3> QED BY <3>1, <3>2
  <2> QED BY <2>1, <2>2, <2>3
<1> QED BY <1>1, <1>2, <1>3, <1>4, <1>5 DEF Acts, CallStep

\* The type invariant is inductive.
LEMMA GatewayTypeStep ==
  ASSUME GatewayInv, BreakerInv', NEW c \in Calls, Acts(c)
  PROVE  GatewayType'
<1>0. GatewayType
  BY DEF GatewayInv
<1>1. StoresTypeOK'
  BY StoresTypeStep
<1>2. lost' \subseteq Calls
  BY <1>0, ToldMoves DEF GatewayType
<1>3. /\ pc' \in [Calls -> Labels] /\ audit' \in [Calls -> Seq(Records)]
      /\ answer' \in [Calls -> Answers]
  <2>1. CASE Quiet
    <3>1. \E label \in Labels : pc' = [pc EXCEPT ![c] = label] \/ pc' = pc
      BY <2>1, ToldMoves DEF Waits, Labels, Leaves
    <3> QED BY <1>0, <2>1, <3>1 DEF GatewayType, Quiet
  <2>2. CASE Leaves(c)
    <3>1. PICK record \in Records, told2 \in Answers :
            /\ pc' = [pc EXCEPT ![c] = "done"]
            /\ audit' = [audit EXCEPT ![c] = Append(@, record)]
            /\ answer' = [answer EXCEPT ![c] = told2]
      BY <2>2 DEF Leaves
    <3>2. Append(audit[c], record) \in Seq(Records) /\ "done" \in Labels
      BY <1>0 DEF GatewayType, Labels
    <3> QED BY <1>0, <3>1, <3>2 DEF GatewayType
  <2> QED BY <2>1, <2>2, ToldMoves
<1>4. store' = store /\ want' \in [Calls -> Wants \cup {NoWant}]
  BY <1>0 DEF GatewayType, Acts, CallStep, Authorize, Reserve, ReserveGet, ReserveFallback, Admit,
     Shed, Retry, GiveUp, Complete, CompleteSet, Release, ReleaseDelete, BackendAnswers, Land,
     StoreFails, ReplyLost, Crash, Cancel, shared
<1>5. spent' \in 0..Allowance /\ charged' \subseteq Calls
  <2>1. spent \in 0..Allowance /\ charged \subseteq Calls /\ Allowance \in Nat
    BY <1>0, GatewayAssumption DEF GatewayType
  <2>2. GiveBack(c) => spent' \in 0..Allowance /\ charged' \subseteq Calls
    BY <2>1 DEF GiveBack
  <2> QED BY <2>1, <2>2, BudgetMoves
<1>6. WireType' /\ effect' \in [Keys -> Bodies \cup {None}]
  <2>0. attempt' \in [Calls -> Attempting] => Request(c)' \in Calls \X (0..Attempts)
    BY DEF Request, Attempting
  <2>1. CASE Land(c)
    BY <1>0, <2>1, WantFacts DEF Land, GatewayType, WireType
  <2>2. CASE ~Land(c)
    BY <1>0, <2>0, <2>2 DEF Sends, GatewayType, WireType, BreakerInv, ReliabilityTypeOK, Acts, CallStep, Authorize, Reserve, ReserveGet, ReserveFallback,
       Admit, Shed, Retry, GiveUp, Complete, CompleteSet, Release, ReleaseDelete, BackendAnswers,
       StoreFails, ReplyLost, Crash, Cancel, world
  <2> QED BY <2>1, <2>2
<1>7. free' \in Nat
  <2>1. free \in Nat
    BY <1>0 DEF GatewayType
  <2> QED BY <2>1, SlotMoves
<1> QED BY <1>0, <1>1, <1>2, <1>3, <1>4, <1>5, <1>6, <1>7 DEF GatewayType

\* An attempt is its call's, and goes on as long as the call stands at the run.
LEMMA RunMoves ==
  ASSUME GatewayInv, NEW c \in Calls, Acts(c)
  PROVE  /\ \A d \in Calls \ {c} : attempt'[d] = attempt[d]
         /\ pc'[c] = "run" <=> attempt'[c].phase \in {"run", "sleep"}
<1>0. /\ pc \in [Calls -> Labels]
      /\ pc[c] = "run" <=> attempt[c].phase \in {"run", "sleep"}
  BY DEF GatewayInv, GatewayType, CallOK
<1>1. CASE Admit(c)
  <2>1. /\ \A d \in Calls \ {c} : attempt'[d] = attempt[d]
        /\ attempt'[c].phase \in {"run", "error"}
    BY <1>1, AttemptMoves DEF Admit, Begin, GatewayInv
  <2>2. CASE InFlight(c)'
    BY <1>0, <1>1, <2>1, <2>2 DEF Admit, InFlight
  <2>3. CASE ~InFlight(c)'
    BY <1>1, <2>1, <2>3, RunCourse DEF Admit, InFlight
  <2> QED BY <2>1, <2>2, <2>3
<1>2. CASE Retry(c) \/ GiveUp(c) \/ BackendAnswers(c)
  <2>1. pc[c] = "run" /\ AfterRun(c, free)
    BY <1>2 DEF Retry, GiveUp, BackendAnswers
  <2>2. \A d \in Calls \ {c} : attempt'[d] = attempt[d]
    BY <1>2, AttemptMoves DEF Retry, Wake, GiveUp, BackendAnswers, GatewayInv
  <2> QED BY <1>0, <2>1, <2>2, RunCourse
<1>3. CASE Crash(c) \/ (Cancel(c) /\ pc[c] = "run")
  <2>1. Abandon(c) /\ pc'[c] \in {"done", "gone"}
    BY <1>0, <1>3 DEF Crash, Crashed, Cancel
  <2> QED BY <2>1, AttemptMoves DEF GatewayInv
<1>4. CASE \/ Authorize(c) \/ Reserve(c) \/ ReserveGet(c) \/ ReserveFallback(c) \/ Shed(c)
           \/ Complete(c) \/ CompleteSet(c) \/ Release(c) \/ ReleaseDelete(c) \/ Land(c)
           \/ StoreFails(c) \/ ReplyLost(c) \/ (Cancel(c) /\ pc[c] # "run")
  <2>1. attempt' = attempt /\ free' = free
    BY <1>4 DEF Authorize, Reserve, ReserveGet, ReserveFallback, Shed, Complete, CompleteSet,
       Release, ReleaseDelete, Land, StoreFails, ReplyLost, Cancel, shared, reliability
  <2> QED BY <1>0, <2>1, SlotMoves DEF GatewayInv, GatewayType
<1> QED BY <1>1, <1>2, <1>3, <1>4 DEF Acts, CallStep

\* What is on the wire is a keyed call's request.
LEMMA WireMoves ==
  ASSUME GatewayInv, NEW c \in Calls, Acts(c)
  PROVE  /\ \A d \in Calls \ {c} : Sent(d)' <=> Sent(d)
         /\ Sent(c)' => Keyed(c) /\ pc[c] # "idle"
<1>0. CallOK(c) /\ \A d : Request(d)[1] = d /\ Request(d)'[1] = d
  BY DEF GatewayInv, Request
<1>1. CASE Admit(c) \/ Retry(c)
  <2>1. Sends(c) /\ pc[c] # "idle"
    BY <1>1 DEF Admit, Retry
  <2> QED BY <1>0, <2>1 DEF Sends, Sent, CallOK
<1>2. CASE BackendAnswers(c) \/ Land(c)
  <2>1. wire' \subseteq wire /\ \A request \in wire : request[1] # c => request \in wire'
    BY <1>0, <1>2 DEF BackendAnswers, Land
  <2> QED BY <1>0, <2>1 DEF Sent, CallOK
<1>3. CASE UNCHANGED wire
  BY <1>0, <1>3 DEF Sent, CallOK
<1> QED BY <1>1, <1>2, <1>3 DEF Acts, CallStep, Authorize, Reserve, ReserveGet, ReserveFallback,
   Shed, GiveUp, Complete, CompleteSet, Release, ReleaseDelete, StoreFails, ReplyLost, Crash, Cancel,
   world

\* What a call asks for is set where it arrives.
LEMMA WantMoves ==
  ASSUME GatewayInv, NEW c \in Calls, Acts(c)
  PROVE  /\ \A d \in Calls \ {c} : want'[d] = want[d]
         /\ pc[c] # "idle" => want' = want
         /\ pc[c] = "idle" => want'[c] \in Wants /\ pc'[c] \in {"admit", "reserve", "done"}
         /\ pc[c] = "idle" /\ pc'[c] = "reserve" => Keyed(c)'
         /\ pc[c] = "idle" /\ pc'[c] = "admit" => ~Keyed(c)'
<1>0. want \in [Calls -> Wants \cup {NoWant}] /\ pc \in [Calls -> Labels]
  BY DEF GatewayInv, GatewayType
<1>1. CASE pc[c] # "idle"
  BY <1>1, ToldMoves
<1>2. CASE pc[c] = "idle"
  <2>1. Authorize(c)
    <3>1. ~Land(c)
      BY <1>2 DEF Land, GatewayInv, CallOK, Sent
    <3> QED BY <1>2, <3>1, EveryCourse DEF Cancel, Waits
  <2>2. PICK w \in Wants :
          /\ want' = [want EXCEPT ![c] = w]
          /\ \/ End(c, Record("rejected", "not_executed", FALSE), "denied", None)
             \/ Goto(c, IF w.key = None THEN "admit" ELSE "reserve")
    BY <2>1 DEF Authorize
  <2>3. want'[c] = w /\ \A d \in Calls \ {c} : want'[d] = want[d]
    BY <1>0, <2>2
  <2>4. /\ pc'[c] \in {"admit", "reserve", "done"}
        /\ (pc'[c] = "reserve" => w.key # None) /\ (pc'[c] = "admit" => w.key = None)
    BY <1>0, <2>2 DEF End, Goto
  <2> QED BY <1>2, <2>3, <2>4 DEF Keyed
<1> QED BY <1>1, <1>2

\* A call comes to an await on the store only if it has a key.
LEMMA AtStoreMoves ==
  ASSUME GatewayInv, NEW c \in Calls, Acts(c), pc'[c] \in AtStore
  PROVE  Keyed(c)'
<1>0. /\ pc \in [Calls -> Labels] /\ (pc[c] \in AtStore => Keyed(c))
  BY DEF GatewayInv, GatewayType, CallOK
<1>1. CASE pc[c] = "idle"
  BY <1>1, WantMoves DEF AtStore
<1>2. CASE pc[c] \in AtStore
  BY <1>0, <1>2, WantMoves DEF AtStore, Keyed
<1>3. CASE pc[c] \in {"done", "gone"}
  BY <1>0, <1>3, ToldMoves DEF Waits, AtStore, Leaves
<1>4. CASE pc[c] \in {"admit", "run"}
  <2>1. want' = want
    BY <1>4, WantMoves
  <2>2. CASE Admit(c) \/ Retry(c) \/ GiveUp(c) \/ BackendAnswers(c)
    <3>1. pc'[c] = "run" \/ \E held : AfterRun(c, held)
      BY <1>0, <2>2 DEF Admit, Retry, GiveUp, BackendAnswers
    <3>2. \A held : AfterRun(c, held) => pc'[c] = pc[c] \/ Keyed(c) \/ pc'[c] = "done"
      BY <1>0 DEF AfterRun, Delivered, Failed, End
    <3> QED BY <1>4, <2>1, <3>1, <3>2 DEF AtStore, Keyed
  <2>3. CASE Shed(c)
    BY <1>0, <2>1, <2>3 DEF Shed, Failed, End, AtStore, Keyed
  <2>4. CASE Land(c) \/ Crash(c) \/ Cancel(c)
    BY <1>0, <1>4, <2>4 DEF Land, Crash, Crashed, Cancel, AtStore
  <2> QED BY <1>4, <2>2, <2>3, <2>4 DEF Acts, CallStep, Authorize, Reserve, ReserveGet,
          ReserveFallback, Complete, CompleteSet, Release, ReleaseDelete, StoreFails, ReplyLost, AtStore
<1> QED BY <1>0, <1>1, <1>2, <1>3, <1>4 DEF Labels, AtStore

\* What is known of a call stays so: of the one that acts, and of the others.
LEMMA CallStepOK ==
  ASSUME GatewayInv, NEW c \in Calls, Acts(c), NEW d \in Calls
  PROVE  CallOK(d)'
<1>0. GatewayType /\ CallOK(c) /\ CallOK(d)
  BY DEF GatewayInv
<1>1. CASE d # c
  <2>1. pc'[d] = pc[d] /\ audit'[d] = audit[d] /\ answer'[d] = answer[d] /\ (d \in lost' <=> d \in lost)
    BY <1>0, <1>1, ToldMoves DEF GatewayType, Quiet, Leaves
  <2>2. attempt'[d] = attempt[d] /\ want'[d] = want[d] /\ (Sent(d)' <=> Sent(d))
    BY <1>1, RunMoves, WantMoves, WireMoves
  <2> QED BY <1>0, <2>1, <2>2 DEF CallOK, Keyed
<1>2. CASE d = c
  <2>1. pc'[c] # "idle" /\ want'[c] \in Wants
    <3>1. CASE pc[c] = "idle"
      BY <3>1, WantMoves
    <3>2. CASE pc[c] # "idle"
      BY <1>0, <3>2, ToldMoves, WantMoves DEF GatewayType, CallOK, Leaves, Waits
    <3> QED BY <3>1, <3>2
  <2>2. Sent(c)' => Keyed(c)'
    BY WireMoves, WantMoves DEF Keyed
  <2>3. /\ pc'[c] # "done" => answer'[c] = NoAnswer
        /\ Len(audit'[c]) = IF pc'[c] = "done" THEN 1 ELSE 0
    <3>1. CASE Quiet
      <4>1. ~Leaves(c)
        <5>1. \A record \in Records : Append(audit[c], record) # audit[c]
          <6>1. audit[c] \in Seq(Records)
            BY <1>0 DEF GatewayType
          <6> QED BY <6>1, AppendProperties
        <5> QED BY <1>0, <3>1, <5>1 DEF GatewayType, Quiet, Leaves
      <4>2. pc'[c] = "done" <=> pc[c] = "done"
        BY <1>0, <4>1, ToldMoves DEF GatewayType, Waits
      <4> QED BY <1>0, <3>1, <4>2 DEF CallOK, Quiet
    <3>2. CASE ~Quiet
      <4>1. Leaves(c) /\ pc[c] # "done"
        BY <3>2, ToldMoves DEF Waits
      <4>2. audit[c] \in Seq(Records) /\ Len(audit[c]) = 0
        BY <1>0, <4>1 DEF GatewayType, CallOK
      <4>3. PICK record \in Records : pc'[c] = "done" /\ audit'[c] = Append(audit[c], record)
        BY <1>0, <4>1 DEF Leaves, GatewayType
      <4> QED BY <4>2, <4>3
    <3> QED BY <3>1, <3>2
  <2>4. c \in lost' => pc'[c] \in {"done", "gone"}
    <3>1. CASE lost' = lost
      BY <1>0, <3>1, ToldMoves DEF GatewayType, CallOK, Leaves, Waits
    <3>2. CASE lost' # lost
      BY <1>0, <3>2, ToldMoves DEF GatewayType, Leaves
    <3> QED BY <3>1, <3>2
  <2> QED BY <1>2, <2>1, <2>2, <2>3, <2>4, RunMoves, AtStoreMoves DEF CallOK
<1> QED BY <1>1, <1>2

\* Time, and the expiry of an entry, leave the calls where they are.
LEMMA TimePasses ==
  ASSUME GatewayInv, BreakerInv', (\E k \in Keys : Expires(k)) \/ Clock \/ UNCHANGED gateway
  PROVE  GatewayInv'
<1>0. GatewayType /\ attempt \in [Calls -> Attempting] /\ \A c \in Calls : CallOK(c)
  BY DEF GatewayInv, BreakerInv, ReliabilityTypeOK
<1>1. UNCHANGED <<shared, world, told, pc, want>>
  BY DEF Expires, Clock, gateway
<1>2. \A c \in Calls : attempt'[c].phase = attempt[c].phase
  BY <1>0 DEF Expires, Clock, Elapse, gateway, reliability, Attempting
<1>3. StoresTypeOK'
  BY <1>0 DEF Expires, Expire, Clock, gateway, keyStore, GatewayType, StoresTypeOK
<1>4. GatewayType'
  BY <1>0, <1>1, <1>3 DEF GatewayType, WireType, shared, world, told
<1>5. \A c \in Calls : CallOK(c)'
  BY <1>0, <1>1, <1>2 DEF CallOK, Sent, shared, world, told, Keyed
<1> QED BY <1>4, <1>5 DEF GatewayInv

\* No call has started: nothing is held and nothing recorded.
LEMMA GatewayInitially == Init => GatewayInv
<1> SUFFICES ASSUME Init PROVE GatewayInv
  OBVIOUS
<1>1. BreakerInv
  BY BreakerInitially DEF Init
<1>2. GatewayType
  <2>1. NoAnswer \in Answers /\ "idle" \in Labels
    BY DEF NoAnswer, Answers, Statuses, Labels
  <2>2. <<>> \in Seq(Records)
    OBVIOUS
  <2>3. Slots \in Nat /\ 0 \in 0..Allowance
    BY GatewayAssumption
  <2> QED BY <2>1, <2>2, <2>3 DEF Init, StoresInit, GatewayType, WireType, StoresTypeOK
<1>3. \A c \in Calls : CallOK(c)
  BY DEF Init, CallOK, Sent, AtStore, ReliabilityInit, NotCalled, AtRest
<1> QED BY <1>1, <1>2, <1>3 DEF GatewayInv

\* Every step of a call, of the clock and of the key store's expiry keeps what each
\* stage says of its call.
LEMMA GatewayStep == GatewayInv /\ BreakerInv' /\ [Next]_gateway => GatewayInv'
<1> SUFFICES ASSUME GatewayInv, BreakerInv', [Next]_gateway PROVE GatewayInv'
  OBVIOUS
<1>1. ASSUME NEW c \in Calls, Acts(c) PROVE GatewayInv'
  BY <1>1, GatewayTypeStep, CallStepOK DEF GatewayInv
<1> QED BY <1>1, TimePasses DEF Next, Acts

\* The invariant of the calls holds in every state.
THEOREM GatewayInductive == Spec => []GatewayInv
<1>1. Spec => []BreakerInv
  BY GatewayImplementsTheBreaker, BreakerInvariant, PTL
<1> QED BY <1>1, GatewayInitially, GatewayStep, PTL DEF Spec

\* executor.py:4 "Every branch out of this function writes exactly one audit
\* record", for every tool, store and fault: every answer has its one record, and
\* no call has two.
THEOREM EachCallIsRecordedOnce == Spec => []OneRecordPerAnswer
<1>1. GatewayInv => OneRecordPerAnswer
  <2> SUFFICES ASSUME GatewayInv, NEW c \in Calls
               PROVE  Len(audit[c]) <= 1 /\ (answer[c].status # "none" => Len(audit[c]) = 1)
    BY DEF OneRecordPerAnswer
  <2>1. /\ Len(audit[c]) = IF pc[c] = "done" THEN 1 ELSE 0
        /\ pc[c] # "done" => answer[c].status = "none"
    BY DEF GatewayInv, CallOK, NoAnswer
  <2> QED BY <2>1
<1> QED BY <1>1, GatewayInductive, PTL

-----------------------------------------------------------------------------
(* The slots of the semaphore and the actions of the case.                 *)

Running == {c \in Calls : pc[c] = "run"}

\* A call that has taken an action of the case and not given it back.
Owes(c) == Counts(c) /\ pc[c] # "idle" /\ answer[c].status \notin {"denied", "failed"}

SlotsOK == IsFiniteSet(Running) /\ free + Cardinality(Running) = Slots

BudgetOK == /\ IsFiniteSet(charged) /\ spent = Cardinality(charged)
            /\ \A c \in Calls : c \in charged <=> Owes(c)

\* A step moves one call in or out of the run, together with a slot.
LEMMA SlotsStep ==
  ASSUME GatewayInv, SlotsOK, NEW c \in Calls, Acts(c)
  PROVE  SlotsOK'
<1>0. /\ free \in Int /\ Cardinality(Running) \in Nat
      /\ \A d \in Calls \ {c} : pc'[d] = pc[d]
  BY ToldMoves, FS_CardinalityType DEF GatewayInv, GatewayType, SlotsOK, Leaves
<1>1. CASE pc[c] # "run" /\ pc'[c] = "run"
  <2>1. Running' = Running \cup {c} /\ c \notin Running
    BY <1>0, <1>1 DEF Running
  <2>2. IsFiniteSet(Running \cup {c}) /\ Cardinality(Running \cup {c}) = Cardinality(Running) + 1
    BY <2>1, FS_AddElement DEF SlotsOK
  <2>3. free' = free - 1
    BY <1>1, SlotMoves
  <2> QED BY <1>0, <2>1, <2>2, <2>3 DEF SlotsOK
<1>2. CASE pc[c] = "run" /\ pc'[c] # "run"
  <2>1. Running' = Running \ {c} /\ c \in Running
    BY <1>0, <1>2 DEF Running
  <2>2. IsFiniteSet(Running \ {c}) /\ Cardinality(Running \ {c}) = Cardinality(Running) - 1
    BY <2>1, FS_RemoveElement DEF SlotsOK
  <2>3. free' = free + 1
    BY <1>2, SlotMoves
  <2> QED BY <1>0, <2>1, <2>2, <2>3 DEF SlotsOK
<1>3. CASE pc[c] = "run" <=> pc'[c] = "run"
  <2>1. Running' = Running
    BY <1>0, <1>3 DEF Running
  <2> QED BY <1>0, <1>3, <2>1, SlotMoves DEF SlotsOK
<1> QED BY <1>1, <1>2, <1>3

\* What a step makes of a call's share of the budget.
LEMMA ShareMoves ==
  ASSUME GatewayInv, NEW c \in Calls, Acts(c)
  PROVE  \/ UNCHANGED <<spent, charged>> /\ (Owes(c)' <=> Owes(c))
         \/ GiveBack(c) /\ ~Owes(c)' /\ (Owes(c) <=> Counts(c))
         \/ ~Owes(c) /\ Owes(c)' /\ spent' = spent + 1 /\ charged' = charged \cup {c}
<1>0. /\ GatewayType /\ CallOK(c)
      /\ pc \in [Calls -> Labels] /\ answer \in [Calls -> Answers]
      /\ pc[c] # "done" => answer[c].status = "none"
      /\ pc[c] # "idle" => (Counts(c)' <=> Counts(c))
  BY WantMoves DEF GatewayInv, GatewayType, CallOK, NoAnswer, Counts, Keyed
<1>1. CASE Authorize(c)
  <2>1. PICK w \in Wants :
          /\ want' = [want EXCEPT ![c] = w]
          /\ \/ /\ End(c, Record("rejected", "not_executed", FALSE), "denied", None)
                /\ UNCHANGED <<spent, charged>>
             \/ /\ spent' = IF w.key = None THEN spent ELSE spent + 1
                /\ charged' = IF w.key = None THEN charged ELSE charged \cup {c}
                /\ Goto(c, IF w.key = None THEN "admit" ELSE "reserve")
    BY <1>1 DEF Authorize
  <2>2. pc[c] = "idle" /\ ~Owes(c) /\ (Counts(c)' <=> w.key # None)
    BY <1>0, <1>1, <2>1 DEF Authorize, Owes, Counts, Keyed, GatewayType
  <2>3. CASE answer'[c].status = "denied"
    BY <1>0, <2>1, <2>2, <2>3 DEF Owes, Goto, Stay, told
  <2>4. CASE answer'[c].status # "denied"
    <3>1. ~End(c, Record("rejected", "not_executed", FALSE), "denied", None)
      <4>1. answer' # [answer EXCEPT ![c] = [status |-> "denied", body |-> None]]
        BY <1>0, <2>4
      <4> QED BY <4>1 DEF End
    <3>2. answer'[c].status = "none" /\ pc'[c] # "idle"
      BY <1>0, <2>1, <2>2, <3>1 DEF Goto, Stay, told, CallOK, NoAnswer
    <3>3. Owes(c)' <=> w.key # None
      BY <2>2, <3>2 DEF Owes
    <3> QED BY <2>1, <2>2, <3>1, <3>3
  <2> QED BY <2>3, <2>4
<1>2. CASE Cancel(c) \/ Land(c)
  <2>1. UNCHANGED <<spent, charged>> /\ answer' = answer /\ want' = want
    BY <1>2 DEF Cancel, Land, shared, told
  <2>2. pc'[c] = "idle" <=> pc[c] = "idle"
    BY <1>0, <1>2 DEF Cancel, Land, GatewayType
  <2> QED BY <2>1, <2>2 DEF Owes, Counts, Keyed
<1>3. CASE pc[c] \in Waits /\ Course(c)
  <2>1. pc[c] \notin {"idle", "done", "gone"} /\ (Owes(c) <=> Counts(c))
    BY <1>0, <1>3 DEF Waits, Owes
  <2>2. CASE Failed(c) \/ Crashed(c)
    <3>1. answer' = [answer EXCEPT ![c] = [status |-> "failed", body |-> None]] /\ GiveBack(c)
      BY <2>2 DEF Failed, Crashed, End
    <3>2. answer'[c].status = "failed"
      BY <1>0, <3>1
    <3> QED BY <2>1, <3>1, <3>2 DEF Owes
  <2>3. CASE ~(Failed(c) \/ Crashed(c))
    <3>1. UNCHANGED <<spent, charged>> /\ pc'[c] # "idle"
      BY <1>0, <1>3, <2>1, <2>3 DEF Course, Goto, Delivered, End, GatewayType, Waits
    <3>2. answer'[c].status \in {"none", "ok", "blocked"}
      <4>1. \/ answer' = answer
            \/ \E body : answer' = [answer EXCEPT ![c] = [status |-> "ok", body |-> body]]
            \/ answer' = [answer EXCEPT ![c] = [status |-> "blocked", body |-> None]]
        BY <1>3, <2>3 DEF Course, Goto, Stay, told, Delivered, End
      <4> QED BY <1>0, <2>1, <4>1
    <3> QED BY <1>0, <2>1, <3>1, <3>2 DEF Owes
  <2> QED BY <2>2, <2>3
<1> QED BY <1>1, <1>2, <1>3, EveryCourse

\* What is spent is what is owed.
LEMMA BudgetStep ==
  ASSUME GatewayInv, BudgetOK, NEW c \in Calls, Acts(c)
  PROVE  BudgetOK'
<1>0. /\ Cardinality(charged) \in Nat /\ charged \subseteq Calls
      /\ \A d \in Calls \ {c} : Owes(d)' <=> Owes(d)
  <2>1. \A d \in Calls \ {c} : pc'[d] = pc[d] /\ answer'[d] = answer[d]
    BY ToldMoves DEF GatewayInv, GatewayType, Leaves, Quiet
  <2> QED BY <2>1, WantMoves, FS_CardinalityType DEF GatewayInv, GatewayType, BudgetOK, Owes, Counts, Keyed
<1>1. CASE UNCHANGED <<spent, charged>> /\ (Owes(c)' <=> Owes(c))
  BY <1>0, <1>1 DEF BudgetOK
<1>2. CASE GiveBack(c) /\ ~Owes(c)' /\ (Owes(c) <=> Counts(c))
  <2>1. charged' = charged \ {c}
    BY <1>2 DEF GiveBack
  <2>2. IsFiniteSet(charged \ {c}) /\
        Cardinality(charged \ {c}) = IF c \in charged THEN spent - 1 ELSE spent
    BY FS_RemoveElement DEF BudgetOK
  <2>3. c \in charged <=> Counts(c)
    BY <1>2 DEF BudgetOK
  <2>4. c \in charged => spent > 0
    <3>1. c \in charged => spent - 1 \in Nat
      BY <2>2, FS_CardinalityType
    <3> QED BY <1>0, <3>1 DEF BudgetOK
  <2> QED BY <1>0, <1>2, <2>1, <2>2, <2>3, <2>4 DEF BudgetOK, GiveBack
<1>3. CASE ~Owes(c) /\ Owes(c)' /\ spent' = spent + 1 /\ charged' = charged \cup {c}
  <2>1. c \notin charged
    BY <1>3 DEF BudgetOK
  <2>2. IsFiniteSet(charged \cup {c}) /\ Cardinality(charged \cup {c}) = spent + 1
    BY <2>1, FS_AddElement DEF BudgetOK
  <2> QED BY <1>0, <1>3, <2>2 DEF BudgetOK
<1> QED BY <1>1, <1>2, <1>3, ShareMoves

\* No call, no slot taken, nothing spent.
LEMMA AccountsInitially == Init => SlotsOK /\ BudgetOK
<1> SUFFICES ASSUME Init PROVE SlotsOK /\ BudgetOK
  OBVIOUS
<1>1. Running = {} /\ charged = {} /\ free = Slots /\ spent = 0
  BY DEF Init, Running
<1>2. \A c \in Calls : ~Owes(c)
  BY DEF Init, Owes
<1> QED BY <1>1, <1>2, FS_EmptySet, GatewayAssumption DEF SlotsOK, BudgetOK

\* Slots and the case's actions stay accounted for: acquire and release
\* (executor.py:401-480) come in pairs on every way out.
LEMMA AccountsStep ==
  GatewayInv /\ SlotsOK /\ BudgetOK /\ [Next]_gateway => SlotsOK' /\ BudgetOK'
<1> SUFFICES ASSUME GatewayInv, SlotsOK, BudgetOK, [Next]_gateway PROVE SlotsOK' /\ BudgetOK'
  OBVIOUS
<1>1. CASE \E c \in Calls : Acts(c)
  BY <1>1, SlotsStep, BudgetStep
<1>2. CASE (\E k \in Keys : Expires(k)) \/ Clock \/ UNCHANGED gateway
  <2>1. UNCHANGED <<shared, told, pc, want>>
    BY <1>2 DEF Expires, Clock, gateway
  <2> QED BY <2>1 DEF SlotsOK, BudgetOK, Running, Owes, Counts, Keyed, shared, told
<1> QED BY <1>1, <1>2 DEF Next, Acts

\* executor.py's finally and except clauses: whatever the fault and the way out,
\* the slots of the semaphore are all free or held by a running call, and the case
\* has spent one action for each write that did not fail.
THEOREM NoCallLeaks == Spec => []NothingLeaks
<1>1. GatewayInv /\ SlotsOK /\ BudgetOK => NothingLeaks
  BY DEF GatewayInv, GatewayType, SlotsOK, BudgetOK, NothingLeaks, Running, Owes
<1> QED BY <1>1, GatewayInductive, AccountsInitially, AccountsStep, PTL DEF Spec

\* Every variable keeps its type: the semaphore stays between none and all of its
\* slots, the case within its allowance.
THEOREM GatewayTyped == Spec => []TypeOK
<1>1. GatewayInv /\ SlotsOK => TypeOK
  <2> SUFFICES ASSUME GatewayInv, SlotsOK PROVE TypeOK
    OBVIOUS
  <2>1. free \in 0..Slots
    <3>1. free + Cardinality(Running) = Slots /\ Cardinality(Running) \in Nat /\ free \in Nat
      BY FS_CardinalityType DEF SlotsOK, GatewayInv, GatewayType
    <3> QED BY <3>1, GatewayAssumption
  <2>2. \A c \in Calls : \A i \in DOMAIN audit[c] : audit[c][i] \in Records
    <3>1. \A c \in Calls : audit[c] \in Seq(Records)
      BY DEF GatewayInv, GatewayType
    <3> QED BY <3>1
  <2> QED BY <2>1, <2>2 DEF GatewayInv, GatewayType, WireType, BreakerInv, TypeOK, Answers
<1>2. Spec => []SlotsOK
  BY AccountsInitially, AccountsStep, GatewayInductive, PTL DEF Spec
<1> QED BY <1>1, <1>2, GatewayInductive, PTL

-----------------------------------------------------------------------------
(* What a key that is held owes.                                           *)

HolderLabels == {"admit", "run", "complete", "complete_set", "release", "release_del"}

\* A reservation that still tells every repeat to wait.
Open(c, k) == entry[k] # None /\ entry[k].by = c /\ entry[k].result = None

\* The entry of a key is its holder's, unless the fallback SET took it over; a
\* release that is about to decide on what it read read its reservation open; a
\* reservation is open as long as its call holds the key.
KeyOK(c, k) ==
  /\ Holder(c, k) /\ k \notin fallback =>
       entry[k] # None /\ entry[k].by = c /\ entry[k].body = want[c].body
  /\ pc[c] = "release_del" /\ want[c].key = k /\ Open(c, k) =>
       seen[c] # None /\ seen[c].result = None
  /\ Open(c, k) => c \in lost \/ Holder(c, k)

KeyInv == \A c \in Calls, k \in Keys : KeyOK(c, k)

\* The ways of the other calls.
LEMMA OthersHold ==
  ASSUME GatewayInv, NEW c \in Calls, Acts(c), NEW d \in Calls \ {c}
  PROVE  /\ pc'[d] = pc[d] /\ want'[d] = want[d] /\ answer'[d] = answer[d] /\ audit'[d] = audit[d]
         /\ (d \in lost' <=> d \in lost)
         /\ \A k : Holder(d, k)' <=> Holder(d, k)
<1>1. /\ pc'[d] = pc[d] /\ answer'[d] = answer[d] /\ audit'[d] = audit[d]
      /\ (d \in lost' <=> d \in lost)
  BY ToldMoves DEF GatewayInv, GatewayType, Leaves, Quiet
<1> QED BY <1>1, WantMoves DEF Holder

\* A run that ends leaves a keyed call at the completion or the release.
LEMMA RunKeepsKey ==
  ASSUME GatewayInv, NEW c \in Calls, Acts(c), Keyed(c), pc[c] \in {"admit", "run"}
  PROVE  /\ pc'[c] \in {"admit", "run", "complete", "release"} \/ c \in lost'
         /\ pc'[c] = "complete" => Succeed(c) /\ effect[want[c].key] = want[c].body /\ UNCHANGED effect
<1>0. pc \in [Calls -> Labels]
  BY DEF GatewayInv, GatewayType
<1>1. CASE Admit(c)
  <2>1. attempt'[c].phase \in {"run", "error"} /\ (InFlight(c)' <=> attempt'[c].phase = "run")
    BY <1>1, AttemptMoves DEF Admit, Begin, GatewayInv, InFlight
  <2>2. CASE InFlight(c)'
    BY <1>0, <1>1, <2>2 DEF Admit
  <2>3. CASE ~InFlight(c)'
    <3>1. AfterRun(c, free - 1)
      BY <1>1, <2>3 DEF Admit
    <3> QED BY <2>1, <2>3, <3>1, RunCourse
  <2> QED BY <2>2, <2>3
<1>2. CASE Retry(c) \/ GiveUp(c)
  <2>1. AfterRun(c, free) /\ attempt'[c].phase # "ok"
    BY <1>2, AttemptMoves DEF Retry, Wake, GiveUp, GatewayInv
  <2> QED BY <2>1, RunCourse
<1>3. CASE BackendAnswers(c)
  <2>1. AfterRun(c, free) /\ UNCHANGED effect
    BY <1>3 DEF BackendAnswers
  <2>2. pc'[c] = "complete" => attempt'[c].phase = "ok" \/ pc'[c] = pc[c]
    BY <2>1, RunCourse
  <2>3. attempt'[c].phase = "ok" => Succeed(c) /\ effect[want[c].key] = want[c].body
    BY <1>3, AttemptMoves DEF BackendAnswers, GatewayInv
  <2> QED BY <2>1, <2>2, <2>3, RunCourse
<1>4. CASE Shed(c)
  BY <1>0, <1>4 DEF Shed, Goto
<1>5. CASE Land(c)
  BY <1>5 DEF Land
<1>6. CASE Crash(c) \/ Cancel(c)
  BY <1>0, <1>6 DEF Crash, Crashed, Cancel
<1> QED BY <1>1, <1>2, <1>3, <1>4, <1>5, <1>6 DEF Acts, CallStep, Authorize, Reserve, ReserveGet,
        ReserveFallback, Complete, CompleteSet, Release, ReleaseDelete, StoreFails, ReplyLost, AtStore

\* Away from the store no call comes to hold a key, and one that holds it keeps
\* it or is lost.
LEMMA HoldsOn ==
  ASSUME GatewayInv, NEW c \in Calls, Acts(c), ~StoreSteps(c)
  PROVE  /\ \A k \in Keys : Holder(c, k)' => Holder(c, k)
         /\ \A k \in Keys : Holder(c, k) => Holder(c, k)' \/ c \in lost'
         /\ pc'[c] \in {"complete_set", "release_del"} => pc'[c] = pc[c]
         /\ pc'[c] = "complete" /\ pc[c] # "complete" /\ Keyed(c) =>
              /\ pc[c] = "run" /\ effect[want[c].key] = want[c].body /\ UNCHANGED effect
<1>0. /\ pc \in [Calls -> Labels] /\ \A k \in Keys : k # None
      /\ pc[c] # "idle" => want' = want
      /\ (pc[c] = "run" <=> attempt[c].phase \in {"run", "sleep"})
  BY WantMoves, NoneAssumption DEF GatewayInv, GatewayType, CallOK
<1>1. CASE pc[c] \in {"admit", "run"} /\ Keyed(c)
  <2>1. Succeed(c) => pc[c] = "run"
    BY <1>0 DEF Succeed, InFlight
  <2>2. pc'[c] \in {"admit", "run", "complete", "release"} \/ c \in lost'
    BY <1>1, RunKeepsKey
  <2>3. pc'[c] = "complete" => Succeed(c) /\ effect[want[c].key] = want[c].body /\ UNCHANGED effect
    BY <1>1, RunKeepsKey
  <2>4. pc'[c] \notin {"complete_set", "release_del"}
    <3>1. CASE c \in lost'
      BY <3>1, CallStepOK DEF CallOK
    <3> QED BY <2>2, <3>1
  <2>5. want' = want
    BY <1>0, <1>1
  <2> QED BY <1>1, <2>1, <2>2, <2>3, <2>4, <2>5 DEF Holder
<1>2. CASE pc[c] \in {"admit", "run"} /\ ~Keyed(c)
  <2>1. want' = want /\ ~Keyed(c)'
    BY <1>0, <1>2 DEF Keyed
  <2>2. pc'[c] \notin AtStore
    BY <2>1, AtStoreMoves
  <2> QED BY <1>0, <1>2, <2>1, <2>2 DEF Holder, Keyed, AtStore
<1>3. CASE pc[c] = "idle"
  BY <1>0, <1>3, WantMoves DEF Holder, Keyed
<1>4. CASE Land(c) \/ StoreFails(c) \/ ReplyLost(c) \/ Cancel(c)
  BY <1>0, <1>4 DEF Land, StoreFails, ReplyLost, Cancel, Crashed, told, Holder
<1>5. CASE ReserveGet(c)
  <2>1. pc[c] = "reserve_get" /\ pc'[c] \in {"reserve_set", "done"}
    BY <1>0, <1>5 DEF ReserveGet, AfterReserve, Verdict, Goto, Delivered, Failed, End
  <2> QED BY <2>1 DEF Holder
<1>6. ASSUME pc[c] \notin {"idle", "admit", "run"}
      PROVE  Land(c) \/ StoreFails(c) \/ ReplyLost(c) \/ Cancel(c) \/ ReserveGet(c)
  BY <1>0, <1>6 DEF Acts, CallStep, StoreSteps, Authorize, Admit, Shed, Retry, GiveUp, BackendAnswers,
     Crash
<1> QED BY <1>1, <1>2, <1>3, <1>4, <1>5, <1>6

\* A step that leaves the store alone keeps what is owed.
LEMMA KeysElsewhere ==
  ASSUME GatewayInv, KeyInv, NEW c \in Calls, Acts(c), ~StoreSteps(c)
  PROVE  KeyInv'
<1>1. UNCHANGED <<entry, seen, fallback>>
  BY StoreStepsAlone DEF keyStore
<1>2. entry \in [Keys -> Entries \cup {None}] /\ lost \subseteq lost'
  BY ToldMoves DEF GatewayInv, GatewayType, StoresTypeOK
<1>3. pc[c] # "idle" => want' = want
  BY WantMoves
<1>4. ASSUME NEW d \in Calls, NEW k \in Keys PROVE KeyOK(d, k)'
  <2>1. KeyOK(d, k) /\ (Open(d, k)' <=> Open(d, k))
    BY <1>1 DEF KeyInv, Open
  <2>2. /\ Holder(d, k)' => Holder(d, k) /\ want'[d] = want[d]
        /\ Holder(d, k) => Holder(d, k)' \/ d \in lost'
    BY <1>3, HoldsOn, OthersHold DEF Holder
  <2>3. pc'[d] = "release_del" => pc[d] = "release_del" /\ want'[d] = want[d]
    BY <1>3, HoldsOn, OthersHold
  <2> QED BY <1>1, <1>2, <2>1, <2>2, <2>3 DEF KeyOK
<1> QED BY <1>4 DEF KeyInv

\* A step on the store is about the key of its call, and loses nobody.
LEMMA StoreStepFrame ==
  ASSUME GatewayInv, NEW c \in Calls, StoreSteps(c)
  PROVE  /\ Keyed(c) /\ want[c].key \in Keys /\ want[c].body \in Bodies /\ want' = want
         /\ pc[c] \in AtStore /\ c \notin lost /\ effect' = effect
         /\ lost' = IF ReplyLost(c) THEN lost \cup {c} ELSE lost
         /\ \A d \in Calls \ {c} : seen'[d] = seen[d]
         /\ \A k \in Keys : k # want[c].key =>
              entry'[k] = entry[k] /\ (k \in fallback' <=> k \in fallback)
         /\ fallback \subseteq fallback'
<1>1. /\ want' = want /\ pc[c] \in AtStore /\ effect' = effect
  BY DEF StoreSteps, Reserve, ReserveFallback, Complete, CompleteSet, Release, ReleaseDelete, AtStore,
     ReplyLost, world
<1>2. Keyed(c) /\ want[c].key \in Keys /\ want[c].body \in Bodies
  BY <1>1, WantFacts DEF GatewayInv, CallOK
<1>3. c \notin lost
  BY <1>1 DEF GatewayInv, CallOK, AtStore
<1>4. lost' = IF ReplyLost(c) THEN lost \cup {c} ELSE lost
  BY DEF ReplyLost, Crashed, StoreSteps, Reserve, ReserveFallback, Complete, CompleteSet, Release, ReleaseDelete,
     AfterReserve, Delivered, Failed, End, Goto, Stay, told
<1>5. /\ entry \in [Keys -> Entries \cup {None}] /\ seen \in [Calls -> Entries \cup {None}]
  BY DEF GatewayInv, GatewayType, StoresTypeOK
<1>6. /\ \A d \in Calls \ {c} : seen'[d] = seen[d]
      /\ \A k \in Keys : k # want[c].key =>
           entry'[k] = entry[k] /\ (k \in fallback' <=> k \in fallback)
      /\ fallback \subseteq fallback'
  BY <1>5 DEF StoreSteps, Reserve, ReserveFallback, Complete, CompleteSet, Release, ReleaseDelete,
     ReplyLost, MemoryReserve, SetIfAbsent, SetFallback, MemoryComplete, Get, SetResult,
     MemoryRelease, DeleteIfSeenOpen
<1> QED BY <1>1, <1>2, <1>3, <1>4, <1>6

\* What a command does to its key whose reply is lost, and that its call ends.
LEMMA LostReplyMoves ==
  ASSUME GatewayInv, NEW c \in Calls, ReplyLost(c), NEW k \in Keys, want[c].key = k
  PROVE  /\ pc'[c] = "done" /\ c \in lost'
         /\ \/ entry' = entry /\ fallback' = fallback
            \/ entry[k] = None /\ entry'[k] = Reserved(c, want[c].body) /\ fallback' = fallback
            \/ entry'[k] = Reserved(c, want[c].body) /\ k \in fallback'
            \/ /\ pc[c] = "complete_set" /\ fallback' = fallback
               /\ entry'[k] = [body |-> IF seen[c] = None THEN None ELSE seen[c].body,
                              result |-> want[c].body, by |-> c]
            \/ pc[c] = "release_del" /\ entry'[k] = None /\ fallback' = fallback
<1>0. /\ entry \in [Keys -> Entries \cup {None}] /\ pc \in [Calls -> Labels]
  BY DEF GatewayInv, GatewayType, StoresTypeOK
<1>1. pc'[c] = "done" /\ c \in lost'
  BY <1>0 DEF ReplyLost, Crashed
<1>2. CASE SetIfAbsent(c, k, want[c].body)
  BY <1>0, <1>1, <1>2 DEF SetIfAbsent, Creates
<1>3. CASE SetFallback(c, k, want[c].body)
  BY <1>0, <1>1, <1>3 DEF SetFallback
<1>4. CASE pc[c] = "complete_set" /\ SetResult(c, k, want[c].body)
  BY <1>0, <1>1, <1>4 DEF SetResult
<1>5. CASE pc[c] = "release_del" /\ DeleteIfSeenOpen(c, k)
  BY <1>0, <1>1, <1>5 DEF DeleteIfSeenOpen
<1> QED BY <1>2, <1>3, <1>4, <1>5 DEF ReplyLost

\* What a reservation does to its key.
LEMMA ReserveMoves ==
  ASSUME GatewayInv, NEW c \in Calls, Reserve(c) \/ ReserveFallback(c),
         NEW k \in Keys, want[c].key = k
  PROVE  /\ seen' = seen /\ pc[c] \in {"reserve", "reserve_set"}
         /\ \/ /\ pc'[c] = "admit" /\ entry'[k] = Reserved(c, want[c].body)
               /\ entry[k] = None \/ k \in fallback'
            \/ entry' = entry /\ fallback' = fallback /\ entry[k] # None
               /\ pc'[c] \in {"reserve_get", "done"}
<1>0. /\ entry \in [Keys -> Entries \cup {None}] /\ seen \in [Calls -> Entries \cup {None}]
      /\ pc \in [Calls -> Labels]
  BY DEF GatewayInv, GatewayType, StoresTypeOK
<1>1. CASE Reserve(c)
  <2>1. CASE entry[k] = None
    BY <1>0, <1>1, <2>1, NoneAssumption DEF Reserve, MemoryReserve, MemoryAnswer, SetIfAbsent, Creates,
       AfterReserve, Verdict, Delivered, Failed, End, Goto
  <2>2. CASE entry[k] # None
    BY <1>0, <1>1, <2>2 DEF Reserve, MemoryReserve, MemoryAnswer, SetIfAbsent, Creates,
       AfterReserve, Verdict, Delivered, Failed, End, Goto
  <2> QED BY <2>1, <2>2
<1>2. CASE ReserveFallback(c)
  BY <1>0, <1>2 DEF ReserveFallback, SetFallback, Goto
<1> QED BY <1>1, <1>2

\* What a completion does to its key.
LEMMA CompleteMoves ==
  ASSUME GatewayInv, NEW c \in Calls, Complete(c) \/ CompleteSet(c),
         NEW k \in Keys, want[c].key = k
  PROVE  /\ fallback' = fallback /\ pc[c] \in {"complete", "complete_set"}
         /\ \/ /\ pc[c] = "complete" /\ pc'[c] = "done" /\ seen' = seen
               /\ \/ entry[k] = None /\ entry'[k] = None
                  \/ entry[k] # None /\ entry'[k] = [entry[k] EXCEPT !.result = want[c].body]
            \/ entry' = entry /\ pc'[c] = "complete_set" /\ seen'[c] = entry[k]
            \/ pc[c] = "complete_set" /\ pc'[c] = "done" /\ seen'[c] = None
               /\ entry'[k] = [body |-> IF seen[c] = None THEN None ELSE seen[c].body,
                              result |-> want[c].body, by |-> c]
<1>0. /\ entry \in [Keys -> Entries \cup {None}] /\ seen \in [Calls -> Entries \cup {None}]
      /\ pc \in [Calls -> Labels]
  BY DEF GatewayInv, GatewayType, StoresTypeOK
<1>1. CASE Complete(c)
  BY <1>0, <1>1 DEF Complete, MemoryComplete, Get, Delivered, End, Goto
<1>2. CASE CompleteSet(c)
  BY <1>0, <1>2 DEF CompleteSet, SetResult, Delivered, End
<1> QED BY <1>1, <1>2

\* What a release does to its key.
LEMMA ReleaseMoves ==
  ASSUME GatewayInv, NEW c \in Calls, Release(c) \/ ReleaseDelete(c),
         NEW k \in Keys, want[c].key = k
  PROVE  /\ fallback' = fallback /\ pc[c] \in {"release", "release_del"}
         /\ entry'[k] \in {entry[k], None}
         /\ \/ pc'[c] = "done" /\ seen' = seen /\ (entry[k] # None /\ entry[k].result = None => entry'[k] = None)
            \/ entry' = entry /\ pc'[c] = "release_del" /\ seen'[c] = entry[k]
            \/ pc[c] = "release_del" /\ pc'[c] = "done" /\ seen'[c] = None
               /\ (seen[c] # None /\ seen[c].result = None => entry'[k] = None)
<1>0. /\ entry \in [Keys -> Entries \cup {None}] /\ seen \in [Calls -> Entries \cup {None}]
      /\ pc \in [Calls -> Labels]
  BY DEF GatewayInv, GatewayType, StoresTypeOK
<1>1. CASE Release(c)
  BY <1>0, <1>1 DEF Release, MemoryRelease, Get, Failed, End, Goto
<1>2. CASE ReleaseDelete(c)
  BY <1>0, <1>2 DEF ReleaseDelete, DeleteIfSeenOpen, Failed, End
<1> QED BY <1>1, <1>2

\* A step on the store keeps what is owed.
LEMMA KeysAtStore ==
  ASSUME GatewayInv, KeyInv, NEW c \in Calls, Acts(c), StoreSteps(c)
  PROVE  KeyInv'
<1>0. PICK k0 \in Keys : k0 = want[c].key
  BY StoreStepFrame
<1>1. /\ want' = want /\ lost \subseteq lost' /\ c \notin lost /\ want[c].body \in Bodies
      /\ pc[c] \in AtStore
      /\ \A d \in Calls \ {c} : seen'[d] = seen[d] /\ pc'[d] = pc[d]
      /\ \A d \in Calls \ {c}, k \in Keys : Holder(d, k)' <=> Holder(d, k)
      /\ \A k \in Keys \ {k0} : /\ entry'[k] = entry[k] /\ (k \in fallback' <=> k \in fallback)
                              /\ ~Holder(c, k) /\ ~Holder(c, k)'
      /\ fallback \subseteq fallback'
  BY <1>0, StoreStepFrame, OthersHold DEF Holder
<1>2. entry \in [Keys -> Entries \cup {None}] /\ entry' \in [Keys -> Entries \cup {None}]
  BY StoresTypeStep DEF GatewayInv, GatewayType, StoresTypeOK
<1>3. Reserved(c, want[c].body) \in Entries /\ Reserved(c, want[c].body) # None
  BY <1>1, NoneAssumption DEF Reserved, Entries
<1>4. ASSUME NEW d \in Calls, NEW k \in Keys, k # k0 PROVE KeyOK(d, k)'
  <2>1. KeyOK(d, k) /\ (Open(d, k)' <=> Open(d, k))
    BY <1>1, <1>4 DEF KeyInv, Open
  <2>2. CASE d = c
    BY <1>0, <1>1, <1>4, <2>1, <2>2 DEF KeyOK
  <2>3. CASE d # c
    BY <1>1, <1>4, <2>1, <2>3 DEF KeyOK
  <2> QED BY <2>2, <2>3
<1>5. CASE Reserve(c) \/ ReserveFallback(c)
  <2> SUFFICES ASSUME NEW d \in Calls PROVE KeyOK(d, k0)'
    BY <1>4 DEF KeyInv
  <2>0. KeyOK(d, k0)
    BY DEF KeyInv
  <2>1. CASE /\ pc'[c] = "admit" /\ entry'[k0] = Reserved(c, want[c].body)
             /\ entry[k0] = None \/ k0 \in fallback'
    <3>1. Holder(c, k0)'
      BY <1>0, <1>1, <2>1 DEF Holder
    <3>2. /\ entry'[k0] # None /\ entry'[k0].by = c /\ entry'[k0].body = want'[c].body
      BY <1>1, <1>3, <2>1 DEF Reserved
    <3> QED BY <1>1, <2>0, <2>1, <3>1, <3>2 DEF KeyOK, Open
  <2>2. CASE /\ entry' = entry /\ fallback' = fallback /\ pc'[c] \in {"reserve_get", "done"}
             /\ pc[c] \in {"reserve", "reserve_set"} /\ seen' = seen
    <3>1. ~Holder(c, k0) /\ ~Holder(c, k0)'
      BY <2>2 DEF Holder
    <3> QED BY <1>1, <2>0, <2>2, <3>1 DEF KeyOK, Open
  <2> QED BY <1>0, <1>5, <2>1, <2>2, ReserveMoves
<1>6. CASE Complete(c) \/ CompleteSet(c)
  <2> SUFFICES ASSUME NEW d \in Calls PROVE KeyOK(d, k0)'
    BY <1>4 DEF KeyInv
  <2>0. KeyOK(d, k0) /\ KeyOK(c, k0)
    BY DEF KeyInv
  <2>1. fallback' = fallback /\ Holder(c, k0) /\ want[c].body # None
    BY <1>0, <1>1, <1>6, CompleteMoves, NoneAssumption DEF Holder
  <2>2. CASE entry[k0] = None /\ entry'[k0] = None /\ pc'[c] = "done"
    <3>1. ~Holder(c, k0)'
      BY <2>2 DEF Holder
    <3> QED BY <1>1, <2>0, <2>1, <2>2, <3>1 DEF KeyOK, Open
  <2>3. CASE entry[k0] # None /\ entry'[k0] = [entry[k0] EXCEPT !.result = want[c].body]
             /\ pc'[c] = "done"
    <3>1. entry[k0] \in Entries
      BY <1>2, <2>3
    <3>2. /\ entry'[k0].by = entry[k0].by /\ entry'[k0].body = entry[k0].body
          /\ entry'[k0].result # None
      BY <2>1, <2>3, <3>1 DEF Entries
    <3>3. entry'[k0] # None
      <4>1. [entry[k0] EXCEPT !.result = want[c].body] \in Entries
        BY <1>1, <3>1 DEF Entries
      <4> QED BY <2>3, <4>1, NoneAssumption
    <3>4. ~Holder(c, k0)'
      BY <2>3 DEF Holder
    <3> QED BY <1>1, <2>0, <2>1, <2>3, <3>2, <3>3, <3>4 DEF KeyOK, Open
  <2>4. CASE entry' = entry /\ pc'[c] = "complete_set"
    <3>1. Holder(c, k0)'
      BY <1>0, <1>1, <2>4 DEF Holder
    <3> QED BY <1>1, <2>0, <2>1, <2>4, <3>1 DEF KeyOK, Open
  <2>5. CASE /\ pc'[c] = "done"
             /\ entry'[k0] = [body |-> IF seen[c] = None THEN None ELSE seen[c].body,
                             result |-> want[c].body, by |-> c]
    <3>1. ~Holder(c, k0)' /\ entry'[k0].result # None
      BY <2>1, <2>5 DEF Holder
    <3> QED BY <1>1, <2>0, <2>1, <2>5, <3>1 DEF KeyOK, Open
  <2> QED BY <1>0, <1>6, <2>2, <2>3, <2>4, <2>5, CompleteMoves
<1>7. CASE Release(c) \/ ReleaseDelete(c)
  <2> SUFFICES ASSUME NEW d \in Calls PROVE KeyOK(d, k0)'
    BY <1>4 DEF KeyInv
  <2>0. KeyOK(d, k0) /\ KeyOK(c, k0)
    BY DEF KeyInv
  <2>1. fallback' = fallback /\ Holder(c, k0) /\ entry'[k0] \in {entry[k0], None}
    BY <1>0, <1>1, <1>7, ReleaseMoves DEF Holder
  <2>2. CASE entry' = entry /\ pc'[c] = "release_del" /\ seen'[c] = entry[k0]
    <3>1. Holder(c, k0)'
      BY <1>0, <1>1, <2>2 DEF Holder
    <3> QED BY <1>1, <2>0, <2>1, <2>2, <3>1 DEF KeyOK, Open
  <2>3. CASE /\ pc'[c] = "done"
             /\ \/ entry[k0] # None /\ entry[k0].result = None => entry'[k0] = None
                \/ /\ pc[c] = "release_del"
                   /\ seen[c] # None /\ seen[c].result = None => entry'[k0] = None
    <3>1. ~Holder(c, k0)'
      BY <2>3 DEF Holder
    <3>2. ~Open(c, k0)'
      BY <1>0, <2>0, <2>1, <2>3 DEF KeyOK, Open
    <3> QED BY <1>1, <2>0, <2>1, <2>3, <3>1, <3>2 DEF KeyOK, Open
  <2> QED BY <1>0, <1>7, <2>2, <2>3, ReleaseMoves
<1>8. CASE ReplyLost(c)
  <2> SUFFICES ASSUME NEW d \in Calls PROVE KeyOK(d, k0)'
    BY <1>4 DEF KeyInv
  <2>0. KeyOK(d, k0) /\ KeyOK(c, k0) /\ want[c].body # None
    BY <1>1, NoneAssumption DEF KeyInv
  <2>1. pc'[c] = "done" /\ c \in lost' /\ ~Holder(c, k0)'
    BY <1>0, <1>8, LostReplyMoves DEF Holder
  <2>2. CASE entry' = entry /\ fallback' = fallback
    BY <1>1, <2>0, <2>1, <2>2 DEF KeyOK, Open
  <2>3. CASE /\ entry'[k0] = Reserved(c, want[c].body)
             /\ (entry[k0] = None /\ fallback' = fallback) \/ k0 \in fallback'
    <3>1. entry'[k0].by = c
      BY <2>3 DEF Reserved
    <3> QED BY <1>1, <2>0, <2>1, <2>3, <3>1 DEF KeyOK, Open
  <2>4. CASE /\ pc[c] = "complete_set" /\ fallback' = fallback
             /\ entry'[k0] = [body |-> IF seen[c] = None THEN None ELSE seen[c].body,
                             result |-> want[c].body, by |-> c]
    <3>1. Holder(c, k0) /\ entry'[k0].result # None
      BY <1>0, <2>0, <2>4 DEF Holder
    <3> QED BY <1>1, <2>0, <2>1, <2>4, <3>1 DEF KeyOK, Open
  <2>5. CASE pc[c] = "release_del" /\ entry'[k0] = None /\ fallback' = fallback
    <3>1. Holder(c, k0)
      BY <1>0, <2>5 DEF Holder
    <3> QED BY <1>1, <2>0, <2>1, <2>5, <3>1 DEF KeyOK, Open
  <2> QED BY <1>0, <1>8, <2>2, <2>3, <2>4, <2>5, LostReplyMoves
<1> QED BY <1>5, <1>6, <1>7, <1>8 DEF StoreSteps

\* No call holds a key at first, and an entry that expires is nobody's.
LEMMA KeysInitially == Init => KeyInv
BY DEF Init, StoresInit, KeyInv, KeyOK, Open, Holder

\* Every step keeps whose a key's entry is; the ttl takes no entry of a call that
\* holds one.
LEMMA KeysStep == GatewayInv /\ KeyInv /\ [Next]_gateway => KeyInv'
<1> SUFFICES ASSUME GatewayInv, KeyInv, [Next]_gateway PROVE KeyInv'
  OBVIOUS
<1>1. CASE \E c \in Calls : Acts(c)
  BY <1>1, KeysElsewhere, KeysAtStore
<1>2. ASSUME NEW k0 \in Keys, Expires(k0) PROVE KeyInv'
  <2>1. /\ UNCHANGED <<pc, want, lost, seen, fallback>> /\ entry \in [Keys -> Entries \cup {None}]
        /\ entry' = [entry EXCEPT ![k0] = None] /\ \A c \in Calls : ~Holder(c, k0)
    BY <1>2 DEF Expires, Expire, told, GatewayInv, GatewayType, StoresTypeOK
  <2> SUFFICES ASSUME NEW c \in Calls, NEW k \in Keys PROVE KeyOK(c, k)'
    BY DEF KeyInv
  <2>2. KeyOK(c, k) /\ (Holder(c, k)' <=> Holder(c, k))
    BY <2>1 DEF KeyInv, Holder
  <2>3. CASE k = k0
    BY <2>1, <2>2, <2>3 DEF KeyOK, Open
  <2>4. CASE k # k0
    BY <2>1, <2>2, <2>4 DEF KeyOK, Open
  <2> QED BY <2>3, <2>4
<1>3. CASE Clock \/ UNCHANGED gateway
  <2>1. UNCHANGED <<pc, want, lost, keyStore>>
    BY <1>3 DEF Clock, gateway, told
  <2> QED BY <2>1 DEF KeyInv, KeyOK, Open, Holder, keyStore
<1> QED BY <1>1, <1>2, <1>3 DEF Next, Acts

\* Whose a key's entry is, and which stages of a call may hold one, for any calls,
\* keys and faults, over either store (adapters/idempotency.py).
THEOREM KeysInductive == Spec => []KeyInv
  BY GatewayInductive, KeysInitially, KeysStep, PTL DEF Spec

\* idempotency.py:9-11, for any calls, keys and faults, over either store: two calls
\* run under one key only after the fallback SET of the Redis store.
THEOREM OneFlightPerKey == Spec => []SingleFlight
<1>1. KeyInv => SingleFlight
  BY DEF KeyInv, KeyOK, SingleFlight
<1> QED BY <1>1, KeysInductive, PTL

\* A key that tells every repeat to wait is held by a call that completes or releases
\* it, or its call was lost: executor.py releases it on every way out it sees.
THEOREM KeysAreNotStuck == Spec => []KeyStuckOnlyAfterFault
<1>1. GatewayInv /\ KeyInv => KeyStuckOnlyAfterFault
  <2> SUFFICES ASSUME GatewayInv, KeyInv, NEW k \in Keys, entry[k] # None, entry[k].result = None
               PROVE  entry[k].by \in lost \/ Holder(entry[k].by, k)
    BY DEF KeyStuckOnlyAfterFault
  <2>1. PICK c \in Calls : c = entry[k].by
    BY DEF GatewayInv, GatewayType, StoresTypeOK, Entries
  <2> QED BY <2>1 DEF KeyInv, KeyOK, Open
<1> QED BY <1>1, GatewayInductive, KeysInductive, PTL

-----------------------------------------------------------------------------
(* What the callers are told.                                              *)

\* What a call at its completion has done, and what it found of its entry.
WorkOK(c) ==
  /\ pc[c] \in {"complete", "complete_set"} => effect[want[c].key] = want[c].body
  /\ pc[c] = "complete_set" /\ want[c].key \notin fallback =>
       seen[c] # None /\ seen[c].body = want[c].body

\* A completed entry names what the backend did under its key.
EntryOK(k) ==
  entry[k] # None /\ entry[k].result # None =>
    /\ effect[k] # None
    /\ k \in fallback \/ (entry[k].result = effect[k] /\ entry[k].body = effect[k])

AnswerOK(c) ==
  Keyed(c) =>
    /\ answer[c].status = "ok" =>
         /\ effect[want[c].key] # None
         /\ want[c].key \in fallback \/ (answer[c].body = want[c].body
                                       /\ effect[want[c].key] = want[c].body)
    /\ \A i \in DOMAIN audit[c] : audit[c][i].executed => effect[want[c].key] # None

TruthInv == /\ \A c \in Calls : WorkOK(c) /\ AnswerOK(c)
            /\ \A k \in Keys : EntryOK(k)

\* What the backend did under a key stands.
LEMMA EffectStays ==
  ASSUME GatewayInv, NEW c \in Calls, Acts(c), NEW k \in Keys, effect[k] # None
  PROVE  effect'[k] = effect[k]
<1>1. CASE Land(c)
  BY <1>1 DEF Land, GatewayInv, GatewayType
<1>2. CASE ~Land(c)
  BY <1>2 DEF Acts, CallStep, Authorize, Reserve, ReserveGet, ReserveFallback, Admit, Shed, Retry,
     GiveUp, Complete, CompleteSet, Release, ReleaseDelete, BackendAnswers, StoreFails, ReplyLost, Crash, Cancel,
     world
<1> QED BY <1>1, <1>2

\* A way out with nothing done: the record says so, and the answer is no success.
NotExecuted(c) ==
  \E r, status : /\ r.executed = FALSE /\ status # "ok"
                 /\ audit' = [audit EXCEPT ![c] = Append(@, r)]
                 /\ answer' = [answer EXCEPT ![c] = [status |-> status, body |-> None]]

\* A keyed call is told of a success by a replay of the entry of its key, or at its
\* completion.
LEMMA KeyedIsTold ==
  ASSUME GatewayInv, NEW c \in Calls, Acts(c), Keyed(c)'
  PROVE  \/ answer'[c] = answer[c] /\ audit'[c] = audit[c]
         \/ /\ answer'[c].status # "ok"
            /\ \A i \in DOMAIN audit'[c] : ~audit'[c][i].executed
         \/ /\ pc[c] \in {"complete", "complete_set"}
            /\ answer'[c].status = "ok" => answer'[c].body = want[c].body
         \/ /\ pc[c] \in {"reserve", "reserve_get"}
            /\ entry[want[c].key] # None /\ entry[want[c].key].result # None
            /\ entry[want[c].key].body = want[c].body
            /\ answer'[c].status = "ok" => answer'[c].body = entry[want[c].key].result
<1>0. /\ GatewayType /\ CallOK(c) /\ answer \in [Calls -> Answers] /\ audit \in [Calls -> Seq(Records)]
      /\ entry \in [Keys -> Entries \cup {None}]
      /\ pc[c] # "idle" => Keyed(c) /\ want[c].key \in Keys
  BY WantMoves, WantFacts DEF GatewayInv, GatewayType, StoresTypeOK, Keyed
<1>1. ASSUME NotExecuted(c), pc[c] # "done"
      PROVE  /\ answer'[c].status # "ok"
             /\ \A i \in DOMAIN audit'[c] : ~audit'[c][i].executed
  <2>1. PICK r, status : /\ r.executed = FALSE /\ status # "ok"
                         /\ audit' = [audit EXCEPT ![c] = Append(@, r)]
                         /\ answer' = [answer EXCEPT ![c] = [status |-> status, body |-> None]]
    BY <1>1 DEF NotExecuted
  <2>2. audit'[c] = Append(audit[c], r) /\ answer'[c].status = status
    BY <1>0, <2>1
  <2>3. audit[c] \in Seq(Records) /\ Len(audit[c]) = 0
    BY <1>0, <1>1 DEF CallOK
  <2> QED BY <2>1, <2>2, <2>3
<1>2. ASSUME NEW body, NEW deduplicated, Delivered(c, body, deduplicated)
      PROVE  answer'[c].status = "ok" => answer'[c].body = body
  <2>1. \/ answer' = [answer EXCEPT ![c] = [status |-> "ok", body |-> body]]
        \/ answer' = [answer EXCEPT ![c] = [status |-> "blocked", body |-> None]]
    BY <1>2 DEF Delivered, End
  <2> QED BY <1>0, <2>1
<1>3. ASSUME Failed(c) \/ Crashed(c), pc[c] # "done"
      PROVE  /\ answer'[c].status # "ok"
             /\ \A i \in DOMAIN audit'[c] : ~audit'[c][i].executed
  <2>1. PICK r : r = Record("accepted", "failure", FALSE)
    OBVIOUS
  <2>2. /\ r.executed = FALSE /\ audit' = [audit EXCEPT ![c] = Append(@, r)]
        /\ answer' = [answer EXCEPT ![c] = [status |-> "failed", body |-> None]]
    BY <1>3, <2>1 DEF Failed, End, Crashed, Record
  <2>3. NotExecuted(c)
    BY <2>2 DEF NotExecuted
  <2> QED BY <1>1, <1>3, <2>3
<1>4. CASE Authorize(c)
  <2>1. pc[c] = "idle"
    BY <1>4 DEF Authorize
  <2>2. CASE End(c, Record("rejected", "not_executed", FALSE), "denied", None)
    <3>1. PICK r : r = Record("rejected", "not_executed", FALSE)
      OBVIOUS
    <3>2. r.executed = FALSE
      BY <3>1 DEF Record
    <3>3. NotExecuted(c)
      BY <2>2, <3>1, <3>2 DEF NotExecuted, End
    <3> QED BY <1>1, <2>1, <3>3
  <2>3. CASE ~End(c, Record("rejected", "not_executed", FALSE), "denied", None)
    BY <1>4, <2>3 DEF Authorize, Goto, Stay, told
  <2> QED BY <2>2, <2>3
<1>5. CASE Reserve(c) \/ ReserveGet(c)
  <2>1. pc[c] \in {"reserve", "reserve_get"} /\ Keyed(c) /\ want[c].key \in Keys
    BY <1>0, <1>5 DEF Reserve, ReserveGet
  <2>2. PICK k \in Keys : k = want[c].key
    BY <2>1
  <2>3. \/ answer' = answer /\ audit' = audit
        \/ \E verdict : AfterReserve(c, verdict, IF entry[k] = None THEN None ELSE entry[k].result)
             /\ (verdict = "completed" => entry[k] # None /\ Verdict(entry[k], want[c].body) = "completed")
    BY <1>5, <2>2 DEF Reserve, ReserveGet, MemoryAnswer, Goto, Stay, told
  <2>4. CASE answer' = answer /\ audit' = audit
    BY <2>4
  <2>5. ASSUME NEW verdict, AfterReserve(c, verdict, IF entry[k] = None THEN None ELSE entry[k].result),
               verdict = "completed" => entry[k] # None /\ Verdict(entry[k], want[c].body) = "completed"
        PROVE  \/ answer'[c] = answer[c] /\ audit'[c] = audit[c]
               \/ /\ answer'[c].status # "ok"
                  /\ \A i \in DOMAIN audit'[c] : ~audit'[c][i].executed
               \/ /\ entry[k] # None /\ entry[k].result # None
                  /\ entry[k].body = want[c].body
                  /\ answer'[c].status = "ok" => answer'[c].body = entry[k].result
    <3>1. CASE Failed(c)
      BY <1>3, <2>1, <3>1
    <3>2. CASE verdict = "completed"
      <4>1. entry[k] # None /\ entry[k].body = want[c].body /\ entry[k].result # None
        BY <2>5, <3>2 DEF Verdict
      <4>2. Delivered(c, entry[k].result, TRUE)
        BY <2>5, <3>2, <4>1 DEF AfterReserve
      <4> QED BY <1>2, <4>1, <4>2
    <3>3. CASE verdict = "new"
      BY <2>5, <3>3 DEF AfterReserve, Goto, Stay, told
    <3> QED BY <2>5, <3>1, <3>2, <3>3 DEF AfterReserve
  <2> QED BY <2>1, <2>2, <2>3, <2>4, <2>5
<1>6. CASE Complete(c)
  <2>1. pc[c] = "complete" /\ (Delivered(c, want[c].body, FALSE) \/ Goto(c, "complete_set"))
    BY <1>6 DEF Complete
  <2> QED BY <1>2, <2>1 DEF Goto, Stay, told
<1>7. CASE CompleteSet(c)
  BY <1>2, <1>7 DEF CompleteSet
<1>8. CASE Admit(c) \/ Retry(c) \/ GiveUp(c) \/ BackendAnswers(c)
  <2>1. pc[c] \in {"admit", "run"} /\ Keyed(c)
    BY <1>0, <1>8 DEF Admit, Retry, GiveUp, BackendAnswers
  <2>2. \A held : AfterRun(c, held) => UNCHANGED told
    BY <2>1 DEF AfterRun, Goto, Stay
  <2>3. UNCHANGED told
    BY <1>8, <2>2 DEF Admit, Retry, GiveUp, BackendAnswers, Stay
  <2> QED BY <2>3 DEF told
<1>9. CASE Release(c) \/ ReleaseDelete(c) \/ Shed(c)
  <2>1. pc[c] # "done" /\ (Failed(c) \/ UNCHANGED told)
    BY <1>9 DEF Release, ReleaseDelete, Shed, Goto, Stay
  <2> QED BY <1>3, <2>1 DEF told
<1>10. CASE StoreFails(c) \/ ReplyLost(c) \/ Crash(c)
  <2>1. pc[c] # "done" /\ Crashed(c)
    BY <1>10 DEF StoreFails, ReplyLost, Crash, AtStore
  <2> QED BY <1>3, <2>1
<1>11. CASE ReserveFallback(c) \/ Land(c) \/ Cancel(c)
  BY <1>11 DEF ReserveFallback, Land, Cancel, Goto, Stay, told
<1> QED BY <1>4, <1>5, <1>6, <1>7, <1>8, <1>9, <1>10, <1>11 DEF Acts, CallStep

\* The truth of what the calls were told, and of what the entries say.
LEMMA TruthActs ==
  ASSUME GatewayInv, GatewayType', KeyInv, TruthInv, NEW c \in Calls, Acts(c)
  PROVE  TruthInv'
<1>0. /\ GatewayType /\ GatewayType' /\ fallback \subseteq fallback'
      /\ entry \in [Keys -> Entries \cup {None}] /\ None \notin Bodies
  BY StoreStepFrame, StoreStepsAlone, NoneAssumption
  DEF GatewayInv, GatewayType, StoresTypeOK, keyStore
<1>1. \A d \in Calls \ {c} : WorkOK(d)' /\ AnswerOK(d)'
  <2> SUFFICES ASSUME NEW d \in Calls \ {c} PROVE WorkOK(d)' /\ AnswerOK(d)'
    OBVIOUS
  <2>1. /\ WorkOK(d) /\ AnswerOK(d) /\ pc'[d] = pc[d] /\ want'[d] = want[d]
        /\ answer'[d] = answer[d] /\ audit'[d] = audit[d]
    BY OthersHold DEF TruthInv
  <2>2. seen'[d] = seen[d]
    BY StoreStepFrame, StoreStepsAlone DEF keyStore
  <2>3. CASE ~Keyed(d)
    <3>1. pc[d] \notin {"complete", "complete_set"}
      BY <2>3 DEF GatewayInv, CallOK, AtStore
    <3> QED BY <2>1, <2>3, <3>1 DEF WorkOK, AnswerOK, Keyed
  <2>4. CASE Keyed(d)
    <3>1. PICK k \in Keys : k = want[d].key /\ want[d].body \in Bodies
      BY <1>0, <2>4, WantFacts
    <3>2. effect[k] # None => effect'[k] = effect[k]
      BY EffectStays
    <3> QED BY <1>0, <2>1, <2>2, <2>4, <3>1, <3>2 DEF WorkOK, AnswerOK, Keyed
  <2> QED BY <2>3, <2>4
<1>2. WorkOK(c)'
  <2>1. CASE StoreSteps(c)
    <3>1. PICK k \in Keys : /\ k = want[c].key /\ want' = want /\ effect' = effect
                            /\ (Holder(c, k) <=> pc[c] \in HolderLabels)
      BY <2>1, StoreStepFrame DEF Holder, HolderLabels
    <3>2. CASE Complete(c) \/ CompleteSet(c)
      <4>1. CASE pc'[c] = "complete_set"
        <5>1. entry' = entry /\ seen'[c] = entry[k] /\ fallback' = fallback
              /\ pc[c] \in {"complete", "complete_set"}
          BY <3>1, <3>2, <4>1, CompleteMoves
        <5>2. k \notin fallback => entry[k] # None /\ entry[k].body = want[c].body
          BY <3>1, <5>1 DEF KeyInv, KeyOK, HolderLabels
        <5> QED BY <3>1, <5>1, <5>2 DEF WorkOK, TruthInv
      <4>2. CASE pc'[c] # "complete_set"
        <5>1. pc'[c] = "done"
          BY <3>1, <3>2, <4>2, CompleteMoves
        <5> QED BY <5>1 DEF WorkOK
      <4> QED BY <4>1, <4>2
    <3>3. CASE ~(Complete(c) \/ CompleteSet(c))
      <4>1. pc'[c] \notin {"complete", "complete_set"}
        BY <2>1, <3>1, <3>3, ReserveMoves, ReleaseMoves, LostReplyMoves DEF StoreSteps
      <4> QED BY <4>1 DEF WorkOK
    <3> QED BY <3>2, <3>3
  <2>2. CASE ~StoreSteps(c)
    <3> SUFFICES ASSUME pc'[c] \in {"complete", "complete_set"} PROVE WorkOK(c)'
      BY DEF WorkOK
    <3>1. Keyed(c)' /\ pc[c] # "idle"
      BY AtStoreMoves, WantMoves DEF AtStore
    <3>2. want' = want /\ Keyed(c) /\ seen' = seen /\ fallback' = fallback
      BY <2>2, <3>1, WantMoves, StoreStepsAlone DEF Keyed, keyStore
    <3>3. PICK k \in Keys : k = want[c].key /\ want[c].body \in Bodies
      BY <1>0, <3>2, WantFacts
    <3>4. effect[k] = want[c].body
      BY <2>2, <3>2, <3>3, HoldsOn DEF WorkOK, TruthInv
    <3>5. effect'[k] = want[c].body
      BY <1>0, <3>3, <3>4, EffectStays
    <3>6. pc'[c] = "complete_set" => pc[c] = "complete_set"
      BY <2>2, HoldsOn
    <3> QED BY <3>2, <3>3, <3>5, <3>6 DEF WorkOK, TruthInv
  <2> QED BY <2>1, <2>2
<1>3. AnswerOK(c)'
  <2> SUFFICES ASSUME Keyed(c)' PROVE AnswerOK(c)'
    BY DEF AnswerOK
  <2>1. CASE pc[c] = "idle"
    <3>1. \/ answer'[c] = answer[c] /\ audit'[c] = audit[c]
          \/ answer'[c].status # "ok" /\ \A i \in DOMAIN audit'[c] : ~audit'[c][i].executed
      BY <2>1, KeyedIsTold
    <3>2. answer[c].status # "ok" /\ DOMAIN audit[c] = {}
      <4>1. answer[c] = NoAnswer /\ Len(audit[c]) = 0 /\ audit[c] \in Seq(Records)
        BY <2>1 DEF GatewayInv, GatewayType, CallOK
      <4> QED BY <4>1 DEF NoAnswer
    <3> QED BY <3>1, <3>2 DEF AnswerOK
  <2>2. CASE pc[c] # "idle"
    <3>1. want' = want /\ Keyed(c)
      BY <2>2, WantMoves DEF Keyed
    <3>2. PICK k \in Keys : k = want[c].key /\ want[c].body \in Bodies
      BY <1>0, <3>1, WantFacts
    <3>3. effect[k] # None => effect'[k] = effect[k]
      BY EffectStays
    <3>4. CASE answer'[c] = answer[c] /\ audit'[c] = audit[c]
      BY <1>0, <3>1, <3>2, <3>3, <3>4 DEF AnswerOK, TruthInv
    <3>5. CASE answer'[c].status # "ok" /\ \A i \in DOMAIN audit'[c] : ~audit'[c][i].executed
      BY <3>5 DEF AnswerOK
    <3>6. CASE /\ pc[c] \in {"complete", "complete_set"}
               /\ answer'[c].status = "ok" => answer'[c].body = want[c].body
      <4>1. effect'[k] = want[c].body /\ effect'[k] # None
        BY <1>0, <3>2, <3>3, <3>6 DEF WorkOK, TruthInv
      <4> QED BY <3>1, <3>2, <3>6, <4>1 DEF AnswerOK
    <3>7. CASE /\ entry[k] # None /\ entry[k].result # None /\ entry[k].body = want[c].body
               /\ answer'[c].status = "ok" => answer'[c].body = entry[k].result
      <4>1. /\ effect'[k] # None
            /\ k \in fallback' \/ (entry[k].result = effect'[k] /\ entry[k].body = effect'[k])
        BY <1>0, <3>3, <3>7 DEF EntryOK, TruthInv
      <4> QED BY <3>1, <3>2, <3>7, <4>1 DEF AnswerOK
    <3> QED BY <3>2, <3>4, <3>5, <3>6, <3>7, KeyedIsTold
  <2> QED BY <2>1, <2>2
<1>4. ASSUME NEW k \in Keys PROVE EntryOK(k)'
  <2>1. EntryOK(k) /\ (effect[k] # None => effect'[k] = effect[k])
    BY EffectStays DEF TruthInv
  <2>2. CASE entry'[k] \in {entry[k], None}
    BY <1>0, <2>1, <2>2 DEF EntryOK
  <2>3. CASE entry'[k] \notin {entry[k], None}
    <3>1. StoreSteps(c) /\ k = want[c].key
      BY <2>3, StoreStepsAlone, StoreStepFrame DEF keyStore
    <3>2. effect' = effect /\ want[c].body \in Bodies
      BY <3>1, StoreStepFrame
    <3>3. CASE Reserve(c) \/ ReserveFallback(c)
      <4>1. entry'[k] = Reserved(c, want[c].body) \/ entry' = entry
        BY <3>1, <3>3, ReserveMoves
      <4>2. entry'[k].result = None
        BY <2>3, <4>1 DEF Reserved
      <4> QED BY <4>2 DEF EntryOK
    <3>4. CASE Complete(c) \/ CompleteSet(c)
      <4>1. /\ fallback' = fallback /\ pc[c] \in {"complete", "complete_set"}
            /\ effect[k] = want[c].body
        BY <3>1, <3>4, CompleteMoves DEF TruthInv, WorkOK
      <4>2. k \notin fallback => entry[k] # None /\ entry[k].body = want[c].body
        BY <3>1, <4>1 DEF KeyInv, KeyOK, Holder
      <4>3. CASE entry[k] # None /\ entry'[k] = [entry[k] EXCEPT !.result = want[c].body]
        <5>1. entry[k] \in Entries
          BY <1>0, <4>3
        <5>2. entry'[k].result = want[c].body /\ entry'[k].body = entry[k].body
          BY <4>3, <5>1 DEF Entries
        <5> QED BY <1>0, <3>2, <4>1, <4>2, <5>2 DEF EntryOK
      <4>4. CASE /\ pc[c] = "complete_set"
                 /\ entry'[k] = [body |-> IF seen[c] = None THEN None ELSE seen[c].body,
                                result |-> want[c].body, by |-> c]
        <5>1. k \notin fallback => seen[c] # None /\ seen[c].body = want[c].body
          BY <3>1, <4>4 DEF TruthInv, WorkOK
        <5> QED BY <1>0, <3>2, <4>1, <4>4, <5>1 DEF EntryOK
      <4> QED BY <2>3, <3>1, <3>4, <4>3, <4>4, CompleteMoves
    <3>5. CASE Release(c) \/ ReleaseDelete(c)
      BY <2>3, <3>1, <3>5, ReleaseMoves
    <3>6. CASE ReplyLost(c)
      <4>1. CASE entry'[k] = Reserved(c, want[c].body)
        BY <4>1 DEF EntryOK, Reserved
      <4>2. CASE /\ pc[c] = "complete_set" /\ fallback' = fallback
                 /\ entry'[k] = [body |-> IF seen[c] = None THEN None ELSE seen[c].body,
                                result |-> want[c].body, by |-> c]
        <5>1. /\ effect[k] = want[c].body
              /\ k \notin fallback => seen[c] # None /\ seen[c].body = want[c].body
          BY <3>1, <4>2 DEF TruthInv, WorkOK
        <5> QED BY <1>0, <3>2, <4>2, <5>1 DEF EntryOK
      <4> QED BY <2>3, <3>1, <3>6, <4>1, <4>2, LostReplyMoves
    <3> QED BY <3>1, <3>3, <3>4, <3>5, <3>6 DEF StoreSteps
  <2> QED BY <2>2, <2>3
<1> QED BY <1>1, <1>2, <1>3, <1>4 DEF TruthInv

\* Nothing is told at first, and neither time nor an expiry tells anything.
LEMMA TruthInitially == Init => TruthInv
<1> SUFFICES ASSUME Init PROVE TruthInv
  OBVIOUS
<1>1. \A c \in Calls : ~Keyed(c) /\ pc[c] = "idle"
  BY DEF Init, Keyed, NoWant
<1>2. \A k \in Keys : entry[k] = None
  BY DEF Init, StoresInit
<1> QED BY <1>1, <1>2 DEF TruthInv, WorkOK, AnswerOK, EntryOK

\* Every step keeps what answers, records and completed entries say of the backend's
\* work.
LEMMA TruthStep == GatewayInv /\ GatewayInv' /\ KeyInv /\ TruthInv /\ [Next]_gateway => TruthInv'
<1> SUFFICES ASSUME GatewayInv, GatewayInv', KeyInv, TruthInv, [Next]_gateway PROVE TruthInv'
  OBVIOUS
<1>1. CASE \E c \in Calls : Acts(c)
  BY <1>1, TruthActs DEF GatewayInv
<1>2. CASE (\E k \in Keys : Expires(k)) \/ Clock \/ UNCHANGED gateway
  <2>1. UNCHANGED <<pc, want, seen, fallback, effect, audit, answer>>
    BY <1>2 DEF Expires, Expire, Clock, gateway, keyStore, world, told
  <2>2. \A k \in Keys : entry'[k] \in {entry[k], None}
    BY <1>2 DEF Expires, Expire, Clock, gateway, keyStore, GatewayInv, GatewayType, StoresTypeOK
  <2>3. \A c \in Calls : WorkOK(c)' /\ AnswerOK(c)'
    BY <2>1 DEF TruthInv, WorkOK, AnswerOK, Keyed
  <2>4. \A k \in Keys : EntryOK(k)'
    BY <2>1, <2>2 DEF TruthInv, EntryOK
  <2> QED BY <2>3, <2>4 DEF TruthInv
<1> QED BY <1>1, <1>2 DEF Next, Acts

\* Whoever is told that a write succeeded, in a replay too, asked for what the backend
\* carried out under that key (executor.py's replay of a completed entry), save
\* after the fallback SET; a record that says executed is true.
THEOREM ToolAnswersAreTrue == Spec => []AnswersAreTrue
<1>1. TruthInv => AnswersAreTrue
  BY DEF TruthInv, AnswerOK, AnswersAreTrue
<1> QED BY <1>1, GatewayInductive, KeysInductive, TruthInitially, TruthStep, PTL DEF Spec
=============================================================================
