------------------------------ MODULE Reports ------------------------------
(***************************************************************************)
(* What the tools server says about itself: the counters and histograms the *)
(* executor writes (observability/metrics.py, api/executor.py), the         *)
(* indicators computed from them (kpi.py) and the verdicts on the           *)
(* objectives (slo.py).  Calls run side by side and a report may be read    *)
(* between two increments of one call.                                     *)
(*                                                                         *)
(* A series is its labels.  Durations are numbers, and Edges the upper      *)
(* edges of the buckets; a ratio is a pair, compared by cross               *)
(* multiplication.                                                         *)
(***************************************************************************)
EXTENDS Integers, Sequences, FiniteSets, FiniteSetsExt, SequencesExt, Bags

CONSTANTS Tools,        \* registered tools
          MadeUp,       \* names no tool has, that a denied call may carry
          Codes,        \* error codes of denials and failures
          Edges,        \* DEFAULT_BUCKETS
          Times,        \* how long a call may take
          MaxSeries,    \* _MAX_SERIES
          MinSample,    \* minimum_sample
          AtLeastPart,  \* the success objective, a pair
          AtMostTime,   \* the latency objective
          Phi,          \* the quantile of it, a pair
          MaxReported   \* bound: calls and attempts

ASSUME ReportsAssumption ==
  /\ Edges # <<>> /\ \A i, j \in DOMAIN Edges : i < j => Edges[i] < Edges[j]
  /\ Edges \in Seq(Int) /\ Times \subseteq Int /\ AtMostTime \in Int
  /\ MaxSeries \in Nat /\ MinSample \in Nat \ {0}
  /\ AtLeastPart[1] \in Nat /\ AtLeastPart[2] \in Nat \ {0}
  /\ Phi[1] \in Nat \ {0} /\ Phi[2] \in Nat \ {0}

VARIABLES collected,  \* tool_calls_total: bag of series
          timed,      \* tool_duration_seconds: tool -> counts per bucket
          tried,      \* backend_attempts_total: bag of series
          blocked,    \* guardrail_decisions_total: bag of series
          happened    \* history: the calls that ended, and the attempts made

reports == <<collected, timed, tried, blocked, happened>>

TerminalOutcomes == {"ok", "deduplicated", "failed", "denied", "guardrail_blocked"}
AnsweredCalls == {"ok", "deduplicated"}
CallStages == {"input", "output_secret"}

ReportsInit ==
  /\ collected = EmptyBag /\ tried = EmptyBag /\ blocked = EmptyBag
  /\ timed = [t \in {} |-> <<>>]
  /\ happened = [calls |-> EmptyBag, attempts |-> EmptyBag]

\* A count is a number of occurrences: a bag holds the n-th of an element for
\* every n up to its copies.
Occurrences(bag) == UNION {{k} \X (1..bag[k]) : k \in DOMAIN bag}

\* _sum_by and _sum_by_pair
SumWhere(bag, Picks(_)) == Cardinality({o \in Occurrences(bag) : Picks(o[1])})

-----------------------------------------------------------------------------
(* The registry                                                            *)

\* Mutant: any label set is taken.
HasRoomAlways(series, key) == TRUE

\* A label set beyond the limit is refused, without a word.
HasRoom(series, key) == key \in series \/ Cardinality(series) < MaxSeries
Increment(bag, key) == IF HasRoom(DOMAIN bag, key) THEN bag (+) SetToBag({key}) ELSE bag

BucketOf(time) ==
  IF \E i \in DOMAIN Edges : time <= Edges[i]
  THEN Min({i \in DOMAIN Edges : time <= Edges[i]}) ELSE Len(Edges) + 1

NoCounts == [i \in 1..Len(Edges) + 1 |-> 0]
Observe(tool, time) ==
  IF HasRoom(DOMAIN timed, tool)
  THEN [t \in DOMAIN timed \cup {tool} |->
          LET counts == IF t \in DOMAIN timed THEN timed[t] ELSE NoCounts IN
          IF t = tool THEN [counts EXCEPT ![BucketOf(time)] = @ + 1] ELSE counts]
  ELSE timed

-----------------------------------------------------------------------------
(* What the executor records                                               *)

Within == BagCardinality(happened.calls) + BagCardinality(happened.attempts) < MaxReported

\* The label of a denial or a failure; any other outcome has one code, or none.
NoCode == "none"

RunCall(tool, outcome, code, time) ==
  [tool |-> tool, outcome |-> outcome, code |-> code, time |-> time]
Counted(tool, outcome, code) ==
  collected' = Increment(collected, [tool |-> tool, outcome |-> outcome, code |-> code])
Happens(call) == happened' = [happened EXCEPT !.calls = @ (+) SetToBag({call})]

\* _record_denial: the name is the caller's, of a tool or not.
RecordDenial(name, code) ==
  /\ Within
  /\ Counted(name, "denied", code) /\ Happens(RunCall(name, "denied", code, 0))
  /\ UNCHANGED <<timed, tried, blocked>>

\* _record_guardrail_block, on the way in or out.
RecordGuardrailBlock(tool, stage) ==
  /\ Within
  /\ Counted(tool, "guardrail_blocked", NoCode)
  /\ Happens(RunCall(tool, "guardrail_blocked", NoCode, 0))
  /\ blocked' = Increment(blocked, [tool |-> tool, stage |-> stage])
  /\ UNCHANGED <<timed, tried>>

\* _record_success: a replay took no time to speak of.
RecordSuccess(tool, outcome, time) ==
  /\ Within /\ (outcome = "deduplicated" => time = 0)
  /\ Counted(tool, outcome, NoCode) /\ Happens(RunCall(tool, outcome, NoCode, time))
  /\ timed' = Observe(tool, time)
  /\ UNCHANGED <<tried, blocked>>

\* _record_failure: the duration is not observed, however long it was.
RecordFailure(tool, code) ==
  /\ Within
  /\ Counted(tool, "failed", code) /\ Happens(RunCall(tool, "failed", code, 0))
  /\ UNCHANGED <<timed, tried, blocked>>

\* _admit_and_run: the semaphore is taken; the call waits, and may yet be
\* admitted.
CountShed(tool) ==
  /\ BagCardinality(collected) < MaxReported + 1
  /\ Counted(tool, "shed", NoCode)
  /\ UNCHANGED <<timed, tried, blocked, happened>>

\* on_attempt: the attempts of a call are numbered from 0 (reliability.py:140).
OnAttempt(tool, n) ==
  /\ Within
  /\ n > 0 => SumWhere(happened.attempts, LAMBDA a : a = [tool |-> tool, stage |-> n - 1])
               > SumWhere(happened.attempts, LAMBDA a : a = [tool |-> tool, stage |-> n])
  /\ tried' = Increment(tried, [tool |-> tool, stage |-> n])
  /\ happened' = [happened EXCEPT !.attempts = @ (+) SetToBag({[tool |-> tool, stage |-> n]})]
  /\ UNCHANGED <<collected, timed, blocked>>

ReportsNext ==
  \/ \E name \in Tools \cup MadeUp, code \in Codes : RecordDenial(name, code)
  \/ \E tool \in Tools :
       \/ \E stage \in CallStages : RecordGuardrailBlock(tool, stage)
       \/ \E outcome \in AnsweredCalls, time \in Times : RecordSuccess(tool, outcome, time)
       \/ \E code \in Codes : RecordFailure(tool, code)
       \/ CountShed(tool)
       \/ \E n \in 0..1 : OnAttempt(tool, n)

ReportsSpec == ReportsInit /\ [][ReportsNext]_reports

-----------------------------------------------------------------------------
(* build_kpi_report, over one snapshot                                     *)

ByOutcome(outcomes) == SumWhere(collected, LAMBDA k : k.outcome \in outcomes)

\* Mutant: a call that waited counts once more.
TerminalWithPressure == ByOutcome(TerminalOutcomes \cup {"shed"})

Terminal == ByOutcome(TerminalOutcomes)

\* A ratio of nothing is zero.
Ratio(numerator, denominator) == IF denominator = 0 THEN <<0, 1>> ELSE <<numerator, denominator>>
SuccessRatio == Ratio(ByOutcome(AnsweredCalls), Terminal)

Completed(tool) == SumWhere(collected, LAMBDA k : k.tool = tool /\ k.outcome = "ok")
OutputBlocks == SumWhere(blocked, LAMBDA k : k.stage = "output_secret")

\* _merge_histograms: counts of every tool, up to a bucket.
Timings == UNION {UNION {{<<t, j>>} \X (1..timed[t][j]) : j \in DOMAIN timed[t]} : t \in DOMAIN timed}
Cumulative(i) == Cardinality({o \in Timings : o[1][2] <= i})
Observations == Cumulative(Len(Edges) + 1)

\* The upper edge of the bucket the quantile falls in; the last one for
\* whatever lies above it.
Quantile ==
  LET reached == {i \in DOMAIN Edges : Cumulative(i) * Phi[2] >= Phi[1] * Observations} IN
  IF Observations = 0 THEN 0 ELSE IF reached = {} THEN Last(Edges) ELSE Edges[Min(reached)]

OverBudget == Observations - Cumulative(Len(Edges))

\* _evaluate: too small a sample is neither met nor missed.
Judged(sample, good) == IF sample < MinSample THEN "unknown" ELSE IF good THEN "met" ELSE "missed"
SuccessVerdict ==
  Judged(Terminal, SuccessRatio[1] * AtLeastPart[2] >= AtLeastPart[1] * SuccessRatio[2])
LatencyVerdict == Judged(Observations, Quantile <= AtMostTime)

-----------------------------------------------------------------------------
ReportsTypeOK ==
  /\ IsABag(collected) /\ Cardinality(DOMAIN collected) <= MaxSeries
  /\ IsABag(tried) /\ IsABag(blocked)
  /\ DOMAIN timed \subseteq Tools /\ \A t \in DOMAIN timed : timed[t] \in Seq(Nat)

Ended(outcomes) == SumWhere(happened.calls, LAMBDA c : c.outcome \in outcomes)
Took(outcomes, Fits(_)) ==
  SumWhere(happened.calls, LAMBDA c : c.outcome \in outcomes /\ Fits(c.time))

\* No series was refused for want of room.
NothingRefused ==
  /\ \A c \in DOMAIN happened.calls :
       /\ [tool |-> c.tool, outcome |-> c.outcome, code |-> c.code] \in DOMAIN collected
       /\ c.outcome \in AnsweredCalls => c.tool \in DOMAIN timed
  /\ \A a \in DOMAIN happened.attempts : a \in DOMAIN tried

\* kpi.py:298 "One call produces exactly one of these", slo.py:53-56 and the rest:
\* unless a series was refused, the verdict on the success of calls is the one
\* the calls deserve, whatever waits were counted besides; a latency
\* objective is met only if enough of the answered calls kept it, and missed
\* only if too few stayed within the last edge below it (an objective between
\* two edges is judged as the lower one); a sample that is too small gets no
\* verdict; the calls over budget are the answered ones that were.  And with a
\* series refused, no count exceeds what happened.
ReportIsTrue ==
  LET answered == Ended(AnsweredCalls)
      fast == Took(AnsweredCalls, LAMBDA time : time <= AtMostTime)
      below == {Edges[i] : i \in {i \in DOMAIN Edges : Edges[i] <= AtMostTime}}
      sure == Took(AnsweredCalls, LAMBDA time : \E e \in below : time <= e) IN
  /\ Terminal <= Ended(TerminalOutcomes) /\ Observations <= answered
  /\ OutputBlocks <= Ended({"guardrail_blocked"})
  /\ NothingRefused =>
       /\ SuccessVerdict =
            IF Ended(TerminalOutcomes) < MinSample THEN "unknown"
            ELSE IF answered * AtLeastPart[2] >= AtLeastPart[1] * Ended(TerminalOutcomes)
                 THEN "met" ELSE "missed"
       /\ OverBudget = Took(AnsweredCalls, LAMBDA time : time > Last(Edges))
       /\ (LatencyVerdict = "unknown") = (answered < MinSample)
       /\ LatencyVerdict = "met" /\ AtMostTime < Last(Edges) =>
            fast * Phi[2] >= Phi[1] * answered
       /\ LatencyVerdict = "missed" => sure * Phi[2] < Phi[1] * answered
       /\ \A tool \in Tools :
            Completed(tool) = SumWhere(happened.calls,
                                       LAMBDA c : c.tool = tool /\ c.outcome = "ok")
=============================================================================
