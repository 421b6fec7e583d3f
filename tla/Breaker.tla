------------------------------ MODULE Breaker ------------------------------
(***************************************************************************)
(* Retries and the circuit breaker of the tools server: several calls of   *)
(* call_with_reliability share one CircuitBreaker (adapters/reliability.py).*)
(* A call is a process; it gives up control while the backend works and    *)
(* while it sleeps between two attempts, and any outcome of another call   *)
(* may reach the breaker in between.                                       *)
(*                                                                         *)
(* Time is discrete.  The code compares a clock with stored instants; here *)
(* each instant is kept as the time left to it or gone since it, which     *)
(* keeps the state finite without a bound on the clock: opened is the time *)
(* since _opened_at (counted up to ResetTimeout, beyond which the code     *)
(* makes no difference), budget the time left to a call's deadline.        *)
(***************************************************************************)
EXTENDS Integers, FiniteSets

CONSTANTS Calls,         \* the tool calls
          Threshold,     \* failure_threshold
          ResetTimeout,  \* reset_timeout_s
          Timeout,       \* timeout_s: the budget of a call, all attempts together
          Attempts,      \* policy.attempts + 1: attempts of a call safe to repeat
          Delays         \* what delay_for may answer

\* config/settings.py: each is above zero, and nothing relates Timeout to
\* ResetTimeout (10 s and 30 s by default).
ASSUME BreakerAssumption ==
  /\ Threshold \in Nat \ {0}
  /\ ResetTimeout \in Nat \ {0}
  /\ Timeout \in Nat \ {0}
  /\ Attempts \in Nat \ {0}
  /\ Delays \subseteq Nat

VARIABLES failures,   \* _failures, counted up to Threshold
          opened,     \* NotOpen, or the time since _opened_at
          probing,    \* _half_open_in_flight
          attempt,    \* call -> where it stands in call_with_reliability
          abandoned   \* history: a probe left the breaker without an outcome

NotOpen == -1  \* _opened_at is None

breaker == <<failures, opened, probing>>
reliability == <<breaker, attempt, abandoned>>

Phases == {"idle", "run", "sleep", "ok", "error"}
Attempting == [phase : Phases, left : 0..Attempts, budget : 0..Timeout,
               wake : Nat, probe : BOOLEAN]
AtRest(phase) == [phase |-> phase, left |-> 0, budget |-> 0, wake |-> 0, probe |-> FALSE]
NotCalled == AtRest("idle")

ReliabilityInit ==
  /\ failures = 0
  /\ opened = NotOpen
  /\ probing = FALSE
  /\ attempt = [c \in Calls |-> NotCalled]
  /\ abandoned = FALSE

State == IF opened = NotOpen THEN "closed"
         ELSE IF opened >= ResetTimeout THEN "half_open" ELSE "open"

InFlight(c) == attempt[c].phase = "run"

-----------------------------------------------------------------------------
(* The breaker                                                             *)

\* Mutant: the flag is set and never looked at.
AdmitsEveryProbe == State # "open"

Admits == State = "closed" \/ (State = "half_open" /\ ~probing)

OnSuccess == failures' = 0 /\ opened' = NotOpen /\ probing' = FALSE

\* Mutant: the probe that fails leaves the flag up.
OnFailureKeepsFlag ==
  /\ failures' = IF failures < Threshold THEN failures + 1 ELSE Threshold
  /\ opened' = IF failures' >= Threshold THEN 0 ELSE opened
  /\ UNCHANGED probing

OnFailure ==
  /\ probing' = FALSE
  /\ failures' = IF failures < Threshold THEN failures + 1 ELSE Threshold
  /\ opened' = IF failures' >= Threshold THEN 0 ELSE opened

-----------------------------------------------------------------------------
(* call_with_reliability                                                   *)

\* The call has its result, or an exception: which one is told apart by the
\* action, not kept.
Ended(c, how) == [attempt EXCEPT ![c] = AtRest(how)]

\* The top of the loop: the budget is looked at, then the breaker is asked,
\* then the backend is called.
TryAttempt(c, budget, left) ==
  /\ IF budget = 0
     THEN attempt' = Ended(c, "error") /\ UNCHANGED probing
     ELSE IF ~Admits
          THEN attempt' = Ended(c, "error") /\ UNCHANGED probing
          ELSE /\ probing' = (probing \/ State = "half_open")
               /\ attempt' = [attempt EXCEPT ![c] =
                    [phase |-> "run", left |-> left - 1, budget |-> budget, wake |-> 0,
                     probe |-> State = "half_open"]]
  /\ UNCHANGED <<failures, opened, abandoned>>

Begin(c, retrySafe) ==
  /\ attempt[c].phase = "idle"
  /\ TryAttempt(c, Timeout, IF retrySafe THEN Attempts ELSE 1)

\* asyncio.sleep lasts at least the delay.
Wake(c) ==
  /\ attempt[c].phase = "sleep" /\ attempt[c].wake = 0
  /\ TryAttempt(c, attempt[c].budget, attempt[c].left)

Succeed(c) ==
  /\ InFlight(c)
  /\ OnSuccess
  /\ attempt' = Ended(c, "ok")
  /\ UNCHANGED abandoned

\* An error of the taxonomy that is not retryable: the backend answered.
Refuse(c) ==
  /\ InFlight(c)
  /\ OnSuccess
  /\ attempt' = Ended(c, "error")
  /\ UNCHANGED abandoned

\* BackendTimeoutError or BackendError, a malformed response included.
Fail(c) ==
  /\ InFlight(c)
  /\ OnFailure
  /\ \/ /\ attempt[c].left = 0 \/ \E d \in Delays : d >= attempt[c].budget
        /\ attempt' = Ended(c, "error")
     \/ /\ attempt[c].left > 0
        /\ \E d \in Delays :
             /\ d < attempt[c].budget
             /\ attempt' = [attempt EXCEPT ![c].phase = "sleep", ![c].wake = d]
  /\ UNCHANGED abandoned

\* wait_for gives up: the deadline has come.
TimeOut(c) ==
  /\ InFlight(c) /\ attempt[c].budget = 0
  /\ OnFailure
  /\ attempt' = Ended(c, "error")
  /\ UNCHANGED abandoned

\* The call is cancelled, or an exception outside the taxonomy escapes: neither
\* on_success nor on_failure runs.
Abandon(c) ==
  /\ attempt[c].phase \in {"run", "sleep"}
  /\ attempt' = Ended(c, "error")
  /\ abandoned' = (abandoned \/ (InFlight(c) /\ attempt[c].probe))
  /\ UNCHANGED breaker

\* One unit of time.  The event loop runs a timer that is due before time
\* goes on; a sleeper may be late.
Minus1(n) == IF n = 0 THEN 0 ELSE n - 1
Elapse ==
  /\ \A c \in Calls : InFlight(c) => attempt[c].budget > 0
  /\ attempt' = [c \in Calls |-> [attempt[c] EXCEPT
                    !.budget = Minus1(@), !.wake = Minus1(@)]]
  /\ opened' = IF opened = NotOpen THEN NotOpen
               ELSE IF opened < ResetTimeout THEN opened + 1 ELSE ResetTimeout
  /\ UNCHANGED <<failures, probing, abandoned>>

\* The caller takes the answer; another call may use the same slot.
Return(c) ==
  /\ attempt[c].phase \in {"ok", "error"}
  /\ attempt' = [attempt EXCEPT ![c] = NotCalled]
  /\ UNCHANGED <<breaker, abandoned>>

ReliabilityStep(c) ==
  \/ \E safe \in BOOLEAN : Begin(c, safe)
  \/ Wake(c) \/ Succeed(c) \/ Refuse(c) \/ Fail(c) \/ TimeOut(c) \/ Abandon(c) \/ Return(c)

ReliabilityNext == Elapse \/ \E c \in Calls : ReliabilityStep(c)

ReliabilitySafety == ReliabilityInit /\ [][ReliabilityNext]_reliability

-----------------------------------------------------------------------------
(* Properties                                                              *)

ReliabilityTypeOK ==
  /\ failures \in 0..Threshold
  /\ opened \in 0..ResetTimeout \cup {NotOpen}
  /\ probing \in BOOLEAN
  /\ attempt \in [Calls -> Attempting]
  /\ abandoned \in BOOLEAN

\* The call has run since before the breaker opened, ResetTimeout ago.
Straggles(c) == attempt[c].budget + ResetTimeout <= Timeout

\* reliability.py:67 "it half-opens and lets exactly one call through": of two
\* attempts in flight while the breaker is half open one at least was let
\* through before it opened.
OneProbe ==
  State = "half_open" =>
    \A c, d \in Calls : InFlight(c) /\ InFlight(d) /\ c # d => Straggles(c) \/ Straggles(d)

\* reliability.py:68 "that call decides whether it closes again or reopens": a
\* half-open breaker closes or reopens by the outcome of a call in flight that it
\* let through as its probe.  So it is where Timeout < ResetTimeout; elsewhere a
\* call of before the opening may decide.
ProbeDecides ==
  [][State = "half_open" /\ State' # "half_open" =>
       \E c \in Calls : InFlight(c) /\ attempt[c].probe /\ ~InFlight(c)']_reliability

\* A breaker whose probe flag is up refuses everybody: there must be a probe
\* in flight that will take it down, unless a probe was abandoned.
ProbeIsOwned ==
  probing => abandoned \/ \E c \in Calls : InFlight(c) /\ attempt[c].probe

\* A breaker that refuses everybody comes to admit a call: the open time
\* passes, and a probe that holds the half-open breaker to itself ends, by its
\* deadline at the latest; unless a probe was abandoned (reliability.py:97-109).
BreakerRecovers == ~Admits ~> Admits \/ abandoned
=============================================================================
