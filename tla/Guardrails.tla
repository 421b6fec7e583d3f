----------------------------- MODULE Guardrails -----------------------------
(***************************************************************************)
(* The two guardrails that count, as GuardrailPipeline.check_input asks    *)
(* them: the rate of a caller first, the budget of its actions last.  They  *)
(* share no state; each is a component of its own.                         *)
(***************************************************************************)
EXTENDS RateLimiter, ActionBudget

GuardsSpec == LimiterSpec /\ BudgetSpec

\* The two guardrails that count keep their word: the rate of one caller
\* (rate_limit.py:8-10) and the actions of one subject (budget.py:11-13).
GuardsHold == RateIsExact /\ BudgetIsKept
=============================================================================
