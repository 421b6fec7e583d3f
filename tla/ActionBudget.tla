---------------------------- MODULE ActionBudget ----------------------------
(***************************************************************************)
(* The budget of consequential actions (guardrails/budget.py): the last     *)
(* input guardrail, and the only one that records something.  A call        *)
(* reserves an action, runs for a while, and gives the reservation back if  *)
(* it failed: the most recent one, which need not be its own.              *)
(*                                                                         *)
(* Instants are kept as ages.  server.py names no case, so the scope of a   *)
(* reservation is the subject.                                             *)
(***************************************************************************)
EXTENDS OrderedTable, FiniteSets

CONSTANTS Subjects,
          Actions,       \* calls of tools that count against the budget, numbered
          Allowance,     \* write_actions_per_case
          BudgetWindow,  \* action_budget_window_s
          SlowestWrite,  \* the time a call may take
          MaxSubjects    \* max_tracked

ASSUME ActionBudgetAssumption ==
  /\ Allowance \in Nat \ {0} /\ MaxSubjects \in Nat \ {0}
  /\ BudgetWindow \in Nat /\ SlowestWrite \in Nat /\ SlowestWrite <= BudgetWindow
  /\ Actions \subseteq Nat

VARIABLES spent,    \* [who, ages of its reservations, oldest first], coldest first
          action,   \* call -> where it stands, and its age
          dropped,  \* history: subjects the table forgot
          swapped   \* history: subjects of whom a call gave back a later one's

actionBudget == <<spent, action, dropped, swapped>>

NoAction == [at |-> "idle", by |-> CHOOSE s \in Subjects : TRUE, age |-> 0]

BudgetInit ==
  /\ spent = <<>>
  /\ action = [c \in Actions |-> NoAction]
  /\ dropped = {} /\ swapped = {}

LeastSubject(a, b) == IF a < b THEN a ELSE b

\* Mutant: the window starts anew at its end instead of rolling.
WithinWindowReset(ages) ==
  IF ages # <<>> /\ Head(ages) > BudgetWindow THEN <<>> ELSE ages

\* while spent and spent[0] < cutoff: popleft
Expired(ages) ==
  CHOOSE n \in 0..Len(ages) : /\ \A i \in 1..n : ages[i] > BudgetWindow
                              /\ n < Len(ages) => ages[n + 1] <= BudgetWindow
WithinWindow(ages) == SubSeq(ages, Expired(ages) + 1, Len(ages))

AgesOf(s) == IF HasRow(spent, s) THEN spent[RowAt(spent, s)].ages ELSE <<>>
Reserved(s) == WithinWindow(AgesOf(s))
Exhausted(s) == Len(Reserved(s)) >= Allowance

\* The reservations of a subject that asks for one more.
Charged(s) ==
  [who |-> s, ages |-> IF Exhausted(s) THEN Reserved(s) ELSE Append(Reserved(s), 0)]

\* Calls are alike: the next one takes the first free name.
NextFree(c) == action[c].at = "idle" /\ \A d \in Actions : action[d].at = "idle" => c <= d

CheckBudget(c, s) ==
  /\ NextFree(c)
  /\ spent' = Latest(spent, Charged(s), MaxSubjects)
  /\ dropped' = dropped \cup (Names(spent) \ Names(spent'))
  /\ action' = IF Exhausted(s) THEN action
               ELSE [action EXCEPT ![c] = [at |-> "running", by |-> s, age |-> 0]]
  /\ UNCHANGED swapped

Succeeds(c) ==
  /\ action[c].at = "running"
  /\ action' = [action EXCEPT ![c].at = "done"]
  /\ UNCHANGED <<spent, dropped, swapped>>

GivenBack(s) ==
  [i \in DOMAIN spent |->
     IF spent[i].who = s /\ spent[i].ages # <<>> THEN [spent[i] EXCEPT !.ages = Front(@)]
     ELSE spent[i]]

Later(c, d) == /\ action[d].at # "idle" /\ action[d].by = action[c].by
               /\ action[d].age < action[c].age

\* release: the action did not happen.
GiveBack(c) ==
  /\ action[c].at = "running"
  /\ spent' = GivenBack(action[c].by)
  /\ action' = [action EXCEPT ![c] = NoAction]
  /\ swapped' = IF \E d \in Actions : Later(c, d) THEN swapped \cup {action[c].by} ELSE swapped
  /\ UNCHANGED dropped

\* One unit of time; an action older than the window is of no more interest.
ActionsAge ==
  /\ \A c \in Actions : action[c].at = "running" => action[c].age < SlowestWrite
  /\ spent' = [i \in DOMAIN spent |-> [spent[i] EXCEPT
                 !.ages = [j \in DOMAIN @ |-> LeastSubject(@[j] + 1, BudgetWindow + 1)]]]
  /\ action' = [c \in Actions |->
       IF action[c].at = "idle" \/ (action[c].age = BudgetWindow /\ action[c].at = "done")
       THEN NoAction
       ELSE [action[c] EXCEPT !.age = @ + 1]]
  /\ UNCHANGED <<dropped, swapped>>

BudgetNext ==
  \/ ActionsAge
  \/ \E c \in Actions : Succeeds(c) \/ GiveBack(c) \/ \E s \in Subjects : CheckBudget(c, s)
BudgetSpec == BudgetInit /\ [][BudgetNext]_actionBudget

-----------------------------------------------------------------------------
BudgetTypeOK ==
  /\ Len(spent) <= MaxSubjects
  /\ \A i \in DOMAIN spent : /\ spent[i].who \in Subjects
                             /\ Len(spent[i].ages) <= Allowance
                             /\ \A j \in DOMAIN spent[i].ages : spent[i].ages[j] \in 0..BudgetWindow + 1
  /\ action \in [Actions -> [at : {"idle", "running", "done"}, by : Subjects,
                           age : 0..BudgetWindow]]
  /\ dropped \subseteq Subjects /\ swapped \subseteq Subjects

\* budget.py:11-13 "The window rolls": at no moment has a subject more actions
\* in the last window, running or done, than it is allowed, and none is reserved
\* that was given back - unless the table forgot it, or a call that failed gave
\* back the reservation of one that began after it.
Recent(s) == {c \in Actions : action[c].at # "idle" /\ action[c].by = s}
BudgetIsKept ==
  \A s \in Subjects \ (dropped \cup swapped) :
    /\ Cardinality(Recent(s)) <= Allowance
    /\ Len(Reserved(s)) = Cardinality(Recent(s))
=============================================================================
