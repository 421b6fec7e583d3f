-------------------------------- MODULE Cases --------------------------------
(***************************************************************************)
(* Voice cases (api/routes/cases.py): every turn of a call, and every       *)
(* resumption, reads a case outside the transaction and writes the whole    *)
(* document back inside one.  Between the two, other turns commit.          *)
(*                                                                         *)
(* A turn is a request; its step, if it has one, is named after it and      *)
(* names a tool, so tools_invoked is the steps; handed_over is left out.    *)
(* What the audit records say is left to WritePath: here they can make the  *)
(* transaction fail.  One customer, one tenant.                             *)
(***************************************************************************)
EXTENDS Integers, FiniteSets, Sequences, SequencesExt

CONSTANTS Turns,     \* requests
          CaseIds,
          MaxSteps,  \* MAX_STEPS
          Asks,      \* what a turn may ask for
          NoCase     \* no document

Statuses == {"active", "interrupted", "closed"}
AskTypes == [op : {"upsert"}, case : CaseIds, status : Statuses, step : BOOLEAN,
             consent : BOOLEAN]
            \cup {[op |-> "resume"]}

ASSUME CasesAssumption ==
  /\ MaxSteps \in Nat \ {0} /\ Asks \subseteq AskTypes
  /\ NoCase \notin [status : Statuses, updated : Nat, steps : Seq(Turns), tools : Nat,
                    consent : BOOLEAN, closed : BOOLEAN]

VARIABLES case,      \* case id -> its document, or NoCase
          turn,      \* request -> where it stands, and what it will write
          lately,    \* how many requests have taken the time: the clock
          turnTold,  \* case id -> the status its last event gave
          commits    \* history: case id -> the turns that committed, in order

cases == <<case, turn, lately, turnTold, commits>>

AnyCase == CHOOSE k \in CaseIds : TRUE
Standing(at) == [at |-> at, id |-> AnyCase, missed |-> {}, event |-> FALSE,
                 step |-> FALSE, next |-> NoCase]

CasesInit ==
  /\ case = [k \in CaseIds |-> NoCase]
  /\ turn = [t \in Turns |-> Standing("idle")]
  /\ lately = 0
  /\ turnTold = [k \in CaseIds |-> "none"]
  /\ commits = [k \in CaseIds |-> <<>>]

-----------------------------------------------------------------------------
(* What a turn makes of the document it read                               *)

\* Mutant: the window keeps the oldest steps.
OldestWindow(steps) == SubSeq(steps, 1, IF Len(steps) > MaxSteps THEN MaxSteps ELSE Len(steps))

Window(steps) == IF Len(steps) > MaxSteps
                 THEN SubSeq(steps, Len(steps) - MaxSteps + 1, Len(steps)) ELSE steps

Upserted(t, ask, read) ==
  LET old == IF read = NoCase
             THEN [steps |-> <<>>, tools |-> 0, consent |-> FALSE] ELSE read
  IN  [status |-> ask.status, updated |-> lately + 1,
       steps |-> IF ask.step THEN Window(Append(old.steps, t)) ELSE old.steps,
       tools |-> IF ask.step THEN old.tools + 1 ELSE old.tools,
       consent |-> ask.consent \/ old.consent,
       closed |-> ask.status = "closed"]

Resumed(read) == [read EXCEPT !.status = "active", !.updated = lately + 1]

-----------------------------------------------------------------------------
Holds(t, id, next, event, step) ==
  /\ turn' = [turn EXCEPT ![t] =
       [at |-> "write", id |-> id, missed |-> {}, event |-> event, step |-> step, next |-> next]]
  /\ lately' = lately + 1
  /\ UNCHANGED <<case, turnTold, commits>>

Done(t) == [turn EXCEPT ![t] = Standing("done")]

\* An event is due when the status differs from the one that was read.
Upsert(t) ==
  /\ turn[t].at = "idle"
  /\ \E ask \in Asks :
       /\ ask.op = "upsert"
       /\ LET read == case[ask.case] IN
          Holds(t, ask.case, Upserted(t, ask, read),
                read = NoCase \/ read.status # ask.status, ask.step)

\* find_resumable: the interrupted case that was updated last, or 404.
Interrupted == {k \in CaseIds : case[k] # NoCase /\ case[k].status = "interrupted"}
Resumable(k) ==
  k \in Interrupted /\ \A j \in Interrupted : case[j].updated <= case[k].updated

Resume(t) ==
  /\ turn[t].at = "idle"
  /\ \E ask \in Asks : ask.op = "resume"
  /\ \/ \E k \in CaseIds : Resumable(k) /\ Holds(t, k, Resumed(case[k]), TRUE, FALSE)
     \/ /\ Interrupted = {}
        /\ turn' = Done(t) /\ lately' = lately + 1
        /\ UNCHANGED <<case, turnTold, commits>>

\* The transaction begins: the document is replaced, or inserted when there is
\* none; one that another open transaction wrote is a conflict.
Write(t) ==
  /\ turn[t].at = "write"
  /\ turn' = IF \E u \in Turns : turn[u].at = "commit" /\ turn[u].id = turn[t].id
             THEN Done(t) ELSE [turn EXCEPT ![t].at = "commit"]
  /\ UNCHANGED <<case, lately, turnTold, commits>>

Commit(t) ==
  /\ turn[t].at = "commit"
  /\ LET k == turn[t].id  next == turn[t].next IN
     /\ case' = [case EXCEPT ![k] = next]
     /\ turnTold' = IF turn[t].event THEN [turnTold EXCEPT ![k] = next.status] ELSE turnTold
     /\ commits' = [commits EXCEPT ![k] =
          Append(@, [by |-> t, step |-> turn[t].step, consent |-> next.consent,
                     missed |-> turn[t].missed])]
     \* those that hold a read of this case have not seen this turn
     /\ turn' = [u \in Turns |->
          IF u = t THEN Standing("done")
          ELSE IF turn[u].at = "write" /\ turn[u].id = k
               THEN [turn[u] EXCEPT !.missed = @ \cup {t}] ELSE turn[u]]
  /\ UNCHANGED lately

\* The audit record or the event cannot be written: everything is undone.
Abort(t) ==
  /\ turn[t].at = "commit"
  /\ turn' = Done(t)
  /\ UNCHANGED <<case, lately, turnTold, commits>>

CasesNext ==
  \E t \in Turns : Upsert(t) \/ Resume(t) \/ Write(t) \/ Commit(t) \/ Abort(t)
CasesSpec == CasesInit /\ [][CasesNext]_cases

-----------------------------------------------------------------------------
Documents == [status : Statuses, updated : 1..Cardinality(Turns),
              steps : BoundedSeq(Turns, MaxSteps), tools : 0..Cardinality(Turns),
              consent : BOOLEAN, closed : BOOLEAN]

CasesTypeOK ==
  /\ case \in [CaseIds -> Documents \cup {NoCase}]
  /\ turn \in [Turns -> [at : {"idle", "write", "commit", "done"}, id : CaseIds,
                         missed : SUBSET Turns, event : BOOLEAN, step : BOOLEAN,
                         next : Documents \cup {NoCase}]]
  /\ lately \in 0..Cardinality(Turns)
  /\ turnTold \in [CaseIds -> Statuses \cup {"none"}]

Steps(k) == {i \in DOMAIN commits[k] : commits[k][i].step}
Lost(k) == UNION {commits[k][i].missed : i \in DOMAIN commits[k]}
Kept(k, i) == commits[k][i].by \notin Lost(k)

\* cases.py:3-9: a case is updated at every turn so that a call can be resumed.
\* A step that committed is in the document, or MaxSteps later ones are, unless a
\* turn that had read the case before it was written over it; the same for the
\* consent; and as long as no turn was overtaken the count of tool steps and the
\* status events agree with the document.
TurnsAddUp ==
  \A k \in CaseIds : case[k] # NoCase =>
    LET doc == case[k] IN
    /\ \A i \in Steps(k) : Kept(k, i) =>
         \/ Contains(doc.steps, commits[k][i].by)
         \/ /\ Len(doc.steps) = MaxSteps
            /\ \A n \in DOMAIN doc.steps :
                 \E j \in Steps(k) : j > i /\ commits[k][j].by = doc.steps[n]
    /\ \A i \in DOMAIN commits[k] : Kept(k, i) /\ commits[k][i].consent => doc.consent
    /\ doc.closed = (doc.status = "closed")
    /\ Lost(k) = {} => doc.tools = Cardinality(Steps(k)) /\ turnTold[k] = doc.status
=============================================================================
