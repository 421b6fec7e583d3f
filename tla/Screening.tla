------------------------------ MODULE Screening ------------------------------
(***************************************************************************)
(* What the tools server lets in, lets out and writes down.  The arguments of *)
(* a call pass the content guardrails (limits, unicode_safety, injection,   *)
(* business); the answer is redacted (observability/redaction.py), stored   *)
(* under the call's key, and looked at once more (guardrails/output.py);    *)
(* log lines and audit records are redacted by the stricter rules.  The     *)
(* policy may change with a restart while a stored answer stays.            *)
(*                                                                         *)
(* A document is a set of leaves: the path to a text and the recognisable   *)
(* parts of it.  A step of a path is a field, named by the class of its     *)
(* name, or the item of a list (at its place, from 1).                      *)
(***************************************************************************)
EXTENDS Integers, Sequences, FiniteSets, FiniteSetsExt

CONSTANTS MaxDepth,          \* redaction._MAX_DEPTH
          MaxItems,          \* redaction._MAX_SEQUENCE_ITEMS
          MaxArgumentDepth,  \* max_argument_depth, and one width for
          MaxArgumentWidth,  \* max_object_keys and max_array_items
          Horizon,           \* callback_horizon_days
          Ceiling,           \* refund_ceiling
          Policies,          \* output policies: [scan, size]
          Calls,             \* arguments: [doc, date, amount]
          Refused,           \* documents of calls authorization refuses
          Rows,              \* documents the backend answers
          NoPayload,
          MaxDays            \* bound of the clock

Leaves == [path : Seq([name : STRING, at : Nat]), text : SUBSET STRING]

ASSUME ScreeningAssumption ==
  /\ {MaxDepth, MaxItems, MaxArgumentDepth, MaxArgumentWidth, Horizon, MaxDays} \subseteq Nat
  /\ \A p \in Policies : p.scan \in BOOLEAN /\ p.size \in Nat
  /\ \A doc \in Rows \cup Refused \cup {call.doc : call \in Calls} : doc \subseteq Leaves

VARIABLES day,         \* the clock
          policy,      \* the output policy of the running process
          completed,   \* the call the key belongs to and its stored answer, or NoPayload
          done,        \* history: the writes the backend carried out, with the day
          toldCaller,  \* the last answer that went out, with the policy in force
          line         \* the last document written to a log

screening == <<day, policy, completed, done, toldCaller, line>>

Field(name) == [name |-> name, at |-> 0]
Item(n) == [name |-> "item", at |-> n]

\* What the patterns recognise.  A card is a digit run that passes Luhn; a
\* secret named in passing leaves its name behind when it is removed.
Everywhere == {"token", "digits", "card", "named"}
Contacts == {"email", "phone"}
AfterRedaction == {"token", "card", "keyed", "name left behind"}

Removing(inLogs) ==
  {"never disclosed"} \cup (IF inLogs THEN {"reference", "contact"} ELSE {})

-----------------------------------------------------------------------------
(* The redactor                                                            *)

Scrubbed(text, inLogs) ==
  (text \ (Everywhere \cup (IF inLogs THEN Contacts ELSE {})))
    \cup (IF "named" \in text THEN {"name left behind"} ELSE {})

\* _walk, _field: the first step that ends the walk, if there is one, takes the
\* place of all that lies below.
RedactedLeaf(leaf, inLogs) ==
  LET steps == leaf.path
      ends == {i \in DOMAIN steps : \/ i > MaxDepth
                                    \/ steps[i].name \in Removing(inLogs)
                                    \/ steps[i].at > MaxItems}
      first == Min(ends)
      last == [steps[first] EXCEPT !.at = Min({@, MaxItems + 1})]
  IN  IF ends = {} THEN [leaf EXCEPT !.text = Scrubbed(@, inLogs)]
      ELSE [path |-> Append(SubSeq(steps, 1, first - 1), last), text |-> {"marker"}]

Redacted(doc, inLogs) == {RedactedLeaf(leaf, inLogs) : leaf \in doc}

ASSUME NoPayloadAssumption ==
  \A call \in Calls, row \in Rows : NoPayload # [call |-> call, payload |-> Redacted(row, FALSE)]

-----------------------------------------------------------------------------
(* The content guardrails                                                  *)

\* check_arguments: the arguments themselves are at depth 1.
Children(doc, parent) ==
  {SubSeq(leaf.path, 1, Len(parent) + 1) :
     leaf \in {l \in doc : Len(l.path) > Len(parent) /\ SubSeq(l.path, 1, Len(parent)) = parent}}
Parents(doc) == UNION {{SubSeq(leaf.path, 1, i - 1) : i \in DOMAIN leaf.path} : leaf \in doc}
CheckArguments(doc) ==
  /\ \A leaf \in doc : Len(leaf.path) + 1 <= MaxArgumentDepth /\ "control" \notin leaf.text
  /\ \A parent \in Parents(doc) : Cardinality(Children(doc, parent)) <= MaxArgumentWidth

CheckUnicodeSafety(doc) == \A leaf \in doc : "hidden" \notin leaf.text
CheckForInjection(doc) == \A leaf \in doc : "instruction" \notin leaf.text

CheckBusinessRules(call) ==
  /\ call.date \in day..day + Horizon
  /\ call.amount <= Ceiling

CheckContent(call) ==
  /\ CheckArguments(call.doc) /\ CheckUnicodeSafety(call.doc)
  /\ CheckForInjection(call.doc) /\ CheckBusinessRules(call)

\* check_output: too large, or a secret whatever it is called.
CheckOutput(payload) ==
  /\ Cardinality(payload) <= policy.size
  /\ policy.scan => \A leaf \in payload : leaf.text \cap AfterRedaction = {}

-----------------------------------------------------------------------------
(* Calls                                                                   *)

Silence == [payload |-> {}, under |-> policy]

ScreeningInit ==
  /\ day = 0 /\ policy \in Policies
  /\ completed = NoPayload /\ done = {}
  /\ toldCaller = Silence /\ line = {}

Logged(doc) == line' = Redacted(doc, TRUE)

\* A payload goes out whole or not at all.
AnsweredWith(payload) ==
  toldCaller' = IF CheckOutput(payload) THEN [payload |-> payload, under |-> policy] ELSE Silence

\* _record_denial: the arguments were never validated.
DeniedWith(doc) ==
  /\ Logged(doc) /\ toldCaller' = Silence
  /\ UNCHANGED <<day, policy, completed, done>>

\* Refused by a guardrail, or under the key of another call.
Blocked(call) ==
  /\ \/ ~CheckContent(call)
     \/ completed # NoPayload /\ completed.call # call
  /\ Logged(call.doc) /\ toldCaller' = Silence
  /\ UNCHANGED <<day, policy, completed, done>>

\* Mutant: only what was told is stored.
StoredOnceTold(call, payload) ==
  completed' = IF CheckOutput(payload) THEN [call |-> call, payload |-> payload] ELSE NoPayload

\* _execute_authorized: stored before the output check, which may withhold it.
StoredResult(call, payload) == completed' = [call |-> call, payload |-> payload]

Written(call, row) ==
  /\ CheckContent(call) /\ completed = NoPayload
  /\ done' = done \cup {[call |-> call, on |-> day, turn |-> Cardinality(done)]}
  /\ LET payload == Redacted(row, FALSE) IN StoredResult(call, payload) /\ AnsweredWith(payload)
  /\ Logged(call.doc)
  /\ UNCHANGED <<day, policy>>

\* _reserve: a completed key; the stored answer is checked again.
Replayed(call) ==
  /\ CheckContent(call) /\ completed # NoPayload /\ completed.call = call
  /\ AnsweredWith(completed.payload)
  /\ Logged(call.doc)
  /\ UNCHANGED <<day, policy, completed, done>>

\* A tool without a key.
ReadRow(row) ==
  /\ AnsweredWith(Redacted(row, FALSE))
  /\ Logged(row)
  /\ UNCHANGED <<day, policy, completed, done>>

\* The store is shared; the process comes back with a policy of its own.
Redeployed ==
  /\ policy' \in Policies \ {policy}
  /\ UNCHANGED <<day, completed, done, toldCaller, line>>

DayPasses ==
  /\ day < MaxDays /\ day' = day + 1
  /\ UNCHANGED <<policy, completed, done, toldCaller, line>>

ScreeningNext ==
  \/ \E doc \in Refused : DeniedWith(doc)
  \/ \E call \in Calls :
       Blocked(call) \/ Replayed(call) \/ \E row \in Rows : Written(call, row)
  \/ \E row \in Rows : ReadRow(row)
  \/ Redeployed \/ DayPasses

ScreeningSpec == ScreeningInit /\ [][ScreeningNext]_screening

-----------------------------------------------------------------------------
ScreeningTypeOK ==
  /\ day \in 0..MaxDays /\ policy \in Policies /\ toldCaller.under \in Policies
  /\ \A d \in done : d.call \in Calls /\ d.on \in 0..day

HoldsText(doc, parts) == \E leaf \in doc : leaf.text \cap parts # {}
Bare(doc, names) ==
  \E leaf \in doc :
    leaf.text # {"marker"} /\ \E i \in DOMAIN leaf.path : leaf.path[i].name \in names

\* redaction.py:3-12, output.py:3-5, executor.py:192-196 and :226-228: whatever
\* the policy was when an answer was stored, what goes out holds nothing the
\* redactor removes, fits the policy of the process that sends it and, when that
\* policy scans, holds nothing it calls a secret; log lines name no customer and
\* no contact besides; and a caller who retries a write whose answer was withheld
\* does not have it carried out again.  What was carried out kept the clock's
\* rules on the day.
ScreensHold ==
  /\ ~HoldsText(toldCaller.payload, Everywhere) /\ ~Bare(toldCaller.payload, {"never disclosed"})
  /\ Cardinality(toldCaller.payload) <= toldCaller.under.size
  /\ toldCaller.under.scan => ~HoldsText(toldCaller.payload, AfterRedaction)
  /\ ~HoldsText(line, Everywhere \cup Contacts) /\ ~Bare(line, Removing(TRUE))
  /\ Cardinality(done) <= 1
  /\ \A d \in done : d.call.date \in d.on..d.on + Horizon /\ d.call.amount <= Ceiling
=============================================================================
