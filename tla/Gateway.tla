------------------------------ MODULE Gateway ------------------------------
(***************************************************************************)
(* ToolExecutor.execute: the one path of a tool call (api/executor.py),    *)
(* many calls at once, over the idempotency store, the circuit breaker,    *)
(* the admission semaphore, the action budget and the audit log they       *)
(* share.  One action per await; what the code does between two awaits is  *)
(* part of the action before it.                                           *)
(*                                                                         *)
(* The backend is the middleware: a request it received may be carried out *)
(* late, after the caller gave up (wire), and a keyed write is carried out *)
(* once (what that promise is worth is WritePath's subject).               *)
(***************************************************************************)
EXTENDS Breaker, Sequences

CONSTANTS Keys,       \* scoped idempotency keys
          Bodies,     \* request fingerprints
          None,       \* no key, no body, no entry
          Stores,     \* the stores a run considers
          Slots,      \* max_concurrent_calls
          Allowance,  \* write_actions_per_case; the calls share one case
          Wants,      \* what a call may ask for
          Faults      \* which faults may strike

FaultNames == {"cancel", "store", "expire", "crash"}
\* "refund" is request_refund_approval: keyed, and never retried.
WantTypes == [tool : {"read"}, key : {None}, body : Bodies]
             \cup [tool : {"write", "refund"}, key : Keys, body : Bodies]

ASSUME GatewayAssumption ==
  /\ Stores \subseteq {"memory", "redis"}
  /\ Slots \in Nat \ {0}
  /\ Allowance \in Nat
  /\ Wants \subseteq WantTypes
  /\ Faults \subseteq FaultNames

VARIABLES entry, seen, fallback,  \* the idempotency store
          store,      \* the store this deployment uses
          pc,         \* call -> the await it stands at
          want,       \* call -> what it asks for
          free,       \* the semaphore
          spent,      \* the actions the case has spent in the window
          charged,    \* history: calls that hold one of them
          wire,       \* <<call, attempts it had left>>: requests the backend has
                      \* and has not handled
          effect,     \* key -> the body the backend carried out under it, or None
          audit,      \* call -> the audit records it wrote
          answer,     \* call -> what its caller was told
          lost        \* history: calls that left without releasing their key

INSTANCE IdempotencyStores WITH Requests <- Calls

ASSUME NoneAssumption == None \notin Keys \cup Bodies \cup Entries

keyStore == <<entry, seen, fallback>>
shared == <<store, free, spent, charged>>
world == <<wire, effect>>
told == <<audit, answer, lost>>
gateway == <<reliability, keyStore, shared, world, told, pc, want>>

NoWant == [tool |-> "read", key |-> None, body |-> None]
NoAnswer == [status |-> "none", body |-> None]

Keyed(c) == want[c].key # None
RetrySafe(c) == want[c].tool # "refund"
\* counts_against_budget
Counts(c) == Keyed(c)

Init ==
  /\ ReliabilityInit /\ StoresInit
  /\ store \in Stores
  /\ pc = [c \in Calls |-> "idle"]
  /\ want = [c \in Calls |-> NoWant]
  /\ free = Slots /\ spent = 0 /\ charged = {}
  /\ wire = {} /\ effect = [k \in Keys |-> None]
  /\ audit = [c \in Calls |-> <<>>]
  /\ answer = [c \in Calls |-> NoAnswer]
  /\ lost = {}

-----------------------------------------------------------------------------
(* The ways out.  Each writes one audit record and answers.                *)

Record(decision, outcome, executed) ==
  [decision |-> decision, outcome |-> outcome, executed |-> executed]

End(c, record, status, body) ==
  /\ pc' = [pc EXCEPT ![c] = "done"]
  /\ UNCHANGED lost
  /\ audit' = [audit EXCEPT ![c] = Append(@, record)]
  /\ answer' = [answer EXCEPT ![c] = [status |-> status, body |-> body]]

Stay == UNCHANGED told
Goto(c, label) == pc' = [pc EXCEPT ![c] = label] /\ Stay

GiveBack(c) ==
  /\ spent' = IF Counts(c) /\ spent > 0 THEN spent - 1 ELSE spent
  /\ charged' = charged \ {c}

\* execute's except clauses: the budget is given back and the failure recorded
\* as not executed.
\* Mutant: the reserved action is not given back.
FailedKeepsBudget(c) ==
  End(c, Record("accepted", "failure", FALSE), "failed", None) /\ UNCHANGED <<spent, charged>>

Failed(c) ==
  End(c, Record("accepted", "failure", FALSE), "failed", None) /\ GiveBack(c)

\* An exception outside the taxonomy: the same, and the key stays reserved.
Crashed(c) ==
  /\ pc' = [pc EXCEPT ![c] = "done"]
  /\ audit' = [audit EXCEPT ![c] = Append(@, Record("accepted", "failure", FALSE))]
  /\ answer' = [answer EXCEPT ![c] = [status |-> "failed", body |-> None]]
  /\ lost' = lost \cup {c}
  /\ GiveBack(c)

\* check_output, then the record of the success: the policy may have been
\* tightened, or the payload hold what must not leave.
Delivered(c, body, deduplicated) ==
  /\ \/ End(c, Record("accepted", IF deduplicated THEN "deduplicated" ELSE "success",
                      ~deduplicated), "ok", body)
     \/ End(c, Record("accepted", "failure", TRUE), "blocked", None)
  /\ UNCHANGED <<spent, charged>>

-----------------------------------------------------------------------------
(* Authorization and the input guardrails                                  *)

\* authorize awaits the verifier, which shares no state with this path; all the
\* rest up to the reservation is synchronous.
Authorize(c) ==
  /\ pc[c] = "idle"
  /\ \E w \in Wants :
       /\ want' = [want EXCEPT ![c] = w]
       /\ \/ /\ End(c, Record("rejected", "not_executed", FALSE), "denied", None)
             /\ UNCHANGED <<spent, charged>>
          \/ /\ w.key = None \/ spent < Allowance
             /\ spent' = IF w.key = None THEN spent ELSE spent + 1
             /\ charged' = IF w.key = None THEN charged ELSE charged \cup {c}
             /\ Goto(c, IF w.key = None THEN "admit" ELSE "reserve")
  /\ UNCHANGED <<reliability, keyStore, world, store, free>>

-----------------------------------------------------------------------------
(* _reserve                                                                *)

\* What the verdict of the store makes of the call.  An identical request in
\* progress and a reused key are errors raised outside the try that releases.
AfterReserve(c, verdict, result) ==
  \/ /\ verdict = "new"
     /\ Goto(c, "admit")
     /\ UNCHANGED <<spent, charged>>
  \/ verdict = "completed" /\ Delivered(c, result, TRUE)
  \/ verdict \in {"in_progress", "reused"} /\ Failed(c)

Reserve(c) ==
  /\ pc[c] = "reserve"
  /\ LET k == want[c].key IN
     \/ /\ store = "memory"
        /\ MemoryReserve(c, k, want[c].body)
        /\ AfterReserve(c, MemoryAnswer(k, want[c].body),
                        IF entry[k] = None THEN None ELSE entry[k].result)
     \/ /\ store = "redis"
        /\ SetIfAbsent(c, k, want[c].body)
        /\ Goto(c, IF Creates(k) THEN "admit" ELSE "reserve_get")
        /\ UNCHANGED <<spent, charged>>
  /\ UNCHANGED <<reliability, world, want, store, free>>

ReserveGet(c) ==
  /\ pc[c] = "reserve_get"
  /\ LET k == want[c].key IN
     /\ UNCHANGED keyStore
     /\ IF entry[k] = None
        THEN Goto(c, "reserve_set") /\ UNCHANGED <<spent, charged>>
        ELSE AfterReserve(c, Verdict(entry[k], want[c].body), entry[k].result)
  /\ UNCHANGED <<reliability, world, want, store, free>>

ReserveFallback(c) ==
  /\ pc[c] = "reserve_set"
  /\ SetFallback(c, want[c].key, want[c].body)
  /\ Goto(c, "admit")
  /\ UNCHANGED <<reliability, world, want, shared>>

-----------------------------------------------------------------------------
(* _admit_and_run                                                          *)

\* Mutant: the failure of a keyed call is recorded where it is caught, and
\* again by execute.
AfterRunRecordsTwice(c, held) ==
  IF attempt'[c].phase \in {"run", "sleep"} THEN UNCHANGED <<pc, told, spent, charged>> /\ free' = held
  ELSE /\ free' = held + 1
       /\ CASE attempt'[c].phase = "ok" /\ Keyed(c)
                 -> Goto(c, "complete") /\ UNCHANGED <<spent, charged>>
            [] attempt'[c].phase = "ok" /\ ~Keyed(c) -> Delivered(c, want[c].body, FALSE)
            [] attempt'[c].phase # "ok" /\ Keyed(c)
                 -> /\ pc' = [pc EXCEPT ![c] = "release"]
                    /\ audit' = [audit EXCEPT ![c] =
                                   Append(@, Record("accepted", "failure", FALSE))]
                    /\ UNCHANGED <<answer, lost, spent, charged>>
            [] OTHER -> Failed(c)

\* How the call goes on when call_with_reliability has ended: the semaphore is
\* released on every path, the key on an error of the taxonomy.
AfterRun(c, held) ==
  IF attempt'[c].phase \in {"run", "sleep"} THEN UNCHANGED <<pc, told, spent, charged>> /\ free' = held
  ELSE /\ free' = held + 1
       /\ CASE attempt'[c].phase = "ok" /\ Keyed(c)
                 -> Goto(c, "complete") /\ UNCHANGED <<spent, charged>>
            [] attempt'[c].phase = "ok" /\ ~Keyed(c) -> Delivered(c, want[c].body, FALSE)
            [] attempt'[c].phase # "ok" /\ Keyed(c)
                 -> Goto(c, "release") /\ UNCHANGED <<spent, charged>>
            [] OTHER -> Failed(c)

\* The request of the attempt a call is at.
Request(c) == <<c, attempt[c].left>>

\* The request of a keyed call that begins an attempt is on the wire.
Sends(c) == wire' = IF InFlight(c)' /\ Keyed(c) THEN wire \cup {Request(c)'} ELSE wire

\* Mutant: a call that finds no slot goes on without one.
AdmitRegardless(c) ==
  /\ pc[c] = "admit"
  /\ Begin(c, RetrySafe(c))
  /\ IF InFlight(c)'
     THEN pc' = [pc EXCEPT ![c] = "run"] /\ free' = free - 1 /\ Stay /\ UNCHANGED <<spent, charged>>
     ELSE AfterRun(c, free - 1)
  /\ Sends(c)
  /\ UNCHANGED <<keyStore, effect, want, store>>

\* A slot is free, at once or after waiting: the first attempt begins.
Admit(c) ==
  /\ pc[c] = "admit" /\ free > 0
  /\ Begin(c, RetrySafe(c))
  /\ IF InFlight(c)'
     THEN pc' = [pc EXCEPT ![c] = "run"] /\ free' = free - 1 /\ Stay /\ UNCHANGED <<spent, charged>>
     ELSE AfterRun(c, free - 1)
  /\ Sends(c)
  /\ UNCHANGED <<keyStore, effect, want, store>>

\* Mutant: the wait stands outside the try that releases the key.
ShedKeepsKey(c) ==
  /\ pc[c] = "admit" /\ free = 0
  /\ Failed(c)
  /\ UNCHANGED <<reliability, keyStore, world, want, store, free>>

\* The wait for a slot ran out.
Shed(c) ==
  /\ pc[c] = "admit" /\ free = 0
  /\ IF Keyed(c) THEN Goto(c, "release") /\ UNCHANGED <<spent, charged>> ELSE Failed(c)
  /\ UNCHANGED <<reliability, keyStore, world, want, store, free>>

\* Mutant: the breaker is asked before the first attempt only.
RetryUnasked(c) ==
  /\ pc[c] = "run" /\ attempt[c].phase = "sleep" /\ attempt[c].wake = 0
  /\ attempt' = [attempt EXCEPT ![c].phase = "run", ![c].left = @ - 1]
  /\ UNCHANGED <<breaker, abandoned, pc, told, free, spent, charged>>
  /\ Sends(c)
  /\ UNCHANGED <<keyStore, effect, want, store>>

Retry(c) ==
  /\ pc[c] = "run"
  /\ Wake(c)
  /\ AfterRun(c, free)
  /\ Sends(c)
  /\ UNCHANGED <<keyStore, effect, want, store>>

\* The middleware carries out a keyed request, once per key, whether or not
\* anybody still waits for the answer.
Land(c) ==
  /\ \E request \in wire : request[1] = c /\ wire' = wire \ {request}
  /\ effect' = IF effect[want[c].key] = None
               THEN [effect EXCEPT ![want[c].key] = want[c].body] ELSE effect
  /\ UNCHANGED <<reliability, keyStore, shared, told, pc, want>>

\* The answers of http_backend.py: a success it parsed; a refusal (401, 403,
\* 404, 429), upon which the backend did nothing with this request, whatever it
\* does with those of earlier attempts; a failure of the transport, a
\* 5xx, another 4xx or a response it cannot read, whatever the backend did.
BackendAnswers(c) ==
  /\ pc[c] = "run"
  /\ \/ /\ Keyed(c) => Request(c) \notin wire /\ effect[want[c].key] = want[c].body
        /\ Succeed(c) /\ UNCHANGED wire
     \/ (Keyed(c) => Request(c) \in wire) /\ Refuse(c) /\ wire' = wire \ {Request(c)}
     \/ Fail(c) /\ UNCHANGED wire
  /\ AfterRun(c, free)
  /\ UNCHANGED <<keyStore, effect, want, store>>

\* Mutant: the backend is awaited without a deadline.
GiveUpNever(c) == pc[c] = "run" /\ FALSE /\ UNCHANGED gateway

\* The budget of the call is spent; its request may still be on the wire.
GiveUp(c) ==
  /\ pc[c] = "run"
  /\ TimeOut(c)
  /\ AfterRun(c, free)
  /\ UNCHANGED <<keyStore, world, want, store>>

Clock ==
  /\ Elapse
  /\ UNCHANGED <<keyStore, shared, world, told, pc, want>>

-----------------------------------------------------------------------------
(* After the run                                                           *)

Complete(c) ==
  /\ pc[c] = "complete"
  /\ LET k == want[c].key IN
     \/ store = "memory" /\ MemoryComplete(k, want[c].body) /\ Delivered(c, want[c].body, FALSE)
     \/ /\ store = "redis" /\ Get(c, k) /\ Goto(c, "complete_set")
        /\ UNCHANGED <<spent, charged>>
  /\ UNCHANGED <<reliability, world, want, store, free>>

CompleteSet(c) ==
  /\ pc[c] = "complete_set"
  /\ SetResult(c, want[c].key, want[c].body)
  /\ Delivered(c, want[c].body, FALSE)
  /\ UNCHANGED <<reliability, world, want, store, free>>

Release(c) ==
  /\ pc[c] = "release"
  /\ LET k == want[c].key IN
     \/ store = "memory" /\ MemoryRelease(k) /\ Failed(c)
     \/ store = "redis" /\ Get(c, k) /\ Goto(c, "release_del") /\ UNCHANGED <<spent, charged>>
  /\ UNCHANGED <<reliability, world, want, store, free>>

ReleaseDelete(c) ==
  /\ pc[c] = "release_del"
  /\ DeleteIfSeenOpen(c, want[c].key)
  /\ Failed(c)
  /\ UNCHANGED <<reliability, world, want, store, free>>

-----------------------------------------------------------------------------
(* Faults                                                                  *)

AtStore == {"reserve", "reserve_get", "reserve_set", "complete", "complete_set",
            "release", "release_del"}

\* Redis does not answer, and did nothing.
StoreFails(c) ==
  /\ "store" \in Faults
  /\ store = "redis" /\ pc[c] \in AtStore
  /\ Crashed(c)
  /\ UNCHANGED <<reliability, keyStore, world, want, store, free>>

\* Redis carried the command out and its reply is lost, which is the same to the
\* call.  (A GET whose reply is lost changed nothing.)
ReplyLost(c) ==
  /\ "store" \in Faults /\ store = "redis"
  /\ LET k == want[c].key IN
     \/ pc[c] = "reserve" /\ SetIfAbsent(c, k, want[c].body)
     \/ pc[c] = "reserve_set" /\ SetFallback(c, k, want[c].body)
     \/ pc[c] = "complete_set" /\ SetResult(c, k, want[c].body)
     \/ pc[c] = "release_del" /\ DeleteIfSeenOpen(c, k)
  /\ Crashed(c)
  /\ UNCHANGED <<reliability, world, want, store, free>>

\* An unexpected exception while the backend is called: no outcome reaches the
\* breaker.
Crash(c) ==
  /\ "crash" \in Faults
  /\ pc[c] = "run" /\ InFlight(c)
  /\ Abandon(c)
  /\ Crashed(c)
  /\ free' = free + 1
  /\ UNCHANGED <<keyStore, world, want, store>>

\* The client cancels the call: no except clause sees it, the finally clause
\* does.
Cancel(c) ==
  /\ "cancel" \in Faults
  /\ pc[c] \notin {"idle", "done", "gone"}
  /\ pc' = [pc EXCEPT ![c] = "gone"]
  /\ lost' = lost \cup {c}
  /\ IF pc[c] = "run" THEN Abandon(c) /\ free' = free + 1
                      ELSE UNCHANGED <<reliability, free>>
  /\ UNCHANGED <<keyStore, world, audit, answer, want, store, spent, charged>>

Holder(c, k) == /\ want[c].key = k
                /\ pc[c] \in {"admit", "run", "complete", "complete_set", "release", "release_del"}

\* An entry lives a day (DEFAULT_TTL_S), a call some seconds: no call that
\* holds the key is running when it expires.
Expires(k) ==
  /\ "expire" \in Faults
  /\ \A c \in Calls : ~Holder(c, k)
  /\ Expire(k)
  /\ UNCHANGED <<reliability, shared, world, told, pc, want>>

-----------------------------------------------------------------------------
CallStep(c) ==
  \/ Authorize(c) \/ Reserve(c) \/ ReserveGet(c) \/ ReserveFallback(c)
  \/ Admit(c) \/ Shed(c) \/ Retry(c) \/ GiveUp(c)
  \/ Complete(c) \/ CompleteSet(c) \/ Release(c) \/ ReleaseDelete(c)

Next == \/ \E c \in Calls : \/ CallStep(c) \/ BackendAnswers(c) \/ Land(c)
                            \/ StoreFails(c) \/ ReplyLost(c) \/ Crash(c) \/ Cancel(c)
        \/ \E k \in Keys : Expires(k)
        \/ Clock

Spec == Init /\ [][Next]_gateway

\* The event loop runs every call that can go on by itself, and time passes;
\* nothing makes the backend answer.
FairSpec == /\ Spec
            /\ \A c \in Calls : WF_gateway(CallStep(c))
            /\ WF_gateway(Clock)

-----------------------------------------------------------------------------
(* Properties                                                              *)

Labels == {"idle", "reserve", "reserve_get", "reserve_set", "admit", "run", "complete",
           "complete_set", "release", "release_del", "done", "gone"}
Statuses == {"none", "denied", "failed", "blocked", "ok"}
Records == [decision : {"accepted", "rejected"}, executed : BOOLEAN,
            outcome : {"success", "failure", "not_executed", "deduplicated"}]

TypeOK ==
  /\ ReliabilityTypeOK /\ StoresTypeOK
  /\ store \in Stores
  /\ pc \in [Calls -> Labels]
  /\ want \in [Calls -> Wants \cup {NoWant}]
  /\ free \in 0..Slots
  /\ spent \in 0..Allowance /\ charged \subseteq Calls
  /\ wire \subseteq Calls \X (0..Attempts)
  /\ effect \in [Keys -> Bodies \cup {None}]
  /\ \A c \in Calls : \A i \in DOMAIN audit[c] : audit[c][i] \in Records
  /\ answer \in [Calls -> [status : Statuses, body : Bodies \cup {None}]]
  /\ lost \subseteq Calls

\* executor.py:4 "Every branch out of this function writes exactly one audit
\* record": however the branches nest (an error raised while a key is released,
\* a block after the write), a call that was answered has exactly one record,
\* and no call ever has two.
OneRecordPerAnswer ==
  \A c \in Calls : /\ Len(audit[c]) <= 1
                   /\ answer[c].status # "none" => Len(audit[c]) = 1

\* authorization.py:11-13 "every outcome, allowed or refused, produces exactly one
\* audit record, so 'we have no record of that call' is not a state this system
\* can reach": whichever way a call left, it is on record.  The run that checks
\* it finds a call that was cancelled.
EveryCallRecorded ==
  \A c \in Calls : pc[c] \in {"done", "gone"} => Len(audit[c]) = 1

\* idempotency.py:9-11: "a repeat that arrives while the first call is still
\* running must not start a second execution".  Two calls hold one key only
\* after the fallback SET of the Redis store.
SingleFlight ==
  \A c, d \in Calls, k \in Keys :
    Holder(c, k) /\ Holder(d, k) /\ c # d => k \in fallback

\* A key that tells every repeat it is in progress is held by a call that
\* will complete or release it, or was left behind by a cancelled call, a crash
\* or a store that failed.
KeyStuckOnlyAfterFault ==
  \A k \in Keys : entry[k] # None /\ entry[k].result = None =>
    entry[k].by \in lost \/ Holder(entry[k].by, k)

\* Whoever is told that a write succeeded, a repeat included, asked for what
\* the backend carried out under that key, and so does a record that says
\* executed; the fallback SET may make a replay name another's result.
AnswersAreTrue ==
  \A c \in Calls : Keyed(c) =>
    LET k == want[c].key IN
    /\ answer[c].status = "ok" =>
         effect[k] # None /\ (k \in fallback \/ (answer[c].body = want[c].body
                                                /\ effect[k] = want[c].body))
    /\ \A i \in DOMAIN audit[c] : audit[c][i].executed => effect[k] # None

\* Each way out gives back what it took: the slots of the semaphore, and the
\* actions of the case, which only calls that did not fail keep.
NothingLeaks ==
  /\ free + Cardinality({c \in Calls : pc[c] = "run"}) = Slots
  /\ spent = Cardinality(charged)
  /\ charged = {c \in Calls : Counts(c) /\ pc[c] # "idle"
                              /\ answer[c].status \notin {"denied", "failed"}}

\* Every call ends, whatever the backend does: in a result, an error, or a
\* cancellation.
EveryCallEnds == \A c \in Calls : pc[c] # "idle" ~> pc[c] \in {"done", "gone"}
=============================================================================
