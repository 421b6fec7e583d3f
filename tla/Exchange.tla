------------------------------ MODULE Exchange ------------------------------
(***************************************************************************)
(* One customer's tool calls between the tools server and the middleware:   *)
(* adapters/http_backend.py sends a request, api/routes of the middleware   *)
(* answer it, translation.py turns the answer into the tool contract and    *)
(* domain/errors.py says what a failure is called.  Beside it the in-memory  *)
(* backend (fake_backend.py) the tests and demonstrations run on, asked the *)
(* same things.                                                            *)
(*                                                                         *)
(* A proxy may answer in the middleware's stead, a reply may be lost, and a  *)
(* request given up may land later.  Calls follow one another; calls side   *)
(* by side are Gateway's and WritePath's.  Amounts are in tenths of a minor *)
(* unit, so that one too precise for the currency can be said.              *)
(***************************************************************************)
EXTENDS Integers, Sequences, FiniteSets, SequencesExt, FiniteSetsExt

CONSTANTS Ledgers,            \* what the customer's invoices may be, newest first:
                              \* sequences of [id, total, left, currency]
          Requests,           \* calls: [tool, limit, invoice, amount, currency]
          AnyInvoice,         \* no invoice_id given
          Repeats,            \* RetryPolicy.attempts
          NoRecord, MaxAsked  \* bound: calls

\* limit has a lower bound (LimitQuery, limit=1), amounts are decimals, and the index
\* tenant_cx_invoice is unique.
ASSUME ExchangeAssumption ==
  /\ Repeats \in Nat
  /\ \A r \in Requests : /\ r.tool \in {"get_invoice_summary", "create_support_ticket",
                                        "request_refund_approval"}
                         /\ r.limit \in Nat \ {0} /\ r.amount \in Nat
  /\ \A ledger \in Ledgers :
       /\ ledger \in Seq(Range(ledger)) /\ \A row \in Range(ledger) : row.total \in Nat
       /\ \A i, j \in DOMAIN ledger : ledger[i].id = ledger[j].id => i = j

VARIABLES rows,         \* the customer's invoices
          keptRecords,  \* records under the key of a write: tool -> record or NoRecord
          call,         \* the call under way: [want, attempt, at]
          late,         \* requests given up and still to land
          before,       \* history: what was kept when the call under way began
          doubt,        \* history: something interfered with it, or was still to land
          lastAnswer,   \* the answer of the last call that ended
          callsAsked    \* calls made

exchange == <<rows, keptRecords, call, late, before, doubt, lastAnswer, callsAsked>>

Writes == {"create_support_ticket", "request_refund_approval"}
RetrySafe(want) == want.tool # "request_refund_approval"

-----------------------------------------------------------------------------
(* translation.py, domain/money.py                                         *)

MinorToDecimal(minor) == minor * 10
TooPrecise(amount) == amount % 10 # 0
DecimalToMinor(amount) == amount \div 10

-----------------------------------------------------------------------------
(* The middleware                                                          *)

\* All of them, or the one by its reference.
Matching(want) ==
  LET found == {i \in DOMAIN rows : rows[i].id = want.invoice} IN
  IF want.invoice = AnyInvoice THEN rows
  ELSE IF found = {} THEN <<>> ELSE <<rows[CHOOSE i \in found : TRUE]>>
Page(want) == SubSeq(Matching(want), 1, Min({want.limit, Len(Matching(want))}))
SumLeft(invoices) == FoldSeq(LAMBDA row, sum : row.left + sum, 0, invoices)

Says(status, body) == [status |-> status, body |-> body]
Forbidden == Says(403, NoRecord)

GetInvoices(want) ==
  IF want.invoice # AnyInvoice /\ Matching(want) = <<>> THEN Forbidden
  ELSE Says(200, [invoices |-> Page(want), outstanding |-> SumLeft(Page(want)),
                  truncated |-> Len(Page(want)) < Len(Matching(want))])

\* idempotent_write: a key of the other request is refused by its fingerprint,
\* a completed one is replayed.
Replay(want) ==
  IF keptRecords[want.tool].want # want THEN Says(409, NoRecord)
  ELSE Says(200, [record |-> keptRecords[want.tool], deduplicated |-> TRUE])

Created(want, status) ==
  Says(status, [record |-> [want |-> want, minor |-> DecimalToMinor(want.amount)],
                deduplicated |-> FALSE])

\* None is no answer and no record.
ASSUME NoRecordAssumption ==
  \A want \in Requests : LET body == Created(want, 201).body IN NoRecord \notin {body, body.record}

\* Mutant: the invoice has to exist, and that is all.
RequestRefundUncovered(want) == IF Page(want) = <<>> THEN Forbidden ELSE Created(want, 202)

\* request_refund_approval: the evidence comes from the record.
RequestRefund(want) ==
  LET invoice == Page(want)[1] IN
  IF Page(want) = <<>> THEN Forbidden
  ELSE IF want.currency # invoice.currency \/ DecimalToMinor(want.amount) > invoice.total
       THEN Says(409, NoRecord)
  ELSE Created(want, 202)

Handled(want) ==
  IF want.tool = "get_invoice_summary" THEN GetInvoices(want)
  ELSE IF keptRecords[want.tool] # NoRecord THEN Replay(want)
  ELSE IF want.tool = "create_support_ticket" THEN Created(want, 201) ELSE RequestRefund(want)

KeptAfter(want) ==
  IF want.tool \in Writes /\ Handled(want).status \in {201, 202}
  THEN [keptRecords EXCEPT ![want.tool] = Handled(want).body.record] ELSE keptRecords

-----------------------------------------------------------------------------
(* HttpTelecomBackend                                                      *)

RaiseForStatus(status) ==
  CASE status < 400 -> "ok"
    [] status \in {401, 403} -> "forbidden"
    [] status = 404 -> "not_found"
    [] status = 429 -> "rate_limited"
    [] status \in 400..499 \ {401, 403, 404, 429} -> "backend_bad_response"
    [] OTHER -> "backend_unavailable"

\* _raise_for_status, then _decode and _parse: a page that is not JSON, or not
\* of the shape, is no answer.
Decoded(reply) ==
  IF reply.status < 400 /\ reply.body = NoRecord THEN "backend_bad_response"
  ELSE RaiseForStatus(reply.status)

\* BackendError and what is derived from it.
Retried == {"backend_unavailable", "backend_timeout", "backend_bad_response"}

Translated(want, body) ==
  IF want.tool = "get_invoice_summary"
  THEN [invoices |-> [i \in DOMAIN body.invoices |->
                        [id |-> body.invoices[i].id,
                         total |-> MinorToDecimal(body.invoices[i].total),
                         left |-> MinorToDecimal(body.invoices[i].left)]],
        outstanding |-> MinorToDecimal(body.outstanding), truncated |-> body.truncated]
  ELSE [record |-> body.record, deduplicated |-> body.deduplicated]

ExchangeInit ==
  /\ rows \in Ledgers
  /\ keptRecords = [tool \in Writes |-> NoRecord]
  /\ call \in {[want |-> want, attempt |-> 0, at |-> "idle"] : want \in Requests}
  /\ late = {} /\ before = keptRecords /\ doubt = FALSE /\ callsAsked = 0
  /\ lastAnswer = [code |-> "none", answer |-> NoRecord]

CallEnds(code, answer) ==
  /\ lastAnswer' = [code |-> code, answer |-> answer]
  /\ call' = [call EXCEPT !.at = "idle"]

AskTool(want) ==
  /\ call.at = "idle" /\ callsAsked < MaxAsked
  /\ callsAsked' = callsAsked + 1 /\ before' = keptRecords /\ doubt' = (late # {})
  /\ IF want.tool = "request_refund_approval" /\ TooPrecise(want.amount)
     THEN /\ lastAnswer' = [code |-> "backend_bad_response", answer |-> NoRecord]
          /\ call' = [want |-> want, attempt |-> 0, at |-> "idle"]
     ELSE /\ call' = [want |-> want, attempt |-> 1, at |-> "sent"]
          /\ lastAnswer' = [code |-> "none", answer |-> NoRecord]
  /\ UNCHANGED <<rows, keptRecords, late>>

\* What call_with_reliability makes of an attempt that raised.
Raises(code) ==
  IF code \in Retried /\ RetrySafe(call.want) /\ call.attempt <= Repeats
  THEN call' = [call EXCEPT !.attempt = @ + 1] /\ UNCHANGED lastAnswer
  ELSE CallEnds(code, NoRecord)

ReceivesAnswer(reply) ==
  IF Decoded(reply) = "ok" THEN CallEnds("ok", Translated(call.want, reply.body))
  ELSE Raises(Decoded(reply))

\* The middleware answers.
AnswerCall ==
  /\ call.at = "sent"
  /\ keptRecords' = KeptAfter(call.want)
  /\ ReceivesAnswer(Handled(call.want))
  /\ UNCHANGED <<rows, late, before, doubt, callsAsked>>

\* It refuses the caller, is in trouble, or an earlier request holds the key.
Refuse ==
  /\ call.at = "sent"
  /\ \E status \in {401, 503} \cup (IF call.want \in late THEN {409} ELSE {}) :
       ReceivesAnswer(Says(status, NoRecord))
  /\ UNCHANGED <<rows, keptRecords, late, before, doubt, callsAsked>>

\* Something on the way answers, or nothing does, whether the middleware
\* handled the request or not.
Interfere ==
  /\ call.at = "sent"
  /\ \/ keptRecords' = KeptAfter(call.want) /\ late' = late
     \/ keptRecords' = keptRecords /\ late' = late
     \/ keptRecords' = keptRecords /\ late' = late \cup {call.want}
  /\ doubt' = TRUE /\ UNCHANGED before
  /\ \/ \E status \in {200, 404, 413, 429, 502} : ReceivesAnswer(Says(status, NoRecord))
     \/ \E code \in {"backend_timeout", "backend_unavailable"} : Raises(code)
  /\ UNCHANGED <<rows, callsAsked>>

LandLate(want) ==
  /\ want \in late
  /\ keptRecords' = KeptAfter(want) /\ late' = late \ {want}
  /\ UNCHANGED <<rows, call, before, doubt, lastAnswer, callsAsked>>

ExchangeNext ==
  \/ \E want \in Requests : AskTool(want) \/ LandLate(want)
  \/ AnswerCall \/ Refuse \/ Interfere

ExchangeSpec == ExchangeInit /\ [][ExchangeNext]_exchange

-----------------------------------------------------------------------------
(* FakeTelecomBackend: the same page, and the whole of what is outstanding. *)

FakeFound(want) == want.invoice = AnyInvoice \/ Matching(want) # <<>>
FakeInvoices(want) ==
  [invoices |-> [i \in DOMAIN Page(want) |->
                   [id |-> Page(want)[i].id, total |-> MinorToDecimal(Page(want)[i].total),
                    left |-> MinorToDecimal(Page(want)[i].left)]],
   outstanding |-> MinorToDecimal(SumLeft(Matching(want))),
   truncated |-> Len(Page(want)) < Len(Matching(want))]

-----------------------------------------------------------------------------
ExchangeTypeOK ==
  /\ rows \in Ledgers /\ late \subseteq Requests
  /\ call.want \in Requests /\ call.attempt \in 0..Repeats + 1 /\ call.at \in {"idle", "sent"}
  /\ doubt \in BOOLEAN /\ callsAsked \in 0..MaxAsked

\* A call that ended says so truly (http_backend.py:336-365, translation.py:1-12,
\* fake_backend.py): "ok" is only ever said of what the middleware kept or holds,
\* with the amount asked for, and no refund is kept that its invoice does not
\* cover; a page agrees with the in-memory backend's, and so does the total when
\* the page is whole.  A refusal with which nothing interfered means that this
\* call did nothing.
AnswersMeanWhatTheySay ==
  LET want == call.want
      ended == call.at = "idle" /\ callsAsked > 0 IN
  /\ ended /\ lastAnswer.code = "ok" /\ want.tool \in Writes =>
       lastAnswer.answer.record = keptRecords[want.tool] /\ lastAnswer.answer.record.want = want
  /\ keptRecords["request_refund_approval"] # NoRecord =>
       LET record == keptRecords["request_refund_approval"] IN
       /\ MinorToDecimal(record.minor) = record.want.amount
       /\ \E i \in DOMAIN rows : /\ rows[i].currency = record.want.currency
                                 /\ record.minor <= rows[i].total
                                 /\ record.want.invoice \in {AnyInvoice, rows[i].id}
  /\ ended /\ lastAnswer.code = "ok" /\ want.tool = "get_invoice_summary" =>
       /\ FakeFound(want)
       /\ \A part \in {"invoices", "truncated"} : lastAnswer.answer[part] = FakeInvoices(want)[part]
       /\ lastAnswer.answer.truncated \/ lastAnswer.answer = FakeInvoices(want)
  /\ ended /\ lastAnswer.code # "ok" /\ ~doubt => keptRecords = before
=============================================================================
