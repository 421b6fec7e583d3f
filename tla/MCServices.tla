----------------------------- MODULE MCServices -----------------------------
(* The components that share no state with one another, each on a small     *)
(* instance.  A behaviour is one component's: "part" says whose, and the     *)
(* others keep their first state, so the state graph is the disjoint union   *)
(* of the components' graphs and every property is decided on its own one.   *)
EXTENDS Passcode, Cases, AuditTrails, StoreTwins, Credentials, Guardrails,
        ToolClient, TwoGates, Reports, Screening, Exchange, Deployment

VARIABLE part

-----------------------------------------------------------------------------
(* Values of the constants                                                 *)

\* Cases: turns that take a step on one case, turns that close the other one.
MCAsks ==
  {[op |-> "upsert", case |-> "a", status |-> s, step |-> TRUE, consent |-> FALSE] :
     s \in {"active", "interrupted"}} \cup
  {[op |-> "upsert", case |-> "b", status |-> s, step |-> FALSE, consent |-> TRUE] :
     s \in {"closed", "interrupted"}} \cup {[op |-> "resume"]}

\* Reports: a quantile of two thirds, an objective between two edges.
MCEdges == <<1, 3>>
MCAtLeastPart == <<1, 2>>
MCPhi == <<2, 3>>

\* Screening: one document for each thing a guardrail or the redactor sees.
Leaf(path, text) == [path |-> path, text |-> text]
Free(text) == Leaf(<<Field("free")>>, text)
Listed(n, text) == {Leaf(<<Field("free"), Item(i)>>, text) : i \in 1..n}
MCPolicies == [scan : BOOLEAN, size : {1, 3}]
MCCalls ==
  {[doc |-> {Free({"named"}), Leaf(<<Field("reference")>>, {})}, date |-> d, amount |-> 1] :
     d \in 0..2} \cup
  {[doc |-> {Free({mark})}, date |-> 1, amount |-> 1] :
     mark \in {"control", "hidden", "instruction"}} \cup
  {[doc |-> {Free({})}, date |-> 1, amount |-> 2],
   [doc |-> Listed(1, {}), date |-> 1, amount |-> 0],
   [doc |-> {Leaf(<<Field(n)>>, {}) : n \in {"free", "reference", "contact"}},
    date |-> 1, amount |-> 0]}
MCRefused ==
  {{Leaf(<<Field("never disclosed"), Field("free")>>, {"token"}),
    Leaf(<<Field("contact")>>, {"phone"})},
   {Leaf(<<Field("free"), Field("free"), Field("never disclosed")>>, {"keyed"})},
   Listed(3, {"email"})}
MCRows ==
  {{Leaf(<<Field("free"), Item(i), Field("free")>>, {}) : i \in 1..2},
   Listed(4, {"email"}),
   {Free({"card", "digits"}), Leaf(<<Field("reference")>>, {})},
   {Free({"named"})}, {Free({"keyed"})},
   {Leaf(<<Field("never disclosed")>>, {"token"}), Leaf(<<Field("contact")>>, {"email"})}}

\* Exchange: no invoice, a settled one, and a page of one among two.
Invoice(id, total, left) == [id |-> id, total |-> total, left |-> left, currency |-> "GBP"]
MCLedgers == {<<>>, <<Invoice("a", 3, 1)>>, <<Invoice("a", 1, 1), Invoice("b", 3, 2)>>}
Request(tool, limit, invoice, amount, currency) ==
  [tool |-> tool, limit |-> limit, invoice |-> invoice, amount |-> amount,
   currency |-> currency]
MCRequests ==
  {Request("get_invoice_summary", 1, AnyInvoice, 0, "GBP"),
   Request("get_invoice_summary", 2, AnyInvoice, 0, "GBP"),
   Request("get_invoice_summary", 1, "b", 0, "GBP"),
   Request("create_support_ticket", 1, AnyInvoice, 0, "GBP"),
   Request("request_refund_approval", 1, "b", 20, "GBP"),
   Request("request_refund_approval", 1, "a", 20, "GBP"),
   Request("request_refund_approval", 1, "a", 10, "EUR"),
   Request("request_refund_approval", 1, "a", 15, "GBP")}

\* Deployment: a production and a local record of each service, and ones that
\* differ from them in one choice.
AllGiven == {"backend_base_url", "backend_api_key", "service_token_url",
             "service_client_id", "service_client_secret", "jwks_url", "jwt_issuer",
             "jwt_audience", "local_verifier_secret", "redis_url", "trace_exporter",
             "mongodb_uri", "service_shared_secret", "service_allowed_client_ids"}
ToolsProduction ==
  [env |-> "production", backend |-> "http", service_identity_source |-> "client_credentials",
   identity_verifier |-> "jwks", idempotency_store |-> "redis", tracing_enabled |-> TRUE,
   given |-> AllGiven, broken |-> {}, installed |-> {"redis", "otel"}]
ToolsLocal ==
  [ToolsProduction EXCEPT !.env = "local", !.service_identity_source = "static",
     !.identity_verifier = "local", !.idempotency_store = "memory", !.tracing_enabled = FALSE]
MCToolsSettings ==
  {ToolsProduction, ToolsLocal,
   [ToolsProduction EXCEPT !.idempotency_store = "memory"],
   [ToolsProduction EXCEPT !.installed = {"otel"}],
   [ToolsProduction EXCEPT !.given = AllGiven \ {"jwt_audience"}],
   [ToolsLocal EXCEPT !.backend = "fake"],
   [ToolsLocal EXCEPT !.broken = {"claim_namespace", "timeouts"}]}
ApiProduction ==
  [env |-> "production", store |-> "mongodb", identity_verifier |-> "jwks",
   service_auth |-> "jwks", names_tools |-> TRUE, broken |-> {}, given |-> AllGiven]
ApiLocal == [ApiProduction EXCEPT !.env = "local", !.store = "memory",
               !.identity_verifier = "local", !.service_auth = "unchecked"]
MCApiSettings ==
  {ApiProduction, ApiLocal,
   [ApiProduction EXCEPT !.service_auth = "shared_secret"],
   [ApiProduction EXCEPT !.broken = {"names_nobody"}],
   [ApiProduction EXCEPT !.service_auth = "unchecked"]}

-----------------------------------------------------------------------------
services == <<part, passcode, cases, auditTrails, twins, signingKeys, serviceToken,
              rateLimiter, actionBudget, toolClient, twoGates, reports, screening,
              exchange, deployment>>

SomeToken == CHOOSE t \in Bearers : TRUE
SomeRequest == CHOOSE want \in Requests : TRUE

\* Where a component starts in one of several states, it does so only in its
\* own behaviours.
Init ==
  /\ part \in {"passcode", "cases", "auditTrails", "twins", "signingKeys",
               "serviceToken", "rateLimiter", "actionBudget",
               "toolClient", "twoGates", "reports", "screening",
               "exchange", "deployment"}
  /\ PasscodeInit
  /\ CasesInit
  /\ TrailsInit /\ (part # "auditTrails" => kept = "memory")
  /\ TwinsInit /\ (part # "twins" => focus = "docs")
  /\ KeysInit /\ (part # "signingKeys" => uptime = 0)
  /\ TokenInit
  /\ LimiterInit
  /\ BudgetInit
  /\ ClientInit
  /\ GatesInit /\ (part # "twoGates" =>
       via = "tools" /\ token = SomeToken)
  /\ ReportsInit
  /\ ScreeningInit /\ (part # "screening" => policy = [scan |-> TRUE, size |-> 1])
  /\ ExchangeInit /\ (part # "exchange" =>
       rows = <<>> /\ call.want = SomeRequest)
  /\ DeploymentInit /\ (part # "deployment" =>
       settings = [tools |-> ToolsLocal, api |-> ApiLocal])

Frame ==
  /\ UNCHANGED part
  /\ IF part = "passcode" THEN TRUE ELSE UNCHANGED passcode
  /\ IF part = "cases" THEN TRUE ELSE UNCHANGED cases
  /\ IF part = "auditTrails" THEN TRUE ELSE UNCHANGED auditTrails
  /\ IF part = "twins" THEN TRUE ELSE UNCHANGED twins
  /\ IF part = "signingKeys" THEN TRUE ELSE UNCHANGED signingKeys
  /\ IF part = "serviceToken" THEN TRUE ELSE UNCHANGED serviceToken
  /\ IF part = "rateLimiter" THEN TRUE ELSE UNCHANGED rateLimiter
  /\ IF part = "actionBudget" THEN TRUE ELSE UNCHANGED actionBudget
  /\ IF part = "toolClient" THEN TRUE ELSE UNCHANGED toolClient
  /\ IF part = "twoGates" THEN TRUE ELSE UNCHANGED twoGates
  /\ IF part = "reports" THEN TRUE ELSE UNCHANGED reports
  /\ IF part = "screening" THEN TRUE ELSE UNCHANGED screening
  /\ IF part = "exchange" THEN TRUE ELSE UNCHANGED exchange
  /\ IF part = "deployment" THEN TRUE ELSE UNCHANGED deployment

Next ==
  \/ part = "passcode" /\ PasscodeNext /\ Frame
  \/ part = "cases" /\ CasesNext /\ Frame
  \/ part = "auditTrails" /\ TrailsNext /\ Frame
  \/ part = "twins" /\ TwinsNext /\ Frame
  \/ part = "signingKeys" /\ KeysNext /\ Frame
  \/ part = "serviceToken" /\ TokenNext /\ Frame
  \/ part = "rateLimiter" /\ LimiterNext /\ Frame
  \/ part = "actionBudget" /\ BudgetNext /\ Frame
  \/ part = "toolClient" /\ ClientNext /\ Frame
  \/ part = "twoGates" /\ GatesNext /\ Frame
  \/ part = "reports" /\ ReportsNext /\ Frame
  \/ part = "screening" /\ ScreeningNext /\ Frame
  \/ part = "exchange" /\ ExchangeNext /\ Frame
  \/ part = "deployment" /\ DeploymentNext /\ Frame

Spec == Init /\ [][Next]_services

-----------------------------------------------------------------------------
\* The state of the component whose behaviour it is has its type.
TypesOK ==
  CASE part = "passcode" -> PasscodeTypeOK
    [] part = "cases" -> CasesTypeOK
    [] part = "auditTrails" -> TrailsTypeOK
    [] part = "twins" -> TwinsTypeOK
    [] part = "signingKeys" -> KeysTypeOK
    [] part = "serviceToken" -> TokenTypeOK
    [] part = "rateLimiter" -> LimiterTypeOK
    [] part = "actionBudget" -> BudgetTypeOK
    [] part = "toolClient" -> ClientTypeOK
    [] part = "twoGates" -> GatesTypeOK
    [] part = "reports" -> ReportsTypeOK
    [] part = "screening" -> ScreeningTypeOK
    [] part = "exchange" -> ExchangeTypeOK
    [] part = "deployment" -> DeploymentTypeOK
=============================================================================
