----------------------------- MODULE Deployment -----------------------------
(***************************************************************************)
(* Starting the two services and keeping them in traffic: settings are read *)
(* and refused or accepted (config/settings.py), the composition root builds *)
(* what they name (api/container.py), the process serves (api/cli.py,        *)
(* api/app.py), readiness is asked (observability/health.py, routes/         *)
(* health.py) and a tool call needs everything the two of them agreed on.    *)
(*                                                                         *)
(* Each service has one settings record for the whole behaviour, and is      *)
(* stopped and started with it.  MongoDB, Redis and the identity provider    *)
(* go down and come back; one too slow for a probe counts as down.           *)
(***************************************************************************)
EXTENDS FiniteSets, Sequences, SequencesExt

CONSTANTS ToolsSettings,  \* settings the tools server may be given
          ApiSettings     \* settings the middleware may be given
\* A settings record holds the choices, the companions "given", the rules it
\* breaks on its own ("broken") and, for the tools server, the packages
\* "installed".

VARIABLES settings,  \* service -> its settings
          stage,     \* service -> stopped, refused, crashed or serving
          up,        \* dependencies that answer
          cached,    \* what was fetched from the identity provider and kept
          probing,   \* readiness probe under way: [waiting, failed]
          ready,     \* service -> its last readiness answer, while nothing changed
          served,    \* how the last tool call ended
          promised,  \* history: a write was answered
          held,      \* services that still hold it: the write, or its key
          strangers  \* history: a caller without a service credential was served

deployment ==
  <<settings, stage, up, cached, probing, ready, served, promised, held, strangers>>

Services == {"tools", "api"}
Dependencies == {"mongodb", "redis", "identity_provider"}
NoProbe == [waiting |-> {}, failed |-> {"none"}]
NotAsked == [s \in Services |-> "none"]
tools == settings["tools"]
api == settings["api"]
When(condition, names) == IF condition THEN names ELSE {}

-----------------------------------------------------------------------------
(* Settings: each stage of the validation names every problem it finds, and  *)
(* the first stage that finds one is the last.                               *)

ToolsMissing(s) ==
  LET key == s.service_identity_source
      needed ==
        When(s.backend = "http", {"backend_base_url"}) \cup
        When(s.backend = "http" /\ key = "static", {"backend_api_key"}) \cup
        When(key = "client_credentials",
             {"service_token_url", "service_client_id", "service_client_secret"}) \cup
        When(s.identity_verifier = "jwks", {"jwks_url", "jwt_issuer", "jwt_audience"}) \cup
        When(s.identity_verifier = "local", {"local_verifier_secret"}) \cup
        When(s.idempotency_store = "redis", {"redis_url"}) \cup
        When(s.tracing_enabled, {"trace_exporter"})  \* and its endpoint
  IN (needed \ s.given) \cup
     When(key = "client_credentials"
            /\ {"service_token_audience", "jwt_audience"} \cap s.given = {},
          {"service_token_audience"})

\* Mutant: the in-memory idempotency store passes as production.
ToolsUnsafeKeysForgotten(s) ==
  When(s.backend # "http", {"backend"}) \cup
  When(s.identity_verifier # "jwks", {"identity_verifier"}) \cup
  When(~s.tracing_enabled, {"tracing_enabled"}) \cup (s.broken \cap {"guardrails"})

ToolsUnsafe(s) ==
  When(s.backend # "http", {"backend"}) \cup
  When(s.identity_verifier # "jwks", {"identity_verifier"}) \cup
  When(s.service_identity_source # "client_credentials", {"service_identity_source"}) \cup
  When(s.idempotency_store # "redis", {"idempotency_store"}) \cup
  When(~s.tracing_enabled, {"tracing_enabled"}) \cup
  (s.broken \cap {"guardrails"})   \* any of the three switches off

ApiMissing(s) ==
  (When(s.store = "mongodb", {"mongodb_uri"}) \cup
   When("jwks" \in {s.identity_verifier, s.service_auth},
        {"jwks_url", "jwt_issuer", "jwt_audience"}) \cup
   When(s.identity_verifier = "local", {"local_verifier_secret"}) \cup
   When(s.service_auth = "shared_secret", {"service_shared_secret"}) \cup
   When(s.service_auth = "jwks", {"service_allowed_client_ids"})) \ s.given

ApiUnsafe(s) ==
  When(s.store # "mongodb", {"store"}) \cup
  When(s.identity_verifier # "jwks", {"identity_verifier"}) \cup
  When(s.service_auth = "unchecked", {"service_auth"})

FirstProblems(stages) ==
  LET finding == {i \in DOMAIN stages : stages[i] # {}}
  IN IF finding = {} THEN {} ELSE stages[CHOOSE i \in finding : \A j \in finding : i <= j]

LoadTools(s) ==
  FirstProblems(<<s.broken \cap {"claim_namespace"}, ToolsMissing(s),
                  When(s.env = "production", ToolsUnsafe(s)),
                  s.broken \cap {"guardrail_policy"}, s.broken \cap {"timeouts"}>>)

LoadApi(s) ==
  FirstProblems(<<ApiMissing(s), When(s.env = "production", ApiUnsafe(s)),
                  s.broken \cap {"claim_namespace"}>>)

-----------------------------------------------------------------------------
(* The composition roots                                                   *)

\* build_application: the local verifier measures its secret, and the Redis
\* client and the tracing SDK are optional packages.
ToolsBuilt(s) ==
  /\ s.identity_verifier = "local" => "short_secret" \notin s.broken
  /\ s.idempotency_store = "redis" => "redis" \in s.installed
  /\ s.tracing_enabled => "otel" \in s.installed

\* build_context: secrets are measured, the allowlist must name somebody.
ApiBuilt(s) ==
  /\ s.identity_verifier = "local" => "short_secret" \notin s.broken
  /\ s.service_auth = "shared_secret" => "short_shared_secret" \notin s.broken
  /\ s.service_auth = "jwks" => "names_nobody" \notin s.broken

\* The middleware applies its schema before it serves.
StoreStarts == api.store = "mongodb" => "mongodb" \in up

AfterStart(service) ==
  LET problems == IF service = "tools" THEN LoadTools(tools) ELSE LoadApi(api)
      built == IF service = "tools" THEN ToolsBuilt(tools) ELSE ApiBuilt(api) /\ StoreStarts
  IN IF problems # {} THEN "refused" ELSE IF built THEN "serving" ELSE "crashed"

-----------------------------------------------------------------------------
(* Readiness                                                               *)

Probes == {"telecom_middleware", "idempotency_store"}
            \cup When(tools.identity_verifier = "jwks", {"identity_provider"})

\* ping: the middleware is asked whether it is alive, not whether it is ready.
Reachable(probe) ==
  CASE probe = "telecom_middleware" -> tools.backend = "fake" \/ stage["api"] = "serving"
    [] probe = "idempotency_store"  -> tools.idempotency_store = "memory" \/ "redis" \in up
    [] probe = "identity_provider"  -> "identity_provider" \in up

ReportOf(failed) ==
  IF failed \ {"identity_provider"} # {} THEN "unhealthy"
  ELSE IF failed # {} THEN "degraded" ELSE "healthy"

-----------------------------------------------------------------------------
(* A tool call, step by step: what it passes, and what stops it              *)

Path == <<"tools_keys", "idempotency_store", "service_token", "telecom_middleware",
          "service_credential", "identity", "api_keys", "store">>

\* verified_service with the verifier the middleware was built with.
ServiceVerified ==
  CASE api.service_auth = "unchecked" -> TRUE
    [] api.service_auth = "shared_secret" ->
         tools.service_identity_source = "static" /\ api.names_tools
    [] api.service_auth = "jwks" ->
         tools.service_identity_source = "client_credentials" /\ api.names_tools

Obtainable(what) == what \in cached \/ "identity_provider" \in up

Passes(step) ==
  IF step = "tools_keys" THEN tools.identity_verifier = "jwks" => Obtainable(step)
  ELSE IF step \in Probes THEN Reachable(step)
  ELSE tools.backend # "fake" =>
    CASE step = "service_token" ->
           tools.service_identity_source = "client_credentials" => Obtainable(step)
      [] step = "service_credential" -> ServiceVerified
      [] step = "identity" -> tools.identity_verifier = api.identity_verifier
      [] step = "api_keys" ->
           "jwks" \in {api.identity_verifier, api.service_auth} => Obtainable(step)
      [] step = "store" -> StoreStarts

Stopped == {i \in DOMAIN Path : ~Passes(Path[i])}
Passed == {Path[i] : i \in {j \in DOMAIN Path : \A k \in Stopped : j < k}}

-----------------------------------------------------------------------------
DeploymentInit ==
  /\ settings \in {[tools |-> t, api |-> a] : t \in ToolsSettings, a \in ApiSettings}
  /\ stage = [s \in Services |-> "stopped"]
  /\ up = Dependencies
  /\ cached = {} /\ held = {}
  /\ probing = NoProbe /\ ready = NotAsked
  /\ served = "none" /\ promised = FALSE /\ strangers = FALSE

\* A change around them: what was answered before it says nothing any more.
Noticed == ready' = NotAsked /\ UNCHANGED probing

Start(service) ==
  /\ stage[service] = "stopped"
  /\ stage' = [stage EXCEPT ![service] = AfterStart(service)]
  /\ Noticed
  /\ UNCHANGED <<settings, up, cached, served, promised, held, strangers>>

\* A stop or a crash: what the process kept in memory is gone.
Memories(service) ==
  IF service = "tools" THEN {"tools_keys", "service_token"} ELSE {"api_keys"}
Durable(service) ==
  IF service = "tools" THEN tools.idempotency_store = "redis" ELSE api.store = "mongodb"

Stop(service) ==
  /\ stage[service] \in {"serving", "crashed"}
  /\ stage' = [stage EXCEPT ![service] = "stopped"]
  /\ cached' = cached \ Memories(service)
  /\ held' = IF Durable(service) THEN held ELSE held \ {service}
  /\ ready' = NotAsked
  /\ probing' = IF service = "tools" THEN NoProbe ELSE probing
  /\ UNCHANGED <<settings, up, served, promised, strangers>>

GoesDown(d) ==
  /\ d \in up
  /\ up' = up \ {d}
  /\ Noticed
  /\ UNCHANGED <<settings, stage, cached, served, promised, held, strangers>>

ComesBack(d) ==
  /\ d \in Dependencies \ up
  /\ up' = up \cup {d}
  /\ Noticed
  /\ UNCHANGED <<settings, stage, cached, served, promised, held, strangers>>

\* HealthChecker.readiness: every probe runs, each in its own time.
AskTools ==
  /\ stage["tools"] = "serving" /\ probing = NoProbe
  /\ probing' = [waiting |-> Probes, failed |-> {}]
  /\ UNCHANGED <<settings, stage, up, cached, ready, served, promised, held, strangers>>

ProbeEnds(p) ==
  /\ p \in probing.waiting
  /\ probing' = [probing EXCEPT !.waiting = @ \ {p},
                                !.failed = @ \cup When(~Reachable(p), {p})]
  /\ UNCHANGED <<settings, stage, up, cached, ready, served, promised, held, strangers>>

\* An answer that is no longer so when it is given counts as none.
AnswerReady ==
  /\ probing # NoProbe /\ probing.waiting = {}
  /\ ready' = [ready EXCEPT !["tools"] =
                 IF probing.failed = {p \in Probes : ~Reachable(p)}
                 THEN ReportOf(probing.failed) ELSE "none"]
  /\ probing' = NoProbe
  /\ UNCHANGED <<settings, stage, up, cached, served, promised, held, strangers>>

\* GET /readyz of the middleware: its store, and nothing else.
AskApi ==
  /\ stage["api"] = "serving"
  /\ ready' = [ready EXCEPT !["api"] = IF StoreStarts THEN "healthy" ELSE "unhealthy"]
  /\ UNCHANGED <<settings, stage, up, cached, probing, served, promised, held, strangers>>

\* A keyed write through both services.
ToolCall ==
  /\ stage["tools"] = "serving"
  /\ served' = IF Stopped = {} THEN "served" ELSE "stopped"
  /\ cached' = cached \cup (Passed \cap {"tools_keys", "service_token", "api_keys"})
  /\ IF Stopped = {} /\ tools.backend = "http"
     THEN promised' = TRUE /\ held' = Services
     ELSE UNCHANGED <<promised, held>>
  /\ UNCHANGED <<settings, stage, up, probing, ready, strangers>>

\* A request with a customer's token and nothing in the service slot.
DirectCall ==
  /\ stage["api"] = "serving" /\ StoreStarts
  /\ strangers' = (strangers \/ api.service_auth = "unchecked")
  /\ UNCHANGED <<settings, stage, up, cached, probing, ready, served, promised, held>>

DeploymentNext ==
  \/ \E s \in Services : Start(s) \/ Stop(s)
  \/ \E d \in Dependencies : GoesDown(d) \/ ComesBack(d)
  \/ AskTools
  \/ \E p \in probing.waiting : ProbeEnds(p)
  \/ AnswerReady
  \/ AskApi
  \/ ToolCall
  \/ DirectCall

DeploymentSpec == DeploymentInit /\ [][DeploymentNext]_deployment

-----------------------------------------------------------------------------
(* Properties                                                              *)

DeploymentTypeOK ==
  /\ settings["tools"] \in ToolsSettings /\ settings["api"] \in ApiSettings
  /\ stage \in [Services -> {"stopped", "refused", "crashed", "serving"}]
  /\ up \subseteq Dependencies
  /\ cached \subseteq {"tools_keys", "service_token", "api_keys"}
  /\ ready \in [Services -> {"none", "healthy", "degraded", "unhealthy"}]
  /\ served \in {"none", "served", "stopped"}
  /\ held \subseteq Services
  /\ {promised, strangers} \subseteq BOOLEAN

\* In production no restart loses an answered write or the key it was done
\* under, and nobody is served without a service credential.
ProductionHolds ==
  /\ (stage["tools"] = "serving" /\ tools.env = "production" /\ promised) => "tools" \in held
  /\ (stage["api"] = "serving" /\ api.env = "production") =>
       ~strangers /\ (promised => "api" \in held)

\* The only reasons why a call is stopped between two services that both say
\* ready and that nothing has changed under since: they were given credentials
\* or identity systems that do not meet, which neither's settings nor readiness
\* can see, or a service that has not yet fetched what it needs from an identity
\* provider that is down, which the tools server calls degraded and the
\* middleware does not look at.
ReadyServes ==
  (ToolCall /\ served' = "stopped" /\ ready["tools"] \in {"healthy", "degraded"}
     /\ (tools.backend = "fake" \/ ready["api"] = "healthy")) =>
    \/ ~ServiceVerified
    \/ tools.identity_verifier # api.identity_verifier
    \/ "identity_provider" \notin up
         /\ cached # {"tools_keys", "service_token", "api_keys"}

\* Accepted settings are built, but for what only the constructors look at.
AcceptedIsBuilt ==
  /\ stage["tools"] = "crashed" =>
       "short_secret" \in tools.broken \/ {"redis", "otel"} \ tools.installed # {}
  /\ stage["api"] = "crashed" =>
       \/ {"short_secret", "short_shared_secret", "names_nobody"} \cap api.broken # {}
       \/ api.store = "mongodb"

\* What each service was started with decides what it can promise: production
\* forgets nothing and serves no stranger, ready services serve, and accepted
\* settings start.
DeploymentHolds ==
  /\ [](ProductionHolds /\ AcceptedIsBuilt)
  /\ [][ReadyServes]_deployment
=============================================================================
