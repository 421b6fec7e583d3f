------------------------------ MODULE TwoGates ------------------------------
(***************************************************************************)
(* Who may read an account.  A request reaches the middleware directly (the *)
(* console) or through the tools server, which authorizes it first; the two *)
(* services read the same token, each with its own rules, at different      *)
(* moments.  Between their steps the token may expire and assignments come  *)
(* and go.                                                                 *)
(*                                                                         *)
(* Tools server: security/authorization.py, identity.py, verifier.py,       *)
(* domain/permissions.py.  Middleware: api/dependencies.py, security/*.py,   *)
(* api/routes/customers.py and the repositories the reads use.             *)
(***************************************************************************)
EXTENDS FiniteSets

CONSTANTS Accounts,  \* customer references
          Asked,     \* the account the request is about
          Agent,     \* the subject of an agent or a supervisor
          Machine,   \* the subject of a client-credentials token
          Tenants,
          Missing    \* no such claim

ASSUME TwoGatesAssumption == Asked \in Accounts

VARIABLES token,     \* the bearer token of the request
          via,       \* "tools" or "direct"
          stands,    \* where the request stands, or the stage that refused it
          expired,   \* whether the token is past its exp
          assigned,  \* tenants in which Agent is assigned to Asked
          granted,   \* history: it was when the middleware looked
          given      \* the documents the request was given

twoGates == <<token, via, stands, expired, assigned, granted, given>>

\* The scope the endpoints of an account need (one stands for all), one only the
\* middleware knows, and one only the tools server knows.
Reads == "account:read"
ScopesOf(service) ==
  {Reads, IF service = "tools" THEN "service:change" ELSE "refund:approve"}
Scopes == ScopesOf("tools") \cup ScopesOf("middleware")
People == {"customer", "support_agent", "supervisor_approver", "admin_security"}
Delegated == {"support_agent", "supervisor_approver"}

RoleScopes(service, role) ==
  CASE role \in {"customer", "support_agent"} -> {Reads}
    [] role = "supervisor_approver" -> ScopesOf(service)
    [] OTHER -> {}

Claims == {{}} \cup {{s} : s \in Scopes}
Bearers == [sub : Accounts \cup {Agent, Machine, Missing}, cx : Accounts \cup {Missing},
           tenant : Tenants \cup {Missing}, role : People \cup {"service", "other", Missing},
           permissions : Claims, scope : SUBSET {Reads}]

\* Every customer has an account in every tenant.
GateDocuments == [tenant : Tenants, cx : Accounts]

GatesInit ==
  /\ token \in Bearers
  /\ via \in {"tools", "direct"}
  /\ stands = IF via = "tools" THEN "tools" ELSE "middleware"
  /\ expired = FALSE /\ assigned = {}
  /\ granted = FALSE /\ given = {}

\* parse_scopes(permissions) or parse_scopes(scope), then the ceiling of the role.
Granted(service) ==
  LET parsed == token.permissions \cap ScopesOf(service)
  IN  IF parsed # {} THEN parsed ELSE token.scope \cap ScopesOf(service)
Effective(service, role) == Granted(service) \cap RoleScopes(service, role)

-----------------------------------------------------------------------------
(* The tools server                                                        *)

Subject == IF token.cx # Missing THEN token.cx ELSE token.sub

\* Mutant: whoever carries the reference owns the account, whatever the role.
OwnsAny == Subject = Asked

Owns == token.role = "customer" /\ Subject = Asked

\* The first stage that fails, as the stages are ordered: the ownership check a
\* deployment gets is the one that denies, and no tenant is singled out.
ToolsStage ==
  IF \/ expired \/ Subject = Missing \/ token.tenant = Missing
     \/ token.role \notin People THEN "token"
  ELSE IF ~Owns THEN "account_ownership"
  ELSE IF token.role = "admin_security" \/ Effective("tools", token.role) = {} THEN "role"
  ELSE IF Reads \notin Effective("tools", token.role) THEN "permission"
  ELSE "middleware"

Authorized ==
  /\ stands = "tools"
  /\ stands' = ToolsStage
  /\ UNCHANGED <<token, via, expired, assigned, granted, given>>

-----------------------------------------------------------------------------
(* The middleware                                                          *)

\* verified_service: the credential of the service that calls may be absent,
\* malformed, expired, somebody's or not on the list; it does not depend on the
\* token.
VerifiedService ==
  /\ stands = "middleware"
  /\ stands' \in {"service_recognised", "service_refused"}
  /\ UNCHANGED <<token, via, expired, assigned, granted, given>>

IsService == token.sub = Machine
Role == IF token.role = Missing /\ IsService THEN "service" ELSE token.role

\* current_principal.
CurrentPrincipal ==
  /\ stands = "service_recognised"
  /\ stands' = IF \/ expired \/ token.sub = Missing \/ token.tenant = Missing
                  \/ Role \notin People \cup {"service"}
                  \/ Role = "customer" /\ token.cx = Missing
               THEN "not_authenticated" ELSE "principal"
  /\ UNCHANGED <<token, via, expired, assigned, granted, given>>

\* requires(scope), and require_account_access up to the lookup.
Access ==
  /\ stands = "principal"
  /\ stands' =
       IF Reads \notin Effective("middleware", Role) \/ IsService THEN "forbidden"
       ELSE IF Role = "customer" /\ token.cx = Asked THEN "reading"
       ELSE IF Role \in Delegated THEN "lookup"
       ELSE "forbidden"
  /\ UNCHANGED <<token, via, expired, assigned, granted, given>>

\* Mutant: an assignment counts in whichever tenant it was made.
IsAssignedAnywhere == token.sub = Agent /\ assigned # {}

IsAssigned == token.sub = Agent /\ token.tenant \in assigned

Lookup ==
  /\ stands = "lookup"
  /\ stands' = IF IsAssigned THEN "reading" ELSE "forbidden"
  /\ granted' = (token.tenant \in assigned)
  /\ UNCHANGED <<token, via, expired, assigned, given>>

\* The repository filters by the tenant of the token and the account asked for.
ReadAccount ==
  /\ stands = "reading"
  /\ stands' = "served"
  /\ given' = {d \in GateDocuments : d.tenant = token.tenant /\ d.cx = Asked}
  /\ UNCHANGED <<token, via, expired, assigned, granted>>

-----------------------------------------------------------------------------
Refusals == {"token", "account_ownership", "role", "permission", "service_refused",
             "not_authenticated", "forbidden"}
Over == stands \in Refusals \cup {"served"}

Expire == /\ ~Over /\ ~expired /\ expired' = TRUE
          /\ UNCHANGED <<token, via, stands, assigned, granted, given>>

\* A supervisor assigns or revokes.
Reassign == /\ stands \in {"principal", "lookup", "reading"}
            /\ \E t \in Tenants :
                 assigned' = IF t \in assigned THEN assigned \ {t} ELSE assigned \cup {t}
            /\ UNCHANGED <<token, via, stands, expired, granted, given>>

GatesNext == \/ Authorized \/ VerifiedService \/ CurrentPrincipal \/ Access \/ Lookup
             \/ ReadAccount \/ Expire \/ Reassign
GatesSpec == GatesInit /\ [][GatesNext]_twoGates

-----------------------------------------------------------------------------
GatesTypeOK ==
  /\ token \in Bearers /\ via \in {"tools", "direct"} /\ given \subseteq GateDocuments
  /\ stands \in Refusals \cup {"tools", "middleware", "service_recognised", "principal",
                               "lookup", "reading", "served"}

\* access.py:7-11.  What is given out belongs to the tenant and the account asked
\* for, and goes to a person who holds the permission and is that customer, or
\* an agent who was assigned, in that tenant, when the middleware looked;
\* through the tools server only to the customer.
RightReader ==
  stands = "served" =>
    /\ given # {} /\ \A d \in given : d.tenant = token.tenant /\ d.cx = Asked
    /\ token.sub # Machine /\ Reads \in token.permissions \cup token.scope
    /\ \/ token.role = "customer" /\ token.cx = Asked
       \/ token.role \in Delegated /\ granted /\ via = "direct"

\* A caller the tools server let through is refused by the middleware for one of
\* these reasons alone: the tools server's own credential, a token that expired
\* on the way, that names no person or no account, or whose permissions only
\* one of the two services knows.
RefusedForCause ==
  via = "tools" /\ stands \in {"not_authenticated", "forbidden"} =>
    \/ expired
    \/ token.sub \in {Missing, Machine} \/ token.cx = Missing
    \/ token.permissions # {} /\ token.permissions \subseteq Scopes \ ScopesOf("tools")

GatesHold == RightReader /\ RefusedForCause
=============================================================================
