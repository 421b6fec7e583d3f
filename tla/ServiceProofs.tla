---------------------------- MODULE ServiceProofs ----------------------------
(***************************************************************************)
(* Proofs about the smaller components, each for every value of its         *)
(* constants: the two gates before an account (TwoGates), the credential    *)
(* the tools server presents (ServiceToken), the signing keys (SigningKeys),*)
(* the client's retries (ToolClient), the passcode counter (Passcode),      *)
(* the voice cases (Cases), the start of the services (Deployment), and     *)
(* calls and answers between them (Exchange).                              *)
(* They share no state; each part below has its own inductive invariant.   *)
(***************************************************************************)
EXTENDS TwoGates, Credentials, ToolClient, Passcode, Cases, Deployment, Exchange,
        FiniteSetTheorems, SequenceTheorems, TLAPS

-----------------------------------------------------------------------------
(* The two gates                                                           *)

\* What the tools server has established of the callers it lets through.
ToolsLetThrough ==
  /\ Owns /\ Subject # Missing /\ token.tenant # Missing
  /\ Reads \in Effective("tools", "customer")

\* What current_principal has established.
IsPrincipal ==
  /\ token.sub # Missing /\ token.tenant # Missing
  /\ Role \in People \cup {"service"}
  /\ Role = "customer" => token.cx # Missing

\* What the access check has established.
MayLookUp ==
  /\ Reads \in Effective("middleware", Role) /\ ~IsService /\ Role \in Delegated
MayRead ==
  /\ Reads \in Effective("middleware", Role) /\ ~IsService
  /\ \/ Role = "customer" /\ token.cx = Asked
     \/ Role \in Delegated /\ granted

Given == {d \in GateDocuments : d.tenant = token.tenant /\ d.cx = Asked}

ToolsRefusals == {"token", "account_ownership", "role", "permission"}

\* Each stage keeps what the stages before it established, though the token may
\* expire and the assignment go meanwhile.
GatesInv ==
  /\ GatesTypeOK
  /\ via = "tools" /\ stands \notin ToolsRefusals \cup {"tools"} => ToolsLetThrough
  /\ stands \in {"principal", "lookup", "reading", "served", "forbidden"} => IsPrincipal
  /\ stands = "lookup" => MayLookUp
  /\ stands \in {"reading", "served"} => MayRead
  /\ stands = "served" => given = Given
  /\ RefusedForCause

\* A request starts with nothing established.
LEMMA GatesInitially == GatesInit => GatesInv
BY DEF GatesInit, GatesInv, GatesTypeOK, Refusals, ToolsRefusals, GateDocuments,
       RefusedForCause

\* Through the tools server comes a customer alone, whose permission the
\* middleware reads otherwise only if it names what the tools server does not know.
LEMMA OneTokenTwoReadings ==
  ASSUME token \in Bearers, ToolsLetThrough
  PROVE  /\ token.role = "customer"
         /\ token.sub # Machine => Role = "customer"
         /\ token.cx # Missing => token.cx = Asked
         /\ \/ Reads \in Effective("middleware", "customer")
            \/ token.permissions # {} /\ token.permissions \subseteq Scopes \ ScopesOf("tools")
<1>1. token.permissions \subseteq Scopes
  BY DEF Bearers, Claims
<1>2. token.role = "customer" /\ Subject = Asked
  BY DEF ToolsLetThrough, Owns
<1>3. Reads \in Granted("tools")
  BY DEF ToolsLetThrough, Effective
<1>4. Reads \in ScopesOf("tools") /\ Reads \in ScopesOf("middleware")
  BY DEF ScopesOf
<1>5. Reads \in RoleScopes("middleware", "customer")
  BY DEF RoleScopes
<1>6. CASE token.permissions \cap ScopesOf("tools") # {}
  <2>1. Reads \in token.permissions
    BY <1>3, <1>6 DEF Granted
  <2>2. Reads \in Granted("middleware")
    BY <2>1, <1>4 DEF Granted
  <2> QED BY <2>2, <1>2, <1>5 DEF Effective, Subject, Role, IsService
<1>7. CASE token.permissions \cap ScopesOf("tools") = {}
  <2>1. Reads \in token.scope
    BY <1>3, <1>7 DEF Granted
  <2>2. CASE token.permissions = {}
    <3>1. Reads \in Granted("middleware")
      BY <2>1, <2>2, <1>4 DEF Granted
    <3> QED BY <3>1, <1>2, <1>5 DEF Effective, Subject, Role, IsService
  <2>3. CASE token.permissions # {}
    <3>1. token.permissions \subseteq Scopes \ ScopesOf("tools")
      BY <1>1, <1>7
    <3> QED BY <3>1, <2>3, <1>2 DEF Subject, Role, IsService
  <2> QED BY <2>2, <2>3
<1> QED BY <1>6, <1>7

\* Every step keeps what was established.
LEMMA GatesStep == GatesInv /\ [GatesNext]_twoGates => GatesInv'
<1> SUFFICES ASSUME GatesInv, [GatesNext]_twoGates PROVE GatesInv'
  OBVIOUS
<1>t. token \in Bearers /\ GatesTypeOK
  BY DEF GatesInv, GatesTypeOK
<1> DEFINE Unread == UNCHANGED <<token, via>>
<1>0. Unread
  BY DEF GatesNext, twoGates, Authorized, VerifiedService, CurrentPrincipal, Access,
         Lookup, ReadAccount, Expire, Reassign
<1>k. /\ ToolsLetThrough' <=> ToolsLetThrough
      /\ IsPrincipal' <=> IsPrincipal
      /\ MayLookUp' <=> MayLookUp
      /\ Given' = Given
  BY <1>0 DEF ToolsLetThrough, IsPrincipal, MayLookUp, Given, Owns, Subject, Effective,
              Granted, Role, IsService
<1>r. granted' = granted => (MayRead' <=> MayRead)
  BY <1>0 DEF MayRead, Effective, Granted, Role, IsService
<1>c. expired' = expired \/ expired' = TRUE
  BY DEF GatesNext, twoGates, Authorized, VerifiedService, CurrentPrincipal, Access,
         Lookup, ReadAccount, Expire, Reassign
<1>1. CASE Authorized
  <2>1. stands' \in ToolsRefusals \cup {"middleware"}
    BY <1>1 DEF Authorized, ToolsStage, ToolsRefusals
  <2>2. stands' = "middleware" => ToolsLetThrough
    BY <1>1 DEF Authorized, ToolsStage, ToolsLetThrough, Owns
  <2> QED BY <1>1, <2>1, <2>2, <1>k, <1>t, <1>0
          DEF Authorized, GatesInv, GatesTypeOK, ToolsRefusals, RefusedForCause, Refusals
<1>2. CASE VerifiedService
  BY <1>2, <1>k, <1>0
     DEF VerifiedService, GatesInv, GatesTypeOK, ToolsRefusals, RefusedForCause, Refusals
<1>3. CASE CurrentPrincipal
  <2>1. stands = "service_recognised" /\ stands' \in {"principal", "not_authenticated"}
    BY <1>3 DEF CurrentPrincipal
  <2>2. stands' = "principal" => IsPrincipal
    BY <1>3 DEF CurrentPrincipal, IsPrincipal
  <2>3. RefusedForCause'
    <3> SUFFICES ASSUME via = "tools", stands' = "not_authenticated" PROVE RefusedForCause'
      BY <2>1, <1>0 DEF RefusedForCause
    <3>1. ToolsLetThrough
      BY <2>1 DEF GatesInv, ToolsRefusals
    <3>2. token.tenant # Missing
      BY <3>1 DEF ToolsLetThrough
    <3>3. expired \/ token.sub \in {Missing, Machine} \/ token.cx = Missing
      BY <1>3, <3>1, <3>2, <1>t, OneTokenTwoReadings DEF CurrentPrincipal, People
    <3> QED BY <3>3, <1>0, <1>3 DEF RefusedForCause, CurrentPrincipal
  <2> QED BY <1>3, <2>1, <2>2, <2>3, <1>k, <1>0
          DEF CurrentPrincipal, GatesInv, GatesTypeOK, ToolsRefusals, Refusals
<1>4. CASE Access
  <2>1. stands = "principal" /\ stands' \in {"forbidden", "reading", "lookup"}
    BY <1>4 DEF Access
  <2>2. stands' = "lookup" => MayLookUp
    BY <1>4 DEF Access, MayLookUp
  <2>3. stands' = "reading" => MayRead
    BY <1>4 DEF Access, MayRead
  <2>4. RefusedForCause'
    <3> SUFFICES ASSUME via = "tools", stands' = "forbidden" PROVE RefusedForCause'
      BY <2>1, <1>0 DEF RefusedForCause
    <3>1. ToolsLetThrough
      BY <2>1 DEF GatesInv, ToolsRefusals
    <3>2. \/ Reads \notin Effective("middleware", Role) \/ IsService \/ token.cx # Asked
          \/ Role # "customer"
      BY <1>4 DEF Access
    <3>3. \/ token.sub = Machine \/ token.cx = Missing
          \/ token.permissions # {} /\ token.permissions \subseteq Scopes \ ScopesOf("tools")
      BY <3>1, <3>2, <1>t, OneTokenTwoReadings DEF IsService
    <3> QED BY <3>3, <1>0, <1>4 DEF RefusedForCause, Access
  <2> QED BY <1>4, <2>1, <2>2, <2>3, <2>4, <1>k, <1>r, <1>0
          DEF Access, GatesInv, GatesTypeOK, ToolsRefusals, Refusals
<1>5. CASE Lookup
  <2>1. stands = "lookup" /\ stands' \in {"reading", "forbidden"} /\ MayLookUp
    BY <1>5 DEF Lookup, GatesInv
  <2>2. stands' = "reading" => granted'
    BY <1>5 DEF Lookup, IsAssigned
  <2>3. stands' = "reading" => MayRead'
    BY <2>1, <2>2, <1>0 DEF MayRead, MayLookUp, Effective, Granted, Role, IsService
  <2>4. RefusedForCause'
    <3> SUFFICES ASSUME via = "tools" PROVE RefusedForCause'
      BY <1>0 DEF RefusedForCause
    <3>1. ToolsLetThrough
      BY <2>1 DEF GatesInv, ToolsRefusals
    <3>2. Role \in Delegated /\ ~IsService
      BY <2>1 DEF MayLookUp
    <3>3. FALSE
      BY <3>1, <3>2, <1>t, OneTokenTwoReadings DEF IsService, Delegated
    <3> QED BY <3>3
  <2> QED BY <1>5, <2>1, <2>3, <2>4, <1>k, <1>0
          DEF Lookup, GatesInv, GatesTypeOK, ToolsRefusals, Refusals
<1>6. CASE ReadAccount
  <2>1. Given \subseteq GateDocuments
    BY DEF Given
  <2> QED BY <1>6, <2>1, <1>k, <1>r, <1>0
          DEF ReadAccount, GatesInv, GatesTypeOK, ToolsRefusals, RefusedForCause, Refusals,
              Given
<1>7. CASE Expire
  <2>1. stands \notin {"served", "not_authenticated", "forbidden"}
    BY <1>7 DEF Expire, Over, Refusals
  <2> QED BY <1>7, <2>1, <1>k, <1>r, <1>0
          DEF Expire, GatesInv, GatesTypeOK, ToolsRefusals, RefusedForCause, Refusals
<1>8. CASE Reassign
  <2>1. UNCHANGED <<token, via, stands, expired, granted, given>>
    BY <1>8 DEF Reassign
  <2> QED BY <2>1, <1>k, <1>r DEF GatesInv, GatesTypeOK, RefusedForCause
<1>9. CASE UNCHANGED twoGates
  <2>1. UNCHANGED <<token, via, stands, expired, granted, given>>
    BY <1>9 DEF twoGates
  <2> QED BY <2>1, <1>k, <1>r DEF GatesInv, GatesTypeOK, RefusedForCause
<1> QED BY <1>1, <1>2, <1>3, <1>4, <1>5, <1>6, <1>7, <1>8, <1>9 DEF GatesNext

\* What a served request was given: something, of its own tenant and of the
\* account it asked for.
LEMMA ServedTheRightReader == GatesInv => RightReader
<1> SUFFICES ASSUME GatesInv, stands = "served" PROVE RightReader
  BY DEF RightReader
<1>1. /\ IsPrincipal /\ MayRead /\ given = Given /\ token \in Bearers
      /\ via \in {"tools", "direct"}
      /\ via = "tools" => ToolsLetThrough
  BY DEF GatesInv, GatesTypeOK, ToolsRefusals
<1>2. token.tenant \in Tenants
  BY <1>1 DEF Bearers, IsPrincipal
<1>3. [tenant |-> token.tenant, cx |-> Asked] \in given
  BY <1>1, <1>2, TwoGatesAssumption DEF Given, GateDocuments
<1>4. \A d \in given : d.tenant = token.tenant /\ d.cx = Asked
  BY <1>1 DEF Given
<1>5. token.sub # Machine /\ Reads \in token.permissions \cup token.scope
  BY <1>1 DEF MayRead, IsService, Effective, Granted
<1>6. Role = token.role
  BY <1>5 DEF Role, IsService
<1>7. via = "tools" => Role \notin Delegated
  BY <1>1, <1>6, OneTokenTwoReadings DEF Delegated
<1>8. \/ token.role = "customer" /\ token.cx = Asked
      \/ token.role \in Delegated /\ granted /\ via = "direct"
  BY <1>1, <1>6, <1>7 DEF MayRead
<1> QED BY <1>3, <1>4, <1>5, <1>8 DEF RightReader

\* Whatever the token claims, and whatever expires or is reassigned between two
\* steps, what is given out is the tenant's and the account's that was asked for
\* and goes to that customer or to an agent assigned when the middleware looked;
\* and a caller the tools server let through is refused for cause alone.
THEOREM OnlyTheRightReader == GatesSpec => []GatesHold
<1>1. GatesInv => GatesHold
  BY ServedTheRightReader DEF GatesInv, GatesHold
<1> QED BY <1>1, GatesInitially, GatesStep, PTL DEF GatesSpec

-----------------------------------------------------------------------------
(* The credential the tools server presents                                *)

SenderStages == {"idle", "lock", "fetch", "issued", "fast", "fresh", "kept", "error"}
SenderRecords == [at : SenderStages, took : 0..SlowestGrant, issued : Nat, left : Int]

TokenTyped ==
  /\ tokensCounted \in Int /\ tokensCounted >= NoToken
  /\ alive \in Int /\ alive >= -SlowestGrant
  /\ holder \in Senders \cup {Nobody}
  /\ sender \in [Senders -> SenderRecords]

\* What the cache counts runs ahead of the token's life by no more than the time
\* its fetch took; so does what a response on its way says.
NotFarAhead ==
  /\ Cached => alive >= tokensCounted - SlowestGrant
  /\ \A s \in Senders :
       sender[s].at = "issued" => sender[s].left >= sender[s].issued - sender[s].took

TokenInv == TokenTyped /\ CredentialIsGood /\ NotFarAhead

\* At first nothing is cached, and nobody fetches.
LEMMA TokenInitially == TokenInit => TokenInv
<1> SUFFICES ASSUME TokenInit PROVE TokenInv
  OBVIOUS
<1>1. /\ tokensCounted = -SlowestGrant - 1 /\ alive = 0 /\ holder = 0
      /\ sender = [s \in Senders |-> [at |-> "idle", took |-> 0, issued |-> 0, left |-> 0]]
  BY DEF TokenInit, NoToken, Nobody, Quiet
<1>2. TokenTyped
  BY <1>1, ServiceTokenAssumption
     DEF TokenTyped, NoToken, Nobody, SenderRecords, SenderStages
<1>3. \A s \in Senders : sender[s].at = "idle"
  BY <1>1
<1>4. CredentialIsGood
  BY <1>1, <1>3, ServiceTokenAssumption
     DEF CredentialIsGood, OneRefresh, NoWastedRefresh, HandedOutAlive, Fetching
<1>5. NotFarAhead
  BY <1>1, <1>3 DEF NotFarAhead, Cached, NoToken
<1> QED BY <1>2, <1>4, <1>5 DEF TokenInv

\* What a step of request s may do: whichever shape r its own record takes, and
\* what the cache and the lock do then.
Moves(s, r) ==
  /\ sender' = [sender EXCEPT ![s] = r]
  /\ \/ /\ r.at = "lock" /\ sender[s].at = "idle"
        /\ UNCHANGED <<tokensCounted, alive, holder>>
     \/ /\ r.at = "fast" /\ r.left = alive /\ Usable
        /\ sender[s].at \in {"idle", "lock"}
        /\ UNCHANGED <<tokensCounted, alive, holder>>
     \/ /\ r.at = "fetch" /\ sender[s].at = "lock"
        /\ ~Usable /\ holder = Nobody /\ holder' = s
        /\ UNCHANGED <<tokensCounted, alive>>
     \/ /\ r.at = "issued" /\ sender[s].at = "fetch"
        /\ r.left = r.issued
        /\ UNCHANGED <<tokensCounted, alive, holder>>
     \/ /\ r.at = "fresh" /\ sender[s].at = "issued" /\ holder' = Nobody
        /\ tokensCounted' = sender[s].issued /\ alive' = sender[s].left
        /\ r.left = alive' /\ tokensCounted' >= Shortest
     \/ /\ \/ r.at \in {"error", "idle"}
           \/ r.at = "kept" /\ r.left = alive /\ StillCurrent
        /\ sender[s].at \in {"lock", "fetch", "issued"}
        /\ holder' = IF holder = s THEN Nobody ELSE holder
        /\ UNCHANGED <<tokensCounted, alive>>

\* Every step of a request is one of these.
LEMMA SenderCourse ==
  ASSUME TokenInv, NEW s \in Senders, SenderStep(s)
  PROVE  \E r \in SenderRecords : Moves(s, r)
<1> DEFINE old == sender[s]
<1>1. old \in SenderRecords /\ alive \in Int /\ holder \in Senders \cup {Nobody}
  BY DEF TokenInv, TokenTyped
<1>2. Fetching(s) => holder = s
  BY DEF TokenInv, CredentialIsGood, OneRefresh
<1>3. ASSUME NEW where \in SenderStages PROVE Quiet(where) \in SenderRecords
  BY ServiceTokenAssumption DEF Quiet, SenderRecords
<1>4. ASSUME NEW where \in SenderStages
      PROVE  /\ [Quiet(where) EXCEPT !.left = alive] \in SenderRecords
             /\ [Quiet(where) EXCEPT !.left = alive].at = where
             /\ [Quiet(where) EXCEPT !.left = alive].left = alive
  BY <1>1, ServiceTokenAssumption DEF Quiet, SenderRecords
<1>5. {"lock", "fast", "fetch", "issued", "fresh", "kept", "error", "idle"} \subseteq SenderStages
  BY DEF SenderStages
<1> HIDE DEF old
<1>6. CASE Want(s)
  <2>1. CASE Usable
    <3>1. Moves(s, [Quiet("fast") EXCEPT !.left = alive])
      BY <1>6, <2>1, <1>4, <1>5 DEF Want, Served, Moves
    <3> QED BY <3>1, <1>4, <1>5
  <2>2. CASE ~Usable
    <3>1. Moves(s, Quiet("lock"))
      BY <1>6, <2>2 DEF Want, Quiet, Moves
    <3> QED BY <3>1, <1>3, <1>5
  <2> QED BY <2>1, <2>2
<1>7. CASE Acquire(s)
  <2>1. CASE Usable
    <3>1. Moves(s, [Quiet("fast") EXCEPT !.left = alive])
      BY <1>7, <2>1, <1>4, <1>5 DEF Acquire, Served, Moves
    <3> QED BY <3>1, <1>4, <1>5
  <2>2. CASE ~Usable
    <3>1. Moves(s, Quiet("fetch"))
      BY <1>7, <2>2 DEF Acquire, Quiet, Moves
    <3> QED BY <3>1, <1>3, <1>5
  <2> QED BY <2>1, <2>2
<1>8. CASE Issue(s)
  <2>1. PICK life \in Lifetimes :
          sender' = [sender EXCEPT ![s] =
                       [sender[s] EXCEPT !.at = "issued", !.issued = life, !.left = life]]
    BY <1>8 DEF Issue
  <2>2. PICK r : r = [old EXCEPT !.at = "issued", !.issued = life, !.left = life]
    OBVIOUS
  <2>a. life \in Nat /\ life \in Int
    BY ServiceTokenAssumption
  <2>b. r = [at |-> "issued", took |-> old.took, issued |-> life, left |-> life]
    BY <2>2, <1>1 DEF SenderRecords
  <2>3. r \in SenderRecords /\ r.at = "issued" /\ r.left = life /\ r.issued = life
    BY <2>a, <2>b, <1>1, <1>5 DEF SenderRecords
  <2>4. sender' = [sender EXCEPT ![s] = r]
    BY <2>1, <2>2 DEF old
  <2>5. Moves(s, r)
    BY <1>8, <2>3, <2>4 DEF Issue, Moves
  <2> QED BY <2>3, <2>5
<1>9. CASE Refreshed(s)
  <2>1. old.issued \in Nat /\ old.left \in Int
    BY <1>1 DEF SenderRecords
  <2>2. sender[s].at = "issued" /\ holder' = Nobody
    BY <1>9 DEF Refreshed
  <2>3. CASE old.issued < Shortest
    <3>1. sender' = [sender EXCEPT ![s] = Quiet("error")] /\ UNCHANGED <<tokensCounted, alive>>
      BY <1>9, <2>3 DEF Refreshed, old
    <3>2. Moves(s, Quiet("error"))
      BY <3>1, <2>2, <1>2 DEF Fetching, Quiet, Moves
    <3> QED BY <3>2, <1>3, <1>5
  <2>4. CASE ~(old.issued < Shortest)
    <3>1. PICK r : r = [Quiet("fresh") EXCEPT !.left = old.left]
      OBVIOUS
    <3>2. r \in SenderRecords /\ r.at = "fresh" /\ r.left = old.left
      BY <3>1, <1>5, <2>1, ServiceTokenAssumption DEF Quiet, SenderRecords
    <3>3. /\ tokensCounted' = old.issued /\ alive' = old.left
          /\ sender' = [sender EXCEPT ![s] = r]
      BY <1>9, <2>4, <3>1 DEF Refreshed, old
    <3>4. old.issued >= Shortest
      BY <2>1, <2>4, ServiceTokenAssumption
    <3>5. Moves(s, r)
      BY <3>2, <3>3, <3>4, <2>2 DEF Moves, old
    <3> QED BY <3>2, <3>5
  <2> QED BY <2>3, <2>4
<1>10. CASE Malformed(s)
  <2>1. Moves(s, Quiet("error"))
    BY <1>10, <1>2 DEF Malformed, Fetching, Quiet, Moves
  <2> QED BY <2>1, <1>3, <1>5
<1>11. CASE RefreshFails(s)
  <2>1. /\ sender[s].at \in {"fetch", "issued"} /\ holder = s /\ holder' = Nobody
        /\ UNCHANGED <<tokensCounted, alive>>
    BY <1>11, <1>2 DEF RefreshFails, Fetching
  <2>2. CASE StillCurrent
    <3>1. sender' = [sender EXCEPT ![s] = [Quiet("kept") EXCEPT !.left = alive]]
      BY <1>11, <2>2 DEF RefreshFails, Served
    <3>2. Moves(s, [Quiet("kept") EXCEPT !.left = alive])
      BY <2>1, <3>1, <2>2, <1>4, <1>5 DEF Moves
    <3> QED BY <3>2, <1>4, <1>5
  <2>3. CASE ~StillCurrent
    <3>1. Moves(s, Quiet("error"))
      BY <1>11, <2>1, <2>3 DEF RefreshFails, Quiet, Moves
    <3> QED BY <3>1, <1>3, <1>5
  <2> QED BY <2>2, <2>3
<1>12. CASE GivesUp(s)
  <2>1. Moves(s, Quiet("idle"))
    BY <1>12 DEF GivesUp, Quiet, Moves
  <2> QED BY <2>1, <1>3, <1>5
<1> QED BY <1>6, <1>7, <1>8, <1>9, <1>10, <1>11, <1>12 DEF SenderStep

\* A step of one request keeps the invariant.
LEMMA SenderStepKeeps ==
  ASSUME TokenInv, NEW s \in Senders, SenderStep(s)
  PROVE  TokenInv'
<1>0. PICK r \in SenderRecords : Moves(s, r)
  BY SenderCourse
<1>1. Moves(s, r)
  BY <1>0
<1> USE DEF Moves
<1>2. sender'[s] = r /\ \A q \in Senders \ {s} : sender'[q] = sender[q]
  BY <1>1 DEF TokenInv, TokenTyped
<1>3. \A q \in Senders : Fetching(q) <=> holder = q
  BY DEF TokenInv, CredentialIsGood, OneRefresh
<1>4. s # Nobody /\ SlowestGrant \in Nat /\ Shortest \in Nat /\ Margin \in Nat
  BY ServiceTokenAssumption DEF Nobody
<1>5. /\ sender[s] \in SenderRecords /\ sender[s].issued \in Nat /\ sender[s].left \in Int
      /\ sender[s].took \in 0..SlowestGrant /\ r.took \in 0..SlowestGrant
      /\ r.left \in Int /\ r.issued \in Nat
  BY DEF TokenInv, TokenTyped, SenderRecords
<1>6. sender[s].at = "issued" => sender[s].left >= sender[s].issued - SlowestGrant
  BY <1>4, <1>5 DEF TokenInv, NotFarAhead
<1>t. /\ tokensCounted \in Int /\ tokensCounted >= NoToken
      /\ alive \in Int /\ alive >= -SlowestGrant /\ holder \in Senders \cup {Nobody}
      /\ Cached => alive >= tokensCounted - SlowestGrant
  BY DEF TokenInv, TokenTyped, NotFarAhead
<1>7. TokenTyped'
  <2>1. tokensCounted' \in Int /\ tokensCounted' >= NoToken
    BY <1>1, <1>t, <1>4, <1>5 DEF NoToken
  <2>2. alive' \in Int /\ alive' >= -SlowestGrant
    BY <1>1, <1>t, <1>4, <1>5, <1>6
  <2>3. holder' \in Senders \cup {Nobody}
    BY <1>1, <1>t
  <2>4. sender' \in [Senders -> SenderRecords]
    BY <1>1 DEF TokenInv, TokenTyped
  <2> QED BY <2>1, <2>2, <2>3, <2>4 DEF TokenTyped, NoToken, Nobody, SenderRecords, SenderStages
<1>8. \A q \in Senders : Fetching(q)' <=> holder' = q
  <2> SUFFICES ASSUME NEW q \in Senders PROVE Fetching(q)' <=> holder' = q
    OBVIOUS
  <2>1. CASE q = s
    BY <1>1, <1>2, <1>3, <1>4, <2>1 DEF Fetching
  <2>2. CASE q # s
    <3>1. Fetching(q)' <=> Fetching(q)
      BY <1>2, <2>2 DEF Fetching
    <3>2. q # Nobody
      BY ServiceTokenAssumption DEF Nobody
    <3> QED BY <1>1, <1>3, <3>1, <3>2, <2>2 DEF Fetching
  <2> QED BY <2>1, <2>2
<1>9. NoWastedRefresh'
  <2> SUFFICES ASSUME NEW q \in Senders, Fetching(q)' PROVE ~Usable'
    BY DEF NoWastedRefresh
  <2>1. CASE q = s
    <3>1. r.at \in {"fetch", "issued"} /\ UNCHANGED <<tokensCounted, alive>>
      BY <1>1, <1>2, <2>1 DEF Fetching
    <3>2. ~Usable
      BY <1>1, <3>1 DEF TokenInv, CredentialIsGood, NoWastedRefresh, Fetching
    <3> QED BY <3>1, <3>2 DEF Usable, Cached
  <2>2. CASE q # s
    <3>1. Fetching(q) /\ holder = q
      BY <1>2, <1>3, <2>2 DEF Fetching
    <3>2. ~Fetching(s)
      BY <1>3, <3>1, <2>2
    <3>3. UNCHANGED <<tokensCounted, alive>>
      BY <1>1, <3>2 DEF Fetching
    <3> QED BY <3>1, <3>3 DEF TokenInv, CredentialIsGood, NoWastedRefresh, Usable, Cached
  <2> QED BY <2>1, <2>2
<1>10. HandedOutAlive'
  <2> SUFFICES ASSUME NEW q \in Senders
               PROVE  /\ sender'[q].at = "fast" => sender'[q].left > Margin - SlowestGrant
                      /\ sender'[q].at = "kept" => sender'[q].left > -SlowestGrant
                      /\ sender'[q].at = "fresh" => sender'[q].left >= Shortest - SlowestGrant
    BY DEF HandedOutAlive
  <2>1. CASE q # s
    BY <2>1, <1>2 DEF TokenInv, CredentialIsGood, HandedOutAlive
  <2>2. r.at = "fast" => r.left > Margin - SlowestGrant
    BY <1>1, <1>t, <1>4 DEF Usable
  <2>3. r.at = "kept" => r.left > -SlowestGrant
    BY <1>1, <1>t, <1>4 DEF StillCurrent
  <2>4. r.at = "fresh" => r.left >= Shortest - SlowestGrant
    BY <1>1, <1>4, <1>5, <1>6
  <2> QED BY <2>1, <2>2, <2>3, <2>4, <1>2
<1>11. NotFarAhead'
  <2>1. Cached' => alive' >= tokensCounted' - SlowestGrant
    BY <1>1, <1>t, <1>4, <1>5, <1>6 DEF Cached
  <2>2. r.at = "issued" => r.left >= r.issued - r.took
    BY <1>1, <1>5, <1>4
  <2> QED BY <2>1, <2>2, <1>2 DEF NotFarAhead, TokenInv
<1> QED BY <1>7, <1>8, <1>9, <1>10, <1>11 DEF TokenInv, CredentialIsGood, OneRefresh

\* So does the passing of time: both counts fall together, and a fetch lasts no
\* longer than its timeout.
LEMMA ElapsesKeeps == ASSUME TokenInv, Elapses PROVE TokenInv'
<1>1. /\ tokensCounted \in Int /\ tokensCounted >= NoToken
      /\ alive \in Int /\ alive >= -SlowestGrant /\ SlowestGrant \in Nat
      /\ sender \in [Senders -> SenderRecords] /\ holder' = holder
  BY ServiceTokenAssumption DEF TokenInv, TokenTyped, Elapses
<1>2. /\ tokensCounted' = IF Cached THEN Less(tokensCounted, -SlowestGrant) ELSE tokensCounted
      /\ alive' = Less(alive, -SlowestGrant)
  BY DEF Elapses
<1>3. /\ tokensCounted' \in Int /\ tokensCounted' >= NoToken
      /\ alive' \in Int /\ alive' >= -SlowestGrant
      /\ tokensCounted' <= tokensCounted /\ (Cached' <=> Cached)
      /\ Cached => tokensCounted' = tokensCounted - 1 \/ tokensCounted' = -SlowestGrant
      /\ alive' >= alive - 1
  BY <1>1, <1>2 DEF Less, Cached, NoToken
<1>4. ASSUME NEW s \in Senders
      PROVE  /\ sender'[s] \in SenderRecords
             /\ Fetching(s)' <=> Fetching(s)
             /\ sender'[s].at \notin {"fast", "kept", "fresh"}
             /\ sender'[s].at = "issued" =>
                  sender'[s].left >= sender'[s].issued - sender'[s].took
  <2>1. sender'[s] = IF Fetching(s)
                     THEN [sender[s] EXCEPT !.took = @ + 1, !.left = Less(@, -SlowestGrant)]
                     ELSE IF sender[s].at = "lock" THEN sender[s] ELSE Quiet("idle")
    BY DEF Elapses
  <2>2. /\ sender[s] \in SenderRecords /\ sender[s].left \in Int /\ sender[s].issued \in Nat
        /\ sender[s].took \in 0..SlowestGrant
    BY <1>1 DEF SenderRecords
  <2>3. CASE Fetching(s)
    <3> DEFINE new == sender'[s]
    <3>1. new = [sender[s] EXCEPT !.took = sender[s].took + 1,
                                  !.left = Less(sender[s].left, -SlowestGrant)]
      BY <2>1, <2>3
    <3>a. sender[s].took < SlowestGrant
      BY <2>3 DEF Elapses
    <3>2. sender[s].took + 1 \in 0..SlowestGrant
      BY <2>2, <3>a, <1>1
    <3>3. /\ Less(sender[s].left, -SlowestGrant) \in Int
          /\ Less(sender[s].left, -SlowestGrant) >= sender[s].left - 1
      BY <2>2, <1>1 DEF Less
    <3>4. /\ new \in SenderRecords /\ new.at = sender[s].at /\ new.issued = sender[s].issued
          /\ new.took = sender[s].took + 1 /\ new.left = Less(sender[s].left, -SlowestGrant)
      BY <3>1, <3>2, <3>3, <2>2 DEF SenderRecords
    <3>5. sender[s].at = "issued" => sender[s].left >= sender[s].issued - sender[s].took
      BY DEF TokenInv, NotFarAhead
    <3> HIDE DEF new
    <3>6. new.at = "issued" => new.left >= new.issued - new.took
      BY <3>4, <3>5, <3>3, <2>2
    <3> QED BY <3>4, <3>6, <2>3 DEF Fetching, new
  <2>4. CASE ~Fetching(s)
    <3>1. sender'[s] = IF sender[s].at = "lock" THEN sender[s] ELSE Quiet("idle")
      BY <2>1, <2>4
    <3>2. Quiet("idle") \in SenderRecords /\ Quiet("idle").at = "idle"
      BY <1>1 DEF Quiet, SenderRecords, SenderStages
    <3> QED BY <3>1, <3>2, <2>2, <2>4 DEF Fetching
  <2> QED BY <2>3, <2>4
<1>5. sender' \in [Senders -> SenderRecords]
  <2>1. DOMAIN sender' = Senders /\ sender' = [s \in Senders |-> sender'[s]]
    BY DEF Elapses
  <2> QED BY <2>1, <1>4
<1>6. CredentialIsGood'
  <2>1. OneRefresh'
    BY <1>1, <1>4 DEF TokenInv, CredentialIsGood, OneRefresh
  <2>2. ~Usable => ~Usable'
    BY <1>1, <1>3, ServiceTokenAssumption DEF Usable
  <2>3. NoWastedRefresh'
    BY <2>2, <1>4 DEF TokenInv, CredentialIsGood, NoWastedRefresh
  <2>4. HandedOutAlive'
    BY <1>4 DEF HandedOutAlive
  <2> QED BY <2>1, <2>3, <2>4 DEF CredentialIsGood
<1>7. NotFarAhead'
  <2>1. Cached => alive >= tokensCounted - SlowestGrant
    BY DEF TokenInv, NotFarAhead
  <2>2. ASSUME Cached' PROVE alive' >= tokensCounted' - SlowestGrant
    <3>1. Cached
      BY <2>2, <1>3
    <3>2. alive >= tokensCounted - SlowestGrant
      BY <3>1, <2>1
    <3>3. CASE tokensCounted' = tokensCounted - 1
      BY <3>2, <3>3, <1>1, <1>3
    <3>4. CASE tokensCounted' = -SlowestGrant
      BY <3>4, <1>1, <1>3
    <3> QED BY <3>1, <3>3, <3>4, <1>3
  <2> QED BY <2>2, <1>4 DEF NotFarAhead
<1>8. TokenTyped'
  BY <1>1, <1>3, <1>5
     DEF TokenInv, TokenTyped, NoToken, Nobody, SenderRecords, SenderStages
<1> QED BY <1>6, <1>7, <1>8 DEF TokenInv

\* One refresh at a time and none in vain, and what is handed out is alive at the
\* provider but for the time a fetch may take: for any number of requests, any
\* margin and lifetimes, whoever is cancelled and whatever fails.
THEOREM CredentialStaysGood == TokenSpec => []CredentialIsGood
<1>1. TokenInv /\ [TokenNext]_serviceToken => TokenInv'
  <2>1. TokenInv /\ UNCHANGED serviceToken => TokenInv'
    BY DEF serviceToken, TokenInv, TokenTyped, CredentialIsGood, OneRefresh,
           NoWastedRefresh, HandedOutAlive, NotFarAhead, Fetching, Usable, Cached,
           NoToken, Nobody, SenderRecords, SenderStages
  <2> QED BY <2>1, SenderStepKeeps, ElapsesKeeps DEF TokenNext
<1>2. TokenInv => CredentialIsGood
  BY DEF TokenInv
<1> QED BY <1>1, <1>2, TokenInitially, PTL DEF TokenSpec

-----------------------------------------------------------------------------
(* The client's retries                                                    *)

Begun == {"working", "failed", "crashed"} \cup Checked
RequestStages == {"unsent", "sent", "lost", "rejected"} \cup Begun
AskRecords == [at : {"idle", "waiting", "backoff", "raised"} \cup Outcomes,
               key : ClientKeys \cup {ReadOnly}, attempt : 0..MaxRetries]

ClientTyped ==
  /\ asking \in [ClientCalls -> AskRecords]
  /\ request \in [ClientCalls -> [Attempts -> RequestStages]]
  /\ keyState \in [ClientKeys -> {"free", "held", "done"}]
  /\ wire \subseteq ClientCalls \X Attempts /\ landed \subseteq ClientCalls \X Attempts
  /\ broke \in [ClientCalls -> [Attempts -> Outcomes \cup {"none"}]]

\* A call makes its requests one after another, and ends with the last one's answer.
OneByOne ==
  \A c \in ClientCalls :
    /\ asking[c].at \in {"idle", "raised"} <=> asking[c].attempt = 0
    /\ asking[c].at = "backoff" => asking[c].attempt < MaxRetries
    /\ \A n \in Attempts : n > asking[c].attempt => request[c][n] = "unsent"
    /\ asking[c].at = "ok" => Current(c) = "ran"
    /\ asking[c].at = "refused" => Current(c) \in ErrorAnswers

\* A write is repeated after a broken connection alone.
Excused ==
  \A c \in ClientCalls : \A n \in Attempts :
    /\ ~IsReadOnly(c)
    /\ \/ n < asking[c].attempt
       \/ n = asking[c].attempt /\ asking[c].at = "backoff"
    => broke[c][n] = "transport_error"

IsWrite(c, n, where) == ~IsReadOnly(c) /\ request[c][n] = where

\* The write of a key that is done was done, and only what the server began is or
\* was asked of the middleware.
WritesKept ==
  /\ \A k \in ClientKeys : keyState[k] = "done" => IsWritten(k)
  /\ \A r \in wire \cup landed : request[r[1]][r[2]] \in Begun

\* A write that is worked on holds its key, alone; one that ran has done it.
KeysKept ==
  /\ \A c \in ClientCalls, n \in Attempts :
       /\ IsWrite(c, n, "working") => keyState[asking[c].key] = "held"
       /\ IsWrite(c, n, "ran") => keyState[asking[c].key] = "done"
  /\ \A c, d \in ClientCalls : \A n, m \in Attempts :
       IsWrite(c, n, "working") /\ IsWrite(d, m, "working") /\ asking[c].key = asking[d].key
       => c = d /\ n = m

ClientInv == ClientTyped /\ OneByOne /\ Excused /\ WritesKept /\ KeysKept

\* At first nothing was asked and no key is taken.
LEMMA ClientInitially == ClientInit => ClientInv
<1> SUFFICES ASSUME ClientInit PROVE ClientInv
  OBVIOUS
<1>1. ClientTyped
  BY ToolClientAssumption
     DEF ClientInit, ClientTyped, AskRecords, RequestStages, Outcomes, Attempts
<1>2. \A c \in ClientCalls :
        /\ asking[c].at = "idle" /\ asking[c].attempt = 0 /\ IsReadOnly(c)
        /\ \A n \in Attempts : request[c][n] = "unsent"
  BY DEF ClientInit, IsReadOnly
<1>3. OneByOne /\ Excused
  BY <1>2, ToolClientAssumption DEF OneByOne, Excused, Attempts
<1>4. KeysKept /\ WritesKept
  BY <1>2 DEF KeysKept, WritesKept, IsWrite, ClientInit
<1> QED BY <1>1, <1>3, <1>4 DEF ClientInv

\* What is written stays so.
LEMMA WritesStay ==
  ASSUME ClientInv, landed \subseteq landed',
         \A k \in ClientKeys : keyState'[k] = "done" => keyState[k] = "done" \/ IsWritten(k),
         \A r \in landed : asking'[r[1]].key = asking[r[1]].key,
         \A r \in wire' \cup landed' : request'[r[1]][r[2]] \in Begun
  PROVE  WritesKept'
<1>1. ASSUME NEW k \in ClientKeys, keyState'[k] = "done" PROVE IsWritten(k)'
  <2>1. IsWritten(k)
    BY <1>1 DEF ClientInv, WritesKept
  <2> QED BY <2>1 DEF IsWritten
<1> QED BY <1>1 DEF WritesKept

\* What the invariant says of one call.
LEMMA OfOneCall ==
  ASSUME ClientInv, NEW c \in ClientCalls
  PROVE  /\ asking[c] \in AskRecords /\ asking[c].attempt \in 0..MaxRetries
         /\ asking[c].at \in {"idle", "waiting", "backoff", "raised"} \cup Outcomes
         /\ asking[c].key \in ClientKeys \cup {ReadOnly}
         /\ MaxRetries \in Nat \ {0} /\ Attempts \subseteq Nat
         /\ request[c] \in [Attempts -> RequestStages]
         /\ broke[c] \in [Attempts -> Outcomes \cup {"none"}]
         /\ asking[c].attempt # 0 => asking[c].attempt \in Attempts
         /\ asking[c].at = "waiting" => asking[c].attempt \in Attempts
<1>1. /\ asking[c] \in AskRecords /\ request[c] \in [Attempts -> RequestStages]
      /\ broke[c] \in [Attempts -> Outcomes \cup {"none"}]
  BY DEF ClientInv, ClientTyped
<1>2. MaxRetries \in Nat \ {0} /\ Attempts \subseteq Nat
  BY ToolClientAssumption DEF Attempts
<1>3. /\ asking[c].attempt \in 0..MaxRetries
      /\ asking[c].at \in {"idle", "waiting", "backoff", "raised"} \cup Outcomes
      /\ asking[c].key \in ClientKeys \cup {ReadOnly}
  BY <1>1 DEF AskRecords
<1>4. asking[c].attempt # 0 => asking[c].attempt \in Attempts
  BY <1>2, <1>3 DEF Attempts
<1>5. asking[c].at = "waiting" => asking[c].attempt # 0
  BY DEF ClientInv, OneByOne
<1> QED BY <1>1, <1>2, <1>3, <1>4, <1>5

\* A call that is made, given up, answered or repeated changes no key.
LEMMA CallToolKeeps ==
  ASSUME ClientInv, NEW c \in ClientCalls, NEW k \in ClientKeys \cup {ReadOnly}, CallTool(c, k)
  PROVE  ClientInv'
<1>t. ClientTyped
  BY DEF ClientInv
<1>c. /\ asking[c].at = "idle" /\ asking[c].attempt = 0
      /\ \A n \in Attempts : request[c][n] = "unsent"
      /\ 1 \in Attempts /\ 1 \in 0..MaxRetries /\ 0 \in 0..MaxRetries
  <2>1. asking[c].at = "idle" /\ asking[c].attempt = 0
    BY DEF CallTool, ClientInv, OneByOne
  <2>2. \A n \in Attempts : n > 0
    BY ToolClientAssumption DEF Attempts
  <2> QED BY <2>1, <2>2, ToolClientAssumption DEF ClientInv, OneByOne, Attempts
<1>b. \A r \in wire \cup landed : r[1] \in ClientCalls \ {c} /\ request[r[1]][r[2]] \in Begun
  <2>1. \A r \in wire \cup landed : /\ r[1] \in ClientCalls /\ r[2] \in Attempts
                                     /\ request[r[1]][r[2]] \in Begun
    BY <1>t DEF ClientTyped, ClientInv, WritesKept
  <2> QED BY <2>1, <1>c DEF Begun, Checked
<1>1. UNCHANGED <<keyState, wire, landed, broke>>
  BY DEF CallTool
<1>2. CASE session = "ready"
  <2>1. /\ asking' = [asking EXCEPT ![c] = [at |-> "waiting", key |-> k, attempt |-> 1]]
        /\ request' = [request EXCEPT ![c][1] = "sent"]
    BY <1>2 DEF CallTool
  <2>2. /\ asking'[c] = [at |-> "waiting", key |-> k, attempt |-> 1]
        /\ request'[c] = [request[c] EXCEPT ![1] = "sent"]
        /\ \A d \in ClientCalls \ {c} : asking'[d] = asking[d] /\ request'[d] = request[d]
    BY <2>1, <1>t DEF ClientTyped
  <2>3. /\ request'[c][1] = "sent"
        /\ \A n \in Attempts : n # 1 => request'[c][n] = "unsent"
    BY <2>2, <1>c, OfOneCall
  <2>4. ClientTyped'
    <3>1. [at |-> "waiting", key |-> k, attempt |-> 1] \in AskRecords
      BY <1>c DEF AskRecords
    <3>2. asking' \in [ClientCalls -> AskRecords]
      BY <3>1, <2>1, <1>t DEF ClientTyped
    <3>3. request' \in [ClientCalls -> [Attempts -> RequestStages]]
      <4>1. [request[c] EXCEPT ![1] = "sent"] \in [Attempts -> RequestStages]
        BY OfOneCall DEF RequestStages
      <4>2. request' = [request EXCEPT ![c] = [request[c] EXCEPT ![1] = "sent"]]
        BY <2>1
      <4> QED BY <4>1, <4>2, <1>t DEF ClientTyped
    <3> QED BY <3>2, <3>3, <1>1, <1>t DEF ClientTyped
  <2>5. OneByOne'
    <3> SUFFICES ASSUME NEW d \in ClientCalls
                 PROVE  /\ asking'[d].at \in {"idle", "raised"} <=> asking'[d].attempt = 0
                        /\ asking'[d].at = "backoff" => asking'[d].attempt < MaxRetries
                        /\ \A n \in Attempts :
                             n > asking'[d].attempt => request'[d][n] = "unsent"
                        /\ asking'[d].at = "ok" => request'[d][asking'[d].attempt] = "ran"
                        /\ asking'[d].at = "refused" =>
                             request'[d][asking'[d].attempt] \in ErrorAnswers
      BY DEF OneByOne, Current
    <3>1. CASE d = c
      BY <3>1, <2>2, <2>3
    <3>2. CASE d # c
      BY <3>2, <2>2 DEF ClientInv, OneByOne, Current
    <3> QED BY <3>1, <3>2
  <2>6. Excused'
    <3>1. \A n \in Attempts : ~(n < 1)
      BY ToolClientAssumption DEF Attempts
    <3>2. \A d \in ClientCalls \ {c} : IsReadOnly(d)' <=> IsReadOnly(d)
      BY <2>2 DEF IsReadOnly
    <3> QED BY <3>1, <3>2, <2>2, <1>1 DEF ClientInv, Excused
  <2>7. \A d \in ClientCalls, n \in Attempts :
          /\ IsWrite(d, n, "working")' => d # c /\ IsWrite(d, n, "working")
          /\ IsWrite(d, n, "ran")' => d # c /\ IsWrite(d, n, "ran")
    BY <2>2, <2>3 DEF IsWrite, IsReadOnly
  <2>8. KeysKept'
    <3>1. \A d \in ClientCalls : d # c => asking'[d].key = asking[d].key
      BY <2>2
    <3> QED BY <3>1, <2>7, <1>1 DEF ClientInv, KeysKept
  <2>9. WritesKept'
    <3>1. \A r \in wire \cup landed : r[1] \in ClientCalls \ {c} /\ request[r[1]][r[2]] \in Begun
      BY <1>b
    <3> QED BY <3>1, <2>2, <1>1, WritesStay
  <2> QED BY <2>4, <2>5, <2>6, <2>8, <2>9 DEF ClientInv
<1>3. CASE session # "ready"
  <2>1. asking' = [asking EXCEPT ![c].at = "raised"] /\ UNCHANGED request
    BY <1>3 DEF CallTool
  <2>2. /\ asking'[c] = [asking[c] EXCEPT !.at = "raised"]
        /\ \A d \in ClientCalls \ {c} : asking'[d] = asking[d]
    BY <2>1, <1>t DEF ClientTyped
  <2>3. /\ asking'[c] \in AskRecords /\ asking'[c].at = "raised"
        /\ asking'[c].key = asking[c].key /\ asking'[c].attempt = asking[c].attempt
    BY <2>2, OfOneCall DEF AskRecords
  <2>4. ClientTyped'
    BY <1>1, <2>1, <2>3, <1>t DEF ClientTyped
  <2>5. OneByOne'
    BY <1>c, <2>1, <2>2, <2>3 DEF ClientInv, OneByOne, Current
  <2>6. \A d \in ClientCalls : asking'[d].key = asking[d].key /\ (IsReadOnly(d)' <=> IsReadOnly(d))
    BY <2>2, <2>3 DEF IsReadOnly
  <2>7. Excused'
    <3> SUFFICES ASSUME NEW d \in ClientCalls, NEW n \in Attempts, ~IsReadOnly(d),
                        \/ n < asking'[d].attempt
                        \/ n = asking'[d].attempt /\ asking'[d].at = "backoff"
                 PROVE  broke[d][n] = "transport_error"
      BY <2>6, <1>1 DEF Excused
    <3>1. n # 0 /\ ~(n < 0)
      BY ToolClientAssumption DEF Attempts
    <3>2. d # c
      BY <3>1, <1>c, <2>3
    <3> QED BY <3>2, <2>2 DEF ClientInv, Excused
  <2>8. KeysKept'
    <3>1. \A d \in ClientCalls, n \in Attempts :
            /\ IsWrite(d, n, "working")' <=> IsWrite(d, n, "working")
            /\ IsWrite(d, n, "ran")' <=> IsWrite(d, n, "ran")
      BY <2>1, <2>6 DEF IsWrite
    <3> QED BY <3>1, <2>6, <1>1 DEF ClientInv, KeysKept
  <2>9. WritesKept'
    BY <2>1, <2>2, <1>b, <1>1, WritesStay
  <2> QED BY <2>4, <2>5, <2>7, <2>8, <2>9 DEF ClientInv
<1> QED BY <1>2, <1>3

\* So does an answer, or the end of an attempt without one.
LEMMA ConcludeKeeps ==
  ASSUME ClientInv, NEW c \in ClientCalls, asking[c].at = "waiting",
         NEW outcome \in Outcomes, Conclude(c, outcome),
         outcome = "ok" => Current(c) = "ran",
         outcome = "refused" => Current(c) \in ErrorAnswers
  PROVE  ClientInv'
<1>t. ClientTyped
  BY DEF ClientInv
<1> DEFINE last == asking[c].attempt
           end == IF ShouldRetry(c, outcome) THEN "backoff" ELSE outcome
<1>1. /\ asking' = [asking EXCEPT ![c].at = end]
      /\ broke' = [broke EXCEPT ![c][last] = outcome]
      /\ UNCHANGED <<session, request, keyState, wire, landed>>
  BY DEF Conclude
<1>2. /\ end \in {"backoff"} \cup Outcomes /\ last \in Attempts /\ last # 0
      /\ end # "waiting" /\ end # "idle" /\ end # "raised"
      /\ end = "backoff" => last < MaxRetries
      /\ end \in {"ok", "refused"} => outcome = end
      /\ end = "backoff" /\ ~IsReadOnly(c) => outcome = "transport_error"
  <2>1. last \in Attempts /\ last # 0
    BY OfOneCall, ToolClientAssumption DEF Attempts
  <2> QED BY <2>1 DEF Outcomes, ShouldRetry
<1> HIDE DEF end, last
<1>3. asking'[c] = [asking[c] EXCEPT !.at = end]
  BY <1>1, <1>t DEF ClientTyped
<1>4. /\ asking'[c] \in AskRecords /\ asking'[c].at = end
      /\ asking'[c].key = asking[c].key /\ asking'[c].attempt = last
      /\ \A d \in ClientCalls \ {c} : asking'[d] = asking[d]
  BY <1>1, <1>2, <1>3, <1>t, OfOneCall DEF AskRecords, ClientTyped, last
<1>5. broke' \in [ClientCalls -> [Attempts -> Outcomes \cup {"none"}]]
  <2>1. [broke[c] EXCEPT ![last] = outcome] \in [Attempts -> Outcomes \cup {"none"}]
    BY OfOneCall
  <2>2. broke' = [broke EXCEPT ![c] = [broke[c] EXCEPT ![last] = outcome]]
    BY <1>1
  <2> QED BY <2>1, <2>2, <1>t DEF ClientTyped
<1>6. /\ broke'[c][last] = outcome
      /\ \A n \in Attempts : n # last => broke'[c][n] = broke[c][n]
      /\ \A d \in ClientCalls \ {c} : broke'[d] = broke[d]
  BY <1>1, <1>2, <1>t, OfOneCall DEF ClientTyped
<1>7. ClientTyped'
  BY <1>1, <1>4, <1>5, <1>t DEF ClientTyped
<1>8. \A d \in ClientCalls :
        /\ asking'[d].key = asking[d].key /\ asking'[d].attempt = asking[d].attempt
        /\ IsReadOnly(d)' <=> IsReadOnly(d)
  BY <1>4 DEF IsReadOnly, last
<1>9. OneByOne'
  <2> SUFFICES ASSUME NEW d \in ClientCalls
               PROVE  /\ asking'[d].at \in {"idle", "raised"} <=> asking[d].attempt = 0
                      /\ asking'[d].at = "backoff" => asking[d].attempt < MaxRetries
                      /\ \A n \in Attempts : n > asking[d].attempt => request[d][n] = "unsent"
                      /\ asking'[d].at = "ok" => Current(d) = "ran"
                      /\ asking'[d].at = "refused" => Current(d) \in ErrorAnswers
    BY <1>1, <1>8 DEF OneByOne, Current
  <2>1. CASE d = c
    BY <2>1, <1>2, <1>4 DEF ClientInv, OneByOne, last
  <2>2. CASE d # c
    BY <2>2, <1>4 DEF ClientInv, OneByOne
  <2> QED BY <2>1, <2>2
<1>10. Excused'
  <2> SUFFICES ASSUME NEW d \in ClientCalls, NEW n \in Attempts, ~IsReadOnly(d),
                      \/ n < asking[d].attempt
                      \/ n = asking[d].attempt /\ asking'[d].at = "backoff"
               PROVE  broke'[d][n] = "transport_error"
    BY <1>8 DEF Excused
  <2>1. CASE d # c
    BY <2>1, <1>4, <1>6 DEF ClientInv, Excused
  <2>2. CASE d = c /\ n = last
    <3>1. ~(n < asking[d].attempt)
      BY <2>2, <1>2, OfOneCall DEF last
    <3> QED BY <2>2, <3>1, <1>2, <1>4, <1>6
  <2>3. CASE d = c /\ n # last
    <3>1. n < asking[c].attempt
      BY <2>3 DEF last
    <3> QED BY <2>3, <3>1, <1>6 DEF ClientInv, Excused
  <2> QED BY <2>1, <2>2, <2>3
<1>11. KeysKept'
  <2>1. \A d \in ClientCalls, n \in Attempts :
          /\ IsWrite(d, n, "working")' <=> IsWrite(d, n, "working")
          /\ IsWrite(d, n, "ran")' <=> IsWrite(d, n, "ran")
    BY <1>1, <1>8 DEF IsWrite
  <2> QED BY <2>1, <1>1, <1>8 DEF ClientInv, KeysKept
<1>12. WritesKept'
  <2>1. \A r \in wire \cup landed : r[1] \in ClientCalls /\ request[r[1]][r[2]] \in Begun
    BY <1>t DEF ClientTyped, ClientInv, WritesKept
  <2> QED BY <2>1, <1>1, <1>8, WritesStay
<1> QED BY <1>7, <1>9, <1>10, <1>11, <1>12 DEF ClientInv

\* So does the next request of a call.
LEMMA ResendKeeps == ASSUME ClientInv, NEW c \in ClientCalls, Resend(c) PROVE ClientInv'
<1>t. ClientTyped
  BY DEF ClientInv
<1> DEFINE next == asking[c].attempt + 1
<1>1. /\ asking' = [asking EXCEPT ![c].at = "waiting", ![c].attempt = asking[c].attempt + 1]
      /\ request' = [request EXCEPT ![c][next] = "sent"]
      /\ UNCHANGED <<session, keyState, wire, landed, broke>> /\ asking[c].at = "backoff"
  BY DEF Resend
<1>2. /\ next \in Attempts /\ next \in 0..MaxRetries /\ next # 0
      /\ \A n \in Attempts : n < next <=> n <= asking[c].attempt
      /\ \A n \in Attempts : n > next => n > asking[c].attempt /\ n # next
      /\ request[c][next] = "unsent"
  <2>1. asking[c].attempt < MaxRetries /\ asking[c].attempt \in 0..MaxRetries
    BY <1>1, OfOneCall DEF ClientInv, OneByOne
  <2>2. /\ next \in Attempts /\ next \in 0..MaxRetries /\ next # 0 /\ next > asking[c].attempt
        /\ \A n \in Attempts : n < next <=> n <= asking[c].attempt
        /\ \A n \in Attempts : n > next => n > asking[c].attempt /\ n # next
    BY <2>1, ToolClientAssumption DEF Attempts
  <2> QED BY <2>2 DEF ClientInv, OneByOne
<1>3. asking'[c] = [asking[c] EXCEPT !.at = "waiting", !.attempt = asking[c].attempt + 1]
  BY <1>1, <1>t DEF ClientTyped
<1>4. /\ asking'[c] \in AskRecords /\ asking'[c].at = "waiting"
      /\ asking'[c].key = asking[c].key /\ asking'[c].attempt = next
      /\ \A d \in ClientCalls \ {c} : asking'[d] = asking[d]
  BY <1>1, <1>2, <1>3, <1>t, OfOneCall DEF AskRecords, ClientTyped
<1> HIDE DEF next
<1>5. request' = [request EXCEPT ![c] = [request[c] EXCEPT ![next] = "sent"]]
  BY <1>1
<1>6. /\ request' \in [ClientCalls -> [Attempts -> RequestStages]]
      /\ request'[c][next] = "sent"
      /\ \A n \in Attempts : n # next => request'[c][n] = request[c][n]
      /\ \A d \in ClientCalls \ {c} : request'[d] = request[d]
  <2>1. [request[c] EXCEPT ![next] = "sent"] \in [Attempts -> RequestStages]
    BY OfOneCall DEF RequestStages
  <2> QED BY <1>5, <2>1, <1>2, <1>t, OfOneCall DEF ClientTyped
<1>7. ClientTyped'
  BY <1>1, <1>4, <1>6, <1>t DEF ClientTyped
<1>8. \A d \in ClientCalls : asking'[d].key = asking[d].key /\ (IsReadOnly(d)' <=> IsReadOnly(d))
  BY <1>4 DEF IsReadOnly
<1>9. OneByOne'
  <2> SUFFICES ASSUME NEW d \in ClientCalls
               PROVE  /\ asking'[d].at \in {"idle", "raised"} <=> asking'[d].attempt = 0
                      /\ asking'[d].at = "backoff" => asking'[d].attempt < MaxRetries
                      /\ \A n \in Attempts :
                           n > asking'[d].attempt => request'[d][n] = "unsent"
                      /\ asking'[d].at = "ok" => request'[d][asking'[d].attempt] = "ran"
                      /\ asking'[d].at = "refused" =>
                           request'[d][asking'[d].attempt] \in ErrorAnswers
    BY DEF OneByOne, Current
  <2>1. CASE d = c
    <3>1. \A n \in Attempts : n > next => request'[c][n] = "unsent"
      BY <1>2, <1>6 DEF ClientInv, OneByOne
    <3> QED BY <2>1, <3>1, <1>2, <1>4
  <2>2. CASE d # c
    BY <2>2, <1>4, <1>6 DEF ClientInv, OneByOne, Current
  <2> QED BY <2>1, <2>2
<1>10. Excused'
  <2>1. \A n \in Attempts : ~IsReadOnly(c) /\ n <= asking[c].attempt =>
          broke[c][n] = "transport_error"
    <3>1. \A n \in Attempts : n <= asking[c].attempt =>
            n < asking[c].attempt \/ n = asking[c].attempt
      BY OfOneCall
    <3> QED BY <3>1, <1>1 DEF ClientInv, Excused
  <2> SUFFICES ASSUME NEW d \in ClientCalls, NEW n \in Attempts, ~IsReadOnly(d),
                      \/ n < asking'[d].attempt
                      \/ n = asking'[d].attempt /\ asking'[d].at = "backoff"
               PROVE  broke[d][n] = "transport_error"
    BY <1>1, <1>8 DEF Excused
  <2>2. CASE d = c
    BY <2>1, <2>2, <1>2, <1>4
  <2>3. CASE d # c
    BY <2>3, <1>4 DEF ClientInv, Excused
  <2> QED BY <2>2, <2>3
<1>11. KeysKept'
  <2>1. \A d \in ClientCalls, n \in Attempts :
          /\ IsWrite(d, n, "working")' <=> IsWrite(d, n, "working")
          /\ IsWrite(d, n, "ran")' <=> IsWrite(d, n, "ran")
    <3> SUFFICES ASSUME NEW d \in ClientCalls, NEW n \in Attempts
                 PROVE  /\ request'[d][n] = "working" <=> request[d][n] = "working"
                        /\ request'[d][n] = "ran" <=> request[d][n] = "ran"
      BY <1>8 DEF IsWrite
    <3>1. CASE d = c /\ n = next
      BY <3>1, <1>2, <1>6
    <3>2. CASE ~(d = c /\ n = next)
      BY <3>2, <1>6
    <3> QED BY <3>1, <3>2
  <2>2. UNCHANGED keyState /\ KeysKept
    BY <1>1 DEF ClientInv
  <2>3. \A d \in ClientCalls : asking'[d].key = asking[d].key
    BY <1>8
  <2> QED BY <2>1, <2>2, <2>3 DEF KeysKept
<1>12. WritesKept'
  <2>1. \A r \in wire \cup landed : /\ r[1] \in ClientCalls /\ r[2] \in Attempts
                                     /\ request[r[1]][r[2]] \in Begun
    BY <1>t DEF ClientTyped, ClientInv, WritesKept
  <2>2. \A r \in wire \cup landed : ~(r[1] = c /\ r[2] = next)
    BY <2>1, <1>2 DEF Begun, Checked
  <2>3. \A r \in wire \cup landed : request'[r[1]][r[2]] = request[r[1]][r[2]]
    BY <2>1, <2>2, <1>6
  <2> QED BY <2>1, <2>3, <1>1, <1>8, WritesStay
<1> QED BY <1>7, <1>9, <1>10, <1>11, <1>12 DEF ClientInv

\* The network and the server move a request that was sent and keep what is final;
\* of the calls they change nothing.
LEMMA ServedRequest ==
  ASSUME ClientInv, NEW c \in ClientCalls, NEW n \in Attempts, NEW where \in RequestStages,
         request[c][n] \in {"sent", "working"},
         request' = [request EXCEPT ![c][n] = where],
         UNCHANGED <<asking, broke>>
  PROVE  /\ request' \in [ClientCalls -> [Attempts -> RequestStages]]
         /\ request'[c][n] = where
         /\ \A d \in ClientCalls, m \in Attempts :
              ~(d = c /\ m = n) => request'[d][m] = request[d][m]
         /\ \A d \in ClientCalls : IsReadOnly(d)' <=> IsReadOnly(d)
         /\ OneByOne' /\ Excused'
         /\ request[c][n] = "sent" => <<c, n>> \notin wire \cup landed
         /\ request[c][n] = "sent" \/ where \in Begun =>
              \A r \in wire \cup landed : request'[r[1]][r[2]] \in Begun
<1>t. ClientTyped
  BY DEF ClientInv
<1>1. request' = [request EXCEPT ![c] = [request[c] EXCEPT ![n] = where]]
  OBVIOUS
<1>2. [request[c] EXCEPT ![n] = where] \in [Attempts -> RequestStages]
  BY OfOneCall
<1>3. request' \in [ClientCalls -> [Attempts -> RequestStages]] /\ request'[c][n] = where
  BY <1>1, <1>2, <1>t, OfOneCall DEF ClientTyped
<1>4. \A d \in ClientCalls, m \in Attempts :
        ~(d = c /\ m = n) => request'[d][m] = request[d][m]
  <2> SUFFICES ASSUME NEW d \in ClientCalls, NEW m \in Attempts, ~(d = c /\ m = n)
               PROVE  request'[d][m] = request[d][m]
    OBVIOUS
  <2>1. CASE d # c
    BY <2>1, <1>1, <1>t DEF ClientTyped
  <2>2. CASE d = c /\ m # n
    BY <2>2, <1>1, <1>t, OfOneCall DEF ClientTyped
  <2> QED BY <2>1, <2>2
<1>5. \A d \in ClientCalls : IsReadOnly(d)' <=> IsReadOnly(d)
  BY DEF IsReadOnly
<1>6. Excused'
  BY <1>5 DEF ClientInv, Excused
<1>7. OneByOne'
  <2> SUFFICES ASSUME NEW d \in ClientCalls
               PROVE  /\ \A m \in Attempts :
                           m > asking[d].attempt => request'[d][m] = "unsent"
                      /\ asking[d].at = "ok" => request'[d][asking[d].attempt] = "ran"
                      /\ asking[d].at = "refused" =>
                           request'[d][asking[d].attempt] \in ErrorAnswers
    BY DEF ClientInv, OneByOne, Current
  <2>1. ASSUME NEW m \in Attempts, m > asking[d].attempt PROVE request'[d][m] = "unsent"
    <3>1. request[d][m] = "unsent"
      BY <2>1 DEF ClientInv, OneByOne
    <3> QED BY <3>1, <1>4
  <2>2. asking[d].at \in {"ok", "refused"} => asking[d].attempt \in Attempts
    BY OfOneCall DEF ClientInv, OneByOne
  <2>3. asking[d].at \in {"ok", "refused"} =>
          request'[d][asking[d].attempt] = request[d][asking[d].attempt]
    BY <2>2, <1>4 DEF ClientInv, OneByOne, Current, ErrorAnswers
  <2> QED BY <2>1, <2>3 DEF ClientInv, OneByOne, Current
<1>8. \A r \in wire \cup landed : /\ r[1] \in ClientCalls /\ r[2] \in Attempts
                                   /\ r = <<r[1], r[2]>> /\ request[r[1]][r[2]] \in Begun
  BY <1>t DEF ClientTyped, ClientInv, WritesKept
<1>9. request[c][n] = "sent" => <<c, n>> \notin wire \cup landed
  BY <1>8 DEF Begun, Checked
<1>10. ASSUME request[c][n] = "sent" \/ where \in Begun, NEW r \in wire \cup landed
       PROVE  request'[r[1]][r[2]] \in Begun
  <2>1. CASE r[1] = c /\ r[2] = n
    BY <2>1, <1>3, <1>8, <1>9, <1>10
  <2>2. CASE ~(r[1] = c /\ r[2] = n)
    BY <2>2, <1>4, <1>8
  <2> QED BY <2>1, <2>2
<1> QED BY <1>3, <1>4, <1>5, <1>6, <1>7, <1>9, <1>10

\* A request that goes on without touching a key.
LEMMA KeylessKeeps ==
  ASSUME ClientInv, NEW c \in ClientCalls, NEW n \in Attempts, NEW where \in RequestStages,
         request[c][n] \in {"sent", "working"},
         IsReadOnly(c) \/ where \notin {"working", "ran"},
         request[c][n] = "sent" \/ where \in Begun,
         request' = [request EXCEPT ![c][n] = where],
         UNCHANGED <<asking, broke, keyState, wire, landed>>
  PROVE  ClientInv'
<1>1. ASSUME NEW d \in ClientCalls, NEW m \in Attempts
      PROVE  /\ IsWrite(d, m, "working")' => IsWrite(d, m, "working")
             /\ IsWrite(d, m, "ran")' => IsWrite(d, m, "ran")
  <2>1. CASE d = c /\ m = n
    BY <2>1, ServedRequest DEF IsWrite
  <2>2. CASE ~(d = c /\ m = n)
    BY <2>2, ServedRequest DEF IsWrite
  <2> QED BY <2>1, <2>2
<1>2. KeysKept'
  BY <1>1 DEF ClientInv, KeysKept
<1>3. ClientTyped'
  BY ServedRequest DEF ClientInv, ClientTyped
<1>4. WritesKept'
  BY ServedRequest, WritesStay
<1> QED BY <1>2, <1>3, <1>4, ServedRequest DEF ClientInv

\* What a request finds under its key decides what becomes of it.
LEMMA ServerReceivesKeeps ==
  ASSUME ClientInv, NEW c \in ClientCalls, NEW n \in Attempts, ServerReceives(c, n)
  PROVE  ClientInv'
<1> DEFINE key == asking[c].key
<1>t. ClientTyped /\ KeysKept
  BY DEF ClientInv
<1>0. /\ request[c][n] = "sent" /\ request[c][n] \in {"sent", "working"}
      /\ UNCHANGED <<asking, broke>> /\ UNCHANGED landed
  BY DEF ServerReceives
<1>e. /\ "rejected" \in RequestStages /\ "working" \in RequestStages /\ "working" \in Begun
      /\ Checked \subseteq Begun /\ Checked \subseteq RequestStages
  BY DEF RequestStages, Begun
<1>1. CASE request' = [request EXCEPT ![c][n] = "rejected"] /\ UNCHANGED <<keyState, wire>>
  BY <1>0, <1>1, <1>e, KeylessKeeps
<1>2. CASE /\ IsReadOnly(c)
           /\ request' = [request EXCEPT ![c][n] = "working"] /\ UNCHANGED <<keyState, wire>>
  BY <1>0, <1>2, <1>e, KeylessKeeps
<1>3. CASE /\ ~IsReadOnly(c) /\ keyState[key] = "free"
           /\ request' = [request EXCEPT ![c][n] = "working"]
           /\ keyState' = [keyState EXCEPT ![key] = "held"]
           /\ wire' = wire \cup {<<c, n>>}
  <2>1. key \in ClientKeys
    BY <1>3, OfOneCall DEF IsReadOnly
  <2>2. keyState'[key] = "held" /\ \A k \in ClientKeys \ {key} : keyState'[k] = keyState[k]
    BY <1>3, <2>1, <1>t DEF ClientTyped
  <2>3. /\ request'[c][n] = "working"
        /\ \A d \in ClientCalls, m \in Attempts :
             ~(d = c /\ m = n) => request'[d][m] = request[d][m]
        /\ \A d \in ClientCalls : IsReadOnly(d)' <=> IsReadOnly(d)
        /\ request' \in [ClientCalls -> [Attempts -> RequestStages]]
        /\ OneByOne' /\ Excused'
    BY <1>0, <1>3, <1>e, ServedRequest
  <2>4. ASSUME NEW d \in ClientCalls, NEW m \in Attempts
        PROVE  /\ IsWrite(d, m, "working")' =>
                    \/ d = c /\ m = n
                    \/ IsWrite(d, m, "working") /\ asking[d].key # key /\ asking[d].key \in ClientKeys
               /\ IsWrite(d, m, "ran")' =>
                    IsWrite(d, m, "ran") /\ asking[d].key # key /\ asking[d].key \in ClientKeys
    <3>1. ~IsReadOnly(d) => asking[d].key \in ClientKeys
      BY OfOneCall DEF IsReadOnly
    <3>2. IsWrite(d, m, "working") => asking[d].key # key
      BY <1>3, <1>t DEF KeysKept
    <3>3. IsWrite(d, m, "ran") => asking[d].key # key
      BY <1>3, <1>t DEF KeysKept
    <3> QED BY <3>1, <3>2, <3>3, <2>3 DEF IsWrite
  <2>5. KeysKept'
    <3>1. \A d \in ClientCalls, m \in Attempts :
            /\ IsWrite(d, m, "working")' => keyState'[asking'[d].key] = "held"
            /\ IsWrite(d, m, "ran")' => keyState'[asking'[d].key] = "done"
      BY <1>0, <1>t, <2>2, <2>4 DEF KeysKept
    <3>2. \A d, e \in ClientCalls : \A m, l \in Attempts :
            IsWrite(d, m, "working")' /\ IsWrite(e, l, "working")'
              /\ asking'[d].key = asking'[e].key => d = e /\ m = l
      BY <1>0, <1>t, <2>4 DEF KeysKept
    <3> QED BY <3>1, <3>2 DEF KeysKept
  <2>6. ClientTyped'
    <3>1. <<c, n>> \in ClientCalls \X Attempts
      OBVIOUS
    <3>2. wire' \subseteq ClientCalls \X Attempts
      BY <3>1, <1>3, <1>t DEF ClientTyped
    <3>3. keyState' \in [ClientKeys -> {"free", "held", "done"}]
      BY <1>3, <1>t DEF ClientTyped
    <3> QED BY <3>2, <3>3, <1>0, <1>t, <2>3 DEF ClientTyped
  <2>7. WritesKept'
    <3>1. /\ \A r \in wire \cup landed : request'[r[1]][r[2]] \in Begun
          /\ request'[c][n] \in Begun
      BY <1>0, <1>3, <2>3, ServedRequest DEF RequestStages, Begun
    <3> QED BY <3>1, <1>0, <1>3, <2>2, WritesStay
  <2> QED BY <2>3, <2>5, <2>6, <2>7 DEF ClientInv
<1>4. ASSUME ~IsReadOnly(c), keyState[key] = "done", NEW end \in Checked,
             request' = [request EXCEPT ![c][n] = end], UNCHANGED <<keyState, wire>>
      PROVE  ClientInv'
  <2>1. /\ request'[c][n] = end
        /\ \A d \in ClientCalls, m \in Attempts :
             ~(d = c /\ m = n) => request'[d][m] = request[d][m]
        /\ \A d \in ClientCalls : IsReadOnly(d)' <=> IsReadOnly(d)
        /\ request' \in [ClientCalls -> [Attempts -> RequestStages]]
        /\ OneByOne' /\ Excused'
        /\ \A r \in wire \cup landed : request'[r[1]][r[2]] \in Begun
    BY <1>0, <1>4, <1>e, ServedRequest
  <2>2. \A d \in ClientCalls, m \in Attempts :
          /\ IsWrite(d, m, "working")' => IsWrite(d, m, "working")
          /\ IsWrite(d, m, "ran")' => IsWrite(d, m, "ran") \/ d = c
    BY <2>1 DEF IsWrite, Checked
  <2>3. KeysKept'
    BY <1>0, <1>4, <1>t, <2>2 DEF KeysKept
  <2>4. ClientTyped'
    BY <1>0, <1>4, <1>t, <2>1 DEF ClientTyped
  <2>5. WritesKept'
    BY <1>0, <1>4, <2>1, WritesStay
  <2> QED BY <2>1, <2>3, <2>4, <2>5 DEF ClientInv
<1> QED BY <1>1, <1>2, <1>3, <1>4 DEF ServerReceives

\* A write that ends turns its key, which it held alone.
LEMMA CallOverKeeps ==
  ASSUME ClientInv, NEW c \in ClientCalls, NEW n \in Attempts, CallOver(c, n)
  PROVE  ClientInv'
<1> DEFINE key == asking[c].key
<1>t. ClientTyped /\ KeysKept
  BY DEF ClientInv
<1>0. /\ request[c][n] = "working" /\ request[c][n] \in {"sent", "working"}
      /\ UNCHANGED <<asking, broke>> /\ UNCHANGED landed
  BY DEF CallOver
<1>1. PICK end \in Checked \cup {"failed", "crashed"} :
        /\ request' = [request EXCEPT ![c][n] = end]
        /\ \/ IsReadOnly(c) /\ UNCHANGED <<keyState, wire>>
           \/ /\ ~IsReadOnly(c)
              /\ end \in Checked => IsWritten(key)
              /\ keyState' = [keyState EXCEPT ![key] = KeyAfter(end, keyState[key])]
              /\ wire' \in {wire, wire \ {<<c, n>>}}
  BY DEF CallOver
<1>e. end \in RequestStages /\ end \in Begun /\ end # "working"
  BY DEF RequestStages, Begun, Checked
<1>2. CASE IsReadOnly(c)
  BY <1>0, <1>1, <1>2, <1>e, KeylessKeeps
<1>3. CASE ~IsReadOnly(c)
  <2>1. key \in ClientKeys /\ keyState[key] = "held"
    <3>1. key \in ClientKeys
      BY <1>3, OfOneCall DEF IsReadOnly
    <3>2. keyState[key] = "held"
      BY <1>0, <1>3, <1>t DEF KeysKept, IsWrite
    <3> QED BY <3>1, <3>2
  <2>2. /\ keyState'[key] = KeyAfter(end, "held")
        /\ \A k \in ClientKeys \ {key} : keyState'[k] = keyState[k]
        /\ keyState' \in [ClientKeys -> {"free", "held", "done"}]
        /\ wire' \subseteq wire
    BY <1>1, <1>3, <2>1, <1>t DEF ClientTyped, KeyAfter
  <2>3. /\ request'[c][n] = end
        /\ \A d \in ClientCalls, m \in Attempts :
             ~(d = c /\ m = n) => request'[d][m] = request[d][m]
        /\ \A d \in ClientCalls : IsReadOnly(d)' <=> IsReadOnly(d)
        /\ request' \in [ClientCalls -> [Attempts -> RequestStages]]
        /\ OneByOne' /\ Excused'
        /\ \A r \in wire \cup landed : request'[r[1]][r[2]] \in Begun
    BY <1>0, <1>1, <1>e, ServedRequest
  <2>4. ASSUME NEW d \in ClientCalls, NEW m \in Attempts
        PROVE  /\ IsWrite(d, m, "working")' =>
                    IsWrite(d, m, "working") /\ asking[d].key # key /\ asking[d].key \in ClientKeys
               /\ IsWrite(d, m, "ran")' =>
                    \/ d = c /\ end = "ran"
                    \/ IsWrite(d, m, "ran") /\ asking[d].key # key /\ asking[d].key \in ClientKeys
    <3>1. ~IsReadOnly(d) => asking[d].key \in ClientKeys
      BY OfOneCall DEF IsReadOnly
    <3>2. IsWrite(d, m, "working") /\ asking[d].key = key => d = c /\ m = n
      BY <1>0, <1>3, <1>t DEF KeysKept, IsWrite
    <3>3. IsWrite(d, m, "ran") => asking[d].key # key
      BY <2>1, <1>t DEF KeysKept
    <3>4. IsWrite(d, m, "working")' => ~(d = c /\ m = n) /\ IsWrite(d, m, "working")
      BY <2>3, <1>e DEF IsWrite
    <3>5. IsWrite(d, m, "ran")' => (d = c /\ end = "ran") \/ IsWrite(d, m, "ran")
      BY <2>3 DEF IsWrite
    <3> QED BY <3>1, <3>2, <3>3, <3>4, <3>5 DEF IsWrite
  <2>5. KeysKept'
    <3>1. \A d \in ClientCalls, m \in Attempts :
            /\ IsWrite(d, m, "working")' => keyState'[asking'[d].key] = "held"
            /\ IsWrite(d, m, "ran")' => keyState'[asking'[d].key] = "done"
      BY <1>0, <1>t, <2>2, <2>4 DEF KeysKept, KeyAfter, Checked
    <3>2. \A d, e \in ClientCalls : \A m, l \in Attempts :
            IsWrite(d, m, "working")' /\ IsWrite(e, l, "working")'
              /\ asking'[d].key = asking'[e].key => d = e /\ m = l
      BY <1>0, <1>t, <2>4 DEF KeysKept
    <3> QED BY <3>1, <3>2 DEF KeysKept
  <2>6. ClientTyped'
    BY <1>0, <1>t, <2>2, <2>3 DEF ClientTyped
  <2>7. WritesKept'
    <3>1. \A k \in ClientKeys : keyState'[k] = "done" => keyState[k] = "done" \/ IsWritten(k)
      BY <1>1, <1>3, <2>2 DEF KeyAfter
    <3> QED BY <3>1, <1>0, <2>2, <2>3, WritesStay
  <2> QED BY <2>3, <2>5, <2>6, <2>7 DEF ClientInv
<1> QED BY <1>2, <1>3

\* The middleware does a write once asked.
LEMMA LandWriteKeeps ==
  ASSUME ClientInv, NEW c \in ClientCalls, NEW n \in Attempts, LandWrite(c, n)
  PROVE  ClientInv'
<1>1. /\ UNCHANGED <<asking, request, keyState, broke>> /\ <<c, n>> \in wire
      /\ wire' \cup landed' \subseteq wire \cup landed /\ landed \subseteq landed'
  BY DEF LandWrite
<1>2. ClientTyped'
  BY <1>1 DEF ClientInv, ClientTyped
<1>3. OneByOne' /\ Excused' /\ KeysKept'
  BY <1>1 DEF ClientInv, OneByOne, Excused, KeysKept, IsWrite, IsReadOnly, Current
<1>4. \A r \in wire' \cup landed' : request'[r[1]][r[2]] \in Begun
  BY <1>1 DEF ClientInv, WritesKept
<1>5. WritesKept'
  BY <1>1, <1>4, WritesStay
<1> QED BY <1>2, <1>3, <1>5 DEF ClientInv

\* Every step keeps the invariant.
LEMMA ClientStep == ClientInv /\ [ClientNext]_toolClient => ClientInv'
<1> SUFFICES ASSUME ClientInv, [ClientNext]_toolClient PROVE ClientInv'
  OBVIOUS
<1>1. CASE UNCHANGED <<asking, request, keyState, wire, landed, broke>>
  BY <1>1 DEF ClientInv, ClientTyped, OneByOne, Excused, KeysKept, WritesKept, IsWritten, IsWrite,
             IsReadOnly, Current
<1>2. CASE Initialize \/ Initialized \/ UNCHANGED toolClient
  BY <1>1, <1>2 DEF Initialize, Initialized, toolClient
<1>3. ASSUME NEW c \in ClientCalls, Answered(c) PROVE ClientInv'
  <2>1. asking[c].at = "waiting" /\ "ok" \in Outcomes /\ "refused" \in Outcomes
    BY <1>3 DEF Answered, Outcomes
  <2>2. CASE Current(c) = "ran" /\ Conclude(c, "ok")
    BY <2>1, <2>2, ConcludeKeeps
  <2>3. CASE Current(c) \in ErrorAnswers /\ Conclude(c, "refused")
    BY <2>1, <2>3, ConcludeKeeps
  <2> QED BY <1>3, <2>2, <2>3 DEF Answered
<1>4. ASSUME NEW c \in ClientCalls, AttemptFails(c) PROVE ClientInv'
  <2>1. PICK outcome \in {"transport_error", "timeout", "malformed_response"} : Conclude(c, outcome)
    BY <1>4 DEF AttemptFails
  <2>2. asking[c].at = "waiting" /\ outcome \in Outcomes /\ outcome \notin {"ok", "refused"}
    BY <1>4 DEF AttemptFails, Outcomes
  <2> QED BY <2>1, <2>2, ConcludeKeeps
<1>5. ASSUME NEW c \in ClientCalls, NEW n \in Attempts, RequestLost(c, n) PROVE ClientInv'
  BY <1>5, KeylessKeeps DEF RequestLost, RequestStages
<1> QED BY <1>2, <1>3, <1>4, <1>5, CallToolKeeps, ResendKeeps, ServerReceivesKeeps,
           CallOverKeeps, LandWriteKeeps DEF ClientNext

\* What a caller is told is true of every request it made, for any number of calls,
\* keys and attempts: an accepted write is done; a refused one is not, nor under
\* way, unless the server's executor answered an error for work it had started
\* or an earlier request broke off; and only a broken connection lets a write that
\* may have been done be sent again.
THEOREM OutcomesStayTrue == ClientSpec => []OutcomesAreTrue
<1>1. ClientInv => OutcomesAreTrue
  <2> SUFFICES ASSUME ClientInv, NEW c \in ClientCalls
               PROVE  /\ asking[c].at = "ok" =>
                           Ran(c) # {} /\ (IsReadOnly(c) \/ IsWritten(asking[c].key))
                      /\ asking[c].at = "refused" /\ ~IsReadOnly(c) =>
                           \/ Acting(c) = {}
                           \/ Current(c) \in {"withheld", "failed", "crashed"}
                           \/ \E n \in Attempts : /\ n < asking[c].attempt
                                                 /\ broke[c][n] = "transport_error"
                      /\ asking[c].at \in Outcomes /\ ~IsReadOnly(c) =>
                           \A n \in Acting(c) :
                             n < asking[c].attempt => broke[c][n] = "transport_error"
    BY DEF OutcomesAreTrue
  <2>1. ASSUME asking[c].at = "ok"
        PROVE  Ran(c) # {} /\ (IsReadOnly(c) \/ IsWritten(asking[c].key))
    <3>1. asking[c].attempt \in Attempts /\ request[c][asking[c].attempt] = "ran"
      BY <2>1, OfOneCall DEF ClientInv, OneByOne, Current
    <3>2. ~IsReadOnly(c) => keyState[asking[c].key] = "done" /\ asking[c].key \in ClientKeys
      BY <3>1, OfOneCall DEF ClientInv, KeysKept, IsWrite, IsReadOnly
    <3> QED BY <3>1, <3>2 DEF Ran, ClientInv, WritesKept
  <2>2. ASSUME asking[c].at = "refused", ~IsReadOnly(c), Current(c) = "rejected",
               \A n \in Attempts : ~(n < asking[c].attempt /\ broke[c][n] = "transport_error")
        PROVE  Acting(c) = {}
    <3>1. asking[c].attempt \in Attempts
      BY <2>2, OfOneCall DEF ClientInv, OneByOne
    <3>2. \A n \in Attempts : n < asking[c].attempt => broke[c][n] = "transport_error"
      BY <2>2 DEF ClientInv, Excused
    <3>3. \A n \in Attempts : n = asking[c].attempt \/ n > asking[c].attempt
      BY <2>2, <3>1, <3>2 DEF Attempts
    <3>4. \A n \in Attempts : request[c][n] \in {"rejected", "unsent"}
      BY <2>2, <3>3 DEF ClientInv, OneByOne, Current
    <3>5. \A n \in Attempts : <<c, n>> \notin wire \cup landed
      BY <3>4 DEF ClientInv, WritesKept, Begun, Checked
    <3> QED BY <3>4, <3>5 DEF Acting, Loose
  <2>3. asking[c].at = "refused" => Current(c) \in {"rejected", "withheld", "failed", "crashed"}
    BY DEF ClientInv, OneByOne, ErrorAnswers
  <2>4. ASSUME ~IsReadOnly(c), NEW n \in Acting(c), n < asking[c].attempt
        PROVE  broke[c][n] = "transport_error"
    BY <2>4 DEF Acting, Loose, ClientInv, Excused
  <2> QED BY <2>1, <2>2, <2>3, <2>4
<1> QED BY <1>1, ClientInitially, ClientStep, PTL DEF ClientSpec

-----------------------------------------------------------------------------
(* The signing keys                                                        *)

KeyIds == 1..MaxRotations + 1
Verifications == [at : Stands, kid : Nat, age : 0..LongestAge, second : BOOLEAN,
                  doc : SUBSET KeyIds, took : 0..SlowestFetch, seen : BOOLEAN,
                  failed : BOOLEAN, old : BOOLEAN]
Truths == [gone : [KeyIds -> 0..Beyond], real : 0..Beyond, reset : BOOLEAN]

KeysTyped ==
  /\ keys \in SUBSET KeyIds /\ since \in 0..LongestAge /\ uptime \in 0..LongestAge
  /\ verifying \in [Verifiers -> Verifications] /\ truth \in Truths

\* The provider publishes its latest key, alone or with the one before it.
Publishes(m) == published = {m} \/ (m > 1 /\ published = {m - 1, m})
LatestPublished == \E m \in KeyIds : Publishes(m)

\* What is published has not been gone, nor has what is still to come.
NotGone ==
  \A k \in KeyIds : k \in published \/ k > Max(published) => truth.gone[k] = 0

\* Of what is cached: it was published no longer ago than it landed, but for a
\* fetch; the age that is counted is never less than the real one while it
\* matters, and is the real one unless it was thrown away.
CacheIsKnown ==
  /\ \A k \in keys : truth.gone[k] <= truth.real + SlowestFetch
  /\ since < LongestAge => truth.real <= since
  /\ uptime < LongestAge => truth.real <= uptime
  /\ ~truth.reset /\ keys # NoDocument =>
       since = IF truth.real < LongestAge THEN truth.real ELSE LongestAge

\* Of one verification r: what it remembers of the cache and of its key while it
\* waits, and the three promises when it is answered.
StandsWell(r) ==
  /\ r.at \in {"fetch", "land"} =>
       /\ r.age < Stale => truth.real <= r.age + r.took
       /\ ~r.old => keys # NoDocument /\ r.age < Stale
       /\ r.seen => r.kid \in published
  /\ r.at = "land" =>
       /\ r.doc # {} /\ \A k \in r.doc : truth.gone[k] <= r.took
       /\ r.seen => r.kid \in r.doc
  /\ r.at = "key" => r.kid \in KeyIds /\ truth.gone[r.kid] < Beyond
  /\ r.at = "unavailable" => r.old
  /\ r.at = "unknown" => ~r.seen \/ r.failed \/ uptime < CacheTtl

KeysInv ==
  /\ KeysTyped /\ LatestPublished /\ NotGone /\ CacheIsKnown
  /\ \A v \in Verifiers : StandsWell(verifying[v])

\* The constants as numbers, and the window that bounds every age.
LEMMA KeyNumbers ==
  /\ CacheTtl \in Nat /\ Stale \in Nat /\ Stale > 0 /\ SlowestFetch \in Nat
  /\ MaxRotations \in Nat
  /\ LongestAge \in Nat /\ CacheTtl <= LongestAge /\ Stale <= LongestAge
  /\ Beyond \in Nat /\ Beyond = LongestAge + 2 * SlowestFetch /\ Beyond >= LongestAge
  /\ KeyIds \subseteq Nat /\ \A k \in KeyIds : k >= 1
BY SigningKeysAssumption DEF Beyond, LongestAge, KeyIds

\* The greatest of the one or two keys that are published.
LEMMA LatestIsMax ==
  ASSUME NEW m \in Nat, Publishes(m) PROVE Max(published) = m /\ m \in published
<1>1. m \in published /\ \A y \in published : m >= y /\ y \in Int
  BY DEF Publishes
<1>2. \A x \in published : (\A y \in published : x >= y) => x = m
  BY <1>1
<1> QED BY <1>1, <1>2 DEF Max

\* At first one key is published and nothing is cached.
LEMMA KeysInitially == KeysInit => KeysInv
<1> SUFFICES ASSUME KeysInit PROVE KeysInv
  OBVIOUS
<1>1. /\ published = {1} /\ keys = {} /\ uptime \in {0, LongestAge} /\ since = uptime
      /\ verifying = [v \in Verifiers |-> Resting("idle")]
      /\ truth = [gone |-> [k \in KeyIds |-> 0], real |-> 0, reset |-> FALSE]
  BY DEF KeysInit, NoDocument, KeyIds
<1>2. Resting("idle") \in Verifications /\ Resting("idle").at = "idle"
  BY KeyNumbers DEF Resting, Verifications, Stands, NoDocument
<1>3. KeysTyped
  BY <1>1, <1>2, KeyNumbers DEF KeysTyped, Truths
<1>4. LatestPublished
  <2>1. 1 \in KeyIds /\ Publishes(1)
    BY <1>1, KeyNumbers DEF KeyIds, Publishes
  <2> QED BY <2>1 DEF LatestPublished
<1>5. NotGone /\ CacheIsKnown
  BY <1>1, KeyNumbers DEF NotGone, CacheIsKnown, NoDocument
<1>6. \A v \in Verifiers : StandsWell(verifying[v])
  BY <1>1, <1>2 DEF StandsWell
<1> QED BY <1>3, <1>4, <1>5, <1>6 DEF KeysInv

\* What the invariant says of one verification and of the counters.
LEMMA OfOneVerification ==
  ASSUME KeysInv, NEW v \in Verifiers, NEW r, r = verifying[v]
  PROVE  /\ r \in Verifications /\ StandsWell(r)
         /\ r.at \in Stands /\ r.kid \in Nat /\ r.age \in 0..LongestAge /\ r.second \in BOOLEAN
         /\ r.doc \in SUBSET KeyIds /\ r.took \in 0..SlowestFetch
         /\ r.seen \in BOOLEAN /\ r.failed \in BOOLEAN /\ r.old \in BOOLEAN
<1>1. r \in Verifications
  BY DEF KeysInv, KeysTyped
<1> QED BY <1>1 DEF KeysInv, Verifications

\* What the invariant says of the history the answers are compared with.
LEMMA OfTheTruth ==
  ASSUME KeysInv
  PROVE  /\ truth \in Truths /\ truth.real \in 0..Beyond /\ truth.reset \in BOOLEAN
         /\ truth.gone \in [KeyIds -> 0..Beyond]
BY DEF KeysInv, KeysTyped, Truths

\* A verification that stands well still does when another replaces the cache.
LEMMA OthersStandWell ==
  ASSUME NEW r \in Verifications, StandsWell(r), KeysInv,
         UNCHANGED <<published, uptime>>, truth'.gone = truth.gone,
         \/ keys' = keys /\ truth'.real = truth.real
         \/ keys' # NoDocument /\ truth'.real = 0
  PROVE  StandsWell(r)'
<1>1. r.age \in 0..LongestAge /\ r.took \in 0..SlowestFetch
  BY DEF Verifications
<1>2. 0 <= r.age + r.took
  BY <1>1, KeyNumbers
<1> QED BY <1>2 DEF StandsWell, NoDocument

\* The lookup in a document, and the reset when it fails, leave the verification
\* standing well.
LEMMA AnswerStandsWell ==
  ASSUME KeysInv, NEW v \in Verifiers, NEW r \in Verifications,
         NEW document \in SUBSET KeyIds,
         UNCHANGED <<published, uptime>>, truth' \in Truths,
         \/ AnswerToken(v, r, document)
         \/ Reset(v, r, document) /\ truth'.reset = TRUE,
         \A k \in document : truth'.gone[k] < Beyond,
         r.second /\ r.kid \notin document => ~r.seen \/ r.failed,
         r.seen => r.kid \in published,
         uptime < LongestAge => truth'.real <= uptime
  PROVE  \E t \in Verifications :
           verifying' = [verifying EXCEPT ![v] = t] /\ StandsWell(t)'
<1>r. /\ r.kid \in Nat /\ r.seen \in BOOLEAN /\ r.failed \in BOOLEAN /\ r.doc \in SUBSET KeyIds
      /\ r = [at |-> r.at, kid |-> r.kid, age |-> r.age, second |-> r.second, doc |-> r.doc,
              took |-> r.took, seen |-> r.seen, failed |-> r.failed, old |-> r.old]
  BY DEF Verifications
<1>s. {"idle", "fetch", "land", "key", "unknown", "unavailable"} = Stands
  BY DEF Stands
<1>1. CASE r.kid \in document /\ Set(v, [Resting("key") EXCEPT !.kid = r.kid])
  <2>1. PICK t : t = [Resting("key") EXCEPT !.kid = r.kid]
    OBVIOUS
  <2>2. t = [at |-> "key", kid |-> r.kid, age |-> 0, second |-> FALSE, doc |-> {},
             took |-> 0, seen |-> FALSE, failed |-> FALSE, old |-> FALSE]
    BY <2>1 DEF Resting, NoDocument
  <2>3. t \in Verifications
    BY <2>2, <1>r, <1>s, KeyNumbers DEF Verifications
  <2>4. StandsWell(t)'
    BY <1>1, <2>2 DEF StandsWell
  <2>5. verifying' = [verifying EXCEPT ![v] = t]
    BY <1>1, <2>1 DEF Set
  <2> QED BY <2>3, <2>4, <2>5
<1>2. CASE Unknown(v, r) /\ (~r.seen \/ r.failed \/ uptime < CacheTtl)
  <2>1. PICK t : t = [Resting("unknown") EXCEPT !.kid = r.kid, !.seen = r.seen, !.failed = r.failed]
    OBVIOUS
  <2>2. t = [at |-> "unknown", kid |-> r.kid, age |-> 0, second |-> FALSE, doc |-> {},
             took |-> 0, seen |-> r.seen, failed |-> r.failed, old |-> FALSE]
    BY <2>1 DEF Resting, NoDocument
  <2>3. t \in Verifications
    BY <2>2, <1>r, <1>s, KeyNumbers DEF Verifications
  <2>4. StandsWell(t)'
    BY <1>2, <2>2 DEF StandsWell
  <2>5. verifying' = [verifying EXCEPT ![v] = t]
    BY <1>2, <2>1 DEF Set, Unknown
  <2> QED BY <2>3, <2>4, <2>5
<1>3. CASE Await(v, r, Forgotten, TRUE) /\ truth'.reset = TRUE
  <2>1. PICK t : t = [r EXCEPT !.at = "fetch", !.age = uptime, !.second = TRUE, !.took = 0,
                               !.failed = FALSE, !.old = TRUE]
    OBVIOUS
  <2>2. t = [at |-> "fetch", kid |-> r.kid, age |-> uptime, second |-> TRUE, doc |-> r.doc,
             took |-> 0, seen |-> r.seen, failed |-> FALSE, old |-> TRUE]
    BY <2>1, <1>r
  <2>3. uptime \in 0..LongestAge
    BY DEF KeysInv, KeysTyped
  <2>4. t \in Verifications
    BY <2>2, <2>3, <1>r, <1>s, KeyNumbers DEF Verifications
  <2>5. truth'.real \in 0..Beyond
    BY DEF Truths
  <2>6. uptime < Stale => truth'.real <= uptime + 0
    BY <2>3, <2>5, KeyNumbers
  <2>7. StandsWell(t)'
    BY <2>2, <2>6 DEF StandsWell
  <2>8. (keys = NoDocument \/ truth.real >= Stale \/ truth'.reset) = TRUE
    BY <1>3
  <2>9. verifying' = [verifying EXCEPT ![v] = t]
    BY <1>3, <2>1, <2>8 DEF Await, Set, Forgotten
  <2> QED BY <2>4, <2>7, <2>9
<1> QED BY <1>1, <1>2, <1>3 DEF AnswerToken, Reset

\* One verification moves; the cache is as it was or new.
LEMMA OneVerificationMoves ==
  ASSUME KeysInv, NEW v \in Verifiers, NEW t \in Verifications,
         verifying' = [verifying EXCEPT ![v] = t], StandsWell(t)',
         UNCHANGED <<published, uptime>>, truth'.gone = truth.gone,
         \/ keys' = keys /\ truth'.real = truth.real
         \/ keys' # NoDocument /\ truth'.real = 0,
         keys' \in SUBSET KeyIds, since' \in 0..LongestAge, truth' \in Truths, CacheIsKnown'
  PROVE  KeysInv'
<1>1. verifying' \in [Verifiers -> Verifications]
  BY DEF KeysInv, KeysTyped
<1>2. KeysTyped'
  BY <1>1 DEF KeysInv, KeysTyped, Verifications, KeyIds, Truths, Beyond, Stands
<1>3. LatestPublished' /\ NotGone'
  BY DEF KeysInv, LatestPublished, Publishes, NotGone, KeyIds
<1>4. \A w \in Verifiers : StandsWell(verifying[w])'
  <2> SUFFICES ASSUME NEW w \in Verifiers PROVE StandsWell(verifying[w])'
    OBVIOUS
  <2>1. CASE w = v
    <3>1. verifying'[w] = t
      BY <2>1, <1>1 DEF KeysInv, KeysTyped
    <3> QED BY <3>1 DEF StandsWell
  <2>2. CASE w # v
    <3>1. PICK q : q = verifying[w]
      OBVIOUS
    <3>2. verifying'[w] = q
      BY <2>2, <3>1 DEF KeysInv, KeysTyped
    <3>3. StandsWell(q)'
      BY <3>1, OfOneVerification, OthersStandWell
    <3> QED BY <3>2, <3>3 DEF StandsWell
  <2> QED BY <2>1, <2>2
<1> QED BY <1>2, <1>3, <1>4 DEF KeysInv

\* A reset throws the age away and leaves what is known of the cache otherwise.
LEMMA ResetIsKnown ==
  ASSUME KeysInv, NEW v \in Verifiers, NEW r, Reset(v, r, keys),
         truth' = [truth EXCEPT !.reset = TRUE], uptime' = uptime
  PROVE  /\ keys' = keys /\ since' \in 0..LongestAge /\ truth' \in Truths /\ CacheIsKnown'
         /\ truth'.gone = truth.gone /\ truth'.real = truth.real /\ truth'.reset = TRUE
<1>1. keys' = keys /\ since' = uptime
  BY DEF Reset, Forgotten
<1>2. /\ truth'.gone = truth.gone /\ truth'.real = truth.real /\ truth'.reset = TRUE
      /\ truth' \in Truths
  BY OfTheTruth DEF Truths
<1>3. CacheIsKnown'
  BY <1>1, <1>2 DEF KeysInv, CacheIsKnown
<1> QED BY <1>1, <1>2, <1>3 DEF KeysInv, KeysTyped

\* A verification begins, with a document that is young enough or by a fetch.
LEMMA BeginKeeps ==
  ASSUME KeysInv, NEW v \in Verifiers, NEW kid \in Nat, Begin(v, kid) PROVE KeysInv'
<1>1. PICK r : r = [Resting("fetch") EXCEPT !.kid = kid, !.seen = kid \in published]
  OBVIOUS
<1>2. r = [at |-> "fetch", kid |-> kid, age |-> 0, second |-> FALSE, doc |-> {}, took |-> 0,
           seen |-> kid \in published, failed |-> FALSE, old |-> FALSE]
  BY <1>1 DEF Resting, NoDocument
<1>3. r \in Verifications
  <2>1. 0 \in 0..LongestAge /\ 0 \in 0..SlowestFetch /\ {} \in SUBSET KeyIds
    BY KeyNumbers
  <2>2. "fetch" \in Stands /\ (kid \in published) \in BOOLEAN
    BY DEF Stands
  <2> QED BY <1>2, <2>1, <2>2 DEF Verifications
<1>4. UNCHANGED <<published, uptime>>
  BY DEF Begin
<1>5. ~r.second /\ (r.seen => r.kid \in published)
  BY <1>2
<1>t. /\ keys \in SUBSET KeyIds /\ since \in 0..LongestAge /\ uptime \in 0..LongestAge
      /\ truth \in Truths /\ truth.real \in 0..Beyond
  BY OfTheTruth DEF KeysInv, KeysTyped
<1>6. CASE keys # NoDocument /\ since < CacheTtl
  <2>1. \A k \in keys : truth.gone[k] < Beyond
    <3> SUFFICES ASSUME NEW k \in keys PROVE truth.gone[k] < Beyond
      OBVIOUS
    <3>1. truth.real <= since /\ since < LongestAge
      BY <1>6, <1>t, KeyNumbers DEF KeysInv, CacheIsKnown
    <3>2. truth.gone[k] <= truth.real + SlowestFetch /\ truth.gone[k] \in 0..Beyond
      BY <1>t, OfTheTruth DEF KeysInv, CacheIsKnown
    <3> QED BY <3>1, <3>2, <1>t, KeyNumbers
  <2>2. CASE AnswerToken(v, r, keys) /\ UNCHANGED <<since, truth>>
    <3>1. keys' = keys
      BY <2>2 DEF AnswerToken
    <3>2. \E t \in Verifications :
            verifying' = [verifying EXCEPT ![v] = t] /\ StandsWell(t)'
      BY <2>1, <2>2, <1>3, <1>4, <1>5, <1>t, AnswerStandsWell DEF KeysInv, CacheIsKnown
    <3>3. CacheIsKnown'
      BY <3>1, <2>2, <1>4 DEF KeysInv, CacheIsKnown
    <3> QED BY <3>1, <3>2, <3>3, <2>2, <1>4, <1>t, OneVerificationMoves
  <2>3. CASE truth' = [truth EXCEPT !.reset = TRUE] /\ Reset(v, r, keys)
    <3>1. /\ keys' = keys /\ since' \in 0..LongestAge /\ truth' \in Truths /\ CacheIsKnown'
          /\ truth'.gone = truth.gone /\ truth'.real = truth.real /\ truth'.reset = TRUE
      BY <2>3, <1>4, ResetIsKnown
    <3>2. \E t \in Verifications :
            verifying' = [verifying EXCEPT ![v] = t] /\ StandsWell(t)'
      BY <3>1, <2>1, <2>3, <1>3, <1>4, <1>5, <1>t, AnswerStandsWell DEF KeysInv, CacheIsKnown
    <3> QED BY <3>1, <3>2, <1>4, <1>t, OneVerificationMoves
  <2> QED BY <1>1, <1>6, <2>2, <2>3 DEF Begin
<1>7. CASE ~(keys # NoDocument /\ since < CacheTtl)
  <2>1. UNCHANGED <<keys, since, truth>> /\ Await(v, r, since, FALSE)
    BY <1>1, <1>7 DEF Begin
  <2>2. PICK useless \in BOOLEAN :
          useless = (keys = NoDocument \/ truth.real >= Stale \/ truth'.reset)
    OBVIOUS
  <2>3. PICK t : t = [r EXCEPT !.at = "fetch", !.age = since, !.second = FALSE, !.took = 0,
                               !.failed = FALSE, !.old = useless]
    OBVIOUS
  <2>4. verifying' = [verifying EXCEPT ![v] = t]
    BY <2>1, <2>2, <2>3 DEF Await, Set
  <2>5. t = [at |-> "fetch", kid |-> kid, age |-> since, second |-> FALSE, doc |-> {},
             took |-> 0, seen |-> kid \in published, failed |-> FALSE, old |-> useless]
    BY <2>3, <1>2
  <2>6. t \in Verifications
    <3>1. 0 \in 0..SlowestFetch /\ {} \in SUBSET KeyIds /\ FALSE \in BOOLEAN
      BY KeyNumbers
    <3>2. "fetch" \in Stands /\ (kid \in published) \in BOOLEAN
      BY DEF Stands
    <3> QED BY <2>5, <3>1, <3>2, <1>t DEF Verifications
  <2>7. ~useless => keys # NoDocument /\ since < Stale
    <3> SUFFICES ASSUME ~useless PROVE keys # NoDocument /\ since < Stale
      OBVIOUS
    <3>1. keys # NoDocument /\ ~(truth.real >= Stale) /\ ~truth.reset
      BY <2>1, <2>2
    <3>2. truth.real < Stale
      BY <3>1, <1>t, KeyNumbers
    <3>3. truth.real < LongestAge /\ since = truth.real
      BY <3>1, <3>2, <1>t, KeyNumbers DEF KeysInv, CacheIsKnown
    <3> QED BY <3>1, <3>2, <3>3
  <2>8. since < Stale => truth.real <= since + 0
    BY <1>t, KeyNumbers DEF KeysInv, CacheIsKnown
  <2>9. StandsWell(t)'
    BY <2>1, <2>5, <2>7, <2>8, <1>4 DEF StandsWell
  <2>10. CacheIsKnown'
    BY <2>1, <1>4 DEF KeysInv, CacheIsKnown
  <2> QED BY <2>1, <2>4, <2>6, <2>9, <2>10, <1>4, <1>t, OneVerificationMoves
<1> QED BY <1>6, <1>7

\* The provider answers with what it publishes: keys that are not gone.
LEMMA RespondKeeps ==
  ASSUME KeysInv, NEW v \in Verifiers, Respond(v) PROVE KeysInv'
<1>1. PICK r : r = verifying[v]
  OBVIOUS
<1>2. /\ r \in Verifications /\ StandsWell(r) /\ r.kid \in Nat /\ r.took \in 0..SlowestFetch
      /\ r = [at |-> r.at, kid |-> r.kid, age |-> r.age, second |-> r.second, doc |-> r.doc,
              took |-> r.took, seen |-> r.seen, failed |-> r.failed, old |-> r.old]
  BY <1>1, OfOneVerification DEF Verifications
<1>3. PICK t : t = [r EXCEPT !.at = "land", !.doc = published]
  OBVIOUS
<1>4. t = [at |-> "land", kid |-> r.kid, age |-> r.age, second |-> r.second, doc |-> published,
           took |-> r.took, seen |-> r.seen, failed |-> r.failed, old |-> r.old]
  BY <1>2, <1>3
<1>5. /\ r.at = "fetch" /\ verifying' = [verifying EXCEPT ![v] = t]
      /\ UNCHANGED <<published, keys, since, uptime, truth>>
  BY <1>1, <1>3 DEF Respond, Set
<1>6. published \in SUBSET KeyIds /\ published # {}
  <2>1. PICK m \in KeyIds : Publishes(m)
    BY DEF KeysInv, LatestPublished
  <2>2. m > 1 => m - 1 \in KeyIds
    BY KeyNumbers DEF KeyIds
  <2> QED BY <2>1, <2>2 DEF Publishes
<1>7. t \in Verifications
  BY <1>2, <1>4, <1>6 DEF Verifications, Stands
<1>8. \A k \in published : truth.gone[k] <= r.took
  BY <1>2, <1>6, KeyNumbers DEF KeysInv, NotGone
<1>9. StandsWell(t)'
  BY <1>2, <1>4, <1>5, <1>6, <1>8 DEF StandsWell
<1>10. CacheIsKnown'
  BY <1>5 DEF KeysInv, CacheIsKnown
<1> QED BY <1>5, <1>7, <1>9, <1>10, OfTheTruth, OneVerificationMoves DEF KeysInv, KeysTyped

\* The response lands and is the cache from then on.
LEMMA LandKeeps ==
  ASSUME KeysInv, NEW v \in Verifiers, Land(v) PROVE KeysInv'
<1>1. PICK r : r = verifying[v]
  OBVIOUS
<1>2. /\ r \in Verifications /\ StandsWell(r) /\ r.doc \in SUBSET KeyIds
      /\ r.took \in 0..SlowestFetch
  BY <1>1, OfOneVerification
<1>3. r.at = "land" /\ UNCHANGED <<published, uptime>>
  BY <1>1 DEF Land
<1>t. /\ uptime \in 0..LongestAge /\ truth \in Truths /\ truth.gone \in [KeyIds -> 0..Beyond]
  BY OfTheTruth DEF KeysInv, KeysTyped
<1>4. /\ r.doc # {} /\ (r.seen => r.kid \in published) /\ (r.seen => r.kid \in r.doc)
      /\ \A k \in r.doc : truth.gone[k] <= r.took
  BY <1>2, <1>3 DEF StandsWell
<1>5. \A k \in r.doc : truth.gone[k] < Beyond /\ truth.gone[k] <= 0 + SlowestFetch
  <2> SUFFICES ASSUME NEW k \in r.doc
               PROVE  truth.gone[k] < Beyond /\ truth.gone[k] <= 0 + SlowestFetch
    OBVIOUS
  <2>1. truth.gone[k] <= r.took /\ truth.gone[k] \in 0..Beyond
    BY <1>2, <1>4, <1>t
  <2> QED BY <2>1, <1>2, KeyNumbers
<1>6. CASE /\ AnswerToken(v, r, r.doc)
           /\ since' = 0 /\ truth' = [truth EXCEPT !.real = 0, !.reset = FALSE]
  <2>1. /\ truth'.gone = truth.gone /\ truth'.real = 0 /\ truth' \in Truths /\ keys' = r.doc
    <3>1. truth' = [gone |-> truth.gone, real |-> 0, reset |-> FALSE]
      BY <1>6, <1>t DEF Truths
    <3>2. keys' = r.doc /\ 0 \in 0..Beyond /\ FALSE \in BOOLEAN
      BY <1>6, KeyNumbers DEF AnswerToken
    <3> QED BY <3>1, <3>2, <1>t DEF Truths
  <2>2. \E t \in Verifications :
          verifying' = [verifying EXCEPT ![v] = t] /\ StandsWell(t)'
    BY <2>1, <1>2, <1>3, <1>4, <1>5, <1>6, <1>t, AnswerStandsWell
  <2>3. CacheIsKnown'
    BY <2>1, <1>3, <1>5, <1>6, <1>t, KeyNumbers DEF CacheIsKnown
  <2>4. since' \in 0..LongestAge
    BY <1>6, KeyNumbers
  <2> QED BY <2>1, <2>2, <2>3, <2>4, <1>2, <1>3, <1>4, OneVerificationMoves DEF NoDocument
<1>7. CASE truth' = [truth EXCEPT !.real = 0, !.reset = TRUE] /\ Reset(v, r, r.doc)
  <2>1. /\ truth'.gone = truth.gone /\ truth'.real = 0 /\ truth'.reset = TRUE
        /\ truth' \in Truths /\ keys' = r.doc /\ since' = uptime
    <3>1. truth' = [gone |-> truth.gone, real |-> 0, reset |-> TRUE]
      BY <1>7, <1>t DEF Truths
    <3>2. keys' = r.doc /\ since' = uptime /\ 0 \in 0..Beyond /\ TRUE \in BOOLEAN
      BY <1>7, KeyNumbers DEF Reset, Forgotten
    <3> QED BY <3>1, <3>2, <1>t DEF Truths
  <2>2. \E t \in Verifications :
          verifying' = [verifying EXCEPT ![v] = t] /\ StandsWell(t)'
    BY <2>1, <1>2, <1>3, <1>4, <1>5, <1>7, <1>t, AnswerStandsWell
  <2>3. CacheIsKnown'
    BY <2>1, <1>3, <1>5, <1>t, KeyNumbers DEF CacheIsKnown
  <2> QED BY <2>1, <2>2, <2>3, <1>2, <1>3, <1>4, <1>t, OneVerificationMoves DEF NoDocument
<1> QED BY <1>1, <1>6, <1>7 DEF Land

\* A fetch fails: the cache serves while it was young enough, or there is no answer.
LEMMA FetchFailsKeeps ==
  ASSUME KeysInv, NEW v \in Verifiers, FetchFails(v) PROVE KeysInv'
<1>1. PICK q : q = verifying[v]
  OBVIOUS
<1>2. /\ q \in Verifications /\ StandsWell(q) /\ q.age \in 0..LongestAge
      /\ q.took \in 0..SlowestFetch /\ q.at \in {"fetch", "land"}
      /\ q = [at |-> q.at, kid |-> q.kid, age |-> q.age, second |-> q.second, doc |-> q.doc,
              took |-> q.took, seen |-> q.seen, failed |-> q.failed, old |-> q.old]
  BY <1>1, OfOneVerification DEF FetchFails, Verifications
<1>3. PICK r : r = [q EXCEPT !.failed = TRUE]
  OBVIOUS
<1>4. /\ r = [at |-> q.at, kid |-> q.kid, age |-> q.age, second |-> q.second, doc |-> q.doc,
              took |-> q.took, seen |-> q.seen, failed |-> TRUE, old |-> q.old]
      /\ r \in Verifications
  BY <1>2, <1>3 DEF Verifications
<1>5. UNCHANGED <<published, uptime>>
  BY DEF FetchFails
<1>t. /\ keys \in SUBSET KeyIds /\ since \in 0..LongestAge /\ uptime \in 0..LongestAge
      /\ truth \in Truths /\ truth.real \in 0..Beyond
      /\ truth.gone \in [KeyIds -> 0..Beyond]
      /\ uptime < LongestAge => truth.real <= uptime
  BY OfTheTruth DEF KeysInv, KeysTyped, CacheIsKnown
<1>6. /\ q.age < Stale => truth.real <= q.age + q.took
      /\ ~q.old => keys # NoDocument /\ q.age < Stale
      /\ q.seen => q.kid \in published
  BY <1>2 DEF StandsWell
<1>7. CASE keys # NoDocument /\ q.age < Stale
  <2>1. \A k \in keys : truth.gone[k] < Beyond
    <3> SUFFICES ASSUME NEW k \in keys PROVE truth.gone[k] < Beyond
      OBVIOUS
    <3>1. truth.gone[k] <= truth.real + SlowestFetch /\ truth.gone[k] \in 0..Beyond
      BY <1>t DEF KeysInv, CacheIsKnown
    <3> QED BY <3>1, <1>2, <1>6, <1>7, <1>t, KeyNumbers
  <2>2. CASE AnswerToken(v, r, keys) /\ AfterFailure(v) /\ UNCHANGED truth
    <3>1. keys' = keys /\ since' = since
      BY <2>2 DEF AnswerToken, AfterFailure
    <3>2. \E t \in Verifications :
            verifying' = [verifying EXCEPT ![v] = t] /\ StandsWell(t)'
      BY <2>1, <2>2, <1>4, <1>5, <1>6, <1>t, AnswerStandsWell
    <3>3. CacheIsKnown'
      BY <3>1, <2>2, <1>5 DEF KeysInv, CacheIsKnown
    <3> QED BY <3>1, <3>2, <3>3, <2>2, <1>5, <1>t, OneVerificationMoves
  <2>3. CASE truth' = [truth EXCEPT !.reset = TRUE] /\ Reset(v, r, keys)
    <3>1. /\ keys' = keys /\ since' \in 0..LongestAge /\ truth' \in Truths /\ CacheIsKnown'
          /\ truth'.gone = truth.gone /\ truth'.real = truth.real /\ truth'.reset = TRUE
      BY <2>3, <1>5, ResetIsKnown
    <3>2. \E t \in Verifications :
            verifying' = [verifying EXCEPT ![v] = t] /\ StandsWell(t)'
      BY <3>1, <2>1, <2>3, <1>4, <1>5, <1>6, <1>t, AnswerStandsWell
    <3> QED BY <3>1, <3>2, <1>5, <1>t, OneVerificationMoves
  <2>4. r = [verifying[v] EXCEPT !.failed = TRUE] /\ r.age = q.age
    BY <1>1, <1>3, <1>4
  <2> QED BY <1>7, <2>2, <2>3, <2>4 DEF FetchFails
<1>8. CASE ~(keys # NoDocument /\ q.age < Stale)
  <2>1. PICK t : t = [Resting("unavailable") EXCEPT !.old = q.old]
    OBVIOUS
  <2>2. t = [at |-> "unavailable", kid |-> 0, age |-> 0, second |-> FALSE, doc |-> {},
             took |-> 0, seen |-> FALSE, failed |-> FALSE, old |-> q.old]
    BY <2>1 DEF Resting, NoDocument
  <2>3. /\ verifying' = [verifying EXCEPT ![v] = t] /\ UNCHANGED <<keys, since, truth>>
    <3>1. r = [verifying[v] EXCEPT !.failed = TRUE] /\ r.age = q.age /\ r.old = q.old
      BY <1>1, <1>3, <1>4
    <3> QED BY <1>8, <2>1, <3>1 DEF FetchFails, AfterFailure, Set
  <2>4. q.old
    BY <1>6, <1>8
  <2>5. t \in Verifications
    <3>1. 0 \in 0..SlowestFetch /\ 0 \in 0..LongestAge /\ {} \in SUBSET KeyIds /\ q.old \in BOOLEAN
      BY <1>2, KeyNumbers DEF Verifications
    <3>2. "unavailable" \in Stands
      BY DEF Stands
    <3> QED BY <2>2, <3>1, <3>2 DEF Verifications
  <2>6. StandsWell(t)'
    BY <2>2, <2>4 DEF StandsWell
  <2>7. CacheIsKnown'
    BY <2>3, <1>5 DEF KeysInv, CacheIsKnown
  <2> QED BY <2>3, <2>5, <2>6, <2>7, <1>5, <1>t, OneVerificationMoves
<1> QED BY <1>7, <1>8

\* The provider rotates: a verification whose key goes no longer counts on it.
LEMMA RotateKeeps == ASSUME KeysInv, Rotate PROVE KeysInv'
<1>1. PICK m \in KeyIds : Publishes(m)
  BY DEF KeysInv, LatestPublished
<1>2. m \in Nat /\ Max(published) = m /\ m \in published
  BY <1>1, KeyNumbers, LatestIsMax
<1>3. UNCHANGED <<keys, since, uptime, truth>>
  BY DEF Rotate
<1>4. PICK n \in KeyIds : Publishes(n)' /\ n >= m /\ \A k \in published' : k \in published \/ k > m
  <2>1. CASE Max(published) <= MaxRotations /\ published' = {Max(published), Max(published) + 1}
    <3>1. m + 1 \in KeyIds /\ m + 1 > 1 /\ (m + 1) - 1 = m /\ m + 1 > m
      BY <2>1, <1>1, <1>2, KeyNumbers DEF KeyIds
    <3>2. published' = {m, m + 1}
      BY <2>1, <1>2
    <3>3. Publishes(m + 1)'
      BY <3>1, <3>2 DEF Publishes
    <3> QED BY <3>1, <3>2, <3>3, <1>2
  <2>2. CASE published' = {Max(published)}
    BY <2>2, <1>1, <1>2 DEF Publishes
  <2> QED BY <2>1, <2>2 DEF Rotate
<1>5. n \in Nat /\ Max(published)' = n
  <2>1. n \in Nat
    BY KeyNumbers
  <2>2. \A x \in published' : (\A y \in published' : x >= y) <=> x = n
    BY <1>4, <2>1 DEF Publishes
  <2>3. n \in published'
    BY <1>4 DEF Publishes
  <2> QED BY <2>1, <2>2, <2>3 DEF Max
<1>6. NotGone'
  <2> SUFFICES ASSUME NEW k \in KeyIds, k \in published' \/ k > n PROVE truth.gone[k] = 0
    BY <1>3, <1>5 DEF NotGone
  <2>1. k \in published \/ k > m
    BY <1>2, <1>4, <1>5, KeyNumbers
  <2> QED BY <2>1, <1>2 DEF KeysInv, NotGone
<1>7. CacheIsKnown'
  BY <1>3 DEF KeysInv, CacheIsKnown
<1>8. ASSUME NEW v \in Verifiers
      PROVE  verifying'[v] \in Verifications /\ StandsWell(verifying[v])'
  <2>1. PICK r : r = verifying[v]
    OBVIOUS
  <2>2. /\ r \in Verifications /\ StandsWell(r)
        /\ r = [at |-> r.at, kid |-> r.kid, age |-> r.age, second |-> r.second, doc |-> r.doc,
                took |-> r.took, seen |-> r.seen, failed |-> r.failed, old |-> r.old]
    BY <2>1, OfOneVerification DEF Verifications
  <2>3. verifying'[v] = IF r.kid \notin published' THEN [r EXCEPT !.seen = FALSE] ELSE r
    BY <2>1 DEF Rotate
  <2>4. CASE r.kid \in published'
    <3>1. verifying'[v] = r
      BY <2>3, <2>4
    <3> QED BY <3>1, <2>2, <2>4, <1>3 DEF StandsWell
  <2>5. CASE r.kid \notin published'
    <3>1. PICK t : t = verifying'[v]
      OBVIOUS
    <3>2. t = [at |-> r.at, kid |-> r.kid, age |-> r.age, second |-> r.second, doc |-> r.doc,
               took |-> r.took, seen |-> FALSE, failed |-> r.failed, old |-> r.old]
      BY <2>2, <2>3, <2>5, <3>1
    <3>3. t \in Verifications
      BY <2>2, <3>2 DEF Verifications
    <3>4. StandsWell(t)'
      BY <2>2, <3>2, <1>3 DEF StandsWell
    <3> QED BY <3>1, <3>3, <3>4 DEF StandsWell
  <2> QED BY <2>4, <2>5
<1>9. verifying' \in [Verifiers -> Verifications]
  <2>1. verifying' = [v \in Verifiers |-> verifying'[v]]
    BY DEF Rotate
  <2> QED BY <2>1, <1>8
<1>10. KeysTyped'
  BY <1>3, <1>9 DEF KeysInv, KeysTyped, Verifications, KeyIds, Truths, Beyond, Stands
<1>11. LatestPublished'
  BY <1>4 DEF LatestPublished, KeyIds
<1> QED BY <1>6, <1>7, <1>8, <1>10, <1>11 DEF KeysInv

\* Time passes for everything at once, but no fetch outlasts its bound.
LEMMA ClockTicksKeeps == ASSUME KeysInv, ClockTicks PROVE KeysInv'
<1>1. PICK m \in KeyIds : Publishes(m)
  BY DEF KeysInv, LatestPublished
<1>2. m \in Nat /\ Max(published) = m
  BY <1>1, KeyNumbers, LatestIsMax
<1>3. UNCHANGED <<published, keys>>
  BY DEF ClockTicks
<1>t. /\ keys \in SUBSET KeyIds /\ since \in 0..LongestAge /\ uptime \in 0..LongestAge
      /\ truth \in Truths /\ truth.real \in 0..Beyond /\ truth.reset \in BOOLEAN
      /\ truth.gone \in [KeyIds -> 0..Beyond]
  BY OfTheTruth DEF KeysInv, KeysTyped
<1>4. since' = Older(since, LongestAge) /\ uptime' = Older(uptime, LongestAge)
  BY DEF ClockTicks
<1>5. since' \in 0..LongestAge /\ uptime' \in 0..LongestAge
  BY <1>4, <1>t, KeyNumbers DEF Older
<1>6. /\ truth'.real = Older(truth.real, Beyond) /\ truth'.reset = truth.reset
      /\ truth'.gone = [k \in KeyIds |-> IF k \in published \/ k > Max(published) THEN 0
                                         ELSE Older(truth.gone[k], Beyond)]
      /\ truth' = [gone |-> truth'.gone, real |-> truth'.real, reset |-> truth'.reset]
  BY <1>t DEF ClockTicks, Truths
<1>7. /\ truth'.real \in 0..Beyond /\ truth'.real <= truth.real + 1
      /\ truth'.real = truth.real + 1 \/ truth'.real = Beyond
  BY <1>6, <1>t, KeyNumbers DEF Older
<1>8. \A k \in KeyIds :
        /\ truth'.gone[k] \in 0..Beyond /\ truth'.gone[k] <= truth.gone[k] + 1
        /\ k \in published \/ k > Max(published) => truth'.gone[k] = 0
  <2> SUFFICES ASSUME NEW k \in KeyIds
               PROVE  /\ truth'.gone[k] \in 0..Beyond /\ truth'.gone[k] <= truth.gone[k] + 1
                      /\ k \in published \/ k > Max(published) => truth'.gone[k] = 0
    OBVIOUS
  <2>1. truth.gone[k] \in 0..Beyond
    BY <1>t
  <2> QED BY <2>1, <1>6, KeyNumbers DEF Older
<1>9. truth' \in Truths
  <2>1. truth'.gone \in [KeyIds -> 0..Beyond]
    BY <1>6, <1>8
  <2> QED BY <2>1, <1>6, <1>7, <1>t DEF Truths
<1>10. CacheIsKnown'
  <2>1. ASSUME NEW k \in keys PROVE truth'.gone[k] <= truth'.real + SlowestFetch
    <3>1. /\ truth.gone[k] <= truth.real + SlowestFetch /\ k \in KeyIds
          /\ truth.gone[k] \in 0..Beyond
      BY <1>t DEF KeysInv, CacheIsKnown
    <3>2. truth'.gone[k] \in 0..Beyond /\ truth'.gone[k] <= truth.gone[k] + 1
      BY <3>1, <1>8
    <3> QED BY <3>1, <3>2, <1>7, <1>t, KeyNumbers
  <2>2. since' < LongestAge => truth'.real <= since'
    <3>1. since < LongestAge => truth.real <= since
      BY DEF KeysInv, CacheIsKnown
    <3> QED BY <3>1, <1>4, <1>7, <1>t, KeyNumbers DEF Older
  <2>3. uptime' < LongestAge => truth'.real <= uptime'
    <3>1. uptime < LongestAge => truth.real <= uptime
      BY DEF KeysInv, CacheIsKnown
    <3> QED BY <3>1, <1>4, <1>7, <1>t, KeyNumbers DEF Older
  <2>4. ~truth'.reset /\ keys # NoDocument =>
          since' = IF truth'.real < LongestAge THEN truth'.real ELSE LongestAge
    <3>1. ~truth.reset /\ keys # NoDocument =>
            since = IF truth.real < LongestAge THEN truth.real ELSE LongestAge
      BY DEF KeysInv, CacheIsKnown
    <3>2. since = (IF truth.real < LongestAge THEN truth.real ELSE LongestAge) =>
            since' = IF truth'.real < LongestAge THEN truth'.real ELSE LongestAge
      BY <1>4, <1>7, <1>t, KeyNumbers DEF Older
    <3> QED BY <3>1, <3>2, <1>6
  <2> QED BY <2>1, <2>2, <2>3, <2>4, <1>3 DEF CacheIsKnown, NoDocument
<1>11. ASSUME NEW v \in Verifiers
       PROVE  verifying'[v] \in Verifications /\ StandsWell(verifying[v])'
  <2>1. PICK r : r = verifying[v]
    OBVIOUS
  <2>2. /\ r \in Verifications /\ StandsWell(r) /\ r.age \in 0..LongestAge
        /\ r.took \in 0..SlowestFetch /\ r.doc \in SUBSET KeyIds
        /\ r = [at |-> r.at, kid |-> r.kid, age |-> r.age, second |-> r.second, doc |-> r.doc,
                took |-> r.took, seen |-> r.seen, failed |-> r.failed, old |-> r.old]
    BY <2>1, OfOneVerification DEF Verifications
  <2>3. PICK t : t = verifying'[v]
    OBVIOUS
  <2>4. CASE Pending(v)
    <3>1. r.took < SlowestFetch /\ t = [r EXCEPT !.took = r.took + 1] /\ r.at \in {"fetch", "land"}
      BY <2>1, <2>3, <2>4 DEF ClockTicks, Pending
    <3>2. t = [at |-> r.at, kid |-> r.kid, age |-> r.age, second |-> r.second, doc |-> r.doc,
               took |-> r.took + 1, seen |-> r.seen, failed |-> r.failed, old |-> r.old]
      BY <2>2, <3>1
    <3>3. r.took + 1 \in 0..SlowestFetch
      BY <2>2, <3>1, KeyNumbers
    <3>4. t \in Verifications
      BY <2>2, <3>2, <3>3 DEF Verifications
    <3>5. r.age < Stale => truth'.real <= r.age + (r.took + 1)
      <4>1. r.age < Stale => truth.real <= r.age + r.took
        BY <2>2, <3>1 DEF StandsWell
      <4> QED BY <4>1, <2>2, <1>7, <1>t, KeyNumbers
    <3>6. r.at = "land" => \A k \in r.doc : truth'.gone[k] <= r.took + 1
      <4> SUFFICES ASSUME r.at = "land", NEW k \in r.doc PROVE truth'.gone[k] <= r.took + 1
        OBVIOUS
      <4>1. truth.gone[k] <= r.took /\ k \in KeyIds /\ truth.gone[k] \in 0..Beyond
        BY <2>2, <1>t DEF StandsWell
      <4>2. truth'.gone[k] \in 0..Beyond /\ truth'.gone[k] <= truth.gone[k] + 1
        BY <4>1, <1>8
      <4> QED BY <4>1, <4>2, <2>2, KeyNumbers
    <3>7. StandsWell(t)'
      BY <2>2, <3>1, <3>2, <3>5, <3>6, <1>3 DEF StandsWell, NoDocument
    <3> QED BY <2>3, <3>4, <3>7 DEF StandsWell
  <2>5. CASE ~Pending(v)
    <3>1. t = Resting("idle")
      BY <2>3, <2>5 DEF ClockTicks
    <3>2. t \in Verifications /\ t.at = "idle"
      BY <3>1, KeyNumbers DEF Resting, Verifications, Stands, NoDocument
    <3>3. StandsWell(t)'
      BY <3>2 DEF StandsWell
    <3> QED BY <2>3, <3>2, <3>3 DEF StandsWell
  <2> QED BY <2>4, <2>5
<1>12. verifying' \in [Verifiers -> Verifications]
  <2>1. verifying' = [v \in Verifiers |-> verifying'[v]]
    BY DEF ClockTicks
  <2> QED BY <2>1, <1>11
<1>13. KeysTyped'
  BY <1>3, <1>5, <1>9, <1>12, <1>t
     DEF KeysInv, KeysTyped, Verifications, KeyIds, Truths, Beyond, Stands
<1>14. LatestPublished'
  BY <1>3 DEF KeysInv, LatestPublished, Publishes, KeyIds
<1>15. NotGone'
  BY <1>3, <1>8 DEF NotGone, KeyIds
<1> QED BY <1>10, <1>11, <1>13, <1>14, <1>15 DEF KeysInv

\* A key that verifies a token was published within the window and two fetches; a
\* cache that is young enough bridges an outage unless its age was thrown away;
\* and a key that was published all the while is found. For any number of
\* verifications and rotations, and any of the three times.
THEOREM KeysStayTrue == KeysSpec => []KeysHold
<1>1. KeysInv /\ [KeysNext]_signingKeys => KeysInv'
  <2> SUFFICES ASSUME KeysInv, [KeysNext]_signingKeys PROVE KeysInv'
    OBVIOUS
  <2>1. ASSUME NEW v \in Verifiers, NEW kid \in 1..Max(published), Begin(v, kid) PROVE KeysInv'
    <3>1. PICK m \in KeyIds : Publishes(m)
      BY DEF KeysInv, LatestPublished
    <3>2. kid \in Nat
      BY <2>1, <3>1, LatestIsMax, KeyNumbers
    <3> QED BY <2>1, <3>2, BeginKeeps
  <2>2. ASSUME NEW v \in Verifiers, Begin(v, MaxRotations + 2) PROVE KeysInv'
    BY <2>2, KeyNumbers, BeginKeeps
  <2>3. CASE UNCHANGED signingKeys
    <3>1. UNCHANGED <<published, keys, since, uptime, verifying, truth>>
      BY <2>3 DEF signingKeys
    <3> QED BY <3>1
        DEF KeysInv, KeysTyped, LatestPublished, Publishes, NotGone, CacheIsKnown,
            StandsWell, KeyIds, Verifications, Truths, Beyond, Stands, NoDocument
  <2> QED BY <2>1, <2>2, <2>3, RespondKeeps, LandKeeps, FetchFailsKeeps, RotateKeeps,
             ClockTicksKeeps DEF KeysNext
<1>2. KeysInv => KeysHold
  BY DEF KeysInv, StandsWell, KeysHold, WithdrawnKeysExpire, OutageIsBridged, RotationIsSeen
<1> QED BY <1>1, <1>2, KeysInitially, PTL DEF KeysSpec

\* security/verifier.py:10-11 and security/service_token.py:15-22, for any number of
\* requests and rotations and any lifetimes: neither cache outlives what it holds.
THEOREM CachesStayGood == CredentialsSpec => []CredentialsHold
BY KeysStayTrue, CredentialStaysGood, PTL DEF CredentialsSpec, CredentialsHold

-----------------------------------------------------------------------------
(* The passcode counter                                                    *)
(* Neither half of LockoutHolds is inductive.  That an account opens only   *)
(* when its time has come follows from the sum of what is left of the lock  *)
(* and what has passed since the attempt that set it (LockRunsItsCourse).   *)
(* That fewer attempts than calls slip past a lock follows from counting    *)
(* those that may still do so: a call that reads the account while it is    *)
(* locked is not among them (LateComers).                                   *)

\* The calls that passed the check and have not counted their attempt.
Admitted == {c \in Askers : ask[c].at = "count"}

\* At the limit the lock and the calm since its last attempt make a lockout,
\* but for the age of the call that set it.
LockRunsItsCourse == failed >= MaxAttempts => until + calm >= Lockout - SlowestHash

\* While the account is locked, one call at least can no longer slip past.
LateComers == Locked => under + Cardinality(Admitted) < Cardinality(Askers)

LockoutInv == /\ PasscodeTypeOK
              /\ LockRunsItsCourse
              /\ LateComers
              /\ under < Cardinality(Askers)

-----------------------------------------------------------------------------
\* There are so many calls, one at least.
LEMMA SomeAskers == Cardinality(Askers) \in Nat /\ Cardinality(Askers) > 0
  BY PasscodeAssumption, FS_CardinalityType, FS_EmptySet

\* Calls that were admitted are calls: finitely many, and no more of them.
LEMMA AdmittedAreAskers ==
  /\ IsFiniteSet(Admitted) /\ Cardinality(Admitted) \in Nat
  /\ Cardinality(Admitted) <= Cardinality(Askers)
<1>1. Admitted \subseteq Askers
  BY DEF Admitted
<1> QED
  BY <1>1, PasscodeAssumption, FS_Subset, FS_CardinalityType

\* A call that leaves the admitted ones leaves one fewer.
LEMMA OneFewer ==
  ASSUME NEW c \in Askers, ask[c].at = "count", Admitted' = Admitted \ {c}
  PROVE  Cardinality(Admitted') = Cardinality(Admitted) - 1
<1>1. c \in Admitted
  BY DEF Admitted
<1> QED
  BY <1>1, AdmittedAreAskers, FS_RemoveElement

\* The first state has no attempt and no lock.
LEMMA PasscodeInitially == PasscodeInit => LockoutInv
  BY SomeAskers, PasscodeAssumption
     DEF PasscodeInit, LockoutInv, PasscodeTypeOK, LockRunsItsCourse, LateComers, Locked,
         NeverLocked, NotAsking, AskStages

-----------------------------------------------------------------------------
\* A step that takes no call into the admitted ones, and touches neither the
\* account nor the histories, keeps the invariant.
LEMMA CallsOnly ==
  ASSUME LockoutInv, UNCHANGED <<failed, until, calm, under>>,
         ask' \in [Askers -> [at : AskStages, age : 0..SlowestHash]],
         Locked => Admitted' \subseteq Admitted
  PROVE  LockoutInv'
<1>1. PasscodeTypeOK' /\ LockRunsItsCourse' /\ (under < Cardinality(Askers))'
  BY DEF LockoutInv, PasscodeTypeOK, LockRunsItsCourse, NeverLocked
<1>2. LateComers'
  <2> SUFFICES ASSUME Locked PROVE under + Cardinality(Admitted') < Cardinality(Askers)
    BY DEF LateComers, Locked
  <2>1. /\ IsFiniteSet(Admitted) /\ Cardinality(Admitted) \in Nat
    BY AdmittedAreAskers
  <2>2. Cardinality(Admitted') \in Nat /\ Cardinality(Admitted') <= Cardinality(Admitted)
    BY <2>1, FS_Subset, FS_CardinalityType
  <2> QED
    BY <2>1, <2>2, SomeAskers DEF LockoutInv, LateComers, PasscodeTypeOK
<1> QED
  BY <1>1, <1>2 DEF LockoutInv

\* A call that begins, or has recorded its outcome, is not admitted.
LEMMA AskKeeps ==
  ASSUME LockoutInv, NEW c \in Askers, AskPasscode(c) \/ RecordAttempt(c)
  PROVE  LockoutInv'
<1>1. ask' \in [Askers -> [at : AskStages, age : 0..SlowestHash]]
  BY PasscodeAssumption
     DEF LockoutInv, PasscodeTypeOK, AskPasscode, RecordAttempt, NotAsking, AskStages
<1>2. Admitted' \subseteq Admitted
  BY DEF LockoutInv, PasscodeTypeOK, Admitted, AskPasscode, RecordAttempt, NotAsking
<1> QED
  BY <1>1, <1>2, CallsOnly DEF AskPasscode, RecordAttempt

\* A call that reads a locked account finds the lockout in force, whatever the
\* age of its now.
LEMMA ReadKeeps ==
  ASSUME LockoutInv, NEW c \in Askers, ReadCustomer(c)
  PROVE  LockoutInv'
<1>1. ask' \in [Askers -> [at : AskStages, age : 0..SlowestHash]]
  BY PasscodeAssumption DEF LockoutInv, PasscodeTypeOK, ReadCustomer, At, NotAsking, AskStages
<1>2. ASSUME Locked PROVE Admitted' \subseteq Admitted
  <2>1. InForce(c)
    BY <1>2, PasscodeAssumption DEF InForce, Locked, LockoutInv, PasscodeTypeOK, NeverLocked
  <2> QED
    BY <2>1 DEF LockoutInv, PasscodeTypeOK, Admitted, ReadCustomer, At, NotAsking
<1> QED
  BY <1>1, <1>2, CallsOnly DEF ReadCustomer

\* A right passcode lifts the lock and forgets what was counted.
LEMMA RightKeeps ==
  ASSUME LockoutInv, NEW c \in Askers, CountRight(c)
  PROVE  LockoutInv'
  BY SomeAskers, PasscodeAssumption
     DEF LockoutInv, PasscodeTypeOK, LockRunsItsCourse, LateComers, Locked, CountRight,
         NeverLocked, NotAsking, AskStages

\* A wrong one: at the limit it locks for what is left of the lockout by its own
\* clock, and it is an admitted call that no longer is.
LEMMA WrongKeeps ==
  ASSUME LockoutInv, NEW c \in Askers, CountWrong(c)
  PROVE  LockoutInv'
<1>1. /\ failed \in 0..MaxAttempts + 1 /\ until \in NeverLocked..Lockout
      /\ calm \in 0..Lockout /\ under \in 0..Cardinality(Askers)
      /\ ask \in [Askers -> [at : AskStages, age : 0..SlowestHash]]
  BY DEF LockoutInv, PasscodeTypeOK
<1>2. ask[c].age \in 0..SlowestHash /\ ask[c].at = "count"
  BY <1>1 DEF CountWrong
<1>3. /\ failed' = Least(failed + 1, MaxAttempts + 1)
      /\ until' = LockAfter(failed + 1, c)
      /\ ask' = [ask EXCEPT ![c].at = "record"]
      /\ calm' = 0
      /\ under' = IF Locked THEN under + 1 ELSE 0
  BY DEF CountWrong, At
<1>4. until' \in NeverLocked..Lockout
  BY <1>2, <1>3, PasscodeAssumption DEF LockAfter, NeverLocked
<1>5. failed' \in 0..MaxAttempts + 1 /\ LockRunsItsCourse'
  BY <1>1, <1>2, <1>3, PasscodeAssumption DEF LockRunsItsCourse, Least, LockAfter
<1>6. Admitted' = Admitted \ {c}
  BY <1>1, <1>3 DEF Admitted
<1>7. /\ Cardinality(Admitted') = Cardinality(Admitted) - 1
      /\ Cardinality(Admitted) \in Nat /\ Cardinality(Admitted) <= Cardinality(Askers)
  BY <1>2, <1>6, OneFewer, AdmittedAreAskers
<1>8. under' + Cardinality(Admitted') < Cardinality(Askers)
  BY <1>1, <1>3, <1>7, SomeAskers DEF LockoutInv, LateComers
<1>9. Cardinality(Admitted') \in Nat
  BY <1>2, <1>7, <1>6, AdmittedAreAskers, FS_RemoveElement, FS_CardinalityType DEF Admitted
<1>10. under' \in 0..Cardinality(Askers) /\ under' < Cardinality(Askers)
  BY <1>1, <1>3, <1>8, <1>9, SomeAskers
<1>11. ask' \in [Askers -> [at : AskStages, age : 0..SlowestHash]]
  BY <1>1, <1>3 DEF AskStages
<1> QED
  BY <1>3, <1>4, <1>5, <1>8, <1>10, <1>11, PasscodeAssumption
     DEF LockoutInv, PasscodeTypeOK, LateComers

\* Time passes for the lock, for the calm and for every call at once.
LEMMA PassKeeps == ASSUME LockoutInv, Pass PROVE LockoutInv'
<1>1. /\ failed \in 0..MaxAttempts + 1 /\ until \in NeverLocked..Lockout
      /\ calm \in 0..Lockout /\ under \in 0..Cardinality(Askers)
      /\ ask \in [Askers -> [at : AskStages, age : 0..SlowestHash]]
  BY DEF LockoutInv, PasscodeTypeOK
<1>2. ask' \in [Askers -> [at : AskStages, age : 0..SlowestHash]]
  <2>1. ASSUME NEW c \in Askers, ask[c].at # "idle"
        PROVE  [ask[c] EXCEPT !.age = @ + 1] \in [at : AskStages, age : 0..SlowestHash]
    BY <1>1, <2>1, PasscodeAssumption DEF Pass
  <2> QED
    BY <1>1, <2>1 DEF Pass
<1>3. Admitted' = Admitted
  BY <1>1 DEF Pass, Admitted
<1>4. /\ calm' \in 0..Lockout /\ until' \in NeverLocked..Lockout
      /\ LockRunsItsCourse' /\ (Locked' => Locked)
  BY <1>1, PasscodeAssumption
     DEF Pass, LockoutInv, LockRunsItsCourse, Locked, Least, NeverLocked
<1> QED
  BY <1>1, <1>2, <1>3, <1>4 DEF Pass, LockoutInv, PasscodeTypeOK, LateComers

-----------------------------------------------------------------------------
\* Every step keeps the invariant.
LEMMA LockoutStep == ASSUME LockoutInv, [PasscodeNext]_passcode PROVE LockoutInv'
<1>1. CASE Pass
  BY <1>1, PassKeeps
<1>2. ASSUME NEW c \in Askers, AskerStep(c) PROVE LockoutInv'
  BY <1>2, AskKeeps, ReadKeeps, RightKeeps, WrongKeeps DEF AskerStep
<1>3. CASE UNCHANGED passcode
  BY <1>3 DEF passcode, LockoutInv, PasscodeTypeOK, LockRunsItsCourse, LateComers, Locked,
              Admitted
<1> QED
  BY <1>1, <1>2, <1>3 DEF PasscodeNext

\* The invariant of the attempt counter, for any calls, limit and lockout.
THEOREM LockoutInvariant == PasscodeSpec => []LockoutInv
  BY PasscodeInitially, LockoutStep, PTL DEF PasscodeSpec

\* passcode.py:10: a lock holds for its time, but for the age of a slow call's
\* clock, and fewer attempts than there are calls slip past it.
THEOREM LockoutNeverGivesWay == PasscodeSpec => []LockoutHolds
<1>1. LockoutInv => LockoutHolds
  BY PasscodeAssumption
     DEF LockoutInv, LockoutHolds, LockRunsItsCourse, PasscodeTypeOK, Locked, NeverLocked
<1> QED
  BY <1>1, LockoutInvariant, PTL

-----------------------------------------------------------------------------
(* Voice cases                                                             *)
(* TurnsAddUp speaks of the documents alone, and a turn writes one it made   *)
(* long before: the invariant says the same of the document each turn holds,*)
(* against the log but for what the turn has missed.  That steps stand in a *)
(* document in the order of their commits (FollowsLog) makes the window drop*)
(* the oldest; that one transaction at a time is open on a case keeps the   *)
(* others from missing nothing.                                            *)

\* The turns that committed on a case, in order: their steps, and those they lost.
Commitments == [by : Turns, step : BOOLEAN, consent : BOOLEAN, missed : SUBSET Turns]
StepsIn(log) == {i \in DOMAIN log : log[i].step}
LostIn(log) == UNION {log[i].missed : i \in DOMAIN log}
LogOK(log) ==
  log \in Seq(Commitments) /\ \A i, j \in DOMAIN log : log[i].by = log[j].by => i = j

\* The steps of a document, against the turns that committed, those lost, and the one
\* that is to commit this document ("own", if it takes a step).
StepLists == {steps \in Seq(Turns) : Len(steps) <= MaxSteps}
Covers(steps, log, lost, own) ==
  \A i \in StepsIn(log) : log[i].by \notin lost =>
    \/ \E n \in DOMAIN steps : steps[n] = log[i].by
    \/ /\ Len(steps) = MaxSteps
       /\ \A n \in DOMAIN steps :
            steps[n] \in own \/ \E j \in StepsIn(log) : j > i /\ log[j].by = steps[n]
FollowsLog(steps, log, own) ==
  /\ \A n \in DOMAIN steps :
       \/ steps[n] \in own /\ n = Len(steps)
       \/ \E j \in StepsIn(log) : log[j].by = steps[n]
  /\ \A m, n \in DOMAIN steps : \A i, j \in DOMAIN log :
       m < n /\ log[i].by = steps[m] /\ log[j].by = steps[n] => i < j

\* A sequence, element by element.
LEMMA SeqIs ==
  ASSUME NEW S, NEW s \in Seq(S)
  PROVE  Len(s) \in Nat /\ DOMAIN s = 1 .. Len(s) /\ \A i \in 1 .. Len(s) : s[i] \in S
BY ElementOfSeq

\* The last steps of a document and one step more.
LEMMA WindowIs ==
  ASSUME NEW old \in StepLists, NEW t \in Turns
  PROVE  LET w == Window(Append(old, t)) IN
         /\ w \in StepLists /\ Len(w) >= 1 /\ w[Len(w)] = t
         /\ \E d \in {0, 1} :
              /\ Len(w) = Len(old) + 1 - d
              /\ d = 1 => Len(w) = MaxSteps /\ Len(old) = MaxSteps
              /\ \A n \in 1 .. Len(w) - 1 : n + d \in 1 .. Len(old) /\ w[n] = old[n + d]
<1>1. PICK l \in Nat : l = Len(old) /\ l <= MaxSteps /\ old \in Seq(Turns)
  BY SeqIs DEF StepLists
<1>2. PICK a : a = Append(old, t)
  OBVIOUS
<1>3. /\ a \in Seq(Turns) /\ Len(a) = l + 1 /\ a[l + 1] = t
      /\ \A i \in 1 .. l : a[i] = old[i]
      /\ \A i \in 1 .. l + 1 : a[i] \in Turns
  <2>1. /\ a \in Seq(Turns) /\ Len(a) = l + 1 /\ a[l + 1] = t /\ \A i \in 1 .. l : a[i] = old[i]
    BY <1>1, <1>2, AppendProperties
  <2> QED BY <2>1, SeqIs
<1>4. PICK w : w = Window(a)
  OBVIOUS
<1>5. MaxSteps \in Nat /\ MaxSteps >= 1
  BY CasesAssumption
<1>6. CASE l + 1 <= MaxSteps
  <2>1. w = a
    BY <1>3, <1>4, <1>5, <1>6, <1>1 DEF Window
  <2>2. w \in StepLists
    BY <1>3, <1>6, <2>1 DEF StepLists
  <2>3. \A n \in 1 .. Len(w) - 1 : n + 0 \in 1 .. l /\ w[n] = old[n + 0]
    BY <1>1, <1>3, <2>1
  <2> QED BY <1>1, <1>2, <1>3, <1>4, <2>1, <2>2, <2>3
<1>7. CASE l = MaxSteps
  <2>1. w = SubSeq(a, 2, l + 1)
    BY <1>1, <1>3, <1>4, <1>5, <1>7 DEF Window
  <2>2. /\ w \in Seq(Turns) /\ Len(w) = (IF 2 <= l + 1 THEN l + 1 - 2 + 1 ELSE 0)
        /\ \A i \in 1 .. l + 1 - 2 + 1 : w[i] = a[2 + i - 1]
    BY <1>1, <1>3, <2>1, SubSeqProperties
  <2>3. Len(w) = l /\ \A i \in 1 .. l : w[i] = a[i + 1]
    BY <1>1, <1>5, <1>7, <2>2
  <2>4. w \in StepLists
    BY <1>7, <2>2, <2>3 DEF StepLists
  <2>5. \A n \in 1 .. Len(w) - 1 : n + 1 \in 1 .. l /\ w[n] = old[n + 1]
    BY <1>1, <1>3, <2>3
  <2>6. w[Len(w)] = t
    BY <1>1, <1>3, <1>5, <1>7, <2>3
  <2> QED BY <1>1, <1>2, <1>4, <1>5, <1>7, <2>3, <2>4, <2>5, <2>6
<1> QED BY <1>1, <1>5, <1>6, <1>7

\* A log and one commitment more.
LEMMA LogGrows ==
  ASSUME NEW log \in Seq(Commitments), NEW e \in Commitments
  PROVE  LET new == Append(log, e) n == Len(log) IN
         /\ new \in Seq(Commitments) /\ n \in Nat
         /\ DOMAIN log = 1 .. n /\ DOMAIN new = 1 .. n + 1
         /\ new[n + 1] = e /\ \A i \in 1 .. n : new[i] = log[i]
         /\ StepsIn(new) = StepsIn(log) \cup (IF e.step THEN {n + 1} ELSE {})
         /\ LostIn(new) = LostIn(log) \cup e.missed
<1>1. PICK new, n : new = Append(log, e) /\ n = Len(log)
  OBVIOUS
<1>2. /\ new \in Seq(Commitments) /\ n \in Nat
      /\ DOMAIN log = 1 .. n /\ DOMAIN new = 1 .. n + 1
      /\ new[n + 1] = e /\ \A i \in 1 .. n : new[i] = log[i]
  BY <1>1, AppendProperties, SeqIs
<1>3. \A i \in 1 .. n + 1 : i \in 1 .. n \/ i = n + 1
  BY <1>2
<1>4. StepsIn(new) = StepsIn(log) \cup (IF e.step THEN {n + 1} ELSE {})
  BY <1>2, <1>3 DEF StepsIn
<1>5. LostIn(new) = LostIn(log) \cup e.missed
  <2>1. ASSUME NEW u PROVE u \in LostIn(new) <=> \E i \in 1 .. n + 1 : u \in new[i].missed
    BY <1>2 DEF LostIn
  <2>2. ASSUME NEW u PROVE u \in LostIn(log) <=> \E i \in 1 .. n : u \in log[i].missed
    BY <1>2 DEF LostIn
  <2>3. ASSUME NEW u PROVE u \in LostIn(new) <=> u \in LostIn(log) \/ u \in e.missed
    BY <1>2, <1>3, <2>1, <2>2
  <2> QED BY <2>3
<1> QED BY <1>1, <1>2, <1>4, <1>5

\* A step that is taken covers what the document covered, in order.
LEMMA StepTaken ==
  ASSUME NEW old \in StepLists, NEW log, LogOK(log), NEW lost, NEW t \in Turns,
         \A i \in DOMAIN log : log[i].by # t,
         Covers(old, log, lost, {}), FollowsLog(old, log, {})
  PROVE  LET w == Window(Append(old, t)) IN
         /\ w \in StepLists /\ \E n \in DOMAIN w : w[n] = t
         /\ Covers(w, log, lost, {t}) /\ FollowsLog(w, log, {t})
<1>1. PICK w : w = Window(Append(old, t))
  OBVIOUS
<1>2. PICK d \in {0, 1} :
        /\ Len(w) = Len(old) + 1 - d
        /\ d = 1 => Len(w) = MaxSteps /\ Len(old) = MaxSteps
        /\ \A n \in 1 .. Len(w) - 1 : n + d \in 1 .. Len(old) /\ w[n] = old[n + d]
  BY <1>1, WindowIs
<1>3. w \in StepLists /\ Len(w) >= 1 /\ w[Len(w)] = t
  BY <1>1, WindowIs
<1>4. PICK l \in Nat, m \in Nat : /\ l = Len(old) /\ DOMAIN old = 1 .. l
                                  /\ m = Len(w) /\ DOMAIN w = 1 .. m
  BY <1>3, SeqIs DEF StepLists
<1>5. \A n \in 1 .. m : n \in 1 .. m - 1 \/ n = m
  BY <1>4
<1>6. /\ \A n \in 1 .. m - 1 : n + d \in 1 .. l /\ w[n] = old[n + d]
      /\ w[m] = t /\ m >= 1 /\ m \in 1 .. m
  BY <1>2, <1>3, <1>4
<1>7. /\ \A n \in 1 .. l : \E j \in StepsIn(log) : log[j].by = old[n]
      /\ \A a, b \in 1 .. l : \A i, j \in DOMAIN log :
           a < b /\ log[i].by = old[a] /\ log[j].by = old[b] => i < j
  BY <1>4 DEF FollowsLog
<1>8. FollowsLog(w, log, {t})
  <2>1. ASSUME NEW n \in 1 .. m
        PROVE  \/ w[n] \in {t} /\ n = m
               \/ \E j \in StepsIn(log) : log[j].by = w[n]
    BY <1>5, <1>6, <1>7
  <2>2. ASSUME NEW a \in 1 .. m, NEW b \in 1 .. m, NEW i \in DOMAIN log, NEW j \in DOMAIN log,
               a < b, log[i].by = w[a], log[j].by = w[b]
        PROVE  i < j
    <3>1. a # m /\ b # m
      BY <1>4, <1>6, <2>2
    <3>2. a \in 1 .. m - 1 /\ b \in 1 .. m - 1
      BY <1>5, <3>1
    <3>3. /\ a + d \in 1 .. l /\ b + d \in 1 .. l /\ w[a] = old[a + d] /\ w[b] = old[b + d]
          /\ a + d < b + d
      BY <1>4, <1>6, <2>2, <3>2
    <3> QED BY <1>7, <2>2, <3>3
  <2> QED BY <1>4, <2>1, <2>2 DEF FollowsLog
<1>9. Covers(w, log, lost, {t})
  <2> SUFFICES ASSUME NEW i \in StepsIn(log), log[i].by \notin lost,
                      \A n \in 1 .. m : w[n] # log[i].by
               PROVE  /\ m = MaxSteps
                      /\ \A n \in 1 .. m :
                           w[n] \in {t} \/ \E j \in StepsIn(log) : j > i /\ log[j].by = w[n]
    BY <1>4 DEF Covers
  <2>1. i \in DOMAIN log /\ \A j \in StepsIn(log) : j \in DOMAIN log /\ j \in Nat
    BY SeqIs DEF StepsIn, LogOK
  <2>2. CASE \E n \in 1 .. l : old[n] = log[i].by
    <3>1. PICK p \in 1 .. l : old[p] = log[i].by
      BY <2>2
    <3>2. d = 1 /\ p = 1
      <4>1. CASE d = 0
        <5>1. p \in 1 .. m - 1 /\ p + d = p
          BY <1>2, <1>4, <4>1
        <5> QED BY <1>4, <1>6, <3>1, <5>1
      <4>2. CASE d = 1 /\ p # 1
        <5>1. PICK q \in 1 .. m - 1 : q + d = p
          <6>1. p - 1 \in 1 .. m - 1 /\ (p - 1) + d = p
            BY <1>2, <1>4, <4>2
          <6> QED BY <6>1
        <5>2. w[q] = old[q + d] /\ q \in 1 .. m
          BY <1>4, <1>6
        <5> QED BY <3>1, <5>1, <5>2
      <4> QED BY <4>1, <4>2
    <3>3. m = MaxSteps
      BY <1>2, <1>4, <3>2
    <3>4. ASSUME NEW n \in 1 .. m - 1 PROVE \E j \in StepsIn(log) : j > i /\ log[j].by = w[n]
      <4>1. n + 1 \in 1 .. l /\ w[n] = old[n + 1] /\ p < n + 1
        BY <1>4, <1>6, <3>2
      <4>2. PICK j \in StepsIn(log) : log[j].by = old[n + 1]
        BY <1>7, <4>1
      <4>3. i < j
        BY <1>7, <2>1, <3>1, <4>1, <4>2
      <4> QED BY <2>1, <4>1, <4>2, <4>3
    <3> QED BY <1>5, <1>6, <3>3, <3>4
  <2>3. CASE ~\E n \in 1 .. l : old[n] = log[i].by
    <3>1. /\ l = MaxSteps
          /\ \A n \in 1 .. l : \E j \in StepsIn(log) : j > i /\ log[j].by = old[n]
      BY <1>4, <2>3 DEF Covers
    <3>2. m = MaxSteps
      <4>1. m <= MaxSteps
        BY <1>3, <1>4 DEF StepLists
      <4> QED BY <1>2, <1>4, <3>1, <4>1, CasesAssumption
    <3>3. ASSUME NEW n \in 1 .. m - 1 PROVE \E j \in StepsIn(log) : j > i /\ log[j].by = w[n]
      BY <1>6, <3>1
    <3> QED BY <1>5, <1>6, <3>2, <3>3
  <2> QED BY <2>2, <2>3
<1> QED BY <1>1, <1>3, <1>4, <1>6, <1>8, <1>9

\* Another turn commits: its step is lost on a document that was read before.
LEMMA StepMissed ==
  ASSUME NEW steps \in StepLists, NEW log, LogOK(log), NEW lost, NEW own,
         NEW e \in Commitments, \A i \in DOMAIN log : log[i].by # e.by, e.by \notin own,
         Covers(steps, log, lost, own), FollowsLog(steps, log, own),
         NEW more, lost \subseteq more, e.by \in more
  PROVE  Covers(steps, Append(log, e), more, own) /\ FollowsLog(steps, Append(log, e), own)
<1>1. PICK new, n : new = Append(log, e) /\ n = Len(log)
  OBVIOUS
<1>2. /\ n \in Nat /\ DOMAIN log = 1 .. n /\ DOMAIN new = 1 .. n + 1
      /\ new[n + 1] = e /\ \A i \in 1 .. n : new[i] = log[i]
      /\ StepsIn(new) = StepsIn(log) \cup (IF e.step THEN {n + 1} ELSE {})
  BY <1>1, LogGrows DEF LogOK
<1>3. \A i \in 1 .. n + 1 : i \in 1 .. n \/ i = n + 1
  BY <1>2
<1>4. \A i \in StepsIn(log) : i \in 1 .. n /\ i \in StepsIn(new) /\ new[i] = log[i]
  BY <1>2 DEF StepsIn
<1>5. \A i \in StepsIn(new) : i \in StepsIn(log) \/ new[i].by \in more
  BY <1>2
<1>6. Covers(steps, new, more, own)
  BY <1>4, <1>5 DEF Covers
<1>7. ASSUME NEW k \in DOMAIN steps PROVE steps[k] # e.by
  BY <1>2, <1>4 DEF FollowsLog
<1>8. FollowsLog(steps, new, own)
  <2>1. ASSUME NEW k \in DOMAIN steps
        PROVE  \/ steps[k] \in own /\ k = Len(steps)
               \/ \E j \in StepsIn(new) : new[j].by = steps[k]
    BY <1>4 DEF FollowsLog
  <2>2. ASSUME NEW a \in DOMAIN steps, NEW b \in DOMAIN steps, NEW i \in 1 .. n + 1, NEW j \in 1 .. n + 1,
               a < b, new[i].by = steps[a], new[j].by = steps[b]
        PROVE  i < j
    <3>1. i # n + 1 /\ j # n + 1
      BY <1>2, <1>7, <2>2
    <3>2. i \in DOMAIN log /\ j \in DOMAIN log /\ new[i] = log[i] /\ new[j] = log[j]
      BY <1>2, <1>3, <3>1
    <3> QED BY <2>2, <3>2 DEF FollowsLog
  <2> QED BY <1>2, <2>1, <2>2 DEF FollowsLog
<1> QED BY <1>1, <1>6, <1>8

\* The turn itself commits: its step is the last of its document.
LEMMA StepKept ==
  ASSUME NEW steps \in StepLists, NEW log, LogOK(log), NEW lost,
         NEW e \in Commitments, \A i \in DOMAIN log : log[i].by # e.by,
         e.step => \E n \in DOMAIN steps : steps[n] = e.by,
         NEW own, own = IF e.step THEN {e.by} ELSE {},
         Covers(steps, log, lost, own), FollowsLog(steps, log, own)
  PROVE  Covers(steps, Append(log, e), lost, {}) /\ FollowsLog(steps, Append(log, e), {})
<1>1. PICK new, n : new = Append(log, e) /\ n = Len(log)
  OBVIOUS
<1>2. /\ n \in Nat /\ DOMAIN log = 1 .. n /\ DOMAIN new = 1 .. n + 1
      /\ new[n + 1] = e /\ \A i \in 1 .. n : new[i] = log[i]
      /\ StepsIn(new) = StepsIn(log) \cup (IF e.step THEN {n + 1} ELSE {})
  BY <1>1, LogGrows DEF LogOK
<1>3. \A i \in 1 .. n + 1 : i \in 1 .. n \/ i = n + 1
  BY <1>2
<1>4. \A i \in StepsIn(log) : i \in 1 .. n /\ i \in StepsIn(new) /\ new[i] = log[i] /\ n + 1 > i
  BY <1>2 DEF StepsIn
<1>5. \A k \in DOMAIN steps : steps[k] \in own =>
        steps[k] = e.by /\ n + 1 \in StepsIn(new) /\ new[n + 1].by = e.by
  BY <1>2
<1>6. ASSUME NEW i \in StepsIn(new), new[i].by \notin lost
      PROVE  \/ \E k \in DOMAIN steps : steps[k] = new[i].by
             \/ /\ Len(steps) = MaxSteps
                /\ \A k \in DOMAIN steps : \E j \in StepsIn(new) : j > i /\ new[j].by = steps[k]
  <2>1. CASE i \in StepsIn(log)
    <3>1. new[i] = log[i]
      BY <1>4, <2>1
    <3>2. ASSUME NEW k \in DOMAIN steps,
                 steps[k] \in own \/ \E j \in StepsIn(log) : j > i /\ log[j].by = steps[k]
          PROVE  \E j \in StepsIn(new) : j > i /\ new[j].by = steps[k]
      BY <1>4, <1>5, <2>1, <3>2
    <3> QED BY <1>6, <2>1, <3>1, <3>2 DEF Covers
  <2>2. CASE i \notin StepsIn(log)
    BY <1>2, <1>6, <2>2
  <2> QED BY <2>1, <2>2
<1>7. Covers(steps, new, lost, {})
  BY <1>6 DEF Covers
<1>8. FollowsLog(steps, new, {})
  <2>1. ASSUME NEW k \in DOMAIN steps PROVE \E j \in StepsIn(new) : new[j].by = steps[k]
    BY <1>4, <1>5 DEF FollowsLog
  <2>2. ASSUME NEW a \in DOMAIN steps, NEW b \in DOMAIN steps, NEW i \in 1 .. n + 1, NEW j \in 1 .. n + 1,
               a < b, new[i].by = steps[a], new[j].by = steps[b]
        PROVE  i < j
    <3>1. a \in Nat /\ b \in Nat /\ b <= Len(steps) /\ Len(steps) \in Nat
      BY SeqIs DEF StepLists
    <3>2. steps[a] # e.by
      <4>1. a # Len(steps)
        BY <2>2, <3>1
      <4>2. PICK m \in StepsIn(log) : log[m].by = steps[a]
        BY <4>1 DEF FollowsLog
      <4> QED BY <1>2, <1>4, <4>2
    <3>3. i \in DOMAIN log /\ new[i] = log[i]
      BY <1>2, <1>3, <2>2, <3>2
    <3>4. CASE j = n + 1
      BY <1>2, <3>3, <3>4
    <3>5. CASE j \in 1 .. n
      BY <1>2, <2>2, <3>3, <3>5 DEF FollowsLog
    <3> QED BY <1>3, <3>4, <3>5
  <2> QED BY <1>2, <2>1, <2>2 DEF FollowsLog
<1> QED BY <1>1, <1>7, <1>8

\* What a document says of the log, but for the turns lost; "more" counts the step
\* that is to commit it.
Shapes == [status : Statuses, updated : Nat, steps : StepLists, tools : Nat,
           consent : BOOLEAN, closed : BOOLEAN]
View(doc, log, lost, own, more) ==
  /\ doc \in Shapes
  /\ Covers(doc.steps, log, lost, own)
  /\ FollowsLog(doc.steps, log, own)
  /\ \A i \in DOMAIN log : log[i].by \notin lost /\ log[i].consent => doc.consent
  /\ doc.closed = (doc.status = "closed")
  /\ lost = {} => doc.tools = Cardinality(StepsIn(log)) + more

\* A case: there is no document before the first commit.
CaseOK(doc, log, told) ==
  IF doc = NoCase THEN log = <<>>
  ELSE /\ View(doc, log, LostIn(log), {}, 0)
       /\ LostIn(log) = {} => told = doc.status

\* A turn that is to write a document.
Own(t, step) == IF step THEN {t} ELSE {}
HeldOK(t, mine, log, told) ==
  LET lost == LostIn(log) \cup mine.missed IN
  /\ View(mine.next, log, lost, Own(t, mine.step), IF mine.step THEN 1 ELSE 0)
  /\ mine.step => \E n \in DOMAIN mine.next.steps : mine.next.steps[n] = t
  /\ lost = {} => mine.event \/ told = mine.next.status

\* So many steps have committed.
LEMMA StepsAreFinite ==
  ASSUME NEW log \in Seq(Commitments)
  PROVE  IsFiniteSet(StepsIn(log)) /\ Cardinality(StepsIn(log)) \in Nat
<1>1. IsFiniteSet(1 .. Len(log)) /\ DOMAIN log = 1 .. Len(log)
  BY SeqIs, FS_Interval
<1>2. StepsIn(log) \subseteq 1 .. Len(log)
  BY <1>1 DEF StepsIn
<1> QED BY <1>1, <1>2, FS_Subset, FS_CardinalityType

\* A turn with a step is one more.
LEMMA StepsCount ==
  ASSUME NEW log \in Seq(Commitments), NEW e \in Commitments
  PROVE  Cardinality(StepsIn(Append(log, e))) = Cardinality(StepsIn(log)) + (IF e.step THEN 1 ELSE 0)
<1>1. PICK n \in Nat : /\ n = Len(log)
                       /\ StepsIn(Append(log, e)) = StepsIn(log) \cup (IF e.step THEN {n + 1} ELSE {})
                       /\ DOMAIN log = 1 .. n
  BY LogGrows
<1>2. n + 1 \notin StepsIn(log)
  BY <1>1 DEF StepsIn
<1>3. IsFiniteSet(StepsIn(log)) /\ Cardinality(StepsIn(log)) \in Nat
  BY StepsAreFinite
<1>4. CASE e.step
  BY <1>1, <1>2, <1>3, <1>4, FS_AddElement
<1>5. CASE ~e.step
  BY <1>1, <1>3, <1>5
<1> QED BY <1>4, <1>5

\* A document is never the absence of one.
LEMMA ShapesAreDocuments == NoCase \notin Shapes
<1>1. Shapes \subseteq [status : Statuses, updated : Nat, steps : Seq(Turns), tools : Nat,
                        consent : BOOLEAN, closed : BOOLEAN]
  BY DEF Shapes, StepLists
<1> QED BY <1>1, CasesAssumption

\* What a turn makes of the document it reads.
LEMMA UpsertedHolds ==
  ASSUME NEW t \in Turns, NEW asks \in AskTypes, asks.op = "upsert",
         NEW read, NEW log, LogOK(log), NEW told, CaseOK(read, log, told), lately \in Nat,
         \A i \in DOMAIN log : log[i].by # t,
         NEW mine, mine = [at |-> "write", id |-> asks.case, missed |-> {},
                           event |-> read = NoCase \/ read.status # asks.status,
                           step |-> asks.step, next |-> Upserted(t, asks, read)]
  PROVE  HeldOK(t, mine, log, told)
<1>1. /\ asks.status \in Statuses /\ asks.step \in BOOLEAN /\ asks.consent \in BOOLEAN
  BY DEF AskTypes
<1>2. PICK old : old = IF read = NoCase THEN [steps |-> <<>>, tools |-> 0, consent |-> FALSE] ELSE read
  OBVIOUS
<1>3. PICK lost : lost = LostIn(log)
  OBVIOUS
<1>4. /\ old.steps \in StepLists /\ old.tools \in Nat /\ old.consent \in BOOLEAN
      /\ Covers(old.steps, log, lost, {}) /\ FollowsLog(old.steps, log, {})
      /\ \A i \in DOMAIN log : log[i].by \notin lost /\ log[i].consent => old.consent
      /\ lost = {} => old.tools = Cardinality(StepsIn(log))
  <2>1. CASE read = NoCase
    <3>1. log = <<>> /\ old = [steps |-> <<>>, tools |-> 0, consent |-> FALSE]
      BY <1>2, <2>1 DEF CaseOK
    <3>2. <<>> \in StepLists
      BY CasesAssumption DEF StepLists
    <3>3. StepsIn(log) = {} /\ DOMAIN log = {}
      BY <3>1 DEF StepsIn
    <3>4. Covers(<<>>, log, lost, {}) /\ FollowsLog(<<>>, log, {})
      BY <3>3 DEF Covers, FollowsLog
    <3> QED BY <3>1, <3>2, <3>3, <3>4, FS_EmptySet
  <2>2. CASE read # NoCase
    <3>1. View(read, log, lost, {}, 0) /\ old = read
      BY <1>2, <1>3, <2>2 DEF CaseOK
    <3>2. Cardinality(StepsIn(log)) \in Nat
      BY StepsAreFinite DEF LogOK
    <3> QED BY <3>1, <3>2 DEF View, Shapes
  <2> QED BY <2>1, <2>2
<1>5. PICK next : next = Upserted(t, asks, read)
  OBVIOUS
<1>6. PICK w : w = Window(Append(old.steps, t))
  OBVIOUS
<1>7. next = [status |-> asks.status, updated |-> lately + 1,
              steps |-> IF asks.step THEN w ELSE old.steps,
              tools |-> IF asks.step THEN old.tools + 1 ELSE old.tools,
              consent |-> asks.consent \/ old.consent,
              closed |-> asks.status = "closed"]
  BY <1>2, <1>5, <1>6 DEF Upserted
<1>8. PICK own : own = Own(t, asks.step)
  OBVIOUS
<1>9. /\ next.steps \in StepLists
      /\ asks.step => \E n \in DOMAIN next.steps : next.steps[n] = t
      /\ Covers(next.steps, log, lost, own) /\ FollowsLog(next.steps, log, own)
  <2>1. CASE asks.step
    <3>1. next.steps = w /\ own = {t}
      BY <1>7, <1>8, <2>1 DEF Own
    <3> QED BY <1>4, <1>6, <3>1, StepTaken
  <2>2. CASE ~asks.step
    <3>1. next.steps = old.steps /\ own = {}
      BY <1>7, <1>8, <2>2 DEF Own
    <3> QED BY <1>4, <2>2, <3>1
  <2> QED BY <2>1, <2>2
<1>10. next \in Shapes
  <2>1. /\ (asks.consent \/ old.consent) \in BOOLEAN /\ (asks.status = "closed") \in BOOLEAN
    OBVIOUS
  <2>2. lately + 1 \in Nat /\ (IF asks.step THEN old.tools + 1 ELSE old.tools) \in Nat
    BY <1>4
  <2>3. (IF asks.step THEN w ELSE old.steps) \in StepLists
    BY <1>7, <1>9
  <2> QED BY <1>1, <1>7, <2>1, <2>2, <2>3 DEF Shapes
<1>11. View(next, log, lost, own, IF asks.step THEN 1 ELSE 0)
  <2>1. \A i \in DOMAIN log : log[i].by \notin lost /\ log[i].consent => next.consent
    BY <1>4, <1>7
  <2>2. next.closed = (next.status = "closed")
    BY <1>7
  <2>3. lost = {} => next.tools = Cardinality(StepsIn(log)) + (IF asks.step THEN 1 ELSE 0)
    BY <1>4, <1>7
  <2> QED BY <1>9, <1>10, <2>1, <2>2, <2>3 DEF View
<1>12. lost = {} => (read = NoCase \/ read.status # asks.status) \/ told = next.status
  BY <1>3, <1>7 DEF CaseOK
<1>13. mine.missed = {} /\ mine.step = asks.step /\ mine.next = next /\ LostIn(log) \cup mine.missed = lost
  BY <1>3, <1>5
<1> QED BY <1>8, <1>9, <1>11, <1>12, <1>13 DEF HeldOK

\* What a resumption makes of the interrupted case it reads.
LEMMA ResumedHolds ==
  ASSUME NEW t \in Turns, NEW k, NEW read, read # NoCase, read.status = "interrupted",
         NEW log, NEW told, CaseOK(read, log, told), lately \in Nat,
         NEW mine, mine = [at |-> "write", id |-> k, missed |-> {}, event |-> TRUE,
                           step |-> FALSE, next |-> Resumed(read)]
  PROVE  HeldOK(t, mine, log, told)
<1>1. PICK lost, next : lost = LostIn(log) /\ next = Resumed(read)
  OBVIOUS
<1>2. View(read, log, lost, {}, 0)
  BY <1>1 DEF CaseOK
<1>3. read \in Shapes /\ read.closed = FALSE
  BY <1>2 DEF View
<1>4. /\ next \in Shapes /\ next.status = "active" /\ next.steps = read.steps
      /\ next.tools = read.tools /\ next.consent = read.consent /\ next.closed = FALSE
  <2>1. next = [read EXCEPT !.status = "active", !.updated = lately + 1]
    BY <1>1 DEF Resumed
  <2>2. next = [status |-> "active", updated |-> lately + 1, steps |-> read.steps,
                tools |-> read.tools, consent |-> read.consent, closed |-> read.closed]
    BY <1>3, <2>1 DEF Shapes
  <2> QED BY <1>3, <2>2 DEF Shapes, Statuses
<1>5. View(next, log, lost, {}, 0)
  BY <1>2, <1>4 DEF View
<1>6. /\ mine.missed = {} /\ mine.step = FALSE /\ mine.next = next /\ mine.event = TRUE
      /\ LostIn(log) \cup mine.missed = lost /\ Own(t, FALSE) = {}
  BY <1>1 DEF Own
<1> QED BY <1>5, <1>6 DEF HeldOK

\* Another turn commits on the case, and this one has not seen it.
LEMMA OtherCommits ==
  ASSUME NEW t, NEW mine, NEW log, LogOK(log), NEW told, NEW told2, HeldOK(t, mine, log, told),
         NEW e \in Commitments, e.by # t, \A i \in DOMAIN log : log[i].by # e.by,
         NEW held2, held2.missed = mine.missed \cup {e.by}, held2.next = mine.next,
         held2.step = mine.step, held2.event = mine.event
  PROVE  HeldOK(t, held2, Append(log, e), told2)
<1>1. PICK new, lost, more, own :
        /\ new = Append(log, e) /\ lost = LostIn(log) \cup mine.missed
        /\ more = LostIn(new) \cup held2.missed /\ own = Own(t, mine.step)
  OBVIOUS
<1>2. /\ lost \subseteq more /\ e.by \in more
  BY <1>1, LogGrows DEF LogOK
<1>3. PICK n \in Nat : /\ DOMAIN log = 1 .. n /\ DOMAIN new = 1 .. n + 1 /\ new[n + 1] = e
                       /\ \A i \in 1 .. n : new[i] = log[i]
  BY <1>1, LogGrows DEF LogOK
<1>4. View(mine.next, log, lost, own, IF mine.step THEN 1 ELSE 0)
  BY <1>1 DEF HeldOK
<1>5. e.by \notin own
  BY <1>1 DEF Own
<1>6. Covers(mine.next.steps, new, more, own) /\ FollowsLog(mine.next.steps, new, own)
  <2>1. /\ mine.next.steps \in StepLists
        /\ Covers(mine.next.steps, log, lost, own) /\ FollowsLog(mine.next.steps, log, own)
    BY <1>4 DEF View, Shapes
  <2> QED BY <1>1, <1>2, <1>5, <2>1, StepMissed
<1>7. ASSUME NEW i \in DOMAIN new, new[i].by \notin more, new[i].consent PROVE mine.next.consent
  <2>1. i # n + 1
    BY <1>2, <1>3, <1>7
  <2>2. i \in DOMAIN log /\ new[i] = log[i]
    BY <1>3, <2>1
  <2> QED BY <1>2, <1>4, <1>7, <2>2 DEF View
<1>8. View(mine.next, new, more, own, IF mine.step THEN 1 ELSE 0)
  BY <1>2, <1>4, <1>6, <1>7 DEF View
<1> QED BY <1>1, <1>2, <1>8 DEF HeldOK

\* A turn commits the document it holds.
LEMMA OwnCommits ==
  ASSUME NEW t \in Turns, NEW mine, NEW log, LogOK(log), NEW told, HeldOK(t, mine, log, told),
         mine.step \in BOOLEAN, mine.missed \subseteq Turns, \A i \in DOMAIN log : log[i].by # t,
         NEW e, e = [by |-> t, step |-> mine.step, consent |-> mine.next.consent,
                     missed |-> mine.missed],
         NEW told2, told2 = IF mine.event THEN mine.next.status ELSE told
  PROVE  /\ e \in Commitments /\ LogOK(Append(log, e)) /\ CaseOK(mine.next, Append(log, e), told2)
<1>1. PICK new, lost, own, more :
        /\ new = Append(log, e) /\ lost = LostIn(log) \cup mine.missed
        /\ own = Own(t, mine.step) /\ more = IF mine.step THEN 1 ELSE 0
  OBVIOUS
<1>2. View(mine.next, log, lost, own, more)
  BY <1>1 DEF HeldOK
<1>3. mine.next \in Shapes
  BY <1>2 DEF View
<1>4. e \in Commitments
  BY <1>3 DEF Commitments, Shapes
<1>5. PICK n \in Nat : /\ new \in Seq(Commitments)
                       /\ DOMAIN log = 1 .. n /\ DOMAIN new = 1 .. n + 1 /\ new[n + 1] = e
                       /\ \A i \in 1 .. n : new[i] = log[i]
                       /\ LostIn(new) = lost
  BY <1>1, <1>4, LogGrows DEF LogOK
<1>6. \A i \in 1 .. n + 1 : i \in 1 .. n \/ i = n + 1
  BY <1>5
<1>7. LogOK(new)
  <2>1. \A i, j \in 1 .. n + 1 : new[i].by = new[j].by => i = j
    BY <1>5, <1>6 DEF LogOK
  <2> QED BY <1>5, <2>1 DEF LogOK
<1>8. Covers(mine.next.steps, new, lost, {}) /\ FollowsLog(mine.next.steps, new, {})
  <2>1. /\ mine.next.steps \in StepLists
        /\ Covers(mine.next.steps, log, lost, own) /\ FollowsLog(mine.next.steps, log, own)
    BY <1>2 DEF View, Shapes
  <2>2. own = IF e.step THEN {e.by} ELSE {}
    BY <1>1 DEF Own
  <2>3. e.step => \E i \in DOMAIN mine.next.steps : mine.next.steps[i] = e.by
    BY DEF HeldOK
  <2>4. \A i \in DOMAIN log : log[i].by # e.by
    OBVIOUS
  <2> QED BY <1>1, <1>4, <2>1, <2>2, <2>3, <2>4, StepKept
<1>9. \A i \in DOMAIN new : new[i].by \notin lost /\ new[i].consent => mine.next.consent
  BY <1>2, <1>5, <1>6 DEF View
<1>10. lost = {} => mine.next.tools = Cardinality(StepsIn(new)) + 0
  <2>1. Cardinality(StepsIn(new)) = Cardinality(StepsIn(log)) + more
    BY <1>1, <1>4, StepsCount DEF LogOK
  <2>2. Cardinality(StepsIn(log)) \in Nat /\ more \in Nat
    BY <1>1, StepsAreFinite DEF LogOK
  <2> QED BY <1>2, <2>1, <2>2 DEF View
<1>11. View(mine.next, new, lost, {}, 0)
  BY <1>2, <1>8, <1>9, <1>10 DEF View
<1>12. lost = {} => told2 = mine.next.status
  BY <1>1 DEF HeldOK
<1>13. mine.next # NoCase
  BY <1>3, ShapesAreDocuments
<1> QED BY <1>1, <1>4, <1>5, <1>7, <1>11, <1>12, <1>13 DEF CaseOK

\* A turn has its document until it commits it, and one document of a case at a time is
\* on its way to the database.
TurnRecords == [at : {"idle", "write", "commit", "done"}, id : CaseIds \cup {AnyCase},
                missed : SUBSET Turns, event : BOOLEAN, step : BOOLEAN,
                next : Shapes \cup {NoCase}]
Busy(mine) == mine.at \in {"write", "commit"}
AllCasesOK(docs, mine, time, told, log) ==
  /\ docs \in [CaseIds -> Shapes \cup {NoCase}] /\ mine \in [Turns -> TurnRecords] /\ time \in Nat
  /\ told \in [CaseIds -> Statuses \cup {"none"}] /\ log \in [CaseIds -> Seq(Commitments)]
  /\ \A k \in CaseIds : /\ LogOK(log[k]) /\ CaseOK(docs[k], log[k], told[k])
                        /\ \A i \in DOMAIN log[k] : mine[log[k][i].by].at = "done"
  /\ \A t \in Turns : Busy(mine[t]) =>
       mine[t].id \in CaseIds /\ HeldOK(t, mine[t], log[mine[t].id], told[mine[t].id])
  /\ \A t, u \in Turns :
       mine[t].at = "commit" /\ mine[u].at = "commit" /\ mine[t].id = mine[u].id => t = u
CasesInv == AllCasesOK(case, turn, lately, turnTold, commits)

\* A turn that has no document.
LEMMA StandingIs ==
  ASSUME NEW at \in {"idle", "done"}
  PROVE  Standing(at) \in TurnRecords /\ Standing(at).at = at /\ ~Busy(Standing(at))
BY DEF Standing, TurnRecords, Busy

\* A step of one turn that commits nothing.
LEMMA TurnMoves ==
  ASSUME NEW docs, NEW mine, NEW time, NEW told, NEW log, AllCasesOK(docs, mine, time, told, log),
         NEW t \in Turns, mine[t].at # "done", NEW rec \in TurnRecords, NEW later \in Nat,
         Busy(rec) => rec.id \in CaseIds /\ HeldOK(t, rec, log[rec.id], told[rec.id]),
         rec.at = "commit" => \A u \in Turns : u # t /\ mine[u].at = "commit" => mine[u].id # rec.id
  PROVE  AllCasesOK(docs, [mine EXCEPT ![t] = rec], later, told, log)
<1>1. PICK new : new = [mine EXCEPT ![t] = rec]
  OBVIOUS
<1>2. /\ mine \in [Turns -> TurnRecords] /\ new \in [Turns -> TurnRecords] /\ new[t] = rec
      /\ \A u \in Turns : u # t => new[u] = mine[u]
  BY <1>1 DEF AllCasesOK
<1>3. ASSUME NEW k \in CaseIds, NEW i \in DOMAIN log[k] PROVE new[log[k][i].by].at = "done"
  <2>1. log[k][i].by \in Turns /\ mine[log[k][i].by].at = "done"
    <3>1. log[k] \in Seq(Commitments) /\ mine[log[k][i].by].at = "done"
      BY DEF AllCasesOK
    <3>2. log[k][i] \in Commitments
      BY <3>1, ElementOfSeq
    <3> QED BY <3>1, <3>2 DEF Commitments
  <2> QED BY <1>2, <2>1
<1>4. ASSUME NEW u \in Turns, Busy(new[u])
      PROVE  new[u].id \in CaseIds /\ HeldOK(u, new[u], log[new[u].id], told[new[u].id])
  <2>1. CASE u = t
    BY <1>2, <1>4, <2>1
  <2>2. CASE u # t
    BY <1>2, <1>4, <2>2 DEF AllCasesOK
  <2> QED BY <2>1, <2>2
<1>5. ASSUME NEW u \in Turns, NEW v \in Turns,
             new[u].at = "commit", new[v].at = "commit", new[u].id = new[v].id
      PROVE  u = v
  BY <1>2, <1>5 DEF AllCasesOK
<1> QED BY <1>1, <1>2, <1>3, <1>4, <1>5 DEF AllCasesOK

\* No case, no turn.
LEMMA CasesInitially == CasesInit => CasesInv
<1> SUFFICES ASSUME CasesInit PROVE CasesInv
  OBVIOUS
<1>1. /\ case = [k \in CaseIds |-> NoCase] /\ turn = [t \in Turns |-> Standing("idle")]
      /\ lately = 0 /\ turnTold = [k \in CaseIds |-> "none"] /\ commits = [k \in CaseIds |-> <<>>]
  BY DEF CasesInit
<1>2. /\ Standing("idle") \in TurnRecords /\ Standing("idle").at = "idle" /\ ~Busy(Standing("idle"))
  BY StandingIs
<1>3. LogOK(<<>>) /\ \A told : CaseOK(NoCase, <<>>, told)
  BY DEF LogOK, CaseOK
<1>4. commits \in [CaseIds -> Seq(Commitments)]
  BY <1>1
<1>5. \A k \in CaseIds : DOMAIN commits[k] = {}
  BY <1>1
<1>6. \A k \in CaseIds : LogOK(commits[k]) /\ CaseOK(case[k], commits[k], turnTold[k])
  BY <1>1, <1>3
<1>7. \A t \in Turns : ~Busy(turn[t]) /\ turn[t].at # "commit"
  BY <1>1, <1>2
<1> QED BY <1>1, <1>2, <1>4, <1>5, <1>6, <1>7 DEF CasesInv, AllCasesOK

\* A turn, or a resumption, reads a case and makes a document of it.
LEMMA UpsertKeeps ==
  ASSUME CasesInv, NEW t \in Turns, Upsert(t)
  PROVE  CasesInv'
<1>0. AllCasesOK(case, turn, lately, turnTold, commits)
  BY DEF CasesInv
<1>1. PICK asks \in Asks :
        /\ asks.op = "upsert" /\ turn[t].at = "idle"
        /\ Holds(t, asks.case, Upserted(t, asks, case[asks.case]),
                 case[asks.case] = NoCase \/ case[asks.case].status # asks.status, asks.step)
  BY DEF Upsert
<1>2. asks \in AskTypes /\ asks.case \in CaseIds /\ asks.step \in BOOLEAN
  BY <1>1, CasesAssumption DEF AskTypes
<1>3. PICK k, read : k = asks.case /\ read = case[asks.case]
  OBVIOUS
<1>4. PICK rec : rec = [at |-> "write", id |-> k, missed |-> {},
                        event |-> read = NoCase \/ read.status # asks.status,
                        step |-> asks.step, next |-> Upserted(t, asks, read)]
  OBVIOUS
<1>5. /\ turn' = [turn EXCEPT ![t] = rec] /\ lately' = lately + 1
      /\ UNCHANGED <<case, turnTold, commits>>
  BY <1>1, <1>3, <1>4 DEF Holds
<1>6. LogOK(commits[k]) /\ CaseOK(read, commits[k], turnTold[k]) /\ lately \in Nat
  BY <1>0, <1>2, <1>3 DEF AllCasesOK
<1>7. \A i \in DOMAIN commits[k] : commits[k][i].by # t
  BY <1>0, <1>1, <1>2, <1>3 DEF AllCasesOK
<1>8. HeldOK(t, rec, commits[k], turnTold[k])
  BY <1>1, <1>2, <1>3, <1>4, <1>6, <1>7, UpsertedHolds
<1>9. rec \in TurnRecords
  <2>1. Upserted(t, asks, read) \in Shapes
    BY <1>4, <1>8 DEF HeldOK, View
  <2>2. (read = NoCase \/ read.status # asks.status) \in BOOLEAN
    OBVIOUS
  <2> QED BY <1>2, <1>3, <1>4, <2>1, <2>2 DEF TurnRecords
<1>10. AllCasesOK(case, [turn EXCEPT ![t] = rec], lately + 1, turnTold, commits)
  <2>1. lately + 1 \in Nat /\ rec.at # "commit" /\ rec.id = k /\ k \in CaseIds /\ turn[t].at # "done"
    BY <1>1, <1>2, <1>3, <1>4, <1>6
  <2> QED BY <1>0, <1>8, <1>9, <2>1, TurnMoves
<1> QED BY <1>5, <1>10 DEF CasesInv

\* A resumption reads the interrupted case that was updated last, or finds none.
LEMMA ResumeKeeps ==
  ASSUME CasesInv, NEW t \in Turns, Resume(t)
  PROVE  CasesInv'
<1>0. AllCasesOK(case, turn, lately, turnTold, commits) /\ turn[t].at = "idle" /\ lately \in Nat
  BY DEF CasesInv, Resume, AllCasesOK
<1>1. CASE \E k \in CaseIds : Resumable(k) /\ Holds(t, k, Resumed(case[k]), TRUE, FALSE)
  <2>1. PICK k \in CaseIds : Resumable(k) /\ Holds(t, k, Resumed(case[k]), TRUE, FALSE)
    BY <1>1
  <2>2. PICK read : read = case[k] /\ read # NoCase /\ read.status = "interrupted"
    BY <2>1 DEF Resumable, Interrupted
  <2>3. PICK rec : rec = [at |-> "write", id |-> k, missed |-> {}, event |-> TRUE,
                          step |-> FALSE, next |-> Resumed(read)]
    OBVIOUS
  <2>4. /\ turn' = [turn EXCEPT ![t] = rec] /\ lately' = lately + 1
        /\ UNCHANGED <<case, turnTold, commits>>
    BY <2>1, <2>2, <2>3 DEF Holds
  <2>5. CaseOK(read, commits[k], turnTold[k])
    BY <1>0, <2>2 DEF AllCasesOK
  <2>6. HeldOK(t, rec, commits[k], turnTold[k])
    BY <1>0, <2>2, <2>3, <2>5, ResumedHolds
  <2>7. rec \in TurnRecords
    <3>1. Resumed(read) \in Shapes
      BY <2>3, <2>6 DEF HeldOK, View
    <3> QED BY <2>3, <3>1 DEF TurnRecords
  <2>8. AllCasesOK(case, [turn EXCEPT ![t] = rec], lately + 1, turnTold, commits)
    <3>1. lately + 1 \in Nat /\ rec.at # "commit" /\ rec.id = k /\ turn[t].at # "done"
      BY <1>0, <2>3
    <3> QED BY <1>0, <2>6, <2>7, <3>1, TurnMoves
  <2> QED BY <2>4, <2>8 DEF CasesInv
<1>2. CASE /\ turn' = Done(t) /\ lately' = lately + 1 /\ UNCHANGED <<case, turnTold, commits>>
  <2>1. AllCasesOK(case, [turn EXCEPT ![t] = Standing("done")], lately + 1, turnTold, commits)
    BY <1>0, StandingIs, TurnMoves
  <2> QED BY <1>2, <2>1 DEF Done, CasesInv
<1> QED BY <1>1, <1>2 DEF Resume

\* A turn that writes its document, unless another one has written, holds it still.
LEMMA WriteKeeps ==
  ASSUME CasesInv, NEW t \in Turns, Write(t)
  PROVE  CasesInv'
<1>0. /\ AllCasesOK(case, turn, lately, turnTold, commits) /\ turn[t].at = "write" /\ lately \in Nat
      /\ turn[t] \in TurnRecords
  BY DEF CasesInv, Write, AllCasesOK
<1>1. UNCHANGED <<case, lately, turnTold, commits>>
  BY DEF Write
<1>2. CASE \E u \in Turns : turn[u].at = "commit" /\ turn[u].id = turn[t].id
  <2>1. AllCasesOK(case, [turn EXCEPT ![t] = Standing("done")], lately, turnTold, commits)
    BY <1>0, StandingIs, TurnMoves
  <2> QED BY <1>1, <1>2, <2>1 DEF Write, Done, CasesInv
<1>3. CASE ~\E u \in Turns : turn[u].at = "commit" /\ turn[u].id = turn[t].id
  <2>1. PICK rec : rec = [turn[t] EXCEPT !.at = "commit"]
    OBVIOUS
  <2>2. /\ rec \in TurnRecords /\ rec.at = "commit" /\ rec.id = turn[t].id
        /\ rec.missed = turn[t].missed /\ rec.next = turn[t].next /\ rec.step = turn[t].step
        /\ rec.event = turn[t].event
    BY <1>0, <2>1 DEF TurnRecords
  <2>3. /\ turn[t].id \in CaseIds
        /\ HeldOK(t, turn[t], commits[turn[t].id], turnTold[turn[t].id])
    BY <1>0 DEF AllCasesOK, Busy
  <2>4. HeldOK(t, rec, commits[rec.id], turnTold[rec.id])
    BY <2>2, <2>3 DEF HeldOK
  <2>5. AllCasesOK(case, [turn EXCEPT ![t] = rec], lately, turnTold, commits)
    BY <1>0, <1>3, <2>2, <2>3, <2>4, TurnMoves
  <2>6. turn' = [turn EXCEPT ![t] = rec]
    <3>1. turn' = [turn EXCEPT ![t].at = "commit"]
      BY <1>3 DEF Write
    <3>2. turn \in [Turns -> TurnRecords]
      BY <1>0 DEF AllCasesOK
    <3> QED BY <2>1, <3>1, <3>2
  <2> QED BY <1>1, <2>5, <2>6 DEF CasesInv
<1> QED BY <1>2, <1>3

\* A transaction that is undone leaves nothing.
LEMMA AbortKeeps ==
  ASSUME CasesInv, NEW t \in Turns, Abort(t)
  PROVE  CasesInv'
<1>1. AllCasesOK(case, turn, lately, turnTold, commits) /\ turn[t].at = "commit" /\ lately \in Nat
  BY DEF CasesInv, Abort, AllCasesOK
<1>2. AllCasesOK(case, [turn EXCEPT ![t] = Standing("done")], lately, turnTold, commits)
  BY <1>1, StandingIs, TurnMoves
<1> QED BY <1>2 DEF Abort, Done, CasesInv

\* A turn that commits is told of the case's log, and the others have missed it.
LEMMA CommitKeeps ==
  ASSUME CasesInv, NEW t \in Turns, Commit(t)
  PROVE  CasesInv'
<1>0. /\ AllCasesOK(case, turn, lately, turnTold, commits)
      /\ case \in [CaseIds -> Shapes \cup {NoCase}] /\ turn \in [Turns -> TurnRecords]
      /\ turnTold \in [CaseIds -> Statuses \cup {"none"}]
      /\ commits \in [CaseIds -> Seq(Commitments)] /\ turn[t].at = "commit"
  BY DEF CasesInv, Commit, AllCasesOK
<1>1. PICK mine, k : mine = turn[t] /\ k = turn[t].id
  OBVIOUS
<1>2. /\ k \in CaseIds /\ HeldOK(t, mine, commits[k], turnTold[k]) /\ mine \in TurnRecords
      /\ LogOK(commits[k]) /\ \A i \in DOMAIN commits[k] : commits[k][i].by # t
  BY <1>0, <1>1 DEF AllCasesOK, Busy
<1>3. PICK e : e = [by |-> t, step |-> mine.step, consent |-> mine.next.consent, missed |-> mine.missed]
  OBVIOUS
<1>4. PICK docs, told, log, moved :
        /\ docs = [case EXCEPT ![k] = mine.next]
        /\ told = IF mine.event THEN [turnTold EXCEPT ![k] = mine.next.status] ELSE turnTold
        /\ log = [commits EXCEPT ![k] = Append(commits[k], e)]
        /\ moved = [u \in Turns |->
             IF u = t THEN Standing("done")
             ELSE IF turn[u].at = "write" /\ turn[u].id = k
                  THEN [turn[u] EXCEPT !.missed = @ \cup {t}] ELSE turn[u]]
  OBVIOUS
<1>5. /\ case' = docs /\ turnTold' = told /\ commits' = log /\ turn' = moved /\ lately' = lately
  BY <1>0, <1>1, <1>3, <1>4 DEF Commit
<1>6. told[k] = (IF mine.event THEN mine.next.status ELSE turnTold[k])
  BY <1>0, <1>2, <1>4
<1>7. /\ e \in Commitments /\ LogOK(Append(commits[k], e))
      /\ CaseOK(mine.next, Append(commits[k], e), told[k])
  <2>1. mine.step \in BOOLEAN /\ mine.missed \subseteq Turns
    BY <1>2 DEF TurnRecords
  <2> QED BY <1>2, <1>3, <1>6, <2>1, OwnCommits
<1>8. /\ docs[k] = mine.next /\ log[k] = Append(commits[k], e)
      /\ \A j \in CaseIds : j # k => docs[j] = case[j] /\ log[j] = commits[j] /\ told[j] = turnTold[j]
  BY <1>0, <1>2, <1>4
<1>9. mine.next \in Shapes /\ mine.next.status \in Statuses
  BY <1>2 DEF HeldOK, View, Shapes
<1>10. /\ docs \in [CaseIds -> Shapes \cup {NoCase}] /\ told \in [CaseIds -> Statuses \cup {"none"}]
       /\ log \in [CaseIds -> Seq(Commitments)] /\ lately \in Nat
  <2>1. Append(commits[k], e) \in Seq(Commitments)
    BY <1>7 DEF LogOK
  <2>2. lately \in Nat
    BY <1>0 DEF AllCasesOK
  <2> QED BY <1>0, <1>2, <1>4, <1>9, <2>1, <2>2
<1>11. ASSUME NEW u \in Turns
       PROVE  /\ moved[u] \in TurnRecords
              /\ u = t => moved[u].at = "done"
              /\ u # t => moved[u].at = turn[u].at /\ moved[u].id = turn[u].id
              /\ u # t /\ ~(turn[u].at = "write" /\ turn[u].id = k) => moved[u] = turn[u]
              /\ u # t /\ turn[u].at = "write" /\ turn[u].id = k =>
                   /\ moved[u].missed = turn[u].missed \cup {t} /\ moved[u].next = turn[u].next
                   /\ moved[u].step = turn[u].step /\ moved[u].event = turn[u].event
  <2>1. CASE u = t
    BY <1>4, <2>1, StandingIs
  <2>2. CASE u # t /\ turn[u].at = "write" /\ turn[u].id = k
    <3>1. moved[u] = [turn[u] EXCEPT !.missed = turn[u].missed \cup {t}] /\ turn[u] \in TurnRecords
      BY <1>0, <1>4, <2>2
    <3> QED BY <2>2, <3>1 DEF TurnRecords
  <2>3. CASE u # t /\ ~(turn[u].at = "write" /\ turn[u].id = k)
    BY <1>0, <1>4, <2>3
  <2> QED BY <2>1, <2>2, <2>3
<1>12. moved \in [Turns -> TurnRecords]
  <2>1. moved = [u \in Turns |-> moved[u]]
    BY <1>4
  <2> QED BY <1>11, <2>1
<1>13. ASSUME NEW j \in CaseIds
       PROVE  /\ LogOK(log[j]) /\ CaseOK(docs[j], log[j], told[j])
              /\ \A i \in DOMAIN log[j] : moved[log[j][i].by].at = "done"
  <2>1. /\ LogOK(commits[j]) /\ CaseOK(case[j], commits[j], turnTold[j])
        /\ \A i \in DOMAIN commits[j] : /\ commits[j][i].by \in Turns
                                        /\ turn[commits[j][i].by].at = "done"
    <3>1. /\ LogOK(commits[j]) /\ CaseOK(case[j], commits[j], turnTold[j])
          /\ \A i \in DOMAIN commits[j] : turn[commits[j][i].by].at = "done"
      BY <1>0 DEF AllCasesOK
    <3>2. \A i \in DOMAIN commits[j] : commits[j][i] \in Commitments
      BY <3>1, ElementOfSeq DEF LogOK
    <3> QED BY <3>1, <3>2 DEF Commitments
  <2>2. \A i \in DOMAIN commits[j] : moved[commits[j][i].by].at = "done"
    BY <1>11, <2>1
  <2>3. CASE j # k
    BY <1>8, <2>1, <2>2, <2>3
  <2>4. CASE j = k
    <3>1. PICK n \in Nat : /\ DOMAIN commits[k] = 1 .. n /\ DOMAIN log[k] = 1 .. n + 1
                           /\ log[k][n + 1] = e /\ \A i \in 1 .. n : log[k][i] = commits[k][i]
      <4>1. PICK old : old = commits[k] /\ old \in Seq(Commitments)
        BY <1>2 DEF LogOK
      <4>2. PICK n : n = Len(old)
        OBVIOUS
      <4>3. /\ n \in Nat /\ DOMAIN old = 1 .. n /\ DOMAIN Append(old, e) = 1 .. n + 1
            /\ Append(old, e)[n + 1] = e /\ \A i \in 1 .. n : Append(old, e)[i] = old[i]
        BY <1>7, <4>1, <4>2, LogGrows
      <4> QED BY <1>8, <4>1, <4>3
    <3>2. ASSUME NEW i \in 1 .. n + 1 PROVE moved[log[k][i].by].at = "done"
      <4>1. CASE i = n + 1
        BY <1>3, <1>11, <3>1, <4>1
      <4>2. CASE i \in 1 .. n
        BY <2>2, <2>4, <3>1, <4>2
      <4> QED BY <3>1, <4>1, <4>2
    <3> QED BY <1>7, <1>8, <2>4, <3>1, <3>2
  <2> QED BY <2>3, <2>4
<1>14. ASSUME NEW u \in Turns, Busy(moved[u])
       PROVE  /\ moved[u].id \in CaseIds
              /\ HeldOK(u, moved[u], log[moved[u].id], told[moved[u].id])
  <2>1. u # t /\ Busy(turn[u]) /\ moved[u].id = turn[u].id
    BY <1>11, <1>14 DEF Busy
  <2>2. turn[u].id \in CaseIds /\ HeldOK(u, turn[u], commits[turn[u].id], turnTold[turn[u].id])
    BY <1>0, <2>1 DEF AllCasesOK
  <2>3. CASE turn[u].id # k
    BY <1>8, <1>11, <2>1, <2>2, <2>3
  <2>4. CASE turn[u].id = k
    <3>1. turn[u].at = "write"
      BY <1>0, <1>1, <2>1, <2>4 DEF AllCasesOK, Busy
    <3>2. /\ moved[u].missed = turn[u].missed \cup {e.by} /\ moved[u].next = turn[u].next
          /\ moved[u].step = turn[u].step /\ moved[u].event = turn[u].event
      BY <1>3, <1>11, <2>1, <2>4, <3>1
    <3>3. e.by # u /\ \A i \in DOMAIN commits[k] : commits[k][i].by # e.by
      BY <1>2, <1>3, <2>1
    <3>4. HeldOK(u, moved[u], Append(commits[k], e), told[k])
      BY <1>2, <1>7, <2>2, <2>4, <3>2, <3>3, OtherCommits
    <3> QED BY <1>8, <2>1, <2>2, <2>4, <3>4
  <2> QED BY <2>3, <2>4
<1>15. ASSUME NEW u \in Turns, NEW v \in Turns,
              moved[u].at = "commit", moved[v].at = "commit", moved[u].id = moved[v].id
       PROVE  u = v
  BY <1>0, <1>11, <1>15 DEF AllCasesOK
<1>16. AllCasesOK(docs, moved, lately, told, log)
  BY <1>10, <1>12, <1>13, <1>14, <1>15 DEF AllCasesOK
<1> QED BY <1>5, <1>16 DEF CasesInv

\* cases.py:3-9, for any turns and cases, and any bound on the steps: what the turns of a
\* case did is in its document, but for what a turn wrote over unread.
THEOREM TurnsAlwaysAddUp == CasesSpec => []TurnsAddUp
<1>1. CasesInv /\ [CasesNext]_cases => CasesInv'
  <2> SUFFICES ASSUME CasesInv, [CasesNext]_cases PROVE CasesInv'
    OBVIOUS
  <2>1. CASE UNCHANGED cases
    BY <2>1 DEF cases, CasesInv
  <2> QED BY <2>1, UpsertKeeps, ResumeKeeps, WriteKeeps, AbortKeeps, CommitKeeps DEF CasesNext
<1>2. CasesInv => TurnsAddUp
  <2> SUFFICES ASSUME CasesInv, NEW k \in CaseIds, case[k] # NoCase
               PROVE  LET doc == case[k] IN
                      /\ \A i \in Steps(k) : Kept(k, i) =>
                           \/ Contains(doc.steps, commits[k][i].by)
                           \/ /\ Len(doc.steps) = MaxSteps
                              /\ \A n \in DOMAIN doc.steps :
                                   \E j \in Steps(k) : j > i /\ commits[k][j].by = doc.steps[n]
                      /\ \A i \in DOMAIN commits[k] : Kept(k, i) /\ commits[k][i].consent => doc.consent
                      /\ doc.closed = (doc.status = "closed")
                      /\ Lost(k) = {} => doc.tools = Cardinality(Steps(k)) /\ turnTold[k] = doc.status
    BY DEF TurnsAddUp
  <2>1. PICK doc, log, lost : doc = case[k] /\ log = commits[k] /\ lost = Lost(k)
    OBVIOUS
  <2>2. /\ lost = LostIn(log) /\ Steps(k) = StepsIn(log) /\ \A i : Kept(k, i) <=> log[i].by \notin lost
    BY <2>1 DEF Lost, LostIn, Steps, StepsIn, Kept
  <2>3. log \in Seq(Commitments) /\ CaseOK(doc, log, turnTold[k])
    BY <2>1 DEF CasesInv, AllCasesOK
  <2>4. View(doc, log, lost, {}, 0) /\ (lost = {} => turnTold[k] = doc.status)
    BY <2>1, <2>2, <2>3 DEF CaseOK
  <2>5. DOMAIN doc.steps = 1 .. Len(doc.steps)
    BY <2>4 DEF View, Shapes, StepLists
  <2>6. ASSUME NEW i \in StepsIn(log), log[i].by \notin lost
        PROVE  \/ Contains(doc.steps, log[i].by)
               \/ /\ Len(doc.steps) = MaxSteps
                  /\ \A n \in DOMAIN doc.steps : \E j \in StepsIn(log) : j > i /\ log[j].by = doc.steps[n]
    BY <2>4, <2>5, <2>6 DEF View, Covers, Contains
  <2>7. lost = {} => doc.tools = Cardinality(StepsIn(log))
    BY <2>3, <2>4, StepsAreFinite DEF View
  <2>8. /\ \A i \in DOMAIN log : log[i].by \notin lost /\ log[i].consent => doc.consent
        /\ doc.closed = (doc.status = "closed")
    BY <2>4 DEF View
  <2> QED BY <2>1, <2>2, <2>4, <2>6, <2>7, <2>8
<1> QED BY <1>1, <1>2, CasesInitially, PTL DEF CasesSpec

-----------------------------------------------------------------------------
(* Starting the services                                                   *)
(* That a service serves says only that its settings were accepted once, and*)
(* that it answered ready that nothing has changed since.  The invariant     *)
(* says what follows from either for as long as it lasts.                   *)

\* Settings that were accepted, and what was built from them.
Accepted(service) == (IF service = "tools" THEN LoadTools(tools) ELSE LoadApi(api)) = {}
StartedWell ==
  /\ stage["tools"] \in {"serving", "crashed"} => Accepted("tools")
  /\ stage["api"] \in {"serving", "crashed"} => Accepted("api")
  /\ stage["tools"] = "crashed" => ~ToolsBuilt(tools)
  /\ stage["api"] = "crashed" => ~ApiBuilt(api) \/ api.store = "mongodb"

\* What a promised write rests on.
PromisesKept ==
  /\ promised /\ tools.idempotency_store = "redis" => "tools" \in held
  /\ promised /\ api.store = "mongodb" => "api" \in held
  /\ strangers => api.service_auth = "unchecked"

\* What a readiness answer still says.
AnswersStand ==
  /\ ready["tools"] = "healthy" => \A p \in Probes : Reachable(p)
  /\ ready["tools"] = "degraded" => \A p \in Probes \ {"identity_provider"} : Reachable(p)
  /\ ready["api"] = "healthy" => StoreStarts

DeploymentInv == DeploymentTypeOK /\ StartedWell /\ PromisesKept /\ AnswersStand

\* Accepted for production: every choice a memory would replace is refused.
LEMMA NoStageFails ==
  ASSUME NEW a, NEW b, NEW c, NEW d, NEW e, FirstProblems(<<a, b, c, d, e>>) = {}
  PROVE  a = {} /\ b = {} /\ c = {} /\ d = {} /\ e = {}
<1> DEFINE stages == <<a, b, c, d, e>>
           finding == {i \in 1 .. 5 : stages[i] # {}}
<1>1. DOMAIN stages = 1 .. 5
  OBVIOUS
<1>2. finding = {}
  <2> SUFFICES ASSUME finding # {} PROVE FALSE
    OBVIOUS
  <2>1. \E i \in finding : \A j \in finding : i <= j
    <3>1. \A i \in finding : i \in {1, 2, 3, 4, 5}
      OBVIOUS
    <3> HIDE DEF finding
    <3>2. CASE 1 \in finding
      BY <3>1, <3>2
    <3>3. CASE 1 \notin finding /\ 2 \in finding
      BY <3>1, <3>3
    <3>4. CASE 1 \notin finding /\ 2 \notin finding /\ 3 \in finding
      BY <3>1, <3>4
    <3>5. CASE 1 \notin finding /\ 2 \notin finding /\ 3 \notin finding /\ 4 \in finding
      BY <3>1, <3>5
    <3>6. CASE 1 \notin finding /\ 2 \notin finding /\ 3 \notin finding /\ 4 \notin finding
      BY <3>1, <3>6
    <3> QED BY <3>2, <3>3, <3>4, <3>5, <3>6
  <2>2. PICK first : first = CHOOSE i \in finding : \A j \in finding : i <= j
    OBVIOUS
  <2>3. first \in finding
    BY <2>1, <2>2
  <2>4. FirstProblems(stages) = stages[first]
    BY <1>1, <2>2 DEF FirstProblems
  <2> QED BY <2>3, <2>4
<1>3. /\ stages[1] = a /\ stages[2] = b /\ stages[3] = c /\ stages[4] = d /\ stages[5] = e
      /\ {1, 2, 3, 4, 5} \subseteq 1 .. 5
  OBVIOUS
<1>4. \A i \in {1, 2, 3, 4, 5} : stages[i] = {}
  BY <1>2, <1>3
<1> QED BY <1>3, <1>4

\* No problem in three stages: each stage has none.
LEMMA NeitherOfThreeFails ==
  ASSUME NEW a, NEW b, NEW c, FirstProblems(<<a, b, c>>) = {}
  PROVE  a = {} /\ b = {} /\ c = {}
<1> DEFINE stages == <<a, b, c>>
           finding == {i \in 1 .. 3 : stages[i] # {}}
<1>1. DOMAIN stages = 1 .. 3
  OBVIOUS
<1>2. finding = {}
  <2> SUFFICES ASSUME finding # {} PROVE FALSE
    OBVIOUS
  <2>1. \E i \in finding : \A j \in finding : i <= j
    <3>1. \A i \in finding : i \in {1, 2, 3}
      OBVIOUS
    <3> HIDE DEF finding
    <3>2. CASE 1 \in finding
      BY <3>1, <3>2
    <3>3. CASE 1 \notin finding /\ 2 \in finding
      BY <3>1, <3>3
    <3>4. CASE 1 \notin finding /\ 2 \notin finding
      BY <3>1, <3>4
    <3> QED BY <3>2, <3>3, <3>4
  <2>2. PICK first : first = CHOOSE i \in finding : \A j \in finding : i <= j
    OBVIOUS
  <2>3. first \in finding
    BY <2>1, <2>2
  <2>4. FirstProblems(stages) = stages[first]
    BY <1>1, <2>2 DEF FirstProblems
  <2> QED BY <2>3, <2>4
<1>3. stages[1] = a /\ stages[2] = b /\ stages[3] = c /\ {1, 2, 3} \subseteq 1 .. 3
  OBVIOUS
<1>4. \A i \in {1, 2, 3} : stages[i] = {}
  BY <1>2, <1>3
<1> QED BY <1>3, <1>4

\* What load() and assert_safe() accept for production keeps its state in a store of its own.
LEMMA ProductionIsDurable ==
  /\ Accepted("tools") /\ tools.env = "production" => tools.idempotency_store = "redis"
  /\ Accepted("api") /\ api.env = "production" =>
       api.store = "mongodb" /\ api.service_auth # "unchecked"
<1>1. ASSUME Accepted("tools"), tools.env = "production" PROVE tools.idempotency_store = "redis"
  <2>1. When(tools.env = "production", ToolsUnsafe(tools)) = {}
    BY <1>1, NoStageFails DEF Accepted, LoadTools
  <2> QED BY <1>1, <2>1 DEF When, ToolsUnsafe
<1>2. ASSUME Accepted("api"), api.env = "production"
      PROVE  api.store = "mongodb" /\ api.service_auth # "unchecked"
  <2>1. When(api.env = "production", ApiUnsafe(api)) = {}
    BY <1>2, NeitherOfThreeFails DEF Accepted, LoadApi
  <2> QED BY <1>2, <2>1 DEF When, ApiUnsafe
<1> QED BY <1>1, <1>2

\* Nothing serves, nothing was asked, nothing was promised.
LEMMA DeploymentInitially == DeploymentInit => DeploymentInv
<1> SUFFICES ASSUME DeploymentInit PROVE DeploymentInv
  OBVIOUS
<1>1. settings["tools"] \in ToolsSettings /\ settings["api"] \in ApiSettings
  BY DEF DeploymentInit
<1>2. /\ stage = [s \in Services |-> "stopped"] /\ ready = [s \in Services |-> "none"]
      /\ up = Dependencies /\ cached = {} /\ held = {} /\ served = "none"
      /\ promised = FALSE /\ strangers = FALSE
  BY DEF DeploymentInit, NotAsked
<1>3. DeploymentTypeOK
  <2>1. {promised, strangers} \subseteq BOOLEAN
    BY <1>2
  <2> QED BY <1>1, <1>2, <2>1 DEF DeploymentTypeOK
<1>4. StartedWell /\ AnswersStand
  BY <1>2 DEF StartedWell, AnswersStand, Services
<1>5. PromisesKept
  BY <1>2 DEF PromisesKept
<1> QED BY <1>3, <1>4, <1>5 DEF DeploymentInv

\* The settings stay, and what they say with them.
LEMMA SettingsStay ==
  ASSUME settings' = settings
  PROVE  /\ tools' = tools /\ api' = api /\ Probes' = Probes
         /\ \A s : Accepted(s)' = Accepted(s)
BY DEF tools, api, Probes, Accepted, LoadTools, LoadApi, FirstProblems, ToolsMissing, ToolsUnsafe,
       ApiMissing, ApiUnsafe, When

\* A change around the services: their readiness answers are forgotten.
LEMMA StartKeeps ==
  ASSUME DeploymentInv, NEW s \in Services, Start(s)
  PROVE  DeploymentInv'
<1>1. /\ UNCHANGED <<settings, up, cached, served, promised, held, strangers>>
      /\ stage' = [stage EXCEPT ![s] = AfterStart(s)] /\ ready' = NotAsked
  BY DEF Start, Noticed
<1>2. AfterStart(s) \in {"refused", "crashed", "serving"}
  BY DEF AfterStart
<1>3. DeploymentTypeOK'
  BY <1>1, <1>2, SettingsStay DEF DeploymentInv, DeploymentTypeOK, NotAsked
<1>4. PromisesKept' /\ AnswersStand'
  BY <1>1, SettingsStay DEF DeploymentInv, PromisesKept, AnswersStand, NotAsked, Services
<1>5. /\ AfterStart(s) \in {"serving", "crashed"} => Accepted(s)
      /\ AfterStart("tools") = "crashed" => ~ToolsBuilt(tools)
      /\ AfterStart("api") = "crashed" => ~ApiBuilt(api) \/ api.store = "mongodb"
  BY DEF AfterStart, Accepted, StoreStarts
<1>6. StartedWell'
  <2>1. stage \in [Services -> {"stopped", "refused", "crashed", "serving"}] /\ StartedWell
    BY DEF DeploymentInv, DeploymentTypeOK
  <2>2. ToolsBuilt(tools)' = ToolsBuilt(tools) /\ ApiBuilt(api)' = ApiBuilt(api)
    BY <1>1, SettingsStay DEF ToolsBuilt, ApiBuilt
  <2>3. CASE s = "tools"
    BY <1>1, <1>5, <2>1, <2>2, <2>3, SettingsStay DEF StartedWell, Services
  <2>4. CASE s = "api"
    BY <1>1, <1>5, <2>1, <2>2, <2>4, SettingsStay DEF StartedWell, Services
  <2> QED BY <2>3, <2>4 DEF Services
<1> QED BY <1>3, <1>4, <1>6 DEF DeploymentInv

\* A process stops: what only its memory held is gone, and a store of its own is not memory.
LEMMA StopKeeps ==
  ASSUME DeploymentInv, NEW s \in Services, Stop(s)
  PROVE  DeploymentInv'
<1>1. /\ UNCHANGED <<settings, up, served, promised, strangers>>
      /\ stage' = [stage EXCEPT ![s] = "stopped"] /\ ready' = NotAsked
      /\ cached' \subseteq cached /\ held' \subseteq held
      /\ held' = IF Durable(s) THEN held ELSE held \ {s}
  BY DEF Stop
<1>2. DeploymentTypeOK'
  BY <1>1, SettingsStay DEF DeploymentInv, DeploymentTypeOK, NotAsked
<1>3. AnswersStand'
  BY <1>1 DEF AnswersStand, NotAsked, Services
<1>4. PromisesKept'
  BY <1>1, SettingsStay DEF DeploymentInv, PromisesKept, Durable, Services
<1>5. StartedWell'
  <2>1. stage \in [Services -> {"stopped", "refused", "crashed", "serving"}] /\ StartedWell
    BY DEF DeploymentInv, DeploymentTypeOK
  <2>2. ToolsBuilt(tools)' = ToolsBuilt(tools) /\ ApiBuilt(api)' = ApiBuilt(api)
    BY <1>1, SettingsStay DEF ToolsBuilt, ApiBuilt
  <2> QED BY <1>1, <2>1, <2>2, SettingsStay DEF StartedWell, Services
<1> QED BY <1>2, <1>3, <1>4, <1>5 DEF DeploymentInv

\* Every other step leaves the services where they are.
LEMMA OthersStay ==
  ASSUME StartedWell, UNCHANGED <<settings, stage>>
  PROVE  StartedWell'
<1>1. ToolsBuilt(tools)' = ToolsBuilt(tools) /\ ApiBuilt(api)' = ApiBuilt(api)
  BY SettingsStay DEF ToolsBuilt, ApiBuilt
<1> QED BY <1>1, SettingsStay DEF StartedWell

\* A dependency goes away or comes back.
LEMMA AroundKeeps ==
  ASSUME DeploymentInv, NEW d \in Dependencies, GoesDown(d) \/ ComesBack(d)
  PROVE  DeploymentInv'
<1>1. /\ UNCHANGED <<settings, stage, cached, served, promised, held, strangers>>
      /\ ready' = NotAsked /\ up' \subseteq up \cup {d}
  BY DEF GoesDown, ComesBack, Noticed
<1>2. DeploymentTypeOK'
  BY <1>1, SettingsStay DEF DeploymentInv, DeploymentTypeOK, NotAsked
<1>3. PromisesKept' /\ AnswersStand'
  BY <1>1, SettingsStay DEF DeploymentInv, PromisesKept, AnswersStand, NotAsked, Services
<1> QED BY <1>1, <1>2, <1>3, OthersStay DEF DeploymentInv

\* Readiness depends on what a change would make it forget.
LEMMA StillReachable ==
  ASSUME UNCHANGED <<settings, stage, up>>
  PROVE  /\ \A p : Reachable(p)' = Reachable(p)
         /\ StoreStarts' = StoreStarts
BY SettingsStay DEF Reachable, StoreStarts

\* A probe that failed is one that fails now, if the answer counts.
LEMMA ReportIs ==
  ASSUME NEW down, down \subseteq Probes,
         down = {p \in Probes : ~Reachable(p)}
  PROVE  /\ ReportOf(down) \in {"healthy", "degraded", "unhealthy"}
         /\ ReportOf(down) = "healthy" => \A p \in Probes : Reachable(p)
         /\ ReportOf(down) = "degraded" => \A p \in Probes \ {"identity_provider"} : Reachable(p)
BY DEF ReportOf

\* A readiness probe is asked, one of its checks ends, or it is answered.
LEMMA AskedKeeps ==
  ASSUME DeploymentInv,
         AskTools \/ (\E p \in probing.waiting : ProbeEnds(p)) \/ AnswerReady \/ AskApi
  PROVE  DeploymentInv'
<1>1. UNCHANGED <<settings, stage, up, cached, served, promised, held, strangers>>
  BY DEF AskTools, ProbeEnds, AnswerReady, AskApi
<1>2. ready \in [Services -> {"none", "healthy", "degraded", "unhealthy"}] /\ AnswersStand
  BY DEF DeploymentInv, DeploymentTypeOK
<1>3. /\ \A p : Reachable(p)' = Reachable(p)
      /\ StoreStarts' = StoreStarts /\ Probes' = Probes
  BY <1>1, StillReachable, SettingsStay
<1>4. /\ ready' \in [Services -> {"none", "healthy", "degraded", "unhealthy"}]
      /\ AnswersStand'
  <2>1. CASE ready' = ready
    BY <1>2, <1>3, <2>1 DEF AnswersStand
  <2>2. CASE AnswerReady
    <3>1. PICK answer : /\ answer = IF probing.failed = {p \in Probes : ~Reachable(p)}
                                    THEN ReportOf(probing.failed) ELSE "none"
                        /\ ready' = [ready EXCEPT !["tools"] = answer]
      BY <2>2 DEF AnswerReady
    <3>2. /\ answer \in {"none", "healthy", "degraded", "unhealthy"}
          /\ answer = "healthy" => \A p \in Probes : Reachable(p)
          /\ answer = "degraded" => \A p \in Probes \ {"identity_provider"} : Reachable(p)
      BY <3>1, ReportIs
    <3> QED BY <1>2, <1>3, <3>1, <3>2 DEF AnswersStand, Services
  <2>3. CASE AskApi
    BY <1>2, <1>3, <2>3 DEF AskApi, AnswersStand, Services
  <2> QED BY <2>1, <2>2, <2>3 DEF AskTools, ProbeEnds
<1>5. DeploymentTypeOK'
  BY <1>1, <1>4, SettingsStay DEF DeploymentInv, DeploymentTypeOK
<1>6. PromisesKept'
  BY <1>1, SettingsStay DEF DeploymentInv, PromisesKept
<1> QED BY <1>1, <1>4, <1>5, <1>6, OthersStay DEF DeploymentInv

\* A call is served and its key is kept; or a call with no token comes past the tools server.
LEMMA CallKeeps ==
  ASSUME DeploymentInv, ToolCall \/ DirectCall
  PROVE  DeploymentInv'
<1>1. UNCHANGED <<settings, stage, up, ready>>
  BY DEF ToolCall, DirectCall
<1>2. AnswersStand'
  BY <1>1, StillReachable, SettingsStay DEF DeploymentInv, AnswersStand
<1>3. DeploymentTypeOK'
  <2>1. CASE ToolCall
    BY <2>1, SettingsStay DEF ToolCall, DeploymentInv, DeploymentTypeOK, Services
  <2>2. CASE DirectCall
    BY <2>2, SettingsStay DEF DirectCall, DeploymentInv, DeploymentTypeOK
  <2> QED BY <2>1, <2>2
<1>4. PromisesKept'
  <2>1. CASE ToolCall
    BY <2>1, SettingsStay DEF ToolCall, DeploymentInv, PromisesKept, Services
  <2>2. CASE DirectCall
    BY <2>2, SettingsStay DEF DirectCall, DeploymentInv, PromisesKept
  <2> QED BY <2>1, <2>2
<1> QED BY <1>1, <1>2, <1>3, <1>4, OthersStay DEF DeploymentInv

\* Every step of the deployment.
LEMMA DeploymentStep == DeploymentInv /\ [DeploymentNext]_deployment => DeploymentInv'
<1> SUFFICES ASSUME DeploymentInv, [DeploymentNext]_deployment PROVE DeploymentInv'
  OBVIOUS
<1>1. CASE UNCHANGED deployment
  <2>1. UNCHANGED <<settings, stage, up, cached, ready, served, promised, held, strangers>>
    BY <1>1 DEF deployment
  <2>2. AnswersStand'
    BY <2>1, StillReachable, SettingsStay DEF DeploymentInv, AnswersStand
  <2>3. DeploymentTypeOK' /\ PromisesKept'
    BY <2>1, SettingsStay DEF DeploymentInv, DeploymentTypeOK, PromisesKept
  <2> QED BY <2>1, <2>2, <2>3, OthersStay DEF DeploymentInv
<1> QED BY <1>1, StartKeeps, StopKeeps, AroundKeeps, AskedKeeps, CallKeeps DEF DeploymentNext

\* settings.py, container.py and health.py of both services, for any settings they may be
\* given: production forgets no promise and serves no stranger, ready services serve, but for
\* what neither can see, and what was accepted starts.
THEOREM DeploymentsHold == DeploymentSpec => DeploymentHolds
<1>1. DeploymentInv => ProductionHolds
  BY ProductionIsDurable DEF DeploymentInv, StartedWell, PromisesKept, ProductionHolds
<1>2. DeploymentInv => AcceptedIsBuilt
  BY DEF DeploymentInv, StartedWell, ToolsBuilt, ApiBuilt, AcceptedIsBuilt
<1>3. DeploymentInv => [ReadyServes]_deployment
  <2> SUFFICES ASSUME DeploymentInv, ToolCall, served' = "stopped",
                      ready["tools"] \in {"healthy", "degraded"},
                      tools.backend = "fake" \/ ready["api"] = "healthy",
                      ServiceVerified, tools.identity_verifier = api.identity_verifier,
                      \/ "identity_provider" \in up
                      \/ cached = {"tools_keys", "service_token", "api_keys"}
               PROVE  FALSE
    BY DEF ReadyServes
  <2>1. PICK i \in DOMAIN Path : ~Passes(Path[i])
    BY DEF ToolCall, Stopped
  <2>2. PICK step : /\ step = Path[i] /\ ~Passes(step)
                    /\ step \in {"tools_keys", "idempotency_store", "service_token",
                                 "telecom_middleware", "service_credential", "identity",
                                 "api_keys", "store"}
    BY <2>1 DEF Path
  <2>3. \A p \in Probes \ {"identity_provider"} : Reachable(p)
    BY DEF DeploymentInv, AnswersStand
  <2>4. tools.backend # "fake" => StoreStarts
    BY DEF DeploymentInv, AnswersStand
  <2>5. Obtainable("tools_keys") /\ Obtainable("service_token") /\ Obtainable("api_keys")
    BY DEF Obtainable
  <2> QED BY <2>2, <2>3, <2>4, <2>5 DEF Passes, Probes
<1> QED BY <1>1, <1>2, <1>3, DeploymentInitially, DeploymentStep, PTL
       DEF DeploymentSpec, DeploymentHolds

-----------------------------------------------------------------------------
(* Calls between the services                                              *)
(* What is kept under the key of a write stays, so an answer that says ok    *)
(* stays true; and the rows do not change, so a page stays what it was.  The *)
(* invariant says of every request that may still be handled that its amount*)
(* can be said in minor units, and of a call with which nothing interfered  *)
(* that no request of it is still to land.                                  *)

Exact(want) == want.tool = "request_refund_approval" => ~TooPrecise(want.amount)
KeptOf(want) == [want |-> want, minor |-> DecimalToMinor(want.amount)]
Covered(want) ==
  want.tool = "request_refund_approval" =>
    \E i \in DOMAIN rows : /\ rows[i].currency = want.currency
                           /\ DecimalToMinor(want.amount) <= rows[i].total
                           /\ want.invoice \in {AnyInvoice, rows[i].id}

RecordsOK ==
  /\ DOMAIN keptRecords = Writes
  /\ \A tool \in Writes : keptRecords[tool] # NoRecord =>
       \E want \in Requests : /\ want.tool = tool /\ keptRecords[tool] = KeptOf(want)
                              /\ Exact(want) /\ Covered(want)

CallOK ==
  /\ rows \in Ledgers
  /\ call \in [want : Requests, attempt : Nat, at : {"idle", "sent"}]
  /\ late \subseteq Requests /\ \A want \in late : Exact(want)
  /\ call.at = "sent" => Exact(call.want)

NothingInterfered == doubt \in BOOLEAN /\ (~doubt => late = {} /\ (call.at = "sent" => keptRecords = before))

Ended == call.at = "idle" /\ callsAsked > 0
WritesTold ==
  Ended /\ lastAnswer.code = "ok" /\ call.want.tool \in Writes =>
    /\ keptRecords[call.want.tool] # NoRecord
    /\ lastAnswer.answer.record = keptRecords[call.want.tool]
    /\ lastAnswer.answer.record.want = call.want
PagesTold ==
  Ended /\ lastAnswer.code = "ok" /\ call.want.tool = "get_invoice_summary" =>
    /\ FakeFound(call.want)
    /\ \A part \in {"invoices", "truncated"} : lastAnswer.answer[part] = FakeInvoices(call.want)[part]
    /\ lastAnswer.answer.truncated \/ lastAnswer.answer = FakeInvoices(call.want)
RefusalsTold == Ended /\ lastAnswer.code # "ok" /\ ~doubt => keptRecords = before

ExchangeInv ==
  /\ RecordsOK /\ CallOK /\ NothingInterfered
  /\ WritesTold /\ PagesTold /\ RefusalsTold

\* The least of two numbers.
LEMMA MinOfTwo ==
  ASSUME NEW a \in Nat, NEW b \in Nat
  PROVE  Min({a, b}) \in {a, b} /\ Min({a, b}) <= a /\ Min({a, b}) <= b
BY DEF Min

\* What matches is among the rows.
LEMMA MatchingIs ==
  ASSUME rows \in Ledgers, NEW want
  PROVE  \E S : /\ Matching(want) \in Seq(S)
                /\ \A i \in 1 .. Len(Matching(want)) : \E j \in DOMAIN rows :
                     Matching(want)[i] = rows[j] /\ want.invoice \in {AnyInvoice, rows[j].id}
<1>1. PICK S : S = Range(rows)
  OBVIOUS
<1>2. rows \in Seq(S) /\ DOMAIN rows = 1 .. Len(rows) /\ \A i \in DOMAIN rows : rows[i] \in S
  <2>1. rows \in Seq(S)
    BY <1>1, ExchangeAssumption
  <2> QED BY <2>1
<1>3. PICK found : found = {i \in DOMAIN rows : rows[i].id = want.invoice}
  OBVIOUS
<1>4. CASE want.invoice = AnyInvoice
  <2>1. Matching(want) = rows
    BY <1>4 DEF Matching
  <2> QED BY <1>2, <1>4, <2>1
<1>5. CASE want.invoice # AnyInvoice /\ found = {}
  <2>1. PICK none : none = <<>>
    OBVIOUS
  <2>2. Matching(want) = none /\ none \in Seq(S) /\ Len(none) = 0
    BY <1>3, <1>5, <2>1 DEF Matching
  <2> QED BY <2>2
<1>6. CASE want.invoice # AnyInvoice /\ found # {}
  <2>1. PICK j : j = CHOOSE i \in found : TRUE
    OBVIOUS
  <2>2. j \in found
    BY <1>6, <2>1
  <2>3. PICK one : one = <<rows[j]>>
    OBVIOUS
  <2>4. Matching(want) = one
    BY <1>3, <1>6, <2>1, <2>3 DEF Matching
  <2>5. one \in Seq(S) /\ Len(one) = 1 /\ one[1] = rows[j]
    BY <1>2, <1>3, <2>2, <2>3
  <2> QED BY <1>3, <2>2, <2>4, <2>5
<1> QED BY <1>4, <1>5, <1>6

\* A page is the first of what matches, and all of it when it is not shorter.
LEMMA PageIs ==
  ASSUME rows \in Ledgers, NEW want \in Requests
  PROVE  /\ Len(Page(want)) \in Nat /\ Len(Matching(want)) \in Nat
         /\ Page(want) # <<>> => \E j \in DOMAIN rows :
              Page(want)[1] = rows[j] /\ want.invoice \in {AnyInvoice, rows[j].id}
         /\ ~(Len(Page(want)) < Len(Matching(want))) => Page(want) = Matching(want)
         /\ DOMAIN Page(want) = 1 .. Len(Page(want))
<1>1. PICK m : m = Matching(want)
  OBVIOUS
<1>2. PICK S : /\ m \in Seq(S)
               /\ \A i \in 1 .. Len(m) : \E j \in DOMAIN rows :
                    m[i] = rows[j] /\ want.invoice \in {AnyInvoice, rows[j].id}
  BY <1>1, MatchingIs
<1>3. Len(m) \in Nat /\ DOMAIN m = 1 .. Len(m) /\ \A i \in 1 .. Len(m) : m[i] \in S
  BY <1>2
<1>4. PICK n : n = Min({want.limit, Len(m)})
  OBVIOUS
<1>5. n \in Nat /\ n <= Len(m)
  <2>1. want.limit \in Nat
    BY ExchangeAssumption
  <2> QED BY <1>3, <1>4, <2>1, MinOfTwo
<1>6. PICK p : p = SubSeq(m, 1, n)
  OBVIOUS
<1>7. p \in Seq(S) /\ Len(p) = n /\ \A i \in 1 .. n : p[i] = m[i]
  <2>1. \A i \in 1 .. n : m[i] \in S
    BY <1>3, <1>5
  <2> QED BY <1>5, <1>6, <2>1, SubSeqProperties
<1>8. Page(want) = p
  BY <1>1, <1>4, <1>6 DEF Page
<1>9. ASSUME ~(n < Len(m)) PROVE p = m
  <2>1. Len(m) \in Nat
    BY <1>3
  <2>2. n = Len(m)
    BY <1>5, <1>9, <2>1
  <2> QED BY <1>2, <1>3, <1>7, <2>2, SeqEqual
<1>10. p # <<>> => 1 \in 1 .. n
  BY <1>5, <1>7, EmptySeq
<1>11. DOMAIN p = 1 .. Len(p)
  BY <1>7
<1> QED BY <1>1, <1>2, <1>3, <1>5, <1>7, <1>8, <1>9, <1>10, <1>11

\* A record kept for a request is a record, and so is the answer that carries it.
LEMMA CreatedIs ==
  ASSUME NEW want \in Requests, NEW status
  PROVE  LET said == Created(want, status) IN
         /\ said.status = status /\ said.body # NoRecord /\ said.body.record = KeptOf(want)
         /\ KeptOf(want) # NoRecord /\ KeptOf(want).want = want
         /\ KeptOf(want).minor = DecimalToMinor(want.amount)
<1>1. PICK no : no = FALSE
  OBVIOUS
<1>2. PICK body : body = [record |-> KeptOf(want), deduplicated |-> no]
  OBVIOUS
<1>3. body.record = KeptOf(want)
  BY <1>2
<1>4. Created(want, status) = [status |-> status, body |-> body]
  BY <1>1, <1>2 DEF Created, Says, KeptOf
<1>5. Created(want, 201) = [status |-> 201, body |-> body]
  BY <1>1, <1>2 DEF Created, Says, KeptOf
<1>6. body # NoRecord /\ KeptOf(want) # NoRecord
  <2>1. Created(want, 201).body = body
    BY <1>5
  <2> QED BY <1>3, <2>1, NoRecordAssumption
<1>7. KeptOf(want).want = want /\ KeptOf(want).minor = DecimalToMinor(want.amount)
  BY DEF KeptOf
<1>8. Created(want, status).status = status /\ Created(want, status).body = body
  BY <1>4
<1> QED BY <1>3, <1>6, <1>7, <1>8

\* What the middleware makes of a write, and what it keeps of it.
Does(want) ==
  LET said == Handled(want) IN
  \/ /\ keptRecords[want.tool] = NoRecord /\ Covered(want)
     /\ said.status \in {201, 202} /\ said.body # NoRecord /\ said.body.record = KeptOf(want)
     /\ KeptAfter(want) = [keptRecords EXCEPT ![want.tool] = KeptOf(want)]
  \/ /\ keptRecords[want.tool] # NoRecord /\ keptRecords[want.tool].want = want
     /\ said.status = 200 /\ said.body.record = keptRecords[want.tool]
     /\ KeptAfter(want) = keptRecords
  \/ /\ said.status \in {403, 409} /\ KeptAfter(want) = keptRecords

LEMMA WriteIs ==
  ASSUME CallOK, NEW want \in Requests, want.tool \in Writes
  PROVE  Does(want)
<1>0. want.tool \in {"create_support_ticket", "request_refund_approval"}
      /\ want.tool # "get_invoice_summary"
  BY DEF Writes
<1>1. CASE keptRecords[want.tool] # NoRecord
  <2>1. Handled(want) = Replay(want)
    BY <1>0, <1>1 DEF Handled
  <2>2. CASE keptRecords[want.tool].want = want
    <3>1. PICK yes : yes = TRUE
      OBVIOUS
    <3>2. PICK body : body = [record |-> keptRecords[want.tool], deduplicated |-> yes]
      OBVIOUS
    <3>3. Handled(want) = [status |-> 200, body |-> body]
      BY <2>1, <2>2, <3>1, <3>2 DEF Replay, Says
    <3>4. Handled(want).status = 200 /\ Handled(want).body = body
      BY <3>3
    <3>5. body.record = keptRecords[want.tool]
      BY <3>2
    <3>6. KeptAfter(want) = keptRecords
      BY <3>4 DEF KeptAfter
    <3> QED BY <1>1, <2>2, <3>4, <3>5, <3>6 DEF Does
  <2>3. CASE keptRecords[want.tool].want # want
    <3>1. Handled(want).status = 409
      BY <2>1, <2>3 DEF Replay, Says
    <3> QED BY <3>1 DEF Does, KeptAfter
  <2> QED BY <2>2, <2>3
<1>2. ASSUME keptRecords[want.tool] = NoRecord, NEW status \in {201, 202},
             Handled(want) = Created(want, status), Covered(want)
      PROVE  Does(want)
  <2>1. Handled(want).status = status /\ Handled(want).body # NoRecord
        /\ Handled(want).body.record = KeptOf(want)
    BY <1>2, CreatedIs
  <2>2. KeptAfter(want) = [keptRecords EXCEPT ![want.tool] = KeptOf(want)]
    BY <2>1 DEF KeptAfter
  <2> QED BY <1>2, <2>1, <2>2 DEF Does
<1>3. CASE keptRecords[want.tool] = NoRecord /\ want.tool = "create_support_ticket"
  <2>1. Handled(want) = Created(want, 201) /\ Covered(want)
    BY <1>0, <1>3 DEF Handled, Covered
  <2> QED BY <1>2, <1>3, <2>1
<1>4. CASE keptRecords[want.tool] = NoRecord /\ want.tool = "request_refund_approval"
  <2>1. Handled(want) = RequestRefund(want)
    BY <1>0, <1>4 DEF Handled
  <2>2. CASE Handled(want).status \in {403, 409}
    BY <2>2 DEF Does, KeptAfter
  <2>3. CASE Page(want) = <<>>
    <3>1. Handled(want).status = 403
      BY <2>1, <2>3 DEF RequestRefund, Forbidden, Says
    <3> QED BY <2>2, <3>1
  <2>4. CASE Page(want) # <<>>
    <3>1. PICK j \in DOMAIN rows : Page(want)[1] = rows[j] /\ want.invoice \in {AnyInvoice, rows[j].id}
      BY <2>4, PageIs DEF CallOK
    <3>2. DecimalToMinor(want.amount) \in Int /\ rows[j].total \in Int
      <4>1. rows[j] \in Range(rows)
        BY DEF Range
      <4> QED BY <4>1, ExchangeAssumption DEF CallOK, DecimalToMinor
    <3>3. CASE want.currency # rows[j].currency \/ DecimalToMinor(want.amount) > rows[j].total
      <4>1. Handled(want).status = 409
        BY <2>1, <2>4, <3>1, <3>3 DEF RequestRefund, Says
      <4> QED BY <2>2, <4>1
    <3>4. CASE ~(want.currency # rows[j].currency \/ DecimalToMinor(want.amount) > rows[j].total)
      <4>1. Handled(want) = Created(want, 202)
        BY <2>1, <2>4, <3>1, <3>4 DEF RequestRefund
      <4>2. DecimalToMinor(want.amount) <= rows[j].total /\ rows[j].currency = want.currency
        BY <3>2, <3>4
      <4>3. Covered(want)
        BY <3>1, <4>2 DEF Covered
      <4> QED BY <1>2, <1>4, <4>1, <4>3
    <3> QED BY <3>3, <3>4
  <2> QED BY <2>3, <2>4
<1> QED BY <1>0, <1>1, <1>3, <1>4

\* What is kept stays what it was, and what is new is as good.
LEMMA KeepsRecords ==
  ASSUME RecordsOK, CallOK, NEW want \in Requests, Exact(want),
         keptRecords' = KeptAfter(want), rows' = rows
  PROVE  /\ RecordsOK'
         /\ \A tool \in Writes : keptRecords[tool] # NoRecord => keptRecords'[tool] = keptRecords[tool]
<1>1. CASE keptRecords' = keptRecords
  BY <1>1 DEF RecordsOK, Covered
<1>2. CASE keptRecords' # keptRecords
  <2>1. want.tool \in Writes
    BY <1>2 DEF KeptAfter
  <2>2. /\ keptRecords[want.tool] = NoRecord /\ Covered(want)
        /\ keptRecords' = [keptRecords EXCEPT ![want.tool] = KeptOf(want)]
    BY <1>2, <2>1, WriteIs DEF Does
  <2>3. /\ DOMAIN keptRecords' = Writes /\ keptRecords'[want.tool] = KeptOf(want)
        /\ \A tool \in Writes \ {want.tool} : keptRecords'[tool] = keptRecords[tool]
    BY <2>1, <2>2 DEF RecordsOK
  <2>4. \A w \in Requests : Covered(w)' <=> Covered(w)
    BY DEF Covered
  <2>5. RecordsOK'
    BY <2>1, <2>2, <2>3, <2>4 DEF RecordsOK
  <2>6. \A tool \in Writes : keptRecords[tool] # NoRecord => keptRecords'[tool] = keptRecords[tool]
    BY <2>2, <2>3
  <2> QED BY <2>5, <2>6
<1> QED BY <1>1, <1>2

\* What a page says of the rows it is about.
PageIsTrue(want, answer) ==
  /\ FakeFound(want)
  /\ \A part \in {"invoices", "truncated"} : answer[part] = FakeInvoices(want)[part]
  /\ answer.truncated \/ answer = FakeInvoices(want)

LEMMA PageAnswer ==
  ASSUME rows \in Ledgers, NEW want \in Requests, want.tool = "get_invoice_summary",
         Handled(want).status < 400
  PROVE  PageIsTrue(want, Translated(want, Handled(want).body))
<1>1. PICK p : p = Page(want)
  OBVIOUS
<1>2. PICK m : m = Matching(want)
  OBVIOUS
<1>3. PICK cut : cut = (Len(p) < Len(m))
  OBVIOUS
<1>4. PICK body : body = [invoices |-> p, outstanding |-> SumLeft(p), truncated |-> cut]
  OBVIOUS
<1>5. Handled(want) = GetInvoices(want)
  BY DEF Handled
<1>6. want.invoice = AnyInvoice \/ m # <<>>
  <2>1. SUFFICES ASSUME want.invoice # AnyInvoice, m = <<>> PROVE FALSE
    OBVIOUS
  <2>2. Handled(want).status = 403
    BY <1>2, <1>5, <2>1 DEF GetInvoices, Forbidden, Says
  <2> QED BY <2>2
<1>7. Handled(want) = [status |-> 200, body |-> body]
  BY <1>1, <1>2, <1>3, <1>4, <1>5, <1>6 DEF GetInvoices, Says
<1>8. Handled(want).body = body
  BY <1>7
<1>9. body.invoices = p /\ body.outstanding = SumLeft(p) /\ body.truncated = cut
  BY <1>4
<1>10. PICK lines : lines = [i \in DOMAIN p |-> [id |-> p[i].id, total |-> MinorToDecimal(p[i].total),
                                                 left |-> MinorToDecimal(p[i].left)]]
  OBVIOUS
<1>11. Translated(want, body) =
         [invoices |-> lines, outstanding |-> MinorToDecimal(SumLeft(p)), truncated |-> cut]
  BY <1>9, <1>10 DEF Translated
<1>12. FakeInvoices(want) =
         [invoices |-> lines, outstanding |-> MinorToDecimal(SumLeft(m)), truncated |-> cut]
  BY <1>1, <1>2, <1>3, <1>10 DEF FakeInvoices
<1>13. cut \/ p = m
  BY <1>1, <1>2, <1>3, PageIs
<1>14. PICK answer : answer = Translated(want, body)
  OBVIOUS
<1>15. PICK fake : fake = FakeInvoices(want)
  OBVIOUS
<1>16. /\ answer["invoices"] = lines /\ answer["truncated"] = cut
       /\ fake["invoices"] = lines /\ fake["truncated"] = cut
  BY <1>11, <1>12, <1>14, <1>15
<1>17. cut \/ answer = fake
  BY <1>11, <1>12, <1>13, <1>14, <1>15
<1>18. answer.truncated \/ answer = fake
  BY <1>16, <1>17
<1>19. FakeFound(want)
  BY <1>2, <1>6 DEF FakeFound
<1> QED BY <1>8, <1>14, <1>15, <1>16, <1>18, <1>19 DEF PageIsTrue

\* Rows that stay leave the in-memory backend's answer what it was.
LEMMA FakeStays ==
  ASSUME rows' = rows, NEW want, NEW answer, PageIsTrue(want, answer)
  PROVE  PageIsTrue(want, answer)'
<1>1. Matching(want)' = Matching(want)
  BY DEF Matching
<1>2. Page(want)' = Page(want)
  BY <1>1 DEF Page
<1>3. FakeInvoices(want)' = FakeInvoices(want)
  BY <1>1, <1>2 DEF FakeInvoices
<1>4. FakeFound(want)' <=> FakeFound(want)
  BY <1>1 DEF FakeFound
<1> QED BY <1>3, <1>4 DEF PageIsTrue

\* An attempt ends the call or leads to the next.
LEMMA ReceivesIs ==
  ASSUME CallOK, call.at = "sent", NEW status \in Nat, NEW reply, reply.status = status,
         ReceivesAnswer(reply)
  PROVE  \/ /\ status < 400 /\ reply.body # NoRecord
            /\ call' = [call EXCEPT !.at = "idle"]
            /\ lastAnswer'.code = "ok" /\ lastAnswer'.answer = Translated(call.want, reply.body)
         \/ /\ ~(status < 400 /\ reply.body # NoRecord)
            /\ call' = [call EXCEPT !.at = "idle"] /\ lastAnswer'.code # "ok"
         \/ /\ ~(status < 400 /\ reply.body # NoRecord)
            /\ call' = [call EXCEPT !.attempt = @ + 1] /\ UNCHANGED lastAnswer
<1>1. Decoded(reply) = "ok" <=> status < 400 /\ reply.body # NoRecord
  <2>1. CASE status < 400
    BY <2>1 DEF Decoded, RaiseForStatus
  <2>2. CASE ~(status < 400)
    BY <2>2 DEF Decoded, RaiseForStatus
  <2> QED BY <2>1, <2>2
<1>2. CASE Decoded(reply) = "ok"
  <2>1. CallEnds("ok", Translated(call.want, reply.body))
    BY <1>2 DEF ReceivesAnswer
  <2> QED BY <1>1, <1>2, <2>1 DEF CallEnds
<1>3. CASE Decoded(reply) # "ok"
  <2>1. Raises(Decoded(reply))
    BY <1>3 DEF ReceivesAnswer
  <2> QED BY <1>1, <1>3, <2>1 DEF Raises, CallEnds
<1> QED BY <1>2, <1>3

\* A call that is under way says nothing yet.
LEMMA NothingTold ==
  ASSUME call'.at = "sent"
  PROVE  WritesTold' /\ PagesTold' /\ RefusalsTold'
BY DEF WritesTold, PagesTold, RefusalsTold, Ended

\* Nobody was told anything.
LEMMA ExchangeInitially == ExchangeInit => ExchangeInv
<1> SUFFICES ASSUME ExchangeInit PROVE ExchangeInv
  OBVIOUS
<1>1. PICK want \in Requests : call = [want |-> want, attempt |-> 0, at |-> "idle"]
  BY DEF ExchangeInit
<1>2. RecordsOK /\ CallOK
  BY <1>1 DEF ExchangeInit, RecordsOK, CallOK
<1>3. NothingInterfered
  BY <1>1 DEF ExchangeInit, NothingInterfered
<1>4. ~Ended
  BY DEF ExchangeInit, Ended
<1> QED BY <1>2, <1>3, <1>4 DEF ExchangeInv, WritesTold, PagesTold, RefusalsTold

\* A call is made, or refused for an amount that minor units cannot say.
LEMMA AskToolKeeps ==
  ASSUME ExchangeInv, NEW want \in Requests, AskTool(want)
  PROVE  ExchangeInv'
<1>1. /\ UNCHANGED <<rows, keptRecords, late>> /\ before' = keptRecords /\ doubt' = (late # {})
  BY DEF AskTool
<1>2. RecordsOK' /\ NothingInterfered'
  BY <1>1 DEF ExchangeInv, RecordsOK, Covered, NothingInterfered
<1>3. CASE want.tool = "request_refund_approval" /\ TooPrecise(want.amount)
  <2>1. /\ lastAnswer'.code = "backend_bad_response"
        /\ call' = [want |-> want, attempt |-> 0, at |-> "idle"]
    BY <1>3 DEF AskTool
  <2>2. CallOK'
    BY <1>1, <2>1 DEF ExchangeInv, CallOK
  <2>3. WritesTold' /\ PagesTold' /\ RefusalsTold'
    BY <1>1, <2>1 DEF WritesTold, PagesTold, RefusalsTold
  <2> QED BY <1>2, <2>2, <2>3 DEF ExchangeInv
<1>4. CASE ~(want.tool = "request_refund_approval" /\ TooPrecise(want.amount))
  <2>1. call' = [want |-> want, attempt |-> 1, at |-> "sent"]
    BY <1>4 DEF AskTool
  <2>2. CallOK'
    BY <1>1, <1>4, <2>1 DEF ExchangeInv, CallOK, Exact
  <2>3. WritesTold' /\ PagesTold' /\ RefusalsTold'
    BY <2>1, NothingTold
  <2> QED BY <1>2, <2>2, <2>3 DEF ExchangeInv
<1> QED BY <1>3, <1>4

\* The middleware handles a request: what it says of it is true, and what it refuses is
\* not done.
LEMMA AnswerKeeps ==
  ASSUME ExchangeInv, AnswerCall
  PROVE  ExchangeInv'
<1> DEFINE said == Handled(call.want)
<1>0. /\ call.at = "sent" /\ call.want \in Requests /\ Exact(call.want)
      /\ keptRecords' = KeptAfter(call.want) /\ ReceivesAnswer(said)
      /\ UNCHANGED <<rows, late, before, doubt, callsAsked>>
      /\ RecordsOK /\ CallOK /\ NothingInterfered
  BY DEF AnswerCall, ExchangeInv, CallOK
<1>1. /\ RecordsOK'
      /\ \A tool \in Writes : keptRecords[tool] # NoRecord => keptRecords'[tool] = keptRecords[tool]
  BY <1>0, KeepsRecords
<1>2. \/ call.want.tool \in Writes
      \/ call.want.tool = "get_invoice_summary" /\ call.want.tool \notin Writes
  BY <1>0, ExchangeAssumption DEF Writes
<1>3. call.want.tool \in Writes => Does(call.want)
  BY <1>0, WriteIs
<1>4. call.want.tool \notin Writes => keptRecords' = keptRecords
  BY <1>0 DEF KeptAfter
<1>5. said.status \in Nat
  <2>1. CASE call.want.tool \in Writes
    BY <1>3, <2>1 DEF Does
  <2>2. CASE call.want.tool = "get_invoice_summary"
    BY <2>2 DEF Handled, GetInvoices, Forbidden, Says
  <2> QED BY <1>2, <2>1, <2>2
<1> HIDE DEF said
<1>6. PICK status \in Nat : status = said.status
  BY <1>5
<1>7. ASSUME ~(status < 400 /\ said.body # NoRecord)
      PROVE  keptRecords' = keptRecords
  BY <1>0, <1>2, <1>3, <1>4, <1>6, <1>7 DEF Does, said
<1>8. CASE call' = [call EXCEPT !.attempt = @ + 1] /\ keptRecords' = keptRecords
  <2>1. CallOK' /\ call'.at = "sent"
    BY <1>0, <1>8 DEF CallOK
  <2>2. NothingInterfered'
    BY <1>0, <1>8 DEF NothingInterfered
  <2> QED BY <1>1, <2>1, <2>2, NothingTold DEF ExchangeInv
<1>9. CASE /\ call' = [call EXCEPT !.at = "idle"]
           /\ \/ lastAnswer'.code # "ok" /\ keptRecords' = keptRecords
              \/ /\ lastAnswer'.code = "ok" /\ lastAnswer'.answer = Translated(call.want, said.body)
                 /\ status < 400 /\ said.body # NoRecord
  <2>1. CallOK' /\ call'.at = "idle" /\ call'.want = call.want
    BY <1>0, <1>9 DEF CallOK
  <2>2. NothingInterfered'
    BY <1>0, <2>1 DEF NothingInterfered
  <2>3. CASE lastAnswer'.code # "ok" /\ keptRecords' = keptRecords
    <3>1. RefusalsTold'
      BY <1>0, <2>3 DEF RefusalsTold, NothingInterfered
    <3> QED BY <1>1, <2>1, <2>2, <2>3, <3>1 DEF ExchangeInv, WritesTold, PagesTold
  <2>4. CASE /\ lastAnswer'.code = "ok" /\ lastAnswer'.answer = Translated(call.want, said.body)
             /\ status < 400 /\ said.body # NoRecord
    <3>1. RefusalsTold'
      BY <2>4 DEF RefusalsTold
    <3>2. CASE call.want.tool \in Writes
      <4>1. call.want.tool # "get_invoice_summary"
        BY <3>2 DEF Writes
      <4>2. lastAnswer'.answer.record = said.body.record
        BY <2>4, <4>1 DEF Translated
      <4>3. /\ keptRecords'[call.want.tool] # NoRecord
            /\ said.body.record = keptRecords'[call.want.tool]
            /\ keptRecords'[call.want.tool].want = call.want
        <5>1. DOMAIN keptRecords = Writes /\ KeptOf(call.want) # NoRecord /\ KeptOf(call.want).want = call.want
          BY <1>0, CreatedIs DEF RecordsOK
        <5>2. status \notin {403, 409}
          BY <2>4
        <5>3. CASE /\ said.body.record = KeptOf(call.want)
                   /\ KeptAfter(call.want) = [keptRecords EXCEPT ![call.want.tool] = KeptOf(call.want)]
          <6>1. keptRecords'[call.want.tool] = KeptOf(call.want)
            BY <1>0, <3>2, <5>1, <5>3
          <6> QED BY <5>1, <5>3, <6>1
        <5>4. CASE /\ keptRecords[call.want.tool] # NoRecord
                   /\ keptRecords[call.want.tool].want = call.want
                   /\ said.body.record = keptRecords[call.want.tool]
                   /\ KeptAfter(call.want) = keptRecords
          BY <1>0, <5>4
        <5> QED BY <1>3, <1>6, <3>2, <5>2, <5>3, <5>4 DEF Does, said
      <4>4. WritesTold' /\ PagesTold'
        BY <2>1, <4>1, <4>2, <4>3 DEF WritesTold, PagesTold
      <4> QED BY <1>1, <2>1, <2>2, <3>1, <4>4 DEF ExchangeInv
    <3>3. CASE call.want.tool \notin Writes
      <4>1. PageIsTrue(call.want, lastAnswer'.answer)
        BY <1>0, <1>2, <1>6, <2>4, <3>3, PageAnswer DEF said, CallOK
      <4>2. PICK want : want = call.want
        OBVIOUS
      <4>3. PICK answer : answer = lastAnswer'.answer
        OBVIOUS
      <4>4. PageIsTrue(want, answer)'
        BY <1>0, <4>1, <4>2, <4>3, FakeStays
      <4>5. PagesTold'
        BY <2>1, <4>2, <4>3, <4>4 DEF PagesTold, PageIsTrue
      <4>6. WritesTold'
        BY <2>1, <3>3 DEF WritesTold
      <4> QED BY <1>1, <2>1, <2>2, <3>1, <4>5, <4>6 DEF ExchangeInv
    <3> QED BY <3>2, <3>3
  <2> QED BY <1>9, <2>3, <2>4
<1> QED BY <1>0, <1>6, <1>7, <1>8, <1>9, ReceivesIs

\* An answer with no body ends no call well.
LEMMA BareReply ==
  ASSUME ExchangeInv, call.at = "sent", NEW status \in Nat, ReceivesAnswer(Says(status, NoRecord)),
         UNCHANGED <<rows, callsAsked>>, late' \subseteq late \cup {call.want}
  PROVE  /\ CallOK' /\ WritesTold' /\ PagesTold'
         /\ call'.at = "sent" \/ lastAnswer'.code # "ok"
<1>1. PICK reply : reply = Says(status, NoRecord)
  OBVIOUS
<1>2. reply.status = status /\ reply.body = NoRecord /\ ReceivesAnswer(reply)
  BY <1>1 DEF Says
<1>3. CallOK /\ call.want \in Requests /\ Exact(call.want)
  BY DEF ExchangeInv, CallOK
<1>4. \/ call' = [call EXCEPT !.at = "idle"] /\ lastAnswer'.code # "ok"
      \/ call' = [call EXCEPT !.attempt = @ + 1]
  BY <1>2, <1>3, ReceivesIs
<1>5. CallOK' /\ (call'.at = "sent" \/ lastAnswer'.code # "ok")
  BY <1>3, <1>4 DEF CallOK
<1> QED BY <1>5, NothingTold DEF WritesTold, PagesTold

\* Nothing is done for a caller who is refused.
LEMMA RefuseKeeps ==
  ASSUME ExchangeInv, Refuse
  PROVE  ExchangeInv'
<1>1. /\ call.at = "sent" /\ UNCHANGED <<rows, keptRecords, late, before, doubt, callsAsked>>
      /\ RecordsOK /\ NothingInterfered
  BY DEF Refuse, ExchangeInv
<1>2. PICK status \in Nat : ReceivesAnswer(Says(status, NoRecord))
  BY DEF Refuse
<1>3. CallOK' /\ WritesTold' /\ PagesTold' /\ (call'.at = "sent" \/ lastAnswer'.code # "ok")
  BY <1>1, <1>2, BareReply
<1>4. RecordsOK' /\ NothingInterfered' /\ RefusalsTold'
  BY <1>1 DEF RecordsOK, Covered, NothingInterfered, RefusalsTold
<1> QED BY <1>3, <1>4 DEF ExchangeInv

\* What interferes may leave the request done, undone or to be done later.
LEMMA InterfereKeeps ==
  ASSUME ExchangeInv, Interfere
  PROVE  ExchangeInv'
<1>1. /\ call.at = "sent" /\ UNCHANGED <<rows, before, callsAsked>> /\ doubt' = TRUE
      /\ keptRecords' \in {keptRecords, KeptAfter(call.want)}
      /\ late' \subseteq late \cup {call.want}
      /\ RecordsOK /\ CallOK /\ call.want \in Requests /\ Exact(call.want)
  BY DEF Interfere, ExchangeInv, CallOK
<1>2. RecordsOK'
  <2>1. CASE keptRecords' = keptRecords
    BY <1>1, <2>1 DEF RecordsOK, Covered
  <2>2. CASE keptRecords' = KeptAfter(call.want)
    BY <1>1, <2>2, KeepsRecords
  <2> QED BY <1>1, <2>1, <2>2
<1>3. NothingInterfered' /\ RefusalsTold'
  BY <1>1 DEF NothingInterfered, RefusalsTold
<1>4. CallOK' /\ WritesTold' /\ PagesTold'
  <2>1. CASE \E status \in {200, 404, 413, 429, 502} : ReceivesAnswer(Says(status, NoRecord))
    <3>1. PICK status \in Nat : ReceivesAnswer(Says(status, NoRecord))
      BY <2>1
    <3> QED BY <1>1, <3>1, BareReply
  <2>2. CASE \E code \in {"backend_timeout", "backend_unavailable"} : Raises(code)
    <3>1. \/ call' = [call EXCEPT !.at = "idle"] /\ lastAnswer'.code # "ok"
          \/ call' = [call EXCEPT !.attempt = @ + 1]
      BY <2>2 DEF Raises, CallEnds
    <3>2. CallOK' /\ (call'.at = "sent" \/ lastAnswer'.code # "ok")
      BY <1>1, <3>1 DEF CallOK
    <3> QED BY <3>2, NothingTold DEF WritesTold, PagesTold
  <2> QED BY <2>1, <2>2 DEF Interfere
<1> QED BY <1>2, <1>3, <1>4 DEF ExchangeInv

\* What was told of a page is told still.
LEMMA PagesStay ==
  ASSUME PagesTold, UNCHANGED <<rows, call, lastAnswer, callsAsked>>
  PROVE  PagesTold'
<1>1. CASE Ended /\ lastAnswer.code = "ok" /\ call.want.tool = "get_invoice_summary"
  <2>1. PICK want : want = call.want
    OBVIOUS
  <2>2. PICK answer : answer = lastAnswer.answer
    OBVIOUS
  <2>3. PageIsTrue(want, answer)
    BY <1>1, <2>1, <2>2 DEF PagesTold, PageIsTrue
  <2>4. PageIsTrue(want, answer)'
    BY <2>3, FakeStays
  <2> QED BY <2>1, <2>2, <2>4 DEF PagesTold, PageIsTrue
<1>2. CASE ~(Ended /\ lastAnswer.code = "ok" /\ call.want.tool = "get_invoice_summary")
  BY <1>2 DEF PagesTold, Ended
<1> QED BY <1>1, <1>2

\* A request given up lands: whoever was told ok was told of what was kept before.
LEMMA LandLateKeeps ==
  ASSUME ExchangeInv, NEW want \in Requests, LandLate(want)
  PROVE  ExchangeInv'
<1>1. /\ want \in late /\ keptRecords' = KeptAfter(want) /\ late' = late \ {want}
      /\ UNCHANGED <<rows, call, before, doubt, lastAnswer, callsAsked>>
      /\ RecordsOK /\ CallOK /\ NothingInterfered /\ Exact(want)
  BY DEF LandLate, ExchangeInv, CallOK
<1>2. /\ RecordsOK'
      /\ \A tool \in Writes : keptRecords[tool] # NoRecord => keptRecords'[tool] = keptRecords[tool]
  BY <1>1, KeepsRecords
<1>3. doubt' /\ doubt
  BY <1>1 DEF NothingInterfered
<1>4. CallOK' /\ NothingInterfered' /\ RefusalsTold'
  BY <1>1, <1>3 DEF CallOK, NothingInterfered, RefusalsTold
<1>5. WritesTold'
  BY <1>1, <1>2 DEF ExchangeInv, WritesTold, Ended
<1>6. PagesTold'
  BY <1>1, PagesStay DEF ExchangeInv
<1> QED BY <1>2, <1>4, <1>5, <1>6 DEF ExchangeInv

\* Every step of an exchange.
LEMMA ExchangeStep == ExchangeInv /\ [ExchangeNext]_exchange => ExchangeInv'
<1> SUFFICES ASSUME ExchangeInv, [ExchangeNext]_exchange PROVE ExchangeInv'
  OBVIOUS
<1>1. CASE UNCHANGED exchange
  <2>1. RecordsOK' /\ CallOK' /\ NothingInterfered'
    BY <1>1 DEF exchange, ExchangeInv, RecordsOK, Covered, CallOK, NothingInterfered
  <2>2. WritesTold' /\ RefusalsTold'
    BY <1>1 DEF exchange, ExchangeInv, WritesTold, RefusalsTold, Ended
  <2>3. PagesTold'
    BY <1>1, PagesStay DEF exchange, ExchangeInv
  <2> QED BY <2>1, <2>2, <2>3 DEF ExchangeInv
<1> QED BY <1>1, AskToolKeeps, AnswerKeeps, RefuseKeeps, InterfereKeeps, LandLateKeeps DEF ExchangeNext

\* A refund that is kept was asked for in units the currency has.
LEMMA RefundIs ==
  ASSUME ExchangeInv, keptRecords["request_refund_approval"] # NoRecord
  PROVE  LET record == keptRecords["request_refund_approval"] IN
         /\ MinorToDecimal(record.minor) = record.want.amount
         /\ \E i \in DOMAIN rows : /\ rows[i].currency = record.want.currency
                                   /\ record.minor <= rows[i].total
                                   /\ record.want.invoice \in {AnyInvoice, rows[i].id}
<1>1. PICK want \in Requests : /\ want.tool = "request_refund_approval"
                               /\ keptRecords["request_refund_approval"] = KeptOf(want)
                               /\ Exact(want) /\ Covered(want)
  BY DEF ExchangeInv, RecordsOK, Writes
<1>2. KeptOf(want).want = want /\ KeptOf(want).minor = DecimalToMinor(want.amount)
  BY CreatedIs
<1>3. MinorToDecimal(DecimalToMinor(want.amount)) = want.amount
  <2>1. want.amount \in Nat /\ want.amount % 10 = 0
    BY <1>1, ExchangeAssumption DEF Exact, TooPrecise
  <2> QED BY <2>1 DEF MinorToDecimal, DecimalToMinor
<1> QED BY <1>1, <1>2, <1>3 DEF Covered

\* http_backend.py, translation.py and fake_backend.py, for any invoices, requests, number of
\* attempts and calls: an answer means what it says.
THEOREM AnswersAlwaysMeanIt == ExchangeSpec => []AnswersMeanWhatTheySay
<1>1. ExchangeInv => AnswersMeanWhatTheySay
  BY RefundIs DEF AnswersMeanWhatTheySay, ExchangeInv, WritesTold, PagesTold, RefusalsTold, Ended
<1> QED BY <1>1, ExchangeInitially, ExchangeStep, PTL DEF ExchangeSpec
=============================================================================
