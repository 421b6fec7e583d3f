---------------------------- MODULE ServiceToken ----------------------------
(***************************************************************************)
(* The credential the tools server presents as itself:                     *)
(* ClientCredentialsServiceToken (security/service_token.py).  Requests     *)
(* share one cached value, one lock, and one clock; a request gives up      *)
(* control while it waits for the lock and while it fetches.               *)
(*                                                                         *)
(* A token lives from the moment the provider issues it, the cache counts   *)
(* from the moment it arrives: both are kept, as time left.                *)
(***************************************************************************)
EXTENDS Integers, FiniteSets, FiniteSetsExt

CONSTANTS Senders,      \* concurrent requests that need the credential
          Margin,       \* refresh_margin_s
          Shortest,     \* MIN_USABLE_LIFETIME_S
          Lifetimes,    \* what expires_in may say
          SlowestGrant  \* TOKEN_REQUEST_TIMEOUT_S: the time a fetch may take

ASSUME ServiceTokenAssumption ==
  /\ Margin \in Nat /\ Shortest \in Nat \ {0} /\ SlowestGrant \in Nat
  /\ Lifetimes \subseteq Nat \ {0} /\ Lifetimes # {}
  /\ 0 \notin Senders

VARIABLES tokensCounted,  \* _expires_at - monotonic(), or NoToken
          alive,          \* history: what is left of the cached value's life
          holder,         \* who holds the lock, or Nobody
          sender          \* request -> where it stands

serviceToken == <<tokensCounted, alive, holder, sender>>

NoToken == -SlowestGrant - 1
Nobody == 0
Longest == Max(Lifetimes)

Quiet(at) == [at |-> at, took |-> 0, issued |-> 0, left |-> 0]

TokenInit ==
  /\ tokensCounted = NoToken /\ alive = 0 /\ holder = Nobody
  /\ sender = [s \in Senders |-> Quiet("idle")]

Cached == tokensCounted # NoToken
Usable == Cached /\ tokensCounted > Margin

\* The caller is handed the cached value, with what is left of its life.
Served(s, fast) ==
  sender' = [sender EXCEPT ![s] = [Quiet(IF fast THEN "fast" ELSE "kept") EXCEPT !.left = alive]]

\* token(): the value, if it is not about to expire, or the lock.
Want(s) ==
  /\ sender[s].at = "idle"
  /\ IF Usable THEN Served(s, TRUE)
               ELSE sender' = [sender EXCEPT ![s] = Quiet("lock")]
  /\ UNCHANGED <<tokensCounted, alive, holder>>

\* The lock is taken and, if another request refreshed meanwhile, given back.
Acquire(s) ==
  /\ sender[s].at = "lock" /\ holder = Nobody
  /\ IF Usable THEN Served(s, TRUE) /\ UNCHANGED holder
               ELSE sender' = [sender EXCEPT ![s] = Quiet("fetch")] /\ holder' = s
  /\ UNCHANGED <<tokensCounted, alive>>

\* The provider issues a token, and its life begins.
Issue(s) ==
  /\ sender[s].at = "fetch"
  /\ \E life \in Lifetimes :
       sender' = [sender EXCEPT ![s] = [@ EXCEPT !.at = "issued", !.issued = life, !.left = life]]
  /\ UNCHANGED <<tokensCounted, alive, holder>>

\* The response is read: a lifetime that is absurd is an error, and what was
\* cached stays.
Refreshed(s) ==
  /\ sender[s].at = "issued"
  /\ holder' = Nobody
  /\ IF sender[s].issued < Shortest
     THEN /\ sender' = [sender EXCEPT ![s] = Quiet("error")]
          /\ UNCHANGED <<tokensCounted, alive>>
     ELSE /\ tokensCounted' = sender[s].issued
          /\ alive' = sender[s].left
          /\ sender' = [sender EXCEPT ![s] = [Quiet("fresh") EXCEPT !.left = alive']]

\* No token in the response, or no lifetime: an error all the same.
Malformed(s) ==
  /\ sender[s].at = "fetch"
  /\ holder' = Nobody
  /\ sender' = [sender EXCEPT ![s] = Quiet("error")]
  /\ UNCHANGED <<tokensCounted, alive>>

\* Mutant: a failed refresh serves whatever is cached.
StillCurrentAlways == Cached

StillCurrent == Cached /\ tokensCounted > 0

\* The fetch raises: the current value serves as long as it has not expired.
RefreshFails(s) ==
  /\ sender[s].at \in {"fetch", "issued"}
  /\ holder' = Nobody
  /\ IF StillCurrent THEN Served(s, FALSE)
                     ELSE sender' = [sender EXCEPT ![s] = Quiet("error")]
  /\ UNCHANGED <<tokensCounted, alive>>

\* The request is cancelled: async with gives the lock back.
GivesUp(s) ==
  /\ sender[s].at \in {"lock", "fetch", "issued"}
  /\ holder' = IF holder = s THEN Nobody ELSE holder
  /\ sender' = [sender EXCEPT ![s] = Quiet("idle")]
  /\ UNCHANGED <<tokensCounted, alive>>

Fetching(s) == sender[s].at \in {"fetch", "issued"}
Less(n, least) == IF n > least THEN n - 1 ELSE n

\* Time passes; those that were answered have gone.
Elapses ==
  /\ \A s \in Senders : Fetching(s) => sender[s].took < SlowestGrant
  /\ tokensCounted' = IF Cached THEN Less(tokensCounted, -SlowestGrant) ELSE tokensCounted
  /\ alive' = Less(alive, -SlowestGrant)
  /\ sender' = [s \in Senders |->
       IF Fetching(s) THEN [sender[s] EXCEPT !.took = @ + 1, !.left = Less(@, -SlowestGrant)]
       ELSE IF sender[s].at = "lock" THEN sender[s] ELSE Quiet("idle")]
  /\ UNCHANGED holder

SenderStep(s) ==
  \/ Want(s) \/ Acquire(s) \/ Issue(s) \/ Refreshed(s) \/ Malformed(s)
  \/ RefreshFails(s) \/ GivesUp(s)

TokenNext == Elapses \/ \E s \in Senders : SenderStep(s)
TokenSpec == TokenInit /\ [][TokenNext]_serviceToken

-----------------------------------------------------------------------------
TokenTypeOK ==
  /\ tokensCounted \in NoToken..Longest /\ alive \in -SlowestGrant..Longest
  /\ holder \in Senders \cup {Nobody}
  /\ \A s \in Senders :
       /\ sender[s].at \in {"idle", "lock", "fetch", "issued", "fast", "fresh", "kept", "error"}
       /\ sender[s].took \in 0..SlowestGrant

\* "one refresh at a time": the lock is held by exactly those that fetch, so at
\* most one, and none fetches while there is a value that need not be replaced.
OneRefresh ==
  \A s \in Senders : Fetching(s) <=> holder = s
NoWastedRefresh ==
  \A s \in Senders : Fetching(s) => ~Usable

\* "refreshed before expiry", "rather than sending a credential known to be
\* dead": what is handed out is alive at the provider with more than the margin
\* left, less the time a fetch may take; through an outage it is alive or died
\* within that time; a fresh one, whatever its response took.
HandedOutAlive ==
  \A s \in Senders :
    /\ sender[s].at = "fast" => sender[s].left > Margin - SlowestGrant
    /\ sender[s].at = "kept" => sender[s].left > -SlowestGrant
    /\ sender[s].at = "fresh" => sender[s].left >= Shortest - SlowestGrant

CredentialIsGood == OneRefresh /\ NoWastedRefresh /\ HandedOutAlive
=============================================================================
