----------------------------- MODULE Credentials -----------------------------
(***************************************************************************)
(* The two caches by which the services know one another: the signing keys *)
(* a token is verified with, and the credential that the tools server      *)
(* presents.  They share no state; each is a component of its own.         *)
(***************************************************************************)
EXTENDS SigningKeys, ServiceToken

CredentialsSpec == KeysSpec /\ TokenSpec

\* Neither cache outlives what it holds, for what it costs to fetch anew: keys that
\* are withdrawn expire although an outage is bridged, and what is handed out as a
\* credential is alive (security/verifier.py:10-11, security/service_token.py:15-22).
CredentialsHold == KeysHold /\ CredentialIsGood
=============================================================================
