----------------------------- MODULE MCGateway -----------------------------
(* Instances of Gateway for TLC.                                           *)
EXTENDS Gateway, TLC
CONSTANTS c1, c2, c3, k1

\* Two bodies under one key, a refund under it, and an unkeyed read.
EveryWant == {[tool |-> "read", key |-> None, body |-> "x"]}
             \cup [tool : {"write"}, key : {k1}, body : {"x", "y"}]
             \cup [tool : {"refund"}, key : {k1}, body : {"x"}]

Symmetric == Permutations(Calls)

\* Three calls over Redis, two over the in-memory store, and two where a call is
\* lost to a rare fault, that is, without being cancelled.
RareFault == \E c \in lost : pc[c] = "done"
Started == {c \in Calls : pc[c] # "idle"}
MixedNext == /\ Next
             /\ RareFault' \/ store = "memory" => Cardinality(Started') <= 2
MixedSpec == Init /\ [][MixedNext]_gateway
=============================================================================
