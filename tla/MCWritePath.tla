---------------------------- MODULE MCWritePath ----------------------------
(* Instances of WritePath, and of its refinement of Ledger, for TLC.        *)
EXTENDS WriteLedger, TLC

CONSTANTS r1, r2, r3, r4, k1, alice, bob, carol, dana

\* alice is the customer, bob an agent, carol and dana supervisors, who may decide
\* refunds and assign accounts; carol asked for the refund.
Create(actor, k, b, v) ==
  [kind |-> "create", actor |-> actor, key |-> k, body |-> b, valid |-> v]
Decide(actor, d) == [kind |-> "decide", actor |-> actor, body |-> d]
Assign(agent) == [kind |-> "assign", actor |-> carol, body |-> agent]
Revoke(agent) == [kind |-> "revoke", actor |-> carol, body |-> agent]
Authenticate(actor, outcome) ==
  [kind |-> "authenticate", actor |-> actor, body |-> outcome]

\* Every handler.
EveryCall ==
  {Create(bob, k1, "ticket", TRUE), Decide(dana, "approved"), Decide(dana, "rejected"),
   Decide(carol, "approved"), Assign(bob), Revoke(bob),
   Authenticate(bob, "match"), Authenticate(bob, "lockout")}

\* Only keyed creations: the key's whole life, with every fault.
KeyedCalls ==
  {Create(alice, k1, b, v) : b \in {"ticket", "other"}, v \in BOOLEAN}

\* Every handler, and a keyed creation that releases its key.
WaitingCalls == EveryCall \cup {Create(bob, k1, "refund", FALSE)}

\* A decision and an assignment.
SupervisorCalls == {Decide(dana, "approved"), Assign(bob)}

\* The mixes the safety run takes: every handler with errors of the database, the
\* supervisors' transactions with lost acknowledgements besides, or
\* keyed creations with the faults of a key's life.
SafeCalls == EveryCall \cup KeyedCalls
EveryHandler == INSTANCE WritePath WITH Calls <- EveryCall, Faults <- {"store"}
EverySupervisor == INSTANCE WritePath WITH
  Calls <- SupervisorCalls, Faults <- {"lost_commit"}
EveryKeyFault == INSTANCE WritePath WITH
  Calls <- KeyedCalls, Faults <- {"crash", "lost_commit", "sweep"}

Mix(calls) == \A r \in Requests : call[r] \in calls \cup {None}
EitherNext == \/ Mix(EveryCall) /\ EveryHandler!Next
              \/ Mix(SupervisorCalls) /\ EverySupervisor!Next
              \/ Mix(KeyedCalls) /\ EveryKeyFault!Next
EitherSpec == Init /\ [][EitherNext]_vars

RevokeCalls == {Revoke(bob), Assign(bob)}

Symmetric == Permutations(Requests)
=============================================================================
