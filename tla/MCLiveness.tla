---------------------------- MODULE MCLiveness ----------------------------
(* What must eventually happen in the write path, in real-time delivery and *)
(* in the tools server, each on a small instance.  The three share no state *)
(* here: a behaviour is one component's, named by "part", the others keep   *)
(* their first state, and each is given its own fairness.                   *)
EXTENDS MCWritePath

CONSTANTS Replicas, Clients, QueueSize, ReplayLimit, BatchSize, MaxSubscribers, MaxEvents,
          MaxFaults, DeliveryFaults,
          ToolCalls, Threshold, ResetTimeout, Timeout, Attempts, Delays, ToolKeys, ToolBodies,
          Stores, Slots, Allowance, ToolFaults

VARIABLES part,
          counter, drawn, log, published, token, watch, relay, conn, got, last, strikes, since,
          excused,
          failures, opened, probing, attempt, abandoned, entry, seen, fallback, backing,
          stage, want, free, spent, charged, wire, effect, written, told, lost

Delivery == INSTANCE Realtime WITH Faults <- DeliveryFaults

ToolWants ==
  {[tool |-> "read", key |-> None, body |-> "x"]} \cup
  [tool : {"write", "refund"}, key : ToolKeys, body : {"x"}]

Tools == INSTANCE Gateway WITH
  Calls <- ToolCalls, Keys <- ToolKeys, Bodies <- ToolBodies, Faults <- ToolFaults,
  Wants <- ToolWants, store <- backing, pc <- stage, audit <- written, answer <- told

delivery == <<counter, drawn, log, published, token, watch, relay, conn, got, last, strikes,
              since, excused>>
tools == <<failures, opened, probing, attempt, abandoned, entry, seen, fallback, backing,
           stage, want, free, spent, charged, wire, effect, written, told, lost>>
all == <<part, vars, delivery, tools>>

EveryInit == /\ part \in {"writes", "delivery", "tools"}
             /\ Init /\ Delivery!Init
             /\ Tools!Init /\ (part # "tools" => backing = "memory")

WritesStep == part = "writes" /\ Next /\ UNCHANGED <<part, delivery, tools>>
DeliveryStep == part = "delivery" /\ Delivery!Next /\ UNCHANGED <<part, vars, tools>>
ToolsStep == part = "tools" /\ Tools!Next /\ UNCHANGED <<part, vars, delivery>>

\* The fairness of WritePath!FairSpec, Realtime!FairSpec and Gateway!FairSpec.
Fairness ==
  /\ \A r \in Requests : WF_vars(part = "writes" /\ Step(r))
  /\ \A p \in Replicas : /\ WF_delivery(part = "delivery" /\ Delivery!Watch(p))
                         /\ WF_delivery(part = "delivery" /\ Delivery!Relay(p))
  /\ \A c \in Clients : WF_delivery(part = "delivery" /\ Delivery!Serve(c))
  /\ \A c \in ToolCalls : WF_tools(part = "tools" /\ Tools!CallStep(c))
  /\ WF_tools(part = "tools" /\ Tools!Clock)

EverySpec ==
  EveryInit /\ [][WritesStep \/ DeliveryStep \/ ToolsStep]_all /\ Fairness

\* Every event in the outbox comes to be relayed (Realtime).
OutboxDrains == Delivery!OutboxDrains

\* A subscriber in the broker's set catches up (Realtime).
SubscribersCatchUp == Delivery!SubscribersCatchUp

\* Every tool call ends (Gateway).
EveryCallEnds == Tools!EveryCallEnds

\* A breaker that refuses everybody comes to admit a call (Breaker).
BreakerRecovers == Tools!BreakerRecovers
===========================================================================
