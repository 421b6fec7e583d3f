----------------------------- MODULE ToolClient -----------------------------
(***************************************************************************)
(* The tools client (telecom_mcp_client): one session, tool calls with      *)
(* bounded retries over a connection that may break, and a tools server     *)
(* that goes on working on what it received.                               *)
(*                                                                         *)
(* A call makes up to MaxRetries requests, one after another; a request the *)
(* client has given up may still be on its way or being worked on.  Writes  *)
(* carry an idempotency key, which the server keeps; the middleware, which   *)
(* does the writes, does a key's write once however often it is asked.  A    *)
(* request of the server to the middleware may still be carried out when the *)
(* server has given it up.                                                   *)
(***************************************************************************)
EXTENDS Integers, FiniteSets

CONSTANTS ClientCalls,  \* call_tool invocations of one client, concurrent or not
          ClientKeys,   \* idempotency keys the callers use
          MaxRetries    \* max_retries: requests a call makes at most

ASSUME ToolClientAssumption == MaxRetries \in Nat \ {0}

VARIABLES session,   \* where the handshake stands
          asking,    \* call -> [at, key, attempt], at also being its outcome
          request,   \* call -> attempt -> where the request stands
          keyState,  \* key -> "free", "held" by a request, or "done"
          wire,      \* requests whose write the middleware may yet carry out
          landed,    \* requests whose write it carried out, or found done
          broke      \* history: call -> how each of its attempts ended

toolClient == <<session, asking, request, keyState, wire, landed, broke>>

ReadOnly == "read"     \* the key of a read-only tool
Attempts == 1..MaxRetries
Outcomes == {"ok", "refused", "transport_error", "timeout", "malformed_response"}

ClientInit ==
  /\ session = "new"
  /\ asking = [c \in ClientCalls |-> [at |-> "idle", key |-> ReadOnly, attempt |-> 0]]
  /\ request = [c \in ClientCalls |-> [n \in Attempts |-> "unsent"]]
  /\ keyState = [k \in ClientKeys |-> "free"]
  /\ wire = {} /\ landed = {}
  /\ broke = [c \in ClientCalls |-> [n \in Attempts |-> "none"]]

IsReadOnly(c) == asking[c].key = ReadOnly
Current(c) == request[c][asking[c].attempt]

\* initialize, then the notification; whatever the server says to the latter is
\* not looked at, as long as it answers.
Initialize ==
  /\ session = "new"
  /\ session' \in {"new", "notify"}
  /\ UNCHANGED <<asking, request, keyState, wire, landed, broke>>

Initialized ==
  /\ session = "notify"
  /\ session' \in {"new", "ready"}
  /\ UNCHANGED <<asking, request, keyState, wire, landed, broke>>

\* _require_initialized raises; otherwise the first request is sent.
CallTool(c, k) ==
  /\ asking[c].at = "idle"
  /\ IF session = "ready"
     THEN /\ asking' = [asking EXCEPT ![c] = [at |-> "waiting", key |-> k, attempt |-> 1]]
          /\ request' = [request EXCEPT ![c][1] = "sent"]
     ELSE /\ asking' = [asking EXCEPT ![c].at = "raised"]
          /\ UNCHANGED request
  /\ UNCHANGED <<session, keyState, wire, landed, broke>>

\* Mutant: a timeout is retried whatever the tool.
ShouldRetryAnything(c, outcome) ==
  asking[c].attempt < MaxRetries /\ outcome \in {"transport_error", "timeout"}

ShouldRetry(c, outcome) ==
  /\ asking[c].attempt < MaxRetries
  /\ \/ outcome = "transport_error"
     \/ outcome = "timeout" /\ IsReadOnly(c)

\* _call_tool_once returned outcome.
Conclude(c, outcome) ==
  /\ asking' = [asking EXCEPT ![c].at = IF ShouldRetry(c, outcome) THEN "backoff" ELSE outcome]
  /\ broke' = [broke EXCEPT ![c][asking[c].attempt] = outcome]
  /\ UNCHANGED <<session, request, keyState, wire, landed>>

\* Answers of the server that are a refusal to the client.
ErrorAnswers == {"rejected", "withheld", "failed", "crashed"}

Answered(c) ==
  /\ asking[c].at = "waiting"
  /\ \/ Current(c) = "ran" /\ Conclude(c, "ok")
     \/ Current(c) \in ErrorAnswers /\ Conclude(c, "refused")

\* The connection breaks, or something on the way answers 429 or 5xx; the wait
\* is over; or what arrives is a redirect or no message.  The request is where
\* it is.
AttemptFails(c) ==
  /\ asking[c].at = "waiting"
  /\ \E outcome \in {"transport_error", "timeout", "malformed_response"} : Conclude(c, outcome)

Resend(c) ==
  /\ asking[c].at = "backoff"
  /\ asking' = [asking EXCEPT ![c].at = "waiting", ![c].attempt = @ + 1]
  /\ request' = [request EXCEPT ![c][asking[c].attempt + 1] = "sent"]
  /\ UNCHANGED <<session, keyState, wire, landed, broke>>

-----------------------------------------------------------------------------
(* The network and the tools server                                        *)

RequestLost(c, n) ==
  /\ request[c][n] = "sent"
  /\ request' = [request EXCEPT ![c][n] = "lost"]
  /\ UNCHANGED <<session, asking, keyState, wire, landed, broke>>

\* What the output guardrail makes of a result, fresh or stored.
Checked == {"ran", "withheld"}

\* The server refuses the caller or the arguments; or it starts the tool, under
\* the key of a write: one that is held is refused, one that is done replayed.
ServerReceives(c, n) ==
  /\ request[c][n] = "sent"
  /\ \/ /\ request' = [request EXCEPT ![c][n] = "rejected"]
        /\ UNCHANGED <<keyState, wire>>
     \/ /\ IsReadOnly(c)
        /\ request' = [request EXCEPT ![c][n] = "working"]
        /\ UNCHANGED <<keyState, wire>>
     \/ /\ ~IsReadOnly(c) /\ keyState[asking[c].key] = "free"
        /\ request' = [request EXCEPT ![c][n] = "working"]
        /\ keyState' = [keyState EXCEPT ![asking[c].key] = "held"]
        /\ wire' = wire \cup {<<c, n>>}
     \/ /\ ~IsReadOnly(c) /\ keyState[asking[c].key] = "done"
        /\ \E end \in Checked : request' = [request EXCEPT ![c][n] = end]
        /\ UNCHANGED <<keyState, wire>>
  /\ UNCHANGED <<session, asking, landed, broke>>

\* The middleware carries out a write, whoever still waits for it.
LandWrite(c, n) ==
  /\ <<c, n>> \in wire
  /\ wire' = wire \ {<<c, n>>}
  /\ landed' = landed \cup {<<c, n>>}
  /\ UNCHANGED <<session, asking, request, keyState, broke>>

IsWritten(k) == \E r \in landed : asking[r[1]].key = k

\* What the executor makes of the key: done once the backend answered, free again
\* after an error of the taxonomy, as it was when anything else went wrong.
KeyAfter(end, held) ==
  IF end \in Checked THEN "done" ELSE IF end = "failed" THEN "free" ELSE held

\* The executor answers.  "withheld": the write was done and the output guardrail
\* blocked its result.  "failed": shed, refused by the backend, or given up, done
\* or not.  What it gave up the middleware may carry out later, or never get.
CallOver(c, n) ==
  /\ request[c][n] = "working"
  /\ \E end \in Checked \cup {"failed", "crashed"} :
       /\ request' = [request EXCEPT ![c][n] = end]
       /\ \/ IsReadOnly(c) /\ UNCHANGED <<keyState, wire>>
          \/ /\ ~IsReadOnly(c)
             /\ end \in Checked => IsWritten(asking[c].key)
             /\ keyState' = [keyState EXCEPT ![asking[c].key] = KeyAfter(end, @)]
             /\ wire' \in {wire, wire \ {<<c, n>>}}
  /\ UNCHANGED <<session, asking, landed, broke>>

ClientNext ==
  \/ Initialize \/ Initialized
  \/ \E c \in ClientCalls :
       \/ \E k \in ClientKeys \cup {ReadOnly} : CallTool(c, k)
       \/ Answered(c) \/ AttemptFails(c) \/ Resend(c)
       \/ \E n \in Attempts : RequestLost(c, n) \/ ServerReceives(c, n) \/ CallOver(c, n)
                              \/ LandWrite(c, n)
ClientSpec == ClientInit /\ [][ClientNext]_toolClient

-----------------------------------------------------------------------------
ClientTypeOK ==
  /\ session \in {"new", "notify", "ready"}
  /\ asking \in [ClientCalls -> [at : {"idle", "waiting", "backoff", "raised"} \cup Outcomes,
                                key : ClientKeys \cup {ReadOnly}, attempt : 0..MaxRetries]]
  /\ keyState \in [ClientKeys -> {"free", "held", "done"}]
  /\ wire \cup landed \subseteq ClientCalls \X Attempts

Loose(c) == {n \in Attempts : request[c][n] \in {"sent", "working"}}
Ran(c) == {n \in Attempts : request[c][n] = "ran"}

\* Requests of a call that did something, or may yet.
Acting(c) == Loose(c) \cup {n \in Attempts : <<c, n>> \in wire \cup landed}

\* models.py:20-47, as far as it goes.  OK: the tool ran, and a write is done.
\* REFUSED: nothing of a write is done or under way, unless the executor answered
\* an error for work it had started, or an earlier request was taken for one that
\* never reached the server.  A request whose answer was not awaited is followed by
\* another only for a read.
OutcomesAreTrue ==
  \A c \in ClientCalls :
    /\ asking[c].at = "ok" => Ran(c) # {} /\ (IsReadOnly(c) \/ IsWritten(asking[c].key))
    /\ asking[c].at = "refused" /\ ~IsReadOnly(c) =>
         \/ Acting(c) = {}
         \/ Current(c) \in {"withheld", "failed", "crashed"}
         \/ \E n \in Attempts : n < asking[c].attempt /\ broke[c][n] = "transport_error"
    /\ asking[c].at \in Outcomes /\ ~IsReadOnly(c) =>
         \A n \in Acting(c) : n < asking[c].attempt => broke[c][n] = "transport_error"
=============================================================================
