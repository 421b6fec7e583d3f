------------------------------ MODULE Passcode ------------------------------
(***************************************************************************)
(* The four-digit passcode of one account: concurrent authenticate calls    *)
(* (api/routes/customers.py) over the attempt counter and the lockout that  *)
(* record_passcode_attempt keeps (repositories/mongo/customers.py).         *)
(*                                                                         *)
(* A call takes the time, reads the account, checks the lockout it read and *)
(* only then counts its attempt; other calls, and time, go on in between.   *)
(* Instants are kept as distances from the present: until is locked_until,  *)
(* age the time since a call's now.  How a call records its outcome is the   *)
(* subject of WritePath; here it only takes time.                           *)
(***************************************************************************)
EXTENDS Integers, FiniteSets

CONSTANTS Askers,       \* concurrent authenticate calls
          MaxAttempts,  \* passcode_max_attempts
          Lockout,      \* passcode_lockout_s
          SlowestHash   \* bound: the time a call may take before its answer

ASSUME PasscodeAssumption ==
  /\ IsFiniteSet(Askers) /\ Askers # {}
  /\ MaxAttempts \in Nat \ {0}
  /\ Lockout \in Nat /\ SlowestHash \in Nat
  /\ SlowestHash < Lockout

VARIABLES failed,  \* passcode.failed_attempts, counted up to MaxAttempts + 1
          until,   \* passcode.locked_until, from the present; or NeverLocked
          ask,     \* call -> where it stands, and the age of its now
          calm,    \* history: time since the last wrong attempt was counted
          under    \* history: attempts counted since the account was locked

NeverLocked == -SlowestHash - 1
passcode == <<failed, until, ask, calm, under>>

AskStages == {"idle", "read", "count", "record"}
Locked == until > 0
Least(a, b) == IF a < b THEN a ELSE b
NotAsking == [at |-> "idle", age |-> 0]

PasscodeInit ==
  /\ failed = 0 /\ until = NeverLocked
  /\ ask = [c \in Askers |-> NotAsking]
  /\ calm = Lockout /\ under = 0

At(c, stage) == ask' = [ask EXCEPT ![c].at = stage]

AskPasscode(c) ==
  /\ ask[c].at = "idle"
  /\ ask' = [ask EXCEPT ![c] = [at |-> "read", age |-> 0]]
  /\ UNCHANGED <<failed, until, calm, under>>

\* check_lockout: locked_until > now, on the account as read and the call's now.
InForce(c) == until # NeverLocked /\ until + ask[c].age > 0

\* The account is read; a call for an unknown customer is recorded and refused,
\* and a call that finds a lockout in force is refused.
ReadCustomer(c) ==
  /\ ask[c].at = "read"
  /\ \/ ~InForce(c) /\ At(c, "count")
     \/ InForce(c) /\ ask' = [ask EXCEPT ![c] = NotAsking]
     \/ At(c, "record")
  /\ UNCHANGED <<failed, until, calm, under>>

\* Mutant: the account locks at the limit, and not beyond it.
LockAtLimitOnly(n, c) == IF n = MaxAttempts THEN Lockout - ask[c].age ELSE NeverLocked

\* The pipeline update decides the lockout from the count it has just written.
LockAfter(n, c) == IF n >= MaxAttempts THEN Lockout - ask[c].age ELSE NeverLocked

CountRight(c) ==
  /\ ask[c].at = "count"
  /\ failed' = 0 /\ until' = NeverLocked
  /\ ask' = [ask EXCEPT ![c] = NotAsking]
  /\ under' = 0
  /\ UNCHANGED calm

CountWrong(c) ==
  /\ ask[c].at = "count"
  /\ failed' = Least(failed + 1, MaxAttempts + 1)
  /\ until' = LockAfter(failed + 1, c)
  /\ At(c, "record")
  /\ calm' = 0
  /\ under' = IF Locked THEN under + 1 ELSE 0

\* The audit record, AUTHENTICATION_FAILED and, if the attempt left a lock,
\* ACCOUNT_LOCKED; then the one error a caller ever sees.
RecordAttempt(c) ==
  /\ ask[c].at = "record"
  /\ ask' = [ask EXCEPT ![c] = NotAsking]
  /\ UNCHANGED <<failed, until, calm, under>>

Pass ==
  /\ \A c \in Askers : ask[c].at # "idle" => ask[c].age < SlowestHash
  /\ until' = IF until = NeverLocked THEN NeverLocked
              ELSE IF until > -SlowestHash THEN until - 1 ELSE until
  /\ ask' = [c \in Askers |->
       IF ask[c].at = "idle" THEN ask[c] ELSE [ask[c] EXCEPT !.age = @ + 1]]
  /\ calm' = Least(calm + 1, Lockout)
  /\ UNCHANGED <<failed, under>>

AskerStep(c) ==
  AskPasscode(c) \/ ReadCustomer(c) \/ CountRight(c) \/ CountWrong(c) \/ RecordAttempt(c)
PasscodeNext == Pass \/ \E c \in Askers : AskerStep(c)
PasscodeSpec == PasscodeInit /\ [][PasscodeNext]_passcode

-----------------------------------------------------------------------------
PasscodeTypeOK ==
  /\ failed \in 0..MaxAttempts + 1
  /\ until \in NeverLocked..Lockout
  /\ ask \in [Askers -> [at : AskStages, age : 0..SlowestHash]]
  /\ calm \in 0..Lockout
  /\ under \in 0..Cardinality(Askers)

\* passcode.py:10 "attempts are counted atomically and the account locks at the
\* limit": once the limit is reached an account opens only by a right passcode or
\* when the lockout has run its course, less the time a slow call held its now;
\* and the attempts that slip past a lock are those in flight when it fell.
LockoutHolds ==
  /\ failed >= MaxAttempts /\ ~Locked => calm >= Lockout - SlowestHash
  /\ under < Cardinality(Askers)
=============================================================================
