--------------------------- MODULE RecoveryExecution ---------------------------
(***************************************************************************)
(* SafeRecoveryExecutionService.execute_recovery_attempt                   *)
(* (app/execution/service.py) for one payment and its RecoveryCase, run by *)
(* any number of concurrent workers: the Redis lock with owner token and   *)
(* TTL, the reads of the payment and the case, the boundary checks, the    *)
(* transaction that claims the case and reserves the attempt, the call to  *)
(* the payment provider, the commit of its outcome, the events published   *)
(* after the commit, and the release of the lock in the finally block.     *)
(*                                                                         *)
(* Each await of the code is a step, so other workers, crashes and the     *)
(* lock's TTL come between any two of them.  The database is PostgreSQL    *)
(* under READ COMMITTED: a worker's writes are seen by others only after   *)
(* its commit, and the UPDATE of the case row (service.py:343) waits while *)
(* another open transaction has updated it.  The orchestrator is the other *)
(* writer of that row: it plans a further failure of the payment without   *)
(* the lock in Redis, and so between any two steps of an execution.        *)
(***************************************************************************)
EXTENDS Integers, Sequences, FiniteSets, RecoveryStates, RetryPolicy

CONSTANTS
  Workers,          \* executions running concurrently (processes or tasks)
  LastAttempt,      \* attempt numbers are 1..LastAttempt
  MaxRetries,       \* merchant.max_auto_retries
  InitialRequests,  \* attempt numbers the orchestrator asked to execute
  PolicyVerdicts,   \* what the policy engine may answer; {} without an engine
  Replans,          \* recovery states the planning of a further failure commits
  LostAnswers,      \* may a debit be answered by a timeout or an exception?
  EarlyExpiry,      \* may the lock's TTL elapse while its owner still runs?
  FaultPoints,      \* values of pc at which a crash or an exception may hit
  MaxFaults,        \* bound on crashes and exceptions (model checking)
  Free              \* the lock, or the row lock, has no owner

Attempts == 1..LastAttempt

Verdict == { "PERMITTED", "DENIED", "REQUIRES_HUMAN_APPROVAL" }

PC == { "idle", "loadPayment", "loadCase", "check", "judge", "stop", "escalate",
        "claim", "reserve", "call", "settle", "publish", "release", "close" }

ASSUME ExecutionAssumption ==
  /\ Free \notin Workers
  /\ LastAttempt \in Nat
  /\ MaxRetries \in 0..LastAttempt
  /\ InitialRequests \subseteq Attempts
  /\ PolicyVerdicts \subseteq Verdict
  /\ Replans \subseteq { "APPROVED", "STOPPED", "ESCALATED" }
  /\ LostAnswers \in BOOLEAN
  /\ EarlyExpiry \in BOOLEAN
  /\ FaultPoints \subseteq PC
  /\ MaxFaults \in Nat

VARIABLES
  lock,         \* Redis: the worker whose token the key holds, or Free
  caseRow,      \* PostgreSQL: the worker whose open transaction updated the case
  payment,      \* committed Payment.status, "ABSENT" if there is no such row
  caseState,    \* committed RecoveryCase.recovery_state, or "ABSENT"
  attemptCount, \* committed RecoveryCase.attempt_count
  ended,        \* history: an execution closed the case, and no planning has
                \* opened it since
  rows,         \* committed PaymentAttempt row of each attempt number
  enabled,      \* merchant.recovery_enabled
  calls,        \* provider calls made with the key of each attempt number
  charges,      \* provider calls that debited the customer
  published,    \* events published on payment.events
  faults,       \* crashes and exceptions so far
  pc, attempt, seenPayment, seenCase, reply, outbox, result
                \* each worker's position, argument, local reads, the
                \* provider's outcome, events still to publish, last return

store   == <<payment, caseState, attemptCount, rows, ended>>
gateway == <<calls, charges>>
world   == <<enabled>>
locals  == <<attempt, seenPayment, seenCase, reply, outbox, result>>
vars    == <<lock, caseRow, store, gateway, world, published, faults, pc, locals>>

-------------------------------------------------------------------------------
(* Vocabulary *)

\* ProviderOutcome, and "ERROR" for any other exception of the provider.
Outcome == { "SUCCESS", "FAILURE", "TIMEOUT", "DUPLICATE_REQUEST", "UNAVAILABLE",
             "ERROR" }

\* The error code the executor derives from an outcome that is not a success.
FailureCode ==
  [ FAILURE           |-> "INSUFFICIENT_FUNDS",
    TIMEOUT           |-> "GATEWAY_TIMEOUT",
    UNAVAILABLE       |-> "DOWNSTREAM_503",
    DUPLICATE_REQUEST |-> "DUPLICATE_IDEMPOTENCY_KEY",
    ERROR             |-> "UNKNOWN_ERROR" ]

\* A committed PaymentAttempt row: written by the payment service without an
\* idempotency key, or by the executor with one.  A failed attempt and its
\* PaymentFailure are one transaction; the status carries its "recoverable".
KeyedRow == { "SUCCESS", "FAILED_RECOVERABLE", "FAILED_FINAL" }
Row      == { "NONE", "UNKEYED" } \cup KeyedRow

\* ExecutionStatus, "RAISED" when the call ended in an exception.
Result == { "NONE", "SUCCESS", "RETRY_SCHEDULED", "STOPPED", "LOCK_CONTENTION",
            "DUPLICATE_EXECUTION_BLOCKED", "ALREADY_COMPLETED", "ERROR", "RAISED" }

EventType == { "payment.succeeded", "recovery.completed", "payment.retry_requested",
               "recovery.failed", "recovery.stopped" }
Event == [type : EventType, attempt : Nat]
Ev(type, n) == [type |-> type, attempt |-> n]

\* A request may be delivered at any time, late and more than once.
Requested(n) ==
  n \in InitialRequests \/ Ev("payment.retry_requested", n) \in published

Idle(w) == pc[w] = "idle"

Goto(w, from, to) == pc[w] = from /\ pc' = [pc EXCEPT ![w] = to]

Return(w, from, status) ==
  /\ Goto(w, from, "release")
  /\ result' = [result EXCEPT ![w] = status]

\* Mutant: the transaction is left open when the call is over.
EndTransaction_Leaked(w) == caseRow' = caseRow

\* A commit or a rollback releases the row lock of the transaction.
EndTransaction(w) == caseRow' = IF caseRow = w THEN Free ELSE caseRow

-------------------------------------------------------------------------------
(* Initial states: the payment failed or is in flight, the case is approved *)
(* or not yet planned, the payment service may have recorded attempts.      *)

Init ==
  /\ lock = Free /\ caseRow = Free
  /\ payment \in { "FAILED", "PROCESSING", "ABSENT" }
  /\ caseState \in { "APPROVED", "FAILED", "ABSENT" }
  /\ rows \in [Attempts -> { "NONE", "UNKEYED" }]
  /\ payment = "ABSENT" => /\ caseState = "ABSENT"
                           /\ \A n \in Attempts : rows[n] = "NONE"
  /\ attemptCount = 0 /\ ended = FALSE
  /\ enabled = TRUE
  /\ calls = [n \in Attempts |-> 0] /\ charges = 0
  /\ published = {} /\ faults = 0
  /\ pc = [w \in Workers |-> "idle"]
  /\ attempt = [w \in Workers |-> 0]
  /\ seenPayment = [w \in Workers |-> "ABSENT"]
  /\ seenCase = [w \in Workers |-> "ABSENT"]
  /\ reply = [w \in Workers |-> "SUCCESS"]
  /\ outbox = [w \in Workers |-> <<>>]
  /\ result = [w \in Workers |-> "NONE"]

-------------------------------------------------------------------------------
(* One execution, step by step *)

\* Mutant: SET without NX.
Acquire_Overwriting(w, n) ==
  /\ Requested(n)
  /\ lock' = w
  /\ Goto(w, "idle", "loadPayment")
  /\ attempt' = [attempt EXCEPT ![w] = n]
  /\ result' = [result EXCEPT ![w] = "NONE"]
  /\ UNCHANGED <<caseRow, store, gateway, world, published, faults,
                 seenPayment, seenCase, reply, outbox>>

\* Step 1: SET NX PX succeeds.
Acquire(w, n) ==
  /\ Requested(n)
  /\ lock = Free
  /\ lock' = w
  /\ Goto(w, "idle", "loadPayment")
  /\ attempt' = [attempt EXCEPT ![w] = n]
  /\ result' = [result EXCEPT ![w] = "NONE"]
  /\ UNCHANGED <<caseRow, store, gateway, world, published, faults,
                 seenPayment, seenCase, reply, outbox>>

\* Step 1: the key is held, by another call or by one that died.
Contend(w, n) ==
  /\ Requested(n)
  /\ lock # Free /\ Idle(w)
  /\ result' = [result EXCEPT ![w] = "LOCK_CONTENTION"]
  /\ UNCHANGED <<lock, caseRow, store, gateway, world, published, faults, pc,
                 attempt, seenPayment, seenCase, reply, outbox>>

\* Step 2: read the payment.
LoadPayment(w) ==
  /\ seenPayment' = [seenPayment EXCEPT ![w] = payment]
  /\ \/ payment # "ABSENT" /\ Goto(w, "loadPayment", "loadCase") /\ UNCHANGED result
     \/ payment = "ABSENT" /\ Return(w, "loadPayment", "ERROR")
  /\ UNCHANGED <<lock, caseRow, store, gateway, world, published, faults,
                 attempt, seenCase, reply, outbox>>

\* Mutant: a session that already holds the case answers from its identity map.
LoadCase_Cached(w) ==
  /\ seenCase' = [seenCase EXCEPT ![w] = "APPROVED"]
  /\ Goto(w, "loadCase", "check")
  /\ UNCHANGED <<lock, caseRow, store, gateway, world, published, faults,
                 attempt, seenPayment, reply, outbox, result>>

\* Step 2: read the case, in a statement of its own.
LoadCase(w) ==
  /\ seenCase' = [seenCase EXCEPT ![w] = caseState]
  /\ \/ caseState # "ABSENT" /\ Goto(w, "loadCase", "check") /\ UNCHANGED result
     \/ caseState = "ABSENT" /\ Return(w, "loadCase", "ERROR")
  /\ UNCHANGED <<lock, caseRow, store, gateway, world, published, faults,
                 attempt, seenPayment, reply, outbox>>

\* Steps 2-3: a stale or concurrent request is discarded (audited and committed).
Discard(w) ==
  /\ \/ /\ seenPayment[w] \in { "SUCCESS", "RECOVERED" }
        /\ Return(w, "check", "ALREADY_COMPLETED")
     \/ /\ seenPayment[w] \in { "PROCESSING", "CREATED" }
        /\ Return(w, "check", "DUPLICATE_EXECUTION_BLOCKED")
     \/ /\ seenPayment[w] \notin { "SUCCESS", "RECOVERED", "PROCESSING", "CREATED" }
        /\ seenCase[w] \in TerminalRecoveryState
        /\ Return(w, "check", "ALREADY_COMPLETED")
  /\ UNCHANGED <<lock, caseRow, store, gateway, world, published, faults,
                 attempt, seenPayment, seenCase, reply, outbox>>

Continue(w) ==
  /\ seenPayment[w] \notin { "SUCCESS", "RECOVERED", "PROCESSING", "CREATED" }
  /\ seenCase[w] \notin TerminalRecoveryState
  /\ Goto(w, "check", "judge")
  /\ UNCHANGED <<lock, caseRow, store, gateway, world, published, faults, locals>>

\* Step 3b: the policy engine's verdict, or the merchant's opt-out without one;
\* the state machine then allows the move it leads to, or raises.
BoundaryVerdicts ==
  IF PolicyVerdicts # {} THEN PolicyVerdicts
  ELSE IF enabled THEN { "PERMITTED" } ELSE { "DENIED" }

TargetOf   == [ PERMITTED              |-> "EXECUTING",
                DENIED                 |-> "STOPPED",
                REQUIRES_HUMAN_APPROVAL |-> "ESCALATED" ]

AfterJudge == [ PERMITTED              |-> "claim",
                DENIED                 |-> "stop",
                REQUIRES_HUMAN_APPROVAL |-> "escalate" ]

Judge(w) ==
  /\ pc[w] = "judge"
  /\ \E v \in BoundaryVerdicts :
       \/ /\ CanTransition(seenCase[w], TargetOf[v])
          /\ Goto(w, "judge", AfterJudge[v])
          /\ UNCHANGED result
       \/ /\ ~CanTransition(seenCase[w], TargetOf[v])
          /\ Return(w, "judge", "RAISED")
  /\ UNCHANGED <<lock, caseRow, store, gateway, world, published, faults,
                 attempt, seenPayment, seenCase, reply, outbox>>

\* Step 3b: close the case and commit; the UPDATE waits for the row.
Halt(w, from, target) ==
  /\ caseRow = Free
  /\ Return(w, from, "STOPPED")
  /\ caseState' = target /\ ended' = TRUE
  /\ UNCHANGED <<lock, caseRow, payment, attemptCount, rows, gateway, world,
                 published, faults, attempt, seenPayment, seenCase, reply, outbox>>

HaltAtBoundary(w) == Halt(w, "stop", "STOPPED") \/ Halt(w, "escalate", "ESCALATED")

\* Mutant: the claim does not update the row, so nothing makes others wait.
Claim_Unlocked(w) ==
  /\ Goto(w, "claim", "reserve")
  /\ UNCHANGED <<lock, caseRow, store, gateway, world, published, faults, locals>>

\* Step 3: flush recovery_state = EXECUTING and attempt_count.  Nothing is
\* committed: the transaction now owns the row.
Claim(w) ==
  /\ caseRow = Free
  /\ caseRow' = w
  /\ Goto(w, "claim", "reserve")
  /\ UNCHANGED <<lock, store, gateway, world, published, faults, locals>>

\* Mutant: no look-up of the key and no unique constraint on it.
Reserve_Unchecked(w) ==
  /\ Goto(w, "reserve", "call")
  /\ UNCHANGED <<lock, caseRow, store, gateway, world, published, faults, locals>>

\* Step 4: reserve_attempt inserts the row of the attempt (not committed), ...
Reserve(w) ==
  /\ Goto(w, "reserve", "call")
  /\ rows[attempt[w]] = "NONE"
  /\ UNCHANGED <<lock, caseRow, store, gateway, world, published, faults, locals>>

\* ... finds a committed row with the key and leaves the transaction open, ...
FindDuplicate(w) ==
  /\ Return(w, "reserve", "DUPLICATE_EXECUTION_BLOCKED")
  /\ rows[attempt[w]] \in KeyedRow
  /\ UNCHANGED <<lock, caseRow, store, gateway, world, published, faults,
                 attempt, seenPayment, seenCase, reply, outbox>>

\* ... or violates uq_payment_attempt_number and rolls back.
ViolateConstraint(w) ==
  /\ Return(w, "reserve", "DUPLICATE_EXECUTION_BLOCKED")
  /\ rows[attempt[w]] = "UNKEYED"
  /\ EndTransaction(w)
  /\ UNCHANGED <<lock, store, gateway, world, published, faults,
                 attempt, seenPayment, seenCase, reply, outbox>>

\* The answers after which the executor cannot know whether money has moved.
Unanswered == { "TIMEOUT", "UNAVAILABLE", "ERROR" }

Debits(outcome) ==
  IF outcome = "SUCCESS" THEN {1}
  ELSE IF LostAnswers /\ outcome \in Unanswered THEN {0, 1} ELSE {0}

\* Step 5: the provider receives the request and decides its outcome.  It does
\* not remember keys: only a DUPLICATE_REQUEST outcome refuses a repeated one.
CallProvider(w) ==
  /\ Goto(w, "call", "settle")
  /\ \E o \in Outcome :
       /\ reply' = [reply EXCEPT ![w] = o]
       /\ \E d \in Debits(o) : charges' = charges + d
  /\ calls' = [calls EXCEPT ![attempt[w]] = @ + 1]
  /\ UNCHANGED <<lock, caseRow, store, world, published, faults,
                 attempt, seenPayment, seenCase, outbox, result>>

\* Step 6: the three ways an attempt ends, each one commit.
Commit(w, row, target, status, events) ==
  /\ Goto(w, "settle", "publish")
  /\ rows' = [rows EXCEPT ![attempt[w]] = row]
  /\ caseState' = target /\ ended' = (target \in TerminalRecoveryState)
  /\ attemptCount' = attempt[w]
  /\ EndTransaction(w)
  /\ outbox' = [outbox EXCEPT ![w] = events]
  /\ result' = [result EXCEPT ![w] = status]
  /\ UNCHANGED <<lock, gateway, world, published, faults,
                 attempt, seenPayment, seenCase, reply>>

\* Mutants: the payment is not moved with the attempt; the case
\* gets the payment's enum value.
SettleSuccess_PaymentForgotten(w) ==
  /\ pc[w] = "settle" /\ reply[w] = "SUCCESS"
  /\ UNCHANGED payment
  /\ Commit(w, "SUCCESS", "RECOVERY_SUCCEEDED", "SUCCESS",
            << Ev("payment.succeeded", attempt[w]), Ev("recovery.completed", attempt[w]) >>)

SettleSuccess_WrongEnum(w) ==
  /\ pc[w] = "settle" /\ reply[w] = "SUCCESS"
  /\ payment' = "RECOVERED"
  /\ Commit(w, "SUCCESS", "RECOVERED", "SUCCESS",
            << Ev("payment.succeeded", attempt[w]), Ev("recovery.completed", attempt[w]) >>)

SettleSuccess(w) ==
  /\ pc[w] = "settle" /\ reply[w] = "SUCCESS"
  /\ payment' = "RECOVERED"
  /\ Commit(w, "SUCCESS", "RECOVERY_SUCCEEDED", "SUCCESS",
            << Ev("payment.succeeded", attempt[w]), Ev("recovery.completed", attempt[w]) >>)

\* The executor passes no elapsed time: the recovery window never closes.
RetryAllowed(w) ==
  ShouldRetry(attempt[w], MaxRetries, FailureCode[reply[w]], 0, 3600)

\* Mutant: the request names the attempt that has just failed.
SettleRetry_SameAttempt(w) ==
  /\ pc[w] = "settle" /\ reply[w] # "SUCCESS" /\ RetryAllowed(w)
  /\ UNCHANGED payment
  /\ Commit(w, "FAILED_RECOVERABLE", "RECOVERY_FAILED", "RETRY_SCHEDULED",
            << Ev("payment.retry_requested", attempt[w]) >>)

SettleRetry(w) ==
  /\ pc[w] = "settle" /\ reply[w] # "SUCCESS" /\ RetryAllowed(w)
  /\ UNCHANGED payment
  /\ Commit(w, "FAILED_RECOVERABLE", "RECOVERY_FAILED", "RETRY_SCHEDULED",
            << Ev("payment.retry_requested", attempt[w] + 1) >>)

SettleStop(w) ==
  /\ pc[w] = "settle" /\ reply[w] # "SUCCESS" /\ ~RetryAllowed(w)
  /\ UNCHANGED payment
  /\ Commit(w, "FAILED_FINAL", "STOPPED", "STOPPED",
            << Ev("recovery.failed", attempt[w]), Ev("recovery.stopped", attempt[w]) >>)

Settle(w) == SettleSuccess(w) \/ SettleRetry(w) \/ SettleStop(w)

\* The events of the outcome, one publish after the other.
Publish(w) ==
  /\ outbox[w] # <<>>
  /\ published' = published \cup { Head(outbox[w]) }
  /\ outbox' = [outbox EXCEPT ![w] = Tail(@)]
  /\ Goto(w, "publish", IF Len(outbox[w]) = 1 THEN "release" ELSE "publish")
  /\ UNCHANGED <<lock, caseRow, store, gateway, world, faults,
                 attempt, seenPayment, seenCase, reply, result>>

\* Step 7: delete the key only while it still holds the own token.
Release(w) ==
  /\ Goto(w, "release", "close")
  /\ lock' = IF lock = w THEN Free ELSE lock
  /\ UNCHANGED <<caseRow, store, gateway, world, published, faults, locals>>

\* The caller leaves its "async with session" block: an open transaction is
\* rolled back and the locals of the call are gone.
Close(w) ==
  /\ Goto(w, "close", "idle")
  /\ EndTransaction(w)
  /\ attempt' = [attempt EXCEPT ![w] = 0]
  /\ seenPayment' = [seenPayment EXCEPT ![w] = "ABSENT"]
  /\ seenCase' = [seenCase EXCEPT ![w] = "ABSENT"]
  /\ reply' = [reply EXCEPT ![w] = "SUCCESS"]
  /\ outbox' = [outbox EXCEPT ![w] = <<>>]
  /\ UNCHANGED <<lock, store, gateway, world, published, faults, result>>

-------------------------------------------------------------------------------
(* Faults and environment *)

\* The process dies: the connection drops and the database rolls back, the key
\* stays in Redis until its TTL.
Crash(w) ==
  /\ pc[w] \in FaultPoints \ {"idle"}
  /\ faults < MaxFaults /\ faults' = faults + 1
  /\ Goto(w, pc[w], "idle")
  /\ EndTransaction(w)
  /\ attempt' = [attempt EXCEPT ![w] = 0]
  /\ seenPayment' = [seenPayment EXCEPT ![w] = "ABSENT"]
  /\ seenCase' = [seenCase EXCEPT ![w] = "ABSENT"]
  /\ reply' = [reply EXCEPT ![w] = "SUCCESS"]
  /\ outbox' = [outbox EXCEPT ![w] = <<>>]
  /\ result' = [result EXCEPT ![w] = "NONE"]
  /\ UNCHANGED <<lock, store, gateway, world, published>>

\* A database or broker call raises: the finally block still runs.
Raise(w) ==
  /\ pc[w] \in FaultPoints \ {"idle", "release", "close"}
  /\ faults < MaxFaults /\ faults' = faults + 1
  /\ Return(w, pc[w], "RAISED")
  /\ outbox' = [outbox EXCEPT ![w] = <<>>]
  /\ UNCHANGED <<lock, caseRow, store, gateway, world, published,
                 attempt, seenPayment, seenCase, reply>>

\* lock.release swallows a Redis error: the key stays until its TTL.
ReleaseFails(w) ==
  /\ "release" \in FaultPoints
  /\ faults < MaxFaults /\ faults' = faults + 1
  /\ Goto(w, "release", "close")
  /\ UNCHANGED <<lock, caseRow, store, gateway, world, published, locals>>

\* Mutant: a TTL shorter than the execution.
Expire_Early ==
  /\ lock # Free
  /\ lock' = Free
  /\ UNCHANGED <<caseRow, store, gateway, world, published, faults, pc, locals>>

\* The TTL of the key elapses.
Expire ==
  /\ lock # Free
  /\ EarlyExpiry \/ pc[lock] \in {"idle", "close"}
  /\ lock' = Free
  /\ UNCHANGED <<caseRow, store, gateway, world, published, faults, pc, locals>>

\* The customer pays outside the engine: the row becomes SUCCESS.
CustomerPays ==
  /\ payment \in { "FAILED", "PROCESSING" }
  /\ payment' = "SUCCESS"
  /\ UNCHANGED <<lock, caseRow, caseState, attemptCount, rows, ended, gateway, enabled,
                 published, faults, pc, locals>>

\* The orchestrator commits its decision on a further failure of the payment
\* (RecoveryOrchestration): it holds no lock in Redis and has read the case before,
\* so any decision may meet any state; its UPDATE waits for the row.  What it asks
\* the executor for is among the initial requests.
Replan ==
  /\ caseRow = Free /\ caseState # "ABSENT"
  /\ \E s \in Replans :
       /\ caseState' = s
       /\ ended' = (ended /\ s \in TerminalRecoveryState)
  /\ UNCHANGED <<lock, caseRow, payment, attemptCount, rows, gateway, world,
                 published, faults, pc, locals>>

\* The merchant switches automated recovery off.
MerchantOptsOut ==
  /\ enabled /\ enabled' = FALSE
  /\ UNCHANGED <<lock, caseRow, store, gateway, published, faults,
                 pc, locals>>

-------------------------------------------------------------------------------
Advance(w) ==
  \/ LoadPayment(w) \/ LoadCase(w) \/ Discard(w) \/ Continue(w) \/ Judge(w)
  \/ Reserve(w) \/ FindDuplicate(w) \/ ViolateConstraint(w)
  \/ CallProvider(w) \/ Settle(w) \/ Publish(w) \/ Release(w) \/ Close(w)

\* The steps that wait for the row lock.
Wait(w) == HaltAtBoundary(w) \/ Claim(w)

Fail(w) == Crash(w) \/ Raise(w) \/ ReleaseFails(w)

Environment == Expire \/ CustomerPays \/ Replan \/ MerchantOptsOut

Next ==
  \/ \E w \in Workers :
       \/ \E n \in Attempts : Acquire(w, n) \/ Contend(w, n)
       \/ Advance(w) \/ Wait(w) \/ Fail(w)
  \/ Environment

Spec == Init /\ [][Next]_vars

\* A running call is scheduled by the event loop; PostgreSQL queues the waiters
\* of a row lock, so one of them is not overtaken forever; a TTL elapses.
Fairness ==
  /\ \A w \in Workers : WF_vars(Advance(w)) /\ SF_vars(Wait(w))
  /\ WF_vars(Expire)

FairSpec == Spec /\ Fairness

-------------------------------------------------------------------------------
(* Properties *)

TypeOK ==
  /\ lock \in Workers \cup {Free} /\ caseRow \in Workers \cup {Free}
  /\ payment \in PaymentState \cup {"ABSENT"}
  /\ caseState \in RecoveryState \cup {"ABSENT"}
  /\ attemptCount \in Nat
  /\ rows \in [Attempts -> Row]
  /\ ended \in BOOLEAN /\ enabled \in BOOLEAN
  /\ calls \in [Attempts -> Nat] /\ charges \in Nat
  /\ published \subseteq Event /\ faults \in Nat
  /\ pc \in [Workers -> PC]
  /\ attempt \in [Workers -> Attempts \cup {0}]
  /\ seenPayment \in [Workers -> PaymentState \cup {"ABSENT"}]
  /\ seenCase \in [Workers -> RecoveryState \cup {"ABSENT"}]
  /\ reply \in [Workers -> Outcome]
  /\ outbox \in [Workers -> Seq(Event)]
  /\ result \in [Workers -> Result]

\* Between Acquire and Release: the region the Redis lock protects.
Critical(w) == pc[w] \notin { "idle", "close" }

\* Between the first UPDATE of the case and the commit.
InTransaction(w) == pc[w] \in { "reserve", "call", "settle" }

\* At most one execution is between the acquisition and the release of the
\* payment's lock, as long as no TTL elapses under a running call.
MutualExclusion == \A v, w \in Workers : Critical(v) /\ Critical(w) => v = w

\* The provider debits the customer at most once, whatever requests are
\* delivered, repeated or overlapping.
NoDoubleDebit == charges <= 1

\* The provider is called at most once with the same idempotency key
\* (app/execution/idempotency.py:6-7).
OneCallPerKey == \A n \in Attempts : calls[n] <= 1

\* A debit is never forgotten: it is committed with the payment, or the worker
\* that got the answer still owns the case row and is about to commit it.
DebitAccounted ==
  charges > 0 =>
    \/ payment = "RECOVERED" /\ \E n \in Attempts : rows[n] = "SUCCESS"
    \/ \E w \in Workers : pc[w] = "settle" /\ reply[w] = "SUCCESS" /\ caseRow = w

\* Every event that was published reports an outcome that is durable: a retry
\* is requested only after a recoverable failure below the retry limit.
EventsReportCommits ==
  \A e \in published :
    CASE e.type \in {"payment.succeeded", "recovery.completed"} ->
           rows[e.attempt] = "SUCCESS"
      [] e.type \in {"recovery.failed", "recovery.stopped"} ->
           rows[e.attempt] = "FAILED_FINAL"
      [] OTHER -> /\ e.attempt - 1 \in Attempts /\ e.attempt <= MaxRetries
                  /\ rows[e.attempt - 1] = "FAILED_RECOVERABLE"

\* The outcome of an attempt is written once and never overwritten.
AttemptsWriteOnce ==
  [][\A n \in Attempts : rows[n] # "NONE" => rows'[n] = rows[n]]_vars

\* No provider call is made for a payment that an execution has recovered, or for
\* a case that one has closed and no planning opened again.  What planning closes,
\* or the customer pays, after the reads of an execution (service.py:153,172) does
\* not stop its call (service.py:390): nothing looks at the rows again.
NoCallOnClosedCase == [][calls' # calls => payment # "RECOVERED" /\ ~ended]_vars

\* Every execution comes to an end, whatever it has to wait for.
CallsReturn == \A w \in Workers : ~Idle(w) ~> Idle(w)

\* A recoverable failure is followed by the request for the next attempt.
RetryAnnounced ==
  \A n \in Attempts :
    rows[n] = "FAILED_RECOVERABLE" ~> Ev("payment.retry_requested", n + 1) \in published

\* The contract of recovery, seen in the committed rows and the provider's books.
Contract ==
  INSTANCE RecoveryContract
    WITH Numbers <- Attempts, status <- payment, case <- caseState,
         outcome <- rows, debits <- charges, over <- ended

\* Workers, locks, crashes and repeated requests together do no more than the
\* contract allows: each step of an execution is a step of it, or none.
KeepsContract == Contract!Promise

===============================================================================
