# Formal models of the Intelligent Recovery Orchestrator

This directory holds TLA+ models of the recovery engine in `app/`, the TLC
configurations that check them on small instances, and proofs checked by TLAPS.
File and line references are to the repository (`app/...`).

## 1. The system

A payment fails; the engine classifies the failure, plans a recovery, has the
plan approved by two deterministic filters, and executes it against the payment
provider so that the customer is never debited twice.

| Part | Code | State it keeps | Operations |
| --- | --- | --- | --- |
| Payment service | `services/payment_service.py` | `payments`, `payment_attempts`, `payment_failures` | `create_payment`, `record_payment_failure` |
| Lifecycle manager | `lifecycle/transitions.py` | `Payment.status` | `transition` (used by tests only) |
| Event broker | `events/broker.py` | one queue per topic and consumer group, committed offsets | `publish`, `get_message`, `commit` |
| Retry processor | `events/retry_processor.py` | retry and dead letter topics | `route_failure`, `process_retries` |
| Recovery consumer | `consumers/recovery_consumer.py` | `processed_events` | `process_next` |
| Notification consumer | `consumers/notification_consumer.py` | `processed_events`, `notifications` | `process_next` |
| Orchestrator | `orchestrator/orchestrator.py` | `recovery_cases` | `orchestrate_failure` |
| Classifier, selector, guard | `orchestrator/{classifier,strategy_selector,guard}.py` | none | pure decisions |
| Policy engine | `policy/{engine,rules}.py` | none | `evaluate` |
| Execution service | `execution/service.py` | Redis lock, `payment_attempts`, case and payment status | `execute_recovery_attempt` |
| Execution consumer | `execution/consumer.py` | `processed_events` | `handle_event` |
| Retry policy | `execution/retry_policy.py` | none | `evaluate_next_retry` |
| Audit trail | `audit/service.py` | `audit_records`, a hash chain per payment | `append_record`, `verify_chain_integrity` |
| AI gateway, router, hierarchy | `ai/{gateway,router,hierarchy}.py` | none | `get_recommendation`, `decide_recovery_plan` |
| AI instances, load balancer | `ai/{instances,load_balancer}.py` | circuit breakers, active requests | `select_instance`, `generate_recommendation` |
| Recovery agent | `agent/{investigator,tools}.py` | evidence of one investigation | `investigate` |
| Benchmark | `evaluation/benchmark.py` | payments with a ground truth, their records | both engines on the same payments |
| Dashboard, synthetic data | `dashboard/`, `synthetic/` | none | offline |

How they interact: `record_payment_failure` commits and publishes
`payment.failed`; the recovery consumer hands it to the orchestrator, which
commits the case and publishes `recovery.started`, `notification.requested` and
`payment.retry_requested`; the execution service runs an attempt and publishes
its outcome, for a recoverable failure another `payment.retry_requested`. All
parts share the PostgreSQL rows; executions of one payment also share a Redis
key. Every service commits first and publishes afterwards.

What is hard here: several workers may run requests for one payment at once,
and requests come late and more than once; every `await` is a point where
another worker, a crash or an exception comes in; the lock has a TTL; commit and
publish are two steps; a case is closed by one part and read by another.

The components, the state each keeps and what is hard about them are listed in
`PROJECT.json`, with every hazard at its line and the properties that cover it.
What makes each part correct, in a sentence:

| Part | Correct when |
| --- | --- |
| Execution service | a customer is debited once, a debit is accounted for, an attempt is settled once, no case is executed that another execution has closed, a call returns |
| Retry policy, guard, policy engine | no approved plan exceeds a limit of merchant or engine, whoever proposed it |
| Orchestrator, recovery consumer | a failure is planned, by one member at a time, announced after its commit and not twice |
| Broker, retry topics, notification consumer | an event has its effect once, or ends as a dead letter after three tries; none is lost |
| Payment service and executor | they number attempts independently and never share a number |
| Audit trail | in a chain that verifies, a record with the hash of an append is that append and vouches for all before it |
| Router, load balancer, breakers | counters and health are true, an open breaker is not called, an outage heals |
| Agent | a decision rests on evidence that was read and an investigation that was published |
| Benchmark | what the report says of the orchestrator is so for the payments it plans |

## 2. Plan

Written, in this order:

1. `RecoveryStates`, `RetryPolicy`, `RecoveryExecution`: the execution service,
   where the money moves. `RecoveryContract`: what it promises for one payment, and
   the refinement.
2. `PlanningRules`, `RecoveryPlanning`: classifier, selector, guard and policy rules
   as operators; how one failure gets its decision, with and without a model.
3. `RecoveryOrchestration`: consumer group, `processed_events`, the orchestrator's
   transaction, commit-then-publish, crash and redelivery, with the executor as a
   contract. `PlanningContract`: what planning promises, and the refinement.
4. `EventPipeline`: queues per group, the notification consumer, retry topics, dead
   letters. `DeliveryContract`: what publishing an event promises, and the refinement.
5. `Ranking`, `ModelServing`: gateway timeout, router, load balancer, breakers.
6. `InvestigationAgent`: the agent in the place of the model, composed with
   `RecoveryPlanning`.
7. `AuditChain`, `PaymentLedger`: the hash chain, and all writers of a payment's rows
   and trail: payment service, orchestrator and executor composed.
8. `RecoveryBenchmark`: the payments of the benchmark, planned by `RecoveryPlanning`.
9. The `...Proofs` modules, one per state machine with theorems.

Left, in the order of their worth:

* a trail shared by two payments, and its verification without a payment (section 4
  says what the code does there);
* two payments of one merchant: their rows, keys and locks are separate, they would
  meet only in the instances of `ModelServing`.

Every property of a passing run has its theorem but the five of liveness, which are
out of the prover's reach (section 5).

## 3. Modules

### RecoveryStates, RetryPolicy

`RecoveryStates` has the states of a case and of a payment and the transition
table of `orchestrator/state_machine.py`. `RetryPolicy` translates
`evaluate_next_retry`: the order of its three checks decides the stop reason.

### RecoveryExecution, RecoveryContract

`execute_recovery_attempt` for one payment and its case, run by any number of
workers. One action per awaited step:

| Action | Code (`execution/service.py` unless said) |
| --- | --- |
| `Acquire`, `Contend` | 130-149, `lock.py` 60-76 |
| `LoadPayment`, `LoadCase` | 151-169 |
| `Discard`, `Continue` | 171-238 |
| `Judge`, `HaltAtBoundary` | 240-334 |
| `Claim` | 336-343: flush of EXECUTING, which takes the row lock of the case |
| `Reserve`, `FindDuplicate`, `ViolateConstraint` | 345-371, `idempotency.py` 56-102 |
| `CallProvider` | 389-405, `provider.py` 104-188 |
| `SettleSuccess`, `SettleRetry`, `SettleStop` | 408-430, 479-520, 557-572 |
| `Publish` | 432-467, 525-542, 574-606 |
| `Release`, `Close` | 622-624, `lock.py` 78-103, the caller's `async with session` |
| `Crash`, `Raise`, `ReleaseFails` | a dead process, an exception (the `finally` runs), `lock.py` 100-103 |
| `Expire` | the TTL of the key |

State: `lock` is the Redis key (whose token it holds), `caseRow` the PostgreSQL
row lock of the case, `payment`, `caseState`, `attemptCount` and `rows` the
committed data, `calls` and `charges` what the provider saw, `published` the
events on the topic (a set: they may be delivered late and repeatedly). A
worker's uncommitted writes are not in the model's state, since no other
transaction sees them; its position says what it has written. The database is
PostgreSQL under READ COMMITTED. `ended` is a ghost: an execution closed the case, and
no planning has opened it since.

The environment has three more actions. The customer pays by other means (the scenario
of `tests/test_real_world_safety_regression.py:12`); a merchant opts out; and `Replan`
is the orchestrator committing its decision on a further failure of the payment, one of
`Replans`. It takes no lock in Redis and has read the case long before, so it comes
between any two steps of an execution, and only the row lock of the case delays it.

`LostAnswers` says whether a provider call that ends in a timeout or an exception may
have debited all the same (`CallProvider`, `execution/service.py:394`).

Abstractions: one payment and one case; audit records are in `PaymentLedger`;
amounts, routes and methods do not occur; the verdict of the policy engine is any
member of `PolicyVerdicts`, `{}` standing for an execution service without an
engine.

`RecoveryContract` is the abstract specification: a payment's status, its case, the
outcome of each attempt and the number of debits, with no workers, locks or
transactions. Its steps are a debit, an attempt settled with or without success, a
closed case, a customer who pays elsewhere, and a further planning, which may write the
case at any time and does not stop a recovery under way. The refinement `KeepsContract`
maps `rows` to outcomes, `charges` to debits, `ended` to the closure that forbids
another debit, and the committed rows to themselves; the claim, the reservation and
everything about locks and events are stuttering steps.

### PlanningRules, RecoveryPlanning

`PlanningRules` translates the decision tables: the three code tables of
`orchestrator/classifier.py`, the selector, the seven checks of
`orchestrator/guard.py` and the ten rules of `policy/rules.py` with the order in
which `policy/engine.py` evaluates them (the order decides the reason that is
reported, and a denial wins over a wish for approval).

`RecoveryPlanning` runs them for one failure. A step of the module is a step of
`orchestrate_failure` (`orchestrator/orchestrator.py` 72-313):

| Action | Code |
| --- | --- |
| `ClassifyFailure` | 117-128 |
| `ProposeDirectly` | 133-151; with a decision engine tiers 1 and 2 of `ai/hierarchy.py` (49-80) |
| `Consult`, `Adopt`, `FallBack` | tier 3: `ai/hierarchy.py` 83-162, `ai/gateway.py` 50-159 |
| `GuardPass`, `GuardHalt` | 153-217 |
| `Authorize` | 219-311 |
| `Store` | the commits at 190, 216, 251, 283, 310 |
| `Revalidate` | the policy engine of the execution service, `execution/service.py` 240-309 |

A context is a record of what the rules read. The language model is any member of
`Answers`: a recommendation with any strategy, confidence above or below the
threshold, allowed or forbidden tools, or output that fails the schema, a timeout,
an outage. Explanations, backoff hints and audit records are left out, and so is the
denial for a risk score (`policy/rules.py:190-197`): a context has no such field, and the
default of 0.0 never reaches the limit. The reason
is the name of the rule; what matters about its text is whether it fits the column
(`TooLong`).

One thing the tables show: the executor's retry policy
(`execution/retry_policy.py:12-21`) retries codes such as `DOWNSTREAM_503` that the
classifier does not know.

### RecoveryBenchmark

Extends `RecoveryPlanning` with `evaluation/benchmark.py`, which seeds payments with a
known ground truth, lets a naive engine and the orchestrator decide them, and reports
recoveries and unsafe actions of both. `Traits`, `Amounts`, `Cases` and
`SeededContext` are the generation and the seeding; the contexts of the seeded payments
(`Seeded`) are planned like any other. `Unsafe` is the ground truth, `NaiveRecovers`
what the baseline records, `Recovers` and `Evaluated` how a stored decision becomes a
record. Latency, prices and the sums of the report are left out.

### RecoveryOrchestration

The members of the consumer group, each at one step of `process_next`,
`handle_payment_failed` and `orchestrate_failure`, with the database between them.

| Action | Code |
| --- | --- |
| `Poll`, `Ack`, `AckRefused`, `Rebalance` | `events/broker.py` 194-234 (Kafka) |
| `Skip`, `Lookup` | `consumers/recovery_consumer.py` 57-87 |
| `Register`, `RegisterConflict` | 88-95 |
| `LoadCase`, `CreateCase`, `CreateConflict` | `orchestrator/orchestrator.py` 88-104 |
| `Plan` | 105-151, then the pure part of 153-311 |
| `CommitDecision` | the commits at 190, 216, 251, 283, 310 |
| `Emit` | 385-498, one publish per step |
| `Raise`, `Crash` | an exception that leaves `process_next`; a dead process |
| `ExecLoad`, `ExecClaim`, `ExecEnd` | `execution/service.py`, as a contract |

State: `Log` is the partition (constant: all its messages are there from the
start), `position` and `committed` the offsets; `processed` and `inserting` the
committed and the open rows of `processed_events`; `case`, `caseRow`, `payment` the
rows that planning and execution share; `published` counts announcements by the
event that caused them. What a member decides is any decision that
`RecoveryPlanning` allows for what it read: no approval for a closed payment or
case, or at the limit of attempts. An `UPDATE` contains the columns that changed
since the load (SQLAlchemy), so it can overwrite one column of a concurrent commit
and leave another (`ChangedColumns`). The executor's own mutual exclusion is that
of `RecoveryExecution`.

`PlanningContract` is the abstract specification: which failures are planned, the case,
the payment, and how often each announcement was told, with no partition, offsets,
members, transactions or row locks. Its steps are a decision that is stored, the next
announcement of that decision (one of the lists in `Announcements`; a crash may cut off
its end), and an execution, which needs a retry request. The refinement `KeepsPlanning`
maps `processed` to the planned failures and `published` to what was told, and the
committed rows to themselves. It contains that no failure is planned twice, that nothing
is announced twice or out of order, or from two different decisions.

Nothing in `app/` says who calls `process_next` again after an exception;
`RestartOnError` has both answers: a restarted member reads from the committed
offset, one that goes on reads its next message.

### EventPipeline

The broker with its queues per group, the notification consumer (and, with a group
of its own, the recovery consumer seen from outside), and the retry processor.

| Action | Code |
| --- | --- |
| `Produce`, `Poll`, `Skip`, `Ack` | `events/broker.py` 103-152, 172-234; `consumers/notification_consumer.py` 38-66 |
| `Lookup`, `Store` | `consumers/notification_consumer.py` 59-115 |
| `Fail` | a handler that raises, before or after its commit |
| `Route`, `Quarantine` | `route_failure`, `events/retry_processor.py` 33-75 |
| `StartCycle`, `PollRetry`, `LeaveTopic`, `Postpone`, `Break`, `Republish`, `CommitRetry` | `process_retries`, 77-119 |
| `Elapse` | x-retry-timestamp passes |
| `CrashConsumer`, `CrashRetrier` | a process dies between two steps and is restarted |

State: for each lane (what one group has still to read of one topic) the `queue`,
the message in `hand`, delivered and not committed, and where its consumer is; the
rows of `processed_events` and the `effects`; the `dead` letters. A message carries
`x-retry-count` and whether its delay is still running. Every group gets its own
copy of a republished message, as the code publishes it on `payment.events` again.

`DeliveryContract` is the abstract specification: an event is public, is tried until it
has its effect, once, and is given up only after three failed tries, or when nobody can
read it; no topics, groups, copies, offsets or crashes. The refinement `KeepsDelivery`
maps `produced` to the public events and `dead` to the letters. A handler that raises
after its commit is in the contract a try that succeeds and counts as a failure.

`process_next` raises to its caller without giving it the message, and nothing in
`app/` calls `route_failure`: the supervisor that does is modelled as the comments of
the consumers and `docs/specs/phase_2_specification.md`, section 6, describe it. A
malformed event is unreadable for the group that it concerns; the others skip it.

### ModelServing

A request for a recommendation from the gateway to an instance and back. All of it
runs on one event loop and only the provider's call suspends, so what happens
between two calls is one step.

| Action | Code |
| --- | --- |
| `Ask` | `ai/gateway.py` 56-78, `ai/router.py` 49-113, `ai/load_balancer.py` 63-156 up to the first call |
| `Answer` | `ai/instances.py` 190-215 and the way back |
| `CallFails` | `ai/instances.py` 217-236, 77-90; the next turn of the load balancer's loop, or the router's fallback provider |
| `GatewayTimeout` | `ai/gateway.py` 68-90, `ai/instances.py` 234-236: `wait_for` cancels the call, `finally` runs, nothing else |
| `CoolDown` | the breaker's cooldown elapses |

`CanExecute`, `Started`, `Succeeded`, `Failed` and `Cancelled` are what an instance
does to its record of breaker, failure count, health and active requests;
`SelectInstance` has both algorithms and the search for a canary. A pool is a sequence
without repetition; the code's lists of available instances are the sets of their
positions, and the instance at a turn is the member of such a set that so many others
precede (`InstanceAt`, with `Nth` of `Ranking`). An instance has one tier
(`ai/load_balancer.py:47-57`), so the pools are disjoint. `setup` chooses the algorithm,
or a router without load balancer. Latency, cost and token counts
are left out, but for the health by latency (`slow`).

### InvestigationAgent

The agent in the place of the model of `RecoveryPlanning`, within one
`orchestrate_failure`.

| Action | Code (`agent/investigator.py`) |
| --- | --- |
| `Investigate`, `CallTool`, `StopCollecting` | 93-124, 205-299 with `agent/tools.py`; sufficiency 301-314, halts 316-338 |
| `Conclude`, `AskModel` | 395-508 |
| `GiveUp` | 125-164: the runtime limit, an exception of the loop |
| `Publish`, `PublicationFails` | 166-203, 510-538 |
| `StoreDecision` | the commit of `orchestrate_failure`, which raises in an aborted transaction |

The other actions are those of `RecoveryPlanning`. State: the `evidence` of each
tool, how many were called, whether the transaction is `aborted` (PostgreSQL refuses
every further statement after an error), the `audited` investigations. Merchant and
route were loaded into the session with the context, so a tool that selects them
again gets the values of the context; attempts and customer are read for the first
time, and may differ from what the event says.

### AuditChain, PaymentLedger

`AuditChain` translates `audit/service.py` as operators: the canonical payload
(`Canonical`, which leaves out `escalation_reason` and `evidence_snapshot`), the
parent of a new record (`ParentFor`) and `verify_chain_integrity` (`Verified`), which
reads the records in the order of their timestamps (`Sorted` of `Ranking`). The hash is
an injective pairing of payload and parent; it has no key, so that anybody who can write
the table can compute it (`Rehashed`).

`PaymentLedger` composes the payment service, the orchestrator and the executor on
the rows of one payment.

| Action | Code |
| --- | --- |
| `Report`, `CommitReport`, `ReportRefused`, `PublishReport`, `CrashCaller` | `services/payment_service.py` 88-163 |
| `Append_`, `CommitRecord` | `audit/service.py` 83-171, in the transaction of its writer |
| `Orchestrate`, `CommitDecision` | `orchestrator/orchestrator.py` 72-313, by its effects |
| `Execute`, `Reserve`, `ReserveRefused`, `Pay`, `CommitDiscard`, `CommitOutcome`, `CrashWriter` | `execution/service.py` 116-624, `idempotency.py` 56-102, by their effects |
| `Alter` | plain SQL behind the ORM, whose listeners would refuse it (`tests/test_policy_and_audit.py:393`): a record is removed, put in, or any of its columns overwritten, `payload_hash`, `parent_hash` and `timestamp` among them, with or without the hash that then fits |

State: the rows of payment, attempts and failures, the trail, the open transaction
of each writer with the record it has appended, the published events, and two ghosts:
`history` (of each committed append the row, and the trail it was appended to) and
`overlapped` (two transactions appended at the same time, or timestamps that are equal
or go back).

An execution that the policy of the boundary halts writes its record and closes the case
(`HALTED`). An executor that dies between the debit and its commit is left to
`RecoveryExecution`.

## 4. Runs

The `MC...` modules give the constants their values.

| Run | Question | Instance |
| --- | --- | --- |
| `exec_lock` | Do the three barriers give one call per key and an atomic outcome? Is what happens to a payment what the contract allows? | 2 workers, attempts 1..2, both requested from the start, 2 faults anywhere but between answer and commit, TTL longer than a call; planning approves or stops the case at any time |
| `exec_expiry` | What still holds when the TTL elapses under a running call? | 2 workers, attempt 1 requested, all verdicts, 1 fault, planning as before |
| `exec_live` | Does every call return, is a retry announced? | the same without verdicts and early expiry, 1 fault before the commit, planning that stops, lost answers, `FairSpec` |
| `exec_crash_key` | *violation*: a crash after the provider's answer repeats the key | 1 fault at `settle` |
| `plan_rules` | May a plan pass that merchant, engine or code table forbid? On what does a retry rest? What does the second filter add? Does the benchmark report what is so? | a code per table, amounts at and around every limit, attempts 1..3, four routes, and the payments of the benchmark; without a model, and with one that may answer anything |
| `plan_unknown` | *violation*: with a model a code that the classifier does not know is retried | the same |
| `orch_group` | Is a failure planned by one member at a time, announced after its commit, never skipped, planned in the end? | 2 members, a failure delivered twice, a foreign event, a second failure; 1 fault, 2 rebalances; members are restarted; `FairSpec` |
| `orch_continue` | Do members that go on after an error still keep the contract of planning, and open no closed case? | 3 failures, 1 fault, 1 rebalance |
| `pipeline` | Is what happens to an event what the contract of delivery allows, is none lost, none given up early, each settled in the end? | 1 group, 4 events (two of its own, one foreign, one malformed), 2 of them older than the group, 3 failures of each, 1 crash, 1 message per cycle; `FairSpec` |
| `serving` | Are counters and health true, is an open breaker left alone, does an outage heal? | 2 requests, 2 instances, an empty pool, threshold 2, 6 troubles, both algorithms and direct calls; `FairSpec` |
| `agent` | On what evidence may a decision rest, and is the investigation on record? | 3 codes, first and second attempt, 3 routes, 0..3 recorded attempts, four customers, any tool may fail, any answer |
| `ledger` | Do independent writers share attempt numbers, are announcements backed by rows, what does a verified trail mean? | 2 reporting sessions, numbers 1..3, 2 reports, 3 audit records, the executor's clock up to 1 behind, 1 crash, 1 alteration: one value that no record has for each column, with any hash or the one that fits |

Bounds. Two workers show every race of the code: a lock, a row and a key each
have one owner and the others only wait or are turned away. Two attempts are what
`max_auto_retries = 2` allows, and let an old request meet a later attempt.
`MaxFaults` bounds crashes and exceptions. `FaultPoints` says where they may hit;
the point between the provider's answer and the commit is excluded in the passing
runs and is the subject of `exec_crash_key`. `exec_live` besides excludes the point
between the commit of a failed attempt and its publication (`execution/service.py:520`):
a request lost there is lost for good, and `RetryAnnounced` says nothing of it.
`exec_lock` and `exec_expiry` assume that the provider answers what it did
(`LostAnswers = FALSE`). `BothWays` has what planning can do to a case that an execution
has read: open it or close it; `ESCALATED` closes it like `STOPPED`.

Two members, a duplicate and two different failures are what a stale owner can
meet; three failures let two members plan with an existing case; more faults and
rebalances repeat these situations.

Planning has no interleaving; its instance is a product of the values that the
comparisons tell apart: the amounts 10, 50, 50 000, 100 000 and 100 001 are below,
at and above the minimum, the merchant's threshold and the cap.

Three failures bring an event through both retry topics to the dead letters, and both
of the group's events may fail so often, in any order; the groups do not influence each other but through the copies of a republished
message, so one group and a foreign event suffice (the proofs have any number).
`MaxMessages = 1` makes a cycle end with messages left. Two requests on two instances
let a late answer meet a breaker that the other request has tripped; with threshold 2,
six troubles trip both twice. Three audit records let two writers append to a trail
that is not empty, and leave one to be altered between two others; one alteration may
come before, between and after the appends that build on it (the proofs have any number,
of any values). What is bounded
in a guard (`MaxRecords`, `MaxReports`, `MaxTroubles`, `MaxFailures`, `MaxCrashes`,
`MaxFaults`, `MaxRebalances`, `MaxAlterations`) bounds the environment, never the code.

`CHECK_DEADLOCK FALSE` stands where the system may come to its end: a failure is
planned, the log is read, the reports and records are used up.

### Fairness

* `RecoveryExecution`: the event loop runs a call that can go on (weak fairness of
  `Advance`); PostgreSQL serves the waiters of a row lock in order, so a waiting
  `UPDATE` that is enabled again and again is executed (strong fairness of `Wait`);
  a TTL elapses (weak fairness of `Expire`). Nothing is assumed of faults, of the
  customer or of new requests.
* `RecoveryOrchestration`: weak fairness of a member's steps (the loop runs it, Kafka
  delivers), strong fairness of the steps that wait for a row or a key, weak fairness
  of the end of an execution.
* `EventPipeline`: weak fairness of each consumer, of the retry processor within a
  cycle and of the start of a cycle (its scheduler comes back); strong fairness of
  `Elapse`, since time passes between the cycles. Failures and crashes are never
  forced.
* `ModelServing`: a call that neither fails nor times out is answered, cooldowns
  elapse, and strong fairness of `Ask`: payments go on failing and are asked about
  whenever a request is free. Without new requests nothing would probe an instance,
  as there is no health check in the background.

### What the violations say

* `exec_crash_key`: the reservation is flushed, not committed, before the provider
  is called (`execution/idempotency.py:84`), so it does not survive a crash.
  `execution/idempotency.py:6-7` promises one call per key.
* `plan_unknown`: the plan adopted from the model is labelled RETRYABLE because its
  strategy is a retry (`ai/hierarchy.py:115`), so the guard never sees that the
  code was unknown. TLC ends with `DOWNSTREAM_503`, a code that `classifier.py` does not
  list, approved for a retry. `tests/test_orchestrator.py:390` says of the whole
  pipeline: "unknown error code escalates to manual review without retrying". It holds
  without a model, which is how the tests run it.

### What modelling showed besides

No run checks these on its own; the models behave like the code.

Execution

* The payment is read at `execution/service.py:153` and not looked at again before
  the call at `390`: a customer who pays in between is debited again. `README.md:92`
  of the repository calls double-debit prevention guaranteed by lock and constraint;
  they do not cover a payment made elsewhere. `RecoveryContract` allows it.
* Planning holds no lock in Redis. A further failure whose decision is committed between
  the reads of an execution (`execution/service.py:153`, `172`) and its call (`390`) does
  not stop it: the provider is called on a case that planning has just stopped or
  escalated, and the claim overwrites that closure. `Replan` does this in `exec_lock`;
  `NoCallOnClosedCase` therefore speaks of what executions have closed, and the contract
  allows the rest. A late report may likewise set a recovered payment back to FAILED
  (below) and planning reopen its case; `NoDoubleDebit` presumes that none does.
* A debit whose answer is lost counts as a timeout (`execution/service.py:394`), which is
  retried as the next attempt with another key: the customer is debited twice. With
  `LostAnswers = TRUE` TLC finds `NoDoubleDebit` violated: attempt 1 debits and answers
  TIMEOUT, attempt 2 succeeds. The same line of the repository's `README.md` does not
  hold for it. The theorems on debits have `LostAnswers = FALSE` as a hypothesis.
* `README.md:105` speaks of a lock with auto-renewal; `execution/lock.py` has none.
  `exec_expiry` is what remains true without it: the row lock of the case and the
  unique constraint still give one debit.
* Commit and publication are two steps, and there is no outbox table or relay
  (`README.md:36`, `:103`): a crash in between loses the announcement
  (`orchestrator.py:310`, `311`; `execution/service.py:520`, `538`). A redelivered
  failure is then a duplicate and is skipped. `exec_live` has no fault there for this
  reason, and the announcements of `RecoveryOrchestration` are at most once:
  `AnnouncementsReportCommits` forbids one without its commit, and nothing forbids a
  decision that stays unannounced.

Planning

* The reason for an amount above the cap has at least 101 characters
  (`policy/rules.py:369`), `recovery_cases.stop_reason` has 100
  (`models/recovery_case.py:87`). PostgreSQL refuses the row and the escalation is
  rolled back; SQLite, on which the tests run, does not look (`StrictText`).
* Planning compares the failed attempt `n` with the limit, the boundary the next
  one, both with `>=` (`policy/rules.py:253`): the retry `n + 1 = max` is approved,
  then denied (`BoundaryMeansSafe`).
* The context is stamped with the time at which it is built (`orchestrator.py:373`),
  so the windows of guard and policy never close (`Elapsed`), although `README.md:64`
  lists the SLA window among the guard's limits.

Benchmark

* The report's `is_unsafe` is the constant `False` for the orchestrator
  (`evaluation/benchmark.py:385`), and `README.md:22` of the repository reports the
  zero that follows. `ReportIsEarned` shows that the zero is earned on these payments.
* The aggregate of the baseline counts as stopped whatever it has not recovered
  (`:496`), its records only what is not unsafe either (`:108`).
* A payment of the profile with high values is escalated for a reason of more than 100
  characters: on PostgreSQL the planning raises there (`StrictText`).

Orchestration

* `orchestrator.py:107` assigns FAILED to an existing case whatever its state;
  `state_machine.py:59-61` calls three of them terminal. A payment that was recovered
  can end with a case that says STOPPED. `ClosedStaysClosed` is what does hold, of the
  status column only: `recovery_state` of a closed case is reset and may stay so.
* `commit()` of the Kafka broker commits the position of the consumer, not the
  message it is given (`events/broker.py:231-234`). If `process_next` raised for a
  message and is called again on the same consumer, the next commit covers the
  failed one, against `docs/specs/phase_2_specification.md:135`. `orch_group` shows
  that with members that are restarted it does not happen; `orch_continue` leaves
  out `OffsetsAfterCommit` for this reason. With members that go on, the failed message
  is never planned: `EveryFailurePlanned` too holds with restarts only.

Events

* A message that is postponed goes behind the others of its topic, and a retried
  event goes behind newer ones of `payment.events`: events of one payment may be
  handled in another order than they happened. No property promises an order.

Serving

* A half open breaker admits every request, not a single one (`ai/instances.py:27`,
  `61-63`), and a late success of a request from before closes an open one at once
  (`record_success`). `NoCallWhileCooling` is what holds.
* An instance whose breaker has tripped is not probed while another one is available
  (`ai/load_balancer.py:71-83`): it comes back only when the whole pool is down, which is
  why `OutageHeals` speaks of a pool.
* A provider that hangs is cancelled by the gateway's timeout, and `CancelledError`
  passes `except Exception`: it never counts as a failure of the instance.

Agent

* The agent's STOP for a risky customer asks for review, and so falls into the
  hierarchy's fallback: a known retryable code on an active route is retried all the
  same (`agent/investigator.py:328`, `ai/hierarchy.py:103`, `142`). A halt without
  review (the merchant opted out) stops.
* The defaults for evidence that could not be read favour a retry
  (`agent/investigator.py:409-413`, `473-475`). `StoredMeansRead` holds because a failed
  read has aborted the transaction, not because the agent looks.

Rows

* The strict table of `lifecycle/transitions.py` is enforced by nobody: payments go
  from CREATED to FAILED (`services/payment_service.py:108`) and from FAILED to
  RECOVERED (`execution/service.py:415`).
* A late report of a failure with a new number sets a recovered payment back to FAILED
  (`services/payment_service.py:108`).
* A retry whose number the payment service has used counts as a duplicate
  (`execution/idempotency.py:89`): the request is dropped and the case stays approved.
* The trail of a payment forks when two transactions append at once, and its order
  breaks when the clocks of two hosts differ (`audit/service.py:107-117`); then
  verification fails though nobody changed a record. `SerialTrailVerifies` has neither,
  and says that nothing else breaks an untouched trail. Without a payment,
  `verify_chain_integrity` expects one chain over all of them and fails with two.
* `audit/service.py:6` says that any alteration breaks the chain, and
  `tests/test_policy_and_audit.py:355` that verification "detects any tampering". The
  hash has no key: the last records of a trail, rewritten with hashes that fit, or
  removed, leave a chain that verifies. So does a change of `escalation_reason` or
  `evidence_snapshot`, which it does not cover. What `VerifiedIsFaithful` says is that a
  record with the hash of an append is that append, and that all before it are the
  records of then: one hash that was kept elsewhere vouches for the trail up to it.

## 5. Proofs

Every theorem holds for every value of the constants allowed by the assumption of
its module (`ExecutionAssumption`, `PlanningAssumption`, ...), which give their types
and say that the reserved values differ.

**`RecoveryExecutionProofs`**, for any workers, attempts, limit and number of faults:

* `TypeCorrect`: `Spec => []TypeOK`.
* `Exclusion`: with `EarlyExpiry = FALSE`, `Spec => []MutualExclusion`. The
  invariant is `OwnerInside`: who is between `Acquire` and `Release` holds the key.
  `MutualExclusion` alone is not inductive, since it does not say that the lock is
  taken while somebody is inside.
* `SingleDebit`: with moreover no fault between answer and commit and no lost answers,
  `Spec => []NoDoubleDebit`, whatever planning does to the case. The invariant `DebitInv` says that a debit is either
  committed (`payment = "RECOVERED"`) or owed by a worker at `settle`, and that
  what a worker has seen of a recovered payment is still true. The second part is
  what makes a call impossible after a debit; it needs `OwnerInside`.
* `EventsFollowRows` (`EventsReportCommits`) and `SettledOnce` (`AttemptsWriteOnce`),
  without any assumption on the lock or on faults. `RowInv` says that who is in its
  transaction holds the row of the case and that the attempt it has reserved is
  unsettled: the database alone gives it.
* `KeysUsedOnce` (`OneCallPerKey`), without a fault between answer and commit, and
  `DebitsAccounted` (`DebitAccounted`), without lost answers besides; both with any
  expiry. `PaidInv`: a used key belongs to a settled attempt or to the one being settled,
  and so does a debit.
* `SingleDebitUnlocked` (`NoDoubleDebit`): under both assumptions, and when the only
  request from outside is the first attempt, one debit without the help of the key in
  Redis. `TurnInv`: an attempt is executed only when the one before has failed, since
  its request was published after that commit; so no two attempts can both succeed.

With `EarlyExpiry = FALSE`:

* `CallsOnOpenCase` (`NoCallOnClosedCase`): no execution calls the provider for a payment
  that another has recovered or a case that another has closed, while planning writes the
  case at any time. `SureInv`: an execution past its checks has read a case that was not
  `ended`, and it is alone inside, so only itself can end it (`Sure`); `EndShown`: a case
  that is ended reads as closed, since planning that writes an open state clears the ghost.
* `ExecutionKeepsContract`: `Spec => Contract!Promise`, the refinement, each step a step
  of the contract or a stutter, with no fault between answer and commit and no lost
  answers. It rests on `SureInv` and `DebitInv` together.

What needs which barrier, then: a settled attempt and a true event need the row lock;
one call per key and an accounted debit need besides that nobody dies between answer
and commit (`exec_crash_key` shows what happens otherwise) and, for the debit, that no
answer is lost; one debit whatever was requested, and no call on a case that another
execution has closed, need the key in Redis too, with a TTL longer than a call. None of
the three keeps an execution from a case that planning closes under it.

**`RecoveryPlanningProofs`**, for any set of contexts, with or without a model:

* `SafePlans` (`ApprovedMeansSafe`). The invariant says of each stage what
  has been established: past the guard its checks hold for the plan that is kept,
  and an approval is kept with a PERMITTED verdict for that same plan. The lemmas
  `GuardMeans` and `PermittedMeans` turn the two rule sets into limits; some limits
  (the attempts of a customer link) come from the guard, others (hold codes,
  closed cases) from the engine only, which is why both are needed.
* `BoundarySafe` (`BoundaryMeansSafe`): a permission at the boundary was given for
  the next attempt of this very plan.
* `RetriesGrounded` (`RetryHasBasis`): a plan that retries has its basis from the
  moment it is proposed.
* `ReportEarned` (`ReportIsEarned`): `UnsafeRefused` derives from the verdict that no
  unsafe payment of the benchmark is approved; `OrdinaryInv` follows a payment that the
  naive engine recovers through the stages, where nothing stops its retry.
* `PolicyAddsTwo` (`PolicyAddsOnly`), for the amounts and methods that the database
  admits (`Payable`: positive, with a window of its own). `GuardCovers` shows which of
  the nine denials a plan can still meet after the guard; `FirstIsViolated` that the
  reason reported is one of them, by the least index of a violated rule.

**`InvestigationAgentProofs`**, for any outputs, failures and number of tools:
`StoredEvidenceRead` (`StoredMeansRead`), `PublishedFirst` (`AuditPrecedesDecision`) and
`AgentPlansSafe`. `AgentInv` says that nothing is stored while an investigation runs,
that a failed tool has aborted the transaction, and that an investigation that is over
was published or the planning has raised. `AgentPlansSafe` reuses the lemmas of
`RecoveryPlanningProofs`: an investigation leaves plan and context alone.
`RecordsBind` (`RecordedAttemptsBind`): `BindInv` says that when the recorded attempts
reach the merchant's limit, a completed investigation answers STOP, which the hierarchy
adopts.

**`RecoveryOrchestrationProofs`**, for any members, any log, any number of faults and
rebalances and both values of `RestartOnError`: `CommitsFirst`
(`AnnouncementsReportCommits`). The invariant `CommitInv`
says that a member about to publish has its event recorded and the case
committed (`EmitsCommitted`). To preserve it through a commit one needs that the
stored row is a case although the `UPDATE` may have changed one column only
(`StoredIsCase`); that rests on `SeenExists` (nobody has seen a case that does not
exist) and `CaseFilled`. Steps that neither commit nor publish are treated at once
(`QuietStep`). Besides:

* `AnnouncedOnce` (`PublishedOnce`, which no run lists, as the contract contains it), for
  the same constants. `OnceInv`: members that plan or announce an event are the only ones
  to do so, since its key in `processed_events` is theirs; what a member has still to
  announce was not announced.
* `GroupKeepsPlanning` (`KeepsPlanning`): `Spec => Contract!Promise`, the refinement. A
  commit is a decision, a publication the next announcement, `ExecEnd` an execution, any
  other step a stutter. `TellsStory` is what a publication needs: what a member has
  still to announce is the rest of one of the lists, and what was announced of its
  failure is exactly what comes before in that list. `PlaceNext` steps from one place in
  a list to the next. `ExecutesRequest` is what an execution needs: while one is under
  way a retry was asked for and the payment is open, since only the executor closes it.
* `OrchestrationTypes` (`TypeOK`), in three independent parts: where the members are
  (`PlaceInv`), what they decide and announce (`AnnounceInv`), and the rows (`CaseInv`:
  neither the stored case nor one that was read is half filled).
* `OffsetsFollow` (`OffsetsAfterCommit`) and `OnePlanner` (`SinglePlanner`), with
  `RestartOnError`. `BehindInv`: every failure before a member's position is recorded,
  but for the one it holds, so two members that plan hold the same one; `OnceInv` says
  that they are the same member. Without the assumption the first is false.
* `NeverReopened` (`ClosedStaysClosed`). `ClosedInv`: whoever is about to approve has
  read a case that was open, and then the columns it writes cannot reopen one that
  somebody else has closed (`ClosedCommit`).

**`EventPipelineProofs`**, for any groups, events, backlog, failures and crashes:
`OneEffect` (`EffectOnce`), `NoneLost` (`NothingLost`) and `NoneGivenUpEarly`
(`DeadMeansTried`). For the loss the invariant is stronger than the property: there
is a copy that is *alive*, one that its consumer still has to deal with; the copy in
the hand of a consumer about to commit does not count. `NothingLost` alone is not
inductive, since the commit would take away the only copy it counts. `TriedInv` says of
each message in each lane that it reports no more failures than there were, and of a
message to be routed that it reports fewer. Besides:

* `PipelineKeepsDelivery` (`KeepsDelivery`): `Spec => Delivery!Promise`, the refinement.
  The invariant `HandlesNew` says that a handler about to store its event has looked it
  up and that nobody has stored it since: only the group that an event concerns does,
  and it works on one message at a time. A letter needs `TriedInv`.
* `PipelineTypes` (`TypeOK`): `BoundInv` adds the retry processor and the bounds of the
  environment to the types of the lanes, which the other proofs rest on.

`OneEffect` states `EffectOnce`, which no run lists: the contract contains its one effect,
and the theorem adds that the row in `processed_events` tells of it.

**`RankingProofs`** holds lemmas only: in a finite set that is ordered totally each place
is taken, by one member (`RankTaken`: the members that precede grow along the order, and
there are as many places as members), so that a list by places has all of them, once, in
their order (`SortedByRank`). They replace induction over a sorted or filtered list.

**`ModelServingProofs`**, for any requests, instances, pools and threshold:

* `HealthTellsBreaker` (`BreakerAgreesWithHealth`) and `CountersTrue` (`ActiveCounts`,
  by the cardinality of the requests at an instance: `Enters`, `Leaves`, `Elsewhere`).
* `ServingTypes` (`TypeOK`): what the load balancer names is an instance, since the turn
  never leads outside the positions it is taken from (`PlaceTaken`).
* `OpenIsNotCalled` (`NoCallWhileCooling`). `Selects` and `FailoverSelects`: whatever the
  algorithm, the turn and the instances already tried, the one that is named is available,
  or none of its pool is and its breaker lets a probe through. So a breaker that turns
  half open has cooled down and nobody else of its pool could have taken the request
  (`DispatchProbes`); that this pool is the only one it is in is `OneTier`.

**`PaymentLedgerProofs`**, for any sessions, numbers, reports, crashes, clocks and
alterations:

* `LedgerTypes` (`TypeOK`), `OneCountOfAttempts` (`NumbersAreShared`) and `EventsHaveRows`
  (`EventsReportRows`). `NumbersInv` says that a number flushed by the executor has no
  other row until its commit, although nothing but the constraint keeps the payment
  service from it, and that a debit has its row or is about to be committed.
* `ChainTellsTampering` (`VerifiedIsFaithful`), for any number of alterations of any
  columns, with any values and hashes (`OtherHashes` is any set), and whatever overlaps.
  `HistoryInv` says of each append that its row has the hash that fits and is chained to
  the end of the trail it saw (`Recorded`), and `UnderWayInv` the same of one that is not
  committed; `TrailInv` says of the trail, of which nothing else is known, that it can be
  put in order. `ChainsAgree` is the argument: two lists that verify and have a hash in
  common have it at the same place and agree up to it (by the least place at which the
  hashes part on the way back, since a hash determines the record and the hash before
  it). `RecordVouches` applies it to the trail and to what the append saw.
* `SerialTrailIsWhole` (`SerialTrailVerifies`). `SerialInv`: as long as nothing was altered
  and no appends overlapped, each record is chained to the last one before it, and a
  writer that has appended and not committed has still the right parent if nobody has
  committed since.

Left to TLC:

* liveness (`CallsReturn`, `RetryAnnounced`, `EveryFailurePlanned`, `EverySettled`,
  `OutageHeals`): fairness and ENABLED are outside the prover's reach;
* the properties of the two runs that expect a violation: they are false.

No proof needs induction over data: lists that the code sorts, filters or searches are
defined by places or by a least index, not by recursion.

## 6. Not modelled

* `execution/consumer.py`: it calls `broker.subscribe` and reads `event.payload`, which
  neither the broker nor the envelope defines, so no message reaches its handler; the
  tests call the execution service directly.
* `lifecycle/transitions.py`: no service calls it.
* The text sanitizer and the HTTP client of Gemini: what an answer may be is any member
  of `Answers`.
* The synthetic data generator, the dashboard and the demo scripts: offline, no
  protocol. Of the benchmark its latencies, prices and sums.
