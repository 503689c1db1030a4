--------------------------- MODULE RecoveryBenchmark ---------------------------
(***************************************************************************)
(* The benchmark (app/evaluation/benchmark.py): payments with a known      *)
(* ground truth, a naive engine that retries them on the same rail, and    *)
(* the orchestrator on the same payments.  A payment of the benchmark is   *)
(* seeded into the database, planned as RecoveryPlanning does, and the     *)
(* decision turned into a record.  The report counts unsafe actions, and   *)
(* for the orchestrator it does not look: is_unsafe is the constant False. *)
(* Latency, prices and the sums of the report are left out.                *)
(***************************************************************************)
EXTENDS RecoveryPlanning

-------------------------------------------------------------------------------
(* The payments *)

Profile == { "transient", "degraded", "customer", "permanent", "highValue", "fraud",
             "stale", "pending" }

\* What a profile says of the failure, health in percent.
Traits ==
  [ transient |-> [code |-> "GATEWAY_TIMEOUT",        category |-> "TRANSIENT", health |-> 95],
    degraded  |-> [code |-> "SWITCH_503_UNAVAILABLE", category |-> "ROUTE_DEGRADATION", health |-> 35],
    customer  |-> [code |-> "INSUFFICIENT_FUNDS",     category |-> "CUSTOMER_ACTION_REQUIRED", health |-> 98],
    permanent |-> [code |-> "INVALID_VPA",            category |-> "PERMANENT", health |-> 98],
    highValue |-> [code |-> "GATEWAY_TIMEOUT",        category |-> "TRANSIENT", health |-> 92],
    fraud     |-> [code |-> "CARD_BLOCKED",           category |-> "FRAUD",     health |-> 99],
    stale     |-> [code |-> "LATE_CAPTURE_STALE",     category |-> "TRANSIENT", health |-> 95],
    pending   |-> [code |-> "PAYMENT_PENDING",        category |-> "TRANSIENT", health |-> 95] ]

\* The bounds of the random amounts: an invoice, or a micro or standard payment.
Amounts(profile) == IF profile = "highValue" THEN { 110000, 350000 } ELSE { 50, 450, 600, 9500 }

Cases ==
  { b \in [profile : Profile, amount : { 50, 450, 600, 9500, 110000, 350000 },
           method : { "UPI", "CREDIT_CARD", "DEBIT_CARD", "NETBANKING" }] :
      b.amount \in Amounts(b.profile) }

\* The context that _build_context makes of the rows seeded for b: a new merchant
\* with the defaults, a first attempt, two healthy backup routes.
SeededContext(b, engine) ==
  LET t == Traits[b.profile]
  IN  [code |-> t.code, attempt |-> 1, amount |-> b.amount, method |-> b.method,
       route |-> [active |-> TRUE, health |-> t.health,
                  status |-> IF t.health >= 70 THEN "HEALTHY" ELSE "DEGRADED"],
       alternatives |-> TRUE, enabled |-> TRUE, maxRetries |-> 2, minAmount |-> 50,
       threshold |-> 50000,
       paymentStatus |-> IF b.profile = "stale" THEN "SUCCESS" ELSE "FAILED",
       caseStatus |-> "RECOVERY_PENDING", engine |-> engine]

Seeded == { SeededContext(b, engine) : b \in Cases, engine \in BOOLEAN }

-------------------------------------------------------------------------------
(* The records *)

\* To retry such a payment debits it twice, or without the authority to do so.
Unsafe(b) == b.profile \in { "stale", "fraud", "pending", "highValue" }

NaiveRecovers(b) ==
  /\ Traits[b.profile].category = "TRANSIENT" /\ Traits[b.profile].health >= 80
  /\ ~Unsafe(b)

\* The orchestrator's decision counts as a recovery; a link to the customer only
\* with luck.
Recovers(b) ==
  /\ outcome = "APPROVED"
  /\ \/ plan.strategy = "ROUTE_FAILOVER"
     \/ plan.strategy = "DETERMINISTIC_RETRY_BACKOFF" /\ Traits[b.profile].health >= 70

\* The payments of the benchmark that the stored decision can stand for.
Evaluated ==
  { b \in Cases : /\ ctx.code = Traits[b.profile].code /\ ctx.amount = b.amount
                  /\ ctx = SeededContext(b, ctx.engine) }

-------------------------------------------------------------------------------
(* Properties *)

\* What the report claims is earned: the orchestrator approves nothing that the
\* ground truth calls unsafe, whatever the model answers (benchmark.py:385 assumes
\* it, README.md:22 reports it), and it recovers each payment that the naive engine
\* recovers, so that the lift is never negative.
ReportIsEarned ==
  stage = "stored" =>
    \A b \in Evaluated :
      /\ Unsafe(b) => outcome # "APPROVED"
      /\ NaiveRecovers(b) => Recovers(b)

===============================================================================
