-------------------------- MODULE MCRecoveryPlanning --------------------------
(* Instances of RecoveryPlanning for model checking: one code of each kind, the *)
(* amounts around each limit, the routes that the tiers tell apart; and the     *)
(* payments of the benchmark.                                                   *)
EXTENDS RecoveryBenchmark

Routes ==
  { [active |-> TRUE,  status |-> "HEALTHY",  health |-> 98],
    [active |-> TRUE,  status |-> "HEALTHY",  health |-> 85],
    [active |-> TRUE,  status |-> "DEGRADED", health |-> 40],
    [active |-> FALSE, status |-> "DOWN",     health |-> 20] }

Failures ==
  [ code : { "GATEWAY_TIMEOUT", "CARD_EXPIRED", "VELOCITY_CHECK_FAILED",
             "INSUFFICIENT_FUNDS", "PAYMENT_PENDING", "DOWNSTREAM_503" },
    attempt : 1..3, amount : { 10, 50, 50000, 100000, 100001 },
    method : { "UPI", "WALLET" }, route : Routes, alternatives : BOOLEAN,
    enabled : BOOLEAN, maxRetries : { 2, 3 }, minAmount : { 50 }, threshold : { 50000 },
    paymentStatus : { "FAILED", "RECOVERED" },
    caseStatus : { "RECOVERY_PENDING", "STOPPED" }, engine : BOOLEAN ]

FailuresAndBenchmark == Failures \cup Seeded

Delays == { 60, 1000 }

===============================================================================
