-------------------------- MODULE MCInvestigationAgent --------------------------
(* Failures that reach the third tier, or nearly: a known, a customer's and an *)
(* unknown code, a first and a repeated attempt, routes around the limits.     *)
EXTENDS InvestigationAgent

Routes ==
  { [active |-> TRUE, status |-> "HEALTHY",  health |-> 100],
    [active |-> TRUE, status |-> "HEALTHY",  health |-> 70],
    [active |-> TRUE, status |-> "DEGRADED", health |-> 55] }

Ambiguous ==
  [ code : { "GATEWAY_TIMEOUT", "INSUFFICIENT_FUNDS", "DOWNSTREAM_503" },
    attempt : 1..2, amount : { 500, 50000 }, method : { "UPI" }, route : Routes,
    alternatives : BOOLEAN, enabled : BOOLEAN, maxRetries : { 2, 3 },
    minAmount : { 50 }, threshold : { 50000 }, paymentStatus : { "FAILED" },
    caseStatus : { "RECOVERY_PENDING" }, engine : { TRUE } ]

SlowOrFast == { 250, 600 }
Counts == 0..3
Profiles == [got : {"report"}, risk : { 8, 85 }, success : { 20, 90 }]
NotifyCodes == { "INSUFFICIENT_FUNDS", "USER_DROPPED_OFF", "MPIN_INCORRECT" }
NoDelay == {}
================================================================================
