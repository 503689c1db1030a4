---------------------------- MODULE PlanningRules ----------------------------
(***************************************************************************)
(* The pure decisions of planning: the failure classifier, the strategy    *)
(* selector, the recovery guard (app/orchestrator/) and the rules of the   *)
(* financial safety policy engine (app/policy/).  A context c is the       *)
(* PaymentRecoveryContext of one failure, a plan p the proposed strategy   *)
(* with the retryability it is based on.  Amounts are INR, times seconds,  *)
(* health scores percent.                                                  *)
(***************************************************************************)
EXTENDS Integers, SequencesExt, RecoveryStates

-------------------------------------------------------------------------------
(* Failure classifier *)

KnownRetryableCodes ==
  { "GATEWAY_TIMEOUT", "UPI_GATEWAY_TIMEOUT", "BANK_TIMEOUT", "NETWORK_ERROR",
    "NETWORK_TIMEOUT", "RATE_LIMIT_EXCEEDED", "BANK_SYSTEM_BUSY",
    "SWITCH_UNAVAILABLE", "SWITCH_BUSY", "SERVICE_UNAVAILABLE",
    "TEMPORARY_SYSTEM_ERROR", "ACQUIRER_TIMEOUT", "CONCURRENT_TXN_LIMIT" }

KnownNonRetryableCodes ==
  { "CARD_EXPIRED", "EXPIRED_CARD", "INVALID_VPA", "VPA_NOT_FOUND",
    "ACCOUNT_BLOCKED", "ACCOUNT_CLOSED", "BENEFICIARY_DOES_NOT_EXIST",
    "INVALID_ACCOUNT", "CARD_BLOCKED", "AUTHENTICATION_FAILED", "DO_NOT_HONOR",
    "FRAUD_SUSPECTED", "VELOCITY_CHECK_FAILED", "SANCTION_VIOLATION",
    "RISK_REJECTED" }

KnownCustomerActionCodes ==
  { "INSUFFICIENT_FUNDS", "LOW_BALANCE", "LIMIT_EXCEEDED", "DAILY_LIMIT_EXCEEDED",
    "TRANSACTION_AMOUNT_EXCEEDS_LIMIT", "USER_DROPPED_OFF", "OTP_EXPIRED",
    "OTP_INCORRECT", "MPIN_INCORRECT", "USER_ABORTED", "ACTION_REQUIRED" }

RetryabilityClass ==
  { "RETRYABLE", "NON_RETRYABLE", "CUSTOMER_ACTION_REQUIRED", "UNKNOWN" }

\* Mutant: an unrecognised code is guessed to be transient.
Classify_Guessing(code) ==
  CASE code \in KnownNonRetryableCodes   -> "NON_RETRYABLE"
    [] code \in KnownCustomerActionCodes -> "CUSTOMER_ACTION_REQUIRED"
    [] OTHER                             -> "RETRYABLE"

\* Codes are compared exactly, after trimming and upper-casing; the tables are
\* disjoint, and a code in none of them is UNKNOWN.
Classify(code) ==
  CASE code \in KnownRetryableCodes      -> "RETRYABLE"
    [] code \in KnownNonRetryableCodes   -> "NON_RETRYABLE"
    [] code \in KnownCustomerActionCodes -> "CUSTOMER_ACTION_REQUIRED"
    [] OTHER                             -> "UNKNOWN"

-------------------------------------------------------------------------------
(* Strategy selector *)

RecoveryStrategy ==
  { "NONE", "DETERMINISTIC_RETRY_BACKOFF", "ROUTE_FAILOVER", "NOTIFY_CUSTOMER_LINK",
    "MANUAL_REVIEW", "TERMINAL_ABANDON" }

\* The strategies that lead to another call of the provider.
RetryStrategy == { "DETERMINISTIC_RETRY_BACKOFF", "ROUTE_FAILOVER" }

PlanOf(strategy, class) == [strategy |-> strategy, retryability |-> class]

RouteHealthy(c) ==
  c.route.active /\ c.route.status = "HEALTHY" /\ c.route.health >= 80

HandleRetryable(c) ==
  PlanOf(IF ~RouteHealthy(c) /\ c.alternatives
         THEN "ROUTE_FAILOVER" ELSE "DETERMINISTIC_RETRY_BACKOFF", "RETRYABLE")

SelectStrategy(c, class) ==
  CASE class = "RETRYABLE"                -> HandleRetryable(c)
    [] class = "CUSTOMER_ACTION_REQUIRED" -> PlanOf("NOTIFY_CUSTOMER_LINK", class)
    [] class = "NON_RETRYABLE"            -> PlanOf("TERMINAL_ABANDON", class)
    [] OTHER                              -> PlanOf("MANUAL_REVIEW", "UNKNOWN")

-------------------------------------------------------------------------------
(* Recovery guard: each check, in the order in which the code makes them *)

GuardOrder ==
  << "SAFETY_UNKNOWN_ERROR", "NON_RETRYABLE_ERROR", "MERCHANT_ENABLED",
     "HIGH_VALUE_ESCALATION", "MAX_RETRIES", "MIN_RECOVERY_VALUE", "MAX_WINDOW_SLA" >>

\* The two checks that escalate; the others stop the recovery.
EscalatingGuards == { "SAFETY_UNKNOWN_ERROR", "HIGH_VALUE_ESCALATION" }

GuardWindow(method) ==
  CASE method = "UPI"                            -> 900
    [] method \in { "CREDIT_CARD", "DEBIT_CARD" } -> 7200
    [] OTHER                                     -> 3600

GuardViolated(c, p, elapsed) ==
  [ SAFETY_UNKNOWN_ERROR  |-> p.retryability = "UNKNOWN" \/ p.strategy = "MANUAL_REVIEW",
    NON_RETRYABLE_ERROR   |-> p.retryability = "NON_RETRYABLE"
                                \/ p.strategy = "TERMINAL_ABANDON",
    MERCHANT_ENABLED      |-> ~c.enabled,
    HIGH_VALUE_ESCALATION |-> c.amount >= c.threshold /\ c.attempt >= 2,
    MAX_RETRIES           |-> c.attempt >= c.maxRetries,
    MIN_RECOVERY_VALUE    |-> c.amount < c.minAmount,
    MAX_WINDOW_SLA        |-> elapsed > GuardWindow(c.method) ]

GuardPasses(c, p, elapsed) ==
  LET violated == GuardViolated(c, p, elapsed)
  IN  \A guard \in DOMAIN violated : ~violated[guard]

\* The first name of order, a sequence, that is violated: the code returns there.
FirstViolated(order, violated) ==
  order[SelectInSeq(order, LAMBDA name : violated[name])]

GuardStopReason(c, p, elapsed) == FirstViolated(GuardOrder, GuardViolated(c, p, elapsed))

-------------------------------------------------------------------------------
(* Financial safety policy engine *)

PendingErrorCodes ==
  { "PAYMENT_PENDING", "PROCESSING", "PROCESSING_IN_FLIGHT", "AWAITING_CONFIRMATION",
    "TRANSACTION_PENDING", "PENDING_CAPTURE" }

ProhibitedErrorCodes ==
  { "SANCTION_VIOLATION", "CARD_BLOCKED", "RISK_REJECTED", "FRAUD_SUSPECTED",
    "VELOCITY_CHECK_FAILED", "ACCOUNT_BLOCKED" }

\* RecoveryPolicyConfig.
SystemMaxRecoveryAmount == 100000

PermittedStrategies == RecoveryStrategy \ { "NONE" }

PermittedRetryMethods == { "UPI", "CREDIT_CARD", "DEBIT_CARD", "NETBANKING" }

PolicyWindow ==
  [ UPI |-> 900, CREDIT_CARD |-> 7200, DEBIT_CARD |-> 7200, NETBANKING |-> 3600,
    WALLET |-> 1800 ]

\* The rules that deny, in the order in which the engine evaluates them.  A case
\* is never terminal by its recovery_state here: both callers evaluate while it
\* is GUARD_PENDING or checked to be open; its status is what can be terminal.
DenialOrder ==
  << "FAIL_CLOSED", "TERMINAL_WORKFLOW_LOCK", "PENDING_RECONCILIATION",
     "PROHIBITED_SITUATION", "MERCHANT_RESTRICTIONS", "MAX_RETRY_COUNT",
     "MAX_RECOVERY_WINDOW", "PERMITTED_STRATEGIES", "PERMITTED_METHODS" >>

\* Mutant: the terminal lock looks at the case only.
WorkflowClosed_CaseOnly(c) == c.caseStatus \in TerminalPaymentState

\* TerminalWorkflowLockRule.
WorkflowClosed(c) ==
  \/ c.caseStatus \in TerminalPaymentState
  \/ c.paymentStatus \in TerminalPaymentState

\* MerchantRestrictionsRule: opted out, or not worth a recovery.
MerchantRestricts(c) == ~c.enabled \/ c.amount < c.minAmount

\* MaxRetryCountRule, of the attempt that is asked about.
RetriesExhausted(c, p) == p.strategy \in RetryStrategy /\ c.attempt >= c.maxRetries

\* RecoveryWindowRule
WindowClosed(c, elapsed) == elapsed > PolicyWindow[c.method]

\* PermittedStrategiesRule
StrategyForbidden(p) == p.strategy \notin PermittedStrategies

\* PermittedPaymentMethodsRule: only a retry needs an automated rail.
MethodForbidden(c, p) ==
  p.strategy \in RetryStrategy /\ c.method \notin PermittedRetryMethods

\* ProhibitedSituationsRule also compares customer_risk_score with 0.85. No context
\* has that field, so the code reads its default 0.0: that branch is never taken.
Denied(c, p, elapsed) ==
  [ FAIL_CLOSED            |-> c.amount <= 0,
    TERMINAL_WORKFLOW_LOCK |-> WorkflowClosed(c),
    PENDING_RECONCILIATION |-> c.code \in PendingErrorCodes,
    PROHIBITED_SITUATION   |-> c.code \in ProhibitedErrorCodes,
    MERCHANT_RESTRICTIONS  |-> MerchantRestricts(c),
    MAX_RETRY_COUNT        |-> RetriesExhausted(c, p),
    MAX_RECOVERY_WINDOW    |-> WindowClosed(c, elapsed),
    PERMITTED_STRATEGIES   |-> StrategyForbidden(p),
    PERMITTED_METHODS      |-> MethodForbidden(c, p) ]

\* Mutant: the caps are looked at for repeated failures only.
NeedsApproval_RepeatedOnly(c) ==
  /\ c.amount >= c.threshold \/ c.amount >= SystemMaxRecoveryAmount
  /\ c.attempt >= 2

\* AutomatedAmountCapRule: above the cap, or a repeated failure of a payment that
\* reaches the lower of the cap and the merchant's threshold.
NeedsApproval(c) ==
  \/ c.amount > SystemMaxRecoveryAmount
  \/ /\ c.amount >= c.threshold \/ c.amount >= SystemMaxRecoveryAmount
     /\ c.attempt >= 2

\* FinancialSafetyPolicyEngine.evaluate: a denial wins over a wish for approval.
PolicyDecision(c, p, elapsed) ==
  LET denied == Denied(c, p, elapsed)
  IN  CASE \E rule \in DOMAIN denied : denied[rule] -> "DENIED"
        [] OTHER -> IF NeedsApproval(c) THEN "REQUIRES_HUMAN_APPROVAL" ELSE "PERMITTED"

PolicyReason(c, p, elapsed) ==
  IF PolicyDecision(c, p, elapsed) = "DENIED"
  THEN FirstViolated(DenialOrder, Denied(c, p, elapsed)) ELSE "AUTOMATED_AMOUNT_CAP"

===============================================================================
