------------------------------ MODULE RetryPolicy ------------------------------
(***************************************************************************)
(* RecoveryRetryPolicy (app/execution/retry_policy.py): after a failed     *)
(* recovery attempt, decide whether a next one is scheduled, after which   *)
(* backoff, and why not otherwise.  Durations are whole time units.        *)
(***************************************************************************)
EXTENDS Integers

RetryableCodes ==
  { "GATEWAY_TIMEOUT", "BANK_SYSTEM_BUSY", "NETWORK_ERROR", "ROUTE_DEGRADATION",
    "ACQUIRER_DOWNTIME", "TIMEOUT", "DOWNSTREAM_503", "CONNECTION_RESET" }

NonRetryableCodes ==
  { "ACCOUNT_CLOSED", "BLOCKED_CARD", "INVALID_ACCOUNT", "FRAUD_SUSPECTED",
    "CARD_EXPIRED", "INVALID_CVV", "INVALID_PIN", "LIMIT_EXCEEDED",
    "INSUFFICIENT_FUNDS" }

\* is_retryable: an unlisted or missing code is not retryable.
IsRetryable(code) == code \notin NonRetryableCodes /\ code \in RetryableCodes

\* calculate_backoff: base * 2^(attempt - 1), capped.
CalculateBackoff(base, cap, attempt) ==
  LET backoff == IF attempt <= 1 THEN base ELSE base * 2^(attempt - 1)
  IN  IF backoff <= cap THEN backoff ELSE cap

\* Mutant: one attempt too many.
StopReason_OffByOne(attempt, maxRetries, code, elapsed, window) ==
  CASE ~IsRetryable(code)    -> "NON_RETRYABLE_FAILURE"
    [] IsRetryable(code) /\ attempt > maxRetries -> "MAX_RETRIES_EXCEEDED"
    [] IsRetryable(code) /\ attempt <= maxRetries /\ elapsed >= window
                             -> "RECOVERY_WINDOW_EXPIRED"
    [] OTHER                 -> "NONE"

\* The stop reason evaluate_next_retry gives, "NONE" when it schedules a retry.
\* The order of the three checks is the order of the code.
StopReason(attempt, maxRetries, code, elapsed, window) ==
  CASE ~IsRetryable(code)    -> "NON_RETRYABLE_FAILURE"
    [] IsRetryable(code) /\ attempt >= maxRetries -> "MAX_RETRIES_EXCEEDED"
    [] IsRetryable(code) /\ attempt < maxRetries /\ elapsed >= window
                             -> "RECOVERY_WINDOW_EXPIRED"
    [] OTHER                 -> "NONE"

ShouldRetry(attempt, maxRetries, code, elapsed, window) ==
  StopReason(attempt, maxRetries, code, elapsed, window) = "NONE"

===============================================================================
