--------------------------- MODULE RecoveryContract ---------------------------
(***************************************************************************)
(* What recovery promises for one payment, with no workers, locks, calls   *)
(* or transactions: the attempts are settled one by one and for good, the  *)
(* customer is debited at most once, and a debit ends in a recovery, in    *)
(* which attempt, payment and case change together.  A case that recovery  *)
(* has closed stays closed until it is planned anew; planning may write    *)
(* the case at any time, and what it writes does not stop a recovery that  *)
(* is under way.                                                           *)
(***************************************************************************)
EXTENDS Naturals, RecoveryStates

CONSTANT Numbers   \* attempt numbers

VARIABLES
  status,   \* of the payment
  case,     \* recovery state of its case
  outcome,  \* of each attempt
  debits,   \* how often the customer was debited
  over      \* recovery has closed the case, and planning not opened it since

contract == <<status, case, outcome, debits, over>>

Begin ==
  /\ status \in { "FAILED", "PROCESSING", "ABSENT" }
  /\ case \in { "APPROVED", "FAILED", "ABSENT" }
  /\ outcome \in [Numbers -> { "NONE", "UNKEYED" }]
  /\ debits = 0 /\ over = FALSE

\* The provider takes the money, once.
Debit ==
  /\ ~over /\ status # "RECOVERED"
  /\ debits = 0 /\ debits' = 1
  /\ UNCHANGED <<status, case, outcome, over>>

\* An attempt that was not yet settled gets its outcome.
Conclude(n, how, next) ==
  /\ ~over
  /\ outcome[n] = "NONE"
  /\ outcome' = [outcome EXCEPT ![n] = how]
  /\ case' = next /\ over' = (next \in TerminalRecoveryState)
  /\ UNCHANGED debits

\* The debit is accounted for.
Recover(n) ==
  /\ debits = 1 /\ status # "RECOVERED"
  /\ Conclude(n, "SUCCESS", "RECOVERY_SUCCEEDED")
  /\ status' = "RECOVERED"

\* The attempt failed without a debit: another one may follow, or none.
GiveUp(n) ==
  /\ debits = 0
  /\ \/ Conclude(n, "FAILED_RECOVERABLE", "RECOVERY_FAILED")
     \/ Conclude(n, "FAILED_FINAL", "STOPPED")
  /\ UNCHANGED status

\* The case is closed at the boundary, before any attempt.
CloseCase ==
  /\ ~over /\ debits = 0
  /\ case' \in { "STOPPED", "ESCALATED" } /\ over' = TRUE
  /\ UNCHANGED <<status, outcome, debits>>

\* The customer pays by other means.
PaidElsewhere ==
  /\ status \in { "FAILED", "PROCESSING" }
  /\ status' = "SUCCESS"
  /\ UNCHANGED <<case, outcome, debits, over>>

\* A further failure is planned.
Replan ==
  /\ case # "ABSENT"
  /\ case' \in { "APPROVED", "STOPPED", "ESCALATED" }
  /\ over' = (over /\ case' \in TerminalRecoveryState)
  /\ UNCHANGED <<status, outcome, debits>>

Step ==
  \/ Debit \/ CloseCase \/ PaidElsewhere \/ Replan
  \/ \E n \in Numbers : Recover(n) \/ GiveUp(n)

Promise == Begin /\ [][Step]_contract

===============================================================================
