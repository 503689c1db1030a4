--------------------------- MODULE PlanningContract ---------------------------
(***************************************************************************)
(* What planning promises for the failures of one payment, with no         *)
(* partition, offsets, members, transactions or locks: a failure is        *)
(* planned once, and then told as one decision, announcement by            *)
(* announcement, of which a crash may cut off the end; the case of a       *)
(* payment is executed only when a retry was announced, and a case that    *)
(* planning has closed is not opened again.                                *)
(***************************************************************************)
EXTENDS Naturals, RecoveryStates

CONSTANTS
  Failed,   \* the failures of the payment
  Stories,  \* of each decision: its announcements, in their order
  Types,    \* of announcements
  NoCase

VARIABLES
  planned,  \* failures of which the decision is stored
  case,     \* recovery state and status, or NoCase
  payment,
  told      \* of each announcement and failure: how often it was published

planning == <<planned, case, payment, told>>

Begin ==
  /\ planned = {} /\ case = NoCase /\ payment = "FAILED"
  /\ told = [a \in Types \X Failed |-> 0]

\* Planning writes these values of the status.
Decide(f) ==
  /\ f \notin planned
  /\ planned' = planned \cup {f}
  /\ case' # NoCase /\ case'.status \in { "RECOVERY_PENDING", "STOPPED", "ESCALATED" }
  /\ case.status \in TerminalPaymentState => case'.status \in TerminalPaymentState
  /\ UNCHANGED <<payment, told>>

Told(f) == { t \in Types : told[<<t, f>>] > 0 }

\* The next announcement of a decision of which all that comes before was told.
Announce(f) ==
  /\ f \in planned
  /\ \E d \in DOMAIN Stories : \E i \in DOMAIN Stories[d] :
       /\ Told(f) = { Stories[d][j] : j \in 1..(i - 1) }
       /\ told[<<Stories[d][i], f>>] = 0
       /\ told' = [told EXCEPT ![<<Stories[d][i], f>>] = 1]
  /\ UNCHANGED <<planned, case, payment>>

\* An execution ends: it recovers the payment, once, or leaves it as it is.
Execute ==
  /\ \E f \in planned : told[<<"payment.retry_requested", f>>] > 0
  /\ case # NoCase /\ case'.status = case.status
  /\ \/ /\ payment \notin TerminalPaymentState /\ payment' = "RECOVERED"
        /\ case'.state = "RECOVERY_SUCCEEDED"
     \/ payment' = payment
  /\ UNCHANGED <<planned, told>>

Step == (\E f \in Failed : Decide(f) \/ Announce(f)) \/ Execute

Promise == Begin /\ [][Step]_planning

===============================================================================
