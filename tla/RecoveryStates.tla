---------------------------- MODULE RecoveryStates ----------------------------
(***************************************************************************)
(* The vocabulary every part of the recovery engine shares: the states of  *)
(* a RecoveryCase and of a Payment, and the transition tables that the     *)
(* code keeps for them (app/models/enums.py,                               *)
(* app/orchestrator/state_machine.py, app/lifecycle/transitions.py).       *)
(***************************************************************************)

\* RecoveryCase.recovery_state.
RecoveryState ==
  { "FAILED", "CLASSIFIED", "RECOVERY_PLANNED", "GUARD_PENDING", "APPROVED",
    "EXECUTING", "RECOVERY_SUCCEEDED", "RECOVERY_FAILED", "ESCALATED", "STOPPED" }

TerminalRecoveryState == { "RECOVERY_SUCCEEDED", "STOPPED", "ESCALATED" }

\* Payment.status (and RecoveryCase.status).
PaymentState ==
  { "CREATED", "PROCESSING", "SUCCESS", "FAILED", "RECOVERY_PENDING",
    "RECOVERING", "RECOVERED", "ESCALATED", "STOPPED" }

TerminalPaymentState == { "SUCCESS", "RECOVERED", "STOPPED", "ESCALATED" }

\* VALID_RECOVERY_TRANSITIONS: the states a case may move to from each state.
RecoverySuccessors ==
  [ FAILED             |-> { "CLASSIFIED", "STOPPED" },
    CLASSIFIED         |-> { "RECOVERY_PLANNED", "STOPPED", "ESCALATED" },
    RECOVERY_PLANNED   |-> { "GUARD_PENDING", "STOPPED" },
    GUARD_PENDING      |-> { "APPROVED", "STOPPED", "ESCALATED" },
    APPROVED           |-> { "EXECUTING", "STOPPED", "ESCALATED" },
    EXECUTING          |-> { "RECOVERY_SUCCEEDED", "RECOVERY_FAILED", "ESCALATED",
                             "STOPPED" },
    RECOVERY_FAILED    |-> { "EXECUTING", "APPROVED", "CLASSIFIED", "STOPPED",
                             "ESCALATED" },
    RECOVERY_SUCCEEDED |-> {},
    STOPPED            |-> {},
    ESCALATED          |-> {} ]

\* RecoveryStateMachine.can_transition.
CanTransition(from, to) == to \in RecoverySuccessors[from]

===============================================================================
