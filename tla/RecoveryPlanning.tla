--------------------------- MODULE RecoveryPlanning ---------------------------
(***************************************************************************)
(* How one failed payment gets its recovery decision: the classification,  *)
(* the plan (of the deterministic selector, or of the three-tier decision  *)
(* hierarchy with a language model behind the AI gateway), the recovery    *)
(* guard, the policy engine, the commit of the decision in the RecoveryCase*)
(* row, and the second evaluation of the policy at the execution boundary  *)
(* when the retry is executed                                              *)
(* (app/orchestrator/orchestrator.py, app/ai/hierarchy.py,                 *)
(* app/ai/gateway.py, app/execution/service.py).                           *)
(***************************************************************************)
EXTENDS PlanningRules

CONSTANTS
  Contexts,        \* the failures that may have to be planned; engine says whether
                   \* the orchestrator is built with a decision engine
  StrictText,      \* does the database refuse text longer than its column?
  BoundaryDelays   \* seconds from the creation of the case to the execution

Answers ==
  [kind : {"ok"}, strategy : {"RETRY", "ALTERNATE_METHOD", "CUSTOMER_NOTIFICATION",
     "ESCALATE", "STOP"}, confident : BOOLEAN, toolsAllowed : BOOLEAN, review : BOOLEAN]
    \cup [kind : {"malformed", "timeout", "outage"}]

ASSUME PlanningAssumption ==
  /\ StrictText \in BOOLEAN
  /\ BoundaryDelays \subseteq Nat
  /\ \A c \in Contexts :
       /\ c.amount \in Int /\ c.threshold \in Int /\ c.minAmount \in Int
       /\ c.attempt \in Nat \ {0} /\ c.maxRetries \in Nat   \* attempts count from 1
       /\ {"attempt", "code", "paymentStatus"} \subseteq DOMAIN c
       /\ c.enabled \in BOOLEAN /\ c.engine \in BOOLEAN

VARIABLES
  ctx,       \* PaymentRecoveryContext of the failure
  stage,     \* the next step of orchestrate_failure
  class,     \* retryability of the classifier
  answer,    \* what the language model returned, if it was asked
  plan,      \* the proposed RecoveryPlan
  decision,  \* what guard and policy engine decided
  reason,    \* why, when they did not approve
  outcome,   \* what the commit made of it: a recovery state, or RAISED
  boundary   \* the policy's decision when the retry is executed

vars == <<ctx, stage, class, answer, plan, decision, reason, outcome, boundary>>

NoAnswer == [kind |-> "none"]
NoPlan   == PlanOf("NONE", "UNKNOWN")

Init ==
  /\ ctx \in Contexts
  /\ stage = "classify"
  /\ class = "UNKNOWN" /\ answer = NoAnswer /\ plan = NoPlan
  /\ decision = "NONE" /\ reason = "NONE" /\ outcome = "NONE" /\ boundary = "NONE"

-------------------------------------------------------------------------------
(* Classification and plan *)

At(from, to) == stage = from /\ stage' = to

ClassifyFailure ==
  /\ At("classify", "propose")
  /\ class' = Classify(ctx.code)
  /\ UNCHANGED <<ctx, answer, plan, decision, reason, outcome, boundary>>

Propose(p) ==
  /\ plan' = p
  /\ UNCHANGED <<ctx, class, decision, reason, outcome, boundary>>

\* Tier 1: an unambiguous first failure; tier 2: a retryable first failure on a
\* clearly degraded route with an alternative.
ClearCase ==
  \/ class \in { "NON_RETRYABLE", "CUSTOMER_ACTION_REQUIRED" }
  \/ class = "RETRYABLE" /\ ctx.route.active /\ ctx.route.health >= 90

DegradedWithAlternative ==
  class = "RETRYABLE" /\ ctx.route.health < 50 /\ ctx.alternatives

Deterministic ==
  ~ctx.engine \/ ((ClearCase \/ DegradedWithAlternative) /\ ctx.attempt <= 1)

ProposeDirectly ==
  /\ Deterministic
  /\ At("propose", "guard")
  /\ Propose(SelectStrategy(ctx, class))
  /\ UNCHANGED answer

\* Tier 3: the gateway asks the model, within its timeout.
Consult ==
  /\ ~Deterministic
  /\ At("propose", "advised")
  /\ answer' \in Answers
  /\ UNCHANGED <<ctx, class, plan, decision, reason, outcome, boundary>>

\* Mutant: the confidence is not compared with the threshold.
Usable_Unsure ==
  /\ answer.kind = "ok" /\ answer.toolsAllowed
  /\ ~answer.review /\ answer.strategy # "ESCALATE"

\* The gateway turns a timeout, an outage, output that violates the schema, a
\* tool that is not allowed and a low confidence into ESCALATE with review.
Usable ==
  /\ answer.kind = "ok" /\ answer.toolsAllowed /\ answer.confident
  /\ ~answer.review /\ answer.strategy # "ESCALATE"

\* map_ai_strategy_to_domain.
DomainStrategy ==
  [ RETRY                 |-> "DETERMINISTIC_RETRY_BACKOFF",
    ALTERNATE_METHOD      |-> "ROUTE_FAILOVER",
    CUSTOMER_NOTIFICATION |-> "NOTIFY_CUSTOMER_LINK",
    ESCALATE              |-> "MANUAL_REVIEW",
    STOP                  |-> "TERMINAL_ABANDON" ]

\* A usable recommendation becomes the plan, with a retryability of its own.
Adopt ==
  /\ At("advised", "guard")
  /\ Usable
  /\ LET strategy == DomainStrategy[answer.strategy]
     IN  Propose(PlanOf(strategy, IF strategy \in RetryStrategy THEN "RETRYABLE"
                                  ELSE "CUSTOMER_ACTION_REQUIRED"))
  /\ UNCHANGED answer

\* Otherwise the deterministic rule if there is a safe one, else manual review.
FallBack ==
  /\ At("advised", "guard")
  /\ ~Usable
  /\ Propose(IF class = "RETRYABLE" /\ ctx.route.active
             THEN SelectStrategy(ctx, class) ELSE PlanOf("MANUAL_REVIEW", "UNKNOWN"))
  /\ UNCHANGED answer

-------------------------------------------------------------------------------
(* Guard, policy, commit, boundary *)

\* The context is stamped with the time of planning (orchestrator.py:373), so no
\* time has elapsed when guard and policy look at it.
Elapsed == 0

Decide(d, why) ==
  /\ decision' = d /\ reason' = why
  /\ UNCHANGED <<ctx, class, answer, plan, outcome, boundary>>

GuardPass ==
  /\ At("guard", "authorize")
  /\ GuardPasses(ctx, plan, Elapsed)
  /\ UNCHANGED <<ctx, class, answer, plan, decision, reason, outcome, boundary>>

GuardHalt ==
  /\ At("guard", "store")
  /\ ~GuardPasses(ctx, plan, Elapsed)
  /\ LET why == GuardStopReason(ctx, plan, Elapsed)
     IN  Decide(IF why \in EscalatingGuards THEN "ESCALATED" ELSE "STOPPED", why)

DecisionOf ==
  [ PERMITTED |-> "APPROVED", DENIED |-> "STOPPED",
    REQUIRES_HUMAN_APPROVAL |-> "ESCALATED" ]

Authorize ==
  /\ At("authorize", "store")
  /\ LET verdict == PolicyDecision(ctx, plan, Elapsed)
     IN  Decide(DecisionOf[verdict], IF verdict = "PERMITTED" THEN "NONE"
                                     ELSE PolicyReason(ctx, plan, Elapsed))

\* The reasons whose text is longer than the 100 characters of
\* recovery_cases.stop_reason: 139 and more for a pending code, 101 and more for
\* the amount cap, 103 for one of the prohibited codes.
TooLong ==
  \/ reason \in { "PENDING_RECONCILIATION", "AUTOMATED_AMOUNT_CAP" }
  \/ reason = "PROHIBITED_SITUATION" /\ ctx.code = "VELOCITY_CHECK_FAILED"

\* The commit of the case row: PostgreSQL refuses the long text and the
\* transaction, the record of the processed event included, is rolled back.
Store ==
  /\ At("store", "stored")
  /\ outcome' = IF StrictText /\ TooLong THEN "RAISED" ELSE decision
  /\ UNCHANGED <<ctx, class, answer, plan, decision, reason, boundary>>

\* Mutant: the boundary looks at the attempt that failed.
BoundaryContext_SameAttempt ==
  [ctx EXCEPT !.code = "RETRY_EXECUTION", !.paymentStatus = "FAILED"]

\* An approved retry is executed as the next attempt: an executor with a policy
\* engine evaluates it again, with an error code of its own and the age of the case.
BoundaryContext ==
  [ctx EXCEPT !.attempt = @ + 1, !.code = "RETRY_EXECUTION", !.paymentStatus = "FAILED"]

Revalidate ==
  /\ At("stored", "revalidated")
  /\ outcome = "APPROVED" /\ plan.strategy \in RetryStrategy
  /\ \E delay \in BoundaryDelays :
       boundary' = PolicyDecision(BoundaryContext, PlanOf(plan.strategy, "RETRYABLE"), delay)
  /\ UNCHANGED <<ctx, class, answer, plan, decision, reason, outcome>>

Next ==
  \/ ClassifyFailure \/ ProposeDirectly \/ Consult \/ Adopt \/ FallBack
  \/ GuardPass \/ GuardHalt \/ Authorize \/ Store \/ Revalidate

Spec == Init /\ [][Next]_vars

-------------------------------------------------------------------------------
(* Properties *)

Approved == outcome = "APPROVED"
RetryApproved == Approved /\ plan.strategy \in RetryStrategy

\* Whoever proposed the plan, an approved one respects the merchant's limits and
\* the engine's: opt-in, amounts, attempts, rail, hold and fraud codes, closed
\* payments and cases (the "zero AI bypass" of app/policy/rules.py:5).
ApprovedMeansSafe ==
  Approved =>
    /\ ctx.enabled
    /\ ctx.amount > 0 /\ ctx.amount >= ctx.minAmount
    /\ ctx.amount <= SystemMaxRecoveryAmount
    /\ ctx.attempt >= 2 => ctx.amount < ctx.threshold
    /\ ctx.attempt < ctx.maxRetries
    /\ ctx.code \notin PendingErrorCodes \cup ProhibitedErrorCodes
    /\ {ctx.caseStatus, ctx.paymentStatus} \cap TerminalPaymentState = {}
    /\ plan.strategy \in RetryStrategy => ctx.method \in PermittedRetryMethods

\* A failure whose code no table knows is never retried, whoever proposed the plan
\* ("unknown error code escalates to manual review without retrying",
\* tests/test_orchestrator.py:390, of the whole pipeline without a model).
UnknownNotRetried == RetryApproved => Classify(ctx.code) # "UNKNOWN"

\* A retry rests on a code that is known to be retryable, or on advice that came
\* in time, is well formed, sure of itself and names allowed tools only.
RetryHasBasis ==
  RetryApproved =>
    \/ answer.kind = "ok" /\ answer.confident /\ answer.toolsAllowed
    \/ ctx.code \in KnownRetryableCodes /\ (answer # NoAnswer => ctx.route.active)

\* After the guard, the policy engine halts a deterministic plan for what only it
\* looks at: the guard and the code tables cover its other rules.
PolicyAddsOnly ==
  answer.kind # "ok" /\ reason \in ToSet(DenialOrder) =>
    reason \in { "TERMINAL_WORKFLOW_LOCK", "PERMITTED_METHODS" }

\* The policy engine at the boundary never permits what planning must refuse: a
\* high value as a repeated attempt, or the attempt that reaches the limit (so the
\* last retry that planning approves is never executed by such an executor).
BoundaryMeansSafe ==
  boundary = "PERMITTED" =>
    ctx.amount < ctx.threshold /\ ctx.attempt + 1 < ctx.maxRetries

===============================================================================
