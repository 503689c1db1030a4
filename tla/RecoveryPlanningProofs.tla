------------------------ MODULE RecoveryPlanningProofs ------------------------
(* Every approved plan is safe, whatever failure is planned and whatever the   *)
(* language model answers: proof for all contexts and delays; the report of    *)
(* the benchmark is earned; and what the policy engine adds to the guard.      *)
EXTENDS RecoveryBenchmark, WellFoundedInduction, TLAPS

\* What the policy engine's verdict alone says of a context and a plan.
LEMMA PermittedMeans ==
  ASSUME NEW c \in Contexts, NEW p, NEW e,
         PolicyDecision(c, p, e) = "PERMITTED"
  PROVE  /\ c.amount > 0 /\ c.amount <= SystemMaxRecoveryAmount
         /\ c.attempt >= 2 => c.amount < c.threshold
         /\ c.code \notin PendingErrorCodes /\ c.code \notin ProhibitedErrorCodes
         /\ c.caseStatus \notin TerminalPaymentState
         /\ c.paymentStatus \notin TerminalPaymentState
         /\ c.enabled /\ c.amount >= c.minAmount
         /\ p.strategy \in RetryStrategy => c.method \in PermittedRetryMethods
  <1>1. \A rule \in DOMAIN Denied(c, p, e) : ~Denied(c, p, e)[rule]
    BY DEF PolicyDecision
  <1>2. ~NeedsApproval(c)
    BY <1>1 DEF PolicyDecision
  <1>3. /\ c.amount \in Int /\ c.threshold \in Int /\ c.minAmount \in Int
        /\ c.attempt \in Nat /\ c.enabled \in BOOLEAN
    BY PlanningAssumption
  <1>4. /\ ~(c.amount <= 0)
        /\ ~WorkflowClosed(c)
        /\ c.code \notin PendingErrorCodes
        /\ c.code \notin ProhibitedErrorCodes
        /\ ~(~c.enabled \/ c.amount < c.minAmount)
        /\ ~(p.strategy \in RetryStrategy /\ c.method \notin PermittedRetryMethods)
    <2>1. {"FAIL_CLOSED", "TERMINAL_WORKFLOW_LOCK", "PENDING_RECONCILIATION",
           "PROHIBITED_SITUATION", "MERCHANT_RESTRICTIONS", "PERMITTED_METHODS"}
            \subseteq DOMAIN Denied(c, p, e)
      BY DEF Denied
    <2>2. /\ ~Denied(c, p, e)["FAIL_CLOSED"]
          /\ ~Denied(c, p, e)["TERMINAL_WORKFLOW_LOCK"]
          /\ ~Denied(c, p, e)["PENDING_RECONCILIATION"]
          /\ ~Denied(c, p, e)["PROHIBITED_SITUATION"]
          /\ ~Denied(c, p, e)["MERCHANT_RESTRICTIONS"]
          /\ ~Denied(c, p, e)["PERMITTED_METHODS"]
      BY <1>1, <2>1
    <2> QED BY <2>2 DEF Denied, MerchantRestricts, MethodForbidden
  <1>5. /\ c.amount <= SystemMaxRecoveryAmount
        /\ c.attempt >= 2 => c.amount < c.threshold
    BY <1>2, <1>3 DEF NeedsApproval, SystemMaxRecoveryAmount
  <1> QED BY <1>3, <1>4, <1>5 DEF WorkflowClosed

\* The guard lets no failure through at or above the retry limit.
LEMMA GuardMeans ==
  ASSUME NEW c \in Contexts, NEW p, NEW e, GuardPasses(c, p, e)
  PROVE  c.attempt < c.maxRetries
  <1>1. ~GuardViolated(c, p, e)["MAX_RETRIES"]
    <2>1. "MAX_RETRIES" \in DOMAIN GuardViolated(c, p, e)
      BY DEF GuardViolated
    <2> QED BY <2>1 DEF GuardPasses
  <1>2. ~(c.attempt >= c.maxRetries)
    BY <1>1 DEF GuardViolated
  <1> QED BY <1>2, PlanningAssumption

\* The plan does not change once the guard has passed it, and an approval is the
\* policy engine's verdict on that very plan.
PlanningInv ==
  /\ ctx \in Contexts
  /\ stage \in { "classify", "propose", "advised", "guard", "authorize" } =>
       decision = "NONE" /\ outcome = "NONE"
  /\ stage \in { "authorize" } \/ decision = "APPROVED" => GuardPasses(ctx, plan, Elapsed)
  /\ decision = "APPROVED" => PolicyDecision(ctx, plan, Elapsed) = "PERMITTED"
  /\ outcome = "APPROVED" => decision = "APPROVED"

LEMMA PlanningStarts == Init => PlanningInv
  BY DEF Init, PlanningInv

LEMMA PlanningKeeps == PlanningInv /\ [Next]_vars => PlanningInv'
<1> SUFFICES ASSUME PlanningInv, [Next]_vars PROVE PlanningInv'
  OBVIOUS
<1>1. CASE ClassifyFailure \/ Consult \/ Store \/ Revalidate
  BY <1>1 DEF PlanningInv, ClassifyFailure, Consult, Store, Revalidate, At, Elapsed
<1>2. CASE ProposeDirectly \/ Adopt \/ FallBack
  BY <1>2 DEF PlanningInv, ProposeDirectly, Adopt, FallBack, Propose, At
<1>3. CASE GuardPass
  BY <1>3 DEF PlanningInv, GuardPass, At, Elapsed
<1>4. CASE GuardHalt
  BY <1>4 DEF PlanningInv, GuardHalt, Decide, At, Elapsed
<1>5. CASE Authorize
  <2>1. PolicyDecision(ctx, plan, Elapsed) \in
          { "PERMITTED", "DENIED", "REQUIRES_HUMAN_APPROVAL" }
    BY DEF PolicyDecision
  <2>2. decision' = "APPROVED" => PolicyDecision(ctx, plan, Elapsed) = "PERMITTED"
    BY <1>5, <2>1 DEF Authorize, Decide, DecisionOf
  <2> QED BY <1>5, <2>2 DEF PlanningInv, Authorize, Decide, At, Elapsed
<1>6. CASE UNCHANGED vars
  BY <1>6 DEF PlanningInv, vars, Elapsed
<1> QED BY <1>1, <1>2, <1>3, <1>4, <1>5, <1>6 DEF Next

LEMMA PlanningMeans == PlanningInv => ApprovedMeansSafe
<1> SUFFICES ASSUME PlanningInv, outcome = "APPROVED"
             PROVE  ApprovedMeansSafe
  BY DEF ApprovedMeansSafe, Approved
<1>1. /\ ctx \in Contexts /\ GuardPasses(ctx, plan, Elapsed)
      /\ PolicyDecision(ctx, plan, Elapsed) = "PERMITTED"
  BY DEF PlanningInv
<1>2. ctx.attempt < ctx.maxRetries
  BY <1>1, GuardMeans
<1> QED BY <1>1, <1>2, PermittedMeans DEF ApprovedMeansSafe

\* An approved plan respects the limits of merchant and engine, whoever proposed it.
THEOREM SafePlans == Spec => []ApprovedMeansSafe
BY PlanningStarts, PlanningKeeps, PlanningMeans, PTL DEF Spec

\* A verdict of the policy engine on a retry also bounds its attempts.
LEMMA RetryPermittedMeans ==
  ASSUME NEW c, NEW p, NEW e, c.attempt \in Nat, c.maxRetries \in Nat,
         c.amount \in Int, c.threshold \in Int,
         p.strategy \in RetryStrategy,
         PolicyDecision(c, p, e) = "PERMITTED"
  PROVE  /\ c.attempt < c.maxRetries
         /\ c.attempt >= 2 => c.amount < c.threshold
  <1>1. \A rule \in DOMAIN Denied(c, p, e) : ~Denied(c, p, e)[rule]
    BY DEF PolicyDecision
  <1>2. ~NeedsApproval(c)
    BY <1>1 DEF PolicyDecision
  <1>3. ~RetriesExhausted(c, p)
    <2>1. "MAX_RETRY_COUNT" \in DOMAIN Denied(c, p, e)
      BY DEF Denied
    <2>2. ~Denied(c, p, e)["MAX_RETRY_COUNT"]
      BY <1>1, <2>1
    <2> QED BY <2>2 DEF Denied
  <1>4. c.attempt < c.maxRetries
    BY <1>3 DEF RetriesExhausted
  <1> QED BY <1>2, <1>4 DEF NeedsApproval

\* What the boundary permitted, it permitted for the next attempt of this very plan.
BoundaryInv ==
  /\ ctx \in Contexts
  /\ boundary = "PERMITTED" =>
       \E delay \in BoundaryDelays :
         /\ plan.strategy \in RetryStrategy
         /\ PolicyDecision(BoundaryContext, PlanOf(plan.strategy, "RETRYABLE"), delay)
              = "PERMITTED"
  /\ stage # "revalidated" => boundary = "NONE"

\* The boundary permits neither a repeated attempt of a high value nor the attempt
\* that reaches the merchant's limit, for every failure, plan and delay.
THEOREM BoundarySafe == Spec => []BoundaryMeansSafe
<1>1. Init => BoundaryInv
  BY DEF Init, BoundaryInv
<1>2. BoundaryInv /\ [Next]_vars => BoundaryInv'
  <2> SUFFICES ASSUME BoundaryInv, [Next]_vars PROVE BoundaryInv'
    OBVIOUS
  <2>1. CASE ClassifyFailure \/ ProposeDirectly \/ Consult \/ Adopt \/ FallBack
    <3>1. stage \in { "classify", "propose", "advised" } /\ stage' # "revalidated"
      BY <2>1 DEF ClassifyFailure, ProposeDirectly, Consult, Adopt, FallBack, At
    <3>2. ctx' = ctx /\ boundary' = boundary
      BY <2>1 DEF ClassifyFailure, ProposeDirectly, Consult, Adopt, FallBack, Propose
    <3> QED BY <3>1, <3>2 DEF BoundaryInv
  <2>2. CASE GuardPass \/ GuardHalt \/ Authorize \/ Store
    <3>1. stage \in { "guard", "authorize", "store" } /\ stage' # "revalidated"
      BY <2>2 DEF GuardPass, GuardHalt, Authorize, Store, At
    <3>2. ctx' = ctx /\ boundary' = boundary
      BY <2>2 DEF GuardPass, GuardHalt, Authorize, Store, Decide
    <3> QED BY <3>1, <3>2 DEF BoundaryInv
  <2>3. CASE Revalidate
    <3>1. PICK delay \in BoundaryDelays :
            boundary' = PolicyDecision(BoundaryContext, PlanOf(plan.strategy, "RETRYABLE"), delay)
      BY <2>3 DEF Revalidate
    <3>2. /\ ctx' = ctx /\ plan' = plan /\ stage' = "revalidated"
          /\ plan.strategy \in RetryStrategy
          /\ BoundaryContext' = BoundaryContext
      BY <2>3 DEF Revalidate, At, BoundaryContext
    <3> QED BY <3>1, <3>2 DEF BoundaryInv
  <2>4. CASE UNCHANGED vars
    BY <2>4 DEF BoundaryInv, vars, BoundaryContext
  <2> QED BY <2>1, <2>2, <2>3, <2>4 DEF Next
<1>3. BoundaryInv => BoundaryMeansSafe
  <2> SUFFICES ASSUME BoundaryInv, boundary = "PERMITTED"
               PROVE  ctx.amount < ctx.threshold /\ ctx.attempt + 1 < ctx.maxRetries
    BY DEF BoundaryMeansSafe
  <2> DEFINE next == BoundaryContext
             p == PlanOf(plan.strategy, "RETRYABLE")
  <2>1. PICK delay \in BoundaryDelays :
          plan.strategy \in RetryStrategy /\ PolicyDecision(next, p, delay) = "PERMITTED"
    BY DEF BoundaryInv
  <2>2. /\ ctx.attempt \in Nat \ {0} /\ ctx.maxRetries \in Nat
        /\ ctx.amount \in Int /\ ctx.threshold \in Int
        /\ "attempt" \in DOMAIN ctx
    BY PlanningAssumption DEF BoundaryInv
  <2>3. /\ next.attempt = ctx.attempt + 1 /\ next.maxRetries = ctx.maxRetries
        /\ next.amount = ctx.amount /\ next.threshold = ctx.threshold
    BY <2>2 DEF BoundaryContext
  <2>4. p.strategy \in RetryStrategy
    BY <2>1 DEF PlanOf
  <2> HIDE DEF next, p
  <2>5. next.attempt < next.maxRetries /\ (next.attempt >= 2 => next.amount < next.threshold)
    BY <2>1, <2>2, <2>3, <2>4, RetryPermittedMeans
  <2> QED BY <2>2, <2>3, <2>5
<1> QED BY <1>1, <1>2, <1>3, PTL DEF Spec

\* A plan that retries has its basis from the moment it is proposed.
Basis ==
  \/ answer.kind = "ok" /\ answer.confident /\ answer.toolsAllowed
  \/ ctx.code \in KnownRetryableCodes /\ (answer # NoAnswer => ctx.route.active)

BasisInv ==
  /\ stage # "classify" => class = Classify(ctx.code)
  /\ stage \in { "classify", "propose" } => answer = NoAnswer
  /\ stage \in { "guard", "authorize", "store", "stored", "revalidated" } =>
       (plan.strategy \in RetryStrategy => Basis)
  /\ outcome # "NONE" => stage \in { "stored", "revalidated" }

\* The classifier calls nothing retryable that its table does not list, and the
\* selector retries nothing else.
LEMMA RetryMeansKnown ==
  ASSUME NEW code, NEW c, SelectStrategy(c, Classify(code)).strategy \in RetryStrategy
  PROVE  code \in KnownRetryableCodes
  <1>1. Classify(code) = "RETRYABLE"
    BY DEF SelectStrategy, PlanOf, RetryStrategy, Classify
  <1> QED BY <1>1 DEF Classify

\* Every approved retry rests on a known retryable code or on valid advice.
THEOREM RetriesGrounded == Spec => []RetryHasBasis
<1>1. Init => BasisInv
  BY DEF Init, BasisInv
<1>2. BasisInv /\ [Next]_vars => BasisInv'
  <2> SUFFICES ASSUME BasisInv, [Next]_vars PROVE BasisInv'
    OBVIOUS
  <2>1. CASE ClassifyFailure
    BY <2>1 DEF BasisInv, ClassifyFailure, At
  <2>2. CASE ProposeDirectly
    <3>1. plan'.strategy \in RetryStrategy => ctx.code \in KnownRetryableCodes
      BY <2>2, RetryMeansKnown DEF BasisInv, ProposeDirectly, Propose, At
    <3>2. answer' = NoAnswer /\ ctx' = ctx /\ class' = class /\ outcome' = outcome
          /\ stage = "propose" /\ stage' = "guard"
      BY <2>2 DEF BasisInv, ProposeDirectly, Propose, At
    <3> QED BY <3>1, <3>2 DEF BasisInv, Basis
  <2>3. CASE Consult
    BY <2>3 DEF BasisInv, Consult, At
  <2>4. CASE Adopt
    BY <2>4 DEF BasisInv, Basis, Adopt, Usable, Propose, At
  <2>5. CASE FallBack
    <3>1. plan'.strategy \in RetryStrategy => ctx.code \in KnownRetryableCodes /\ ctx.route.active
      <4>1. CASE class = "RETRYABLE" /\ ctx.route.active
        BY <2>5, <4>1, RetryMeansKnown DEF BasisInv, FallBack, Propose, At
      <4>2. CASE ~(class = "RETRYABLE" /\ ctx.route.active)
        BY <2>5, <4>2 DEF FallBack, Propose, PlanOf, RetryStrategy
      <4> QED BY <4>1, <4>2
    <3>2. ctx' = ctx /\ class' = class /\ outcome' = outcome /\ answer' = answer
          /\ stage = "advised" /\ stage' = "guard"
      BY <2>5 DEF FallBack, Propose, At
    <3> QED BY <3>1, <3>2 DEF BasisInv, Basis
  <2>6. CASE GuardPass \/ GuardHalt \/ Authorize
    <3>1. UNCHANGED <<ctx, class, answer, plan, outcome>>
      BY <2>6 DEF GuardPass, GuardHalt, Authorize, Decide
    <3>2. stage \in { "guard", "authorize" } /\ stage' \in { "authorize", "store" }
      BY <2>6 DEF GuardPass, GuardHalt, Authorize, At
    <3> QED BY <3>1, <3>2 DEF BasisInv, Basis
  <2>7. CASE Store \/ Revalidate
    BY <2>7 DEF BasisInv, Basis, Store, Revalidate, At
  <2>8. CASE UNCHANGED vars
    BY <2>8 DEF BasisInv, Basis, vars
  <2> QED BY <2>1, <2>2, <2>3, <2>4, <2>5, <2>6, <2>7, <2>8 DEF Next
<1>3. BasisInv => RetryHasBasis
  BY DEF BasisInv, Basis, RetryHasBasis, RetryApproved, Approved
<1> QED BY <1>1, <1>2, <1>3, PTL DEF Spec

-------------------------------------------------------------------------------
(* The benchmark *)

\* What the payments have in common that the naive engine recovers.
Ordinary(c) ==
  /\ c.code = "GATEWAY_TIMEOUT" /\ c.attempt = 1 /\ c.maxRetries = 2
  /\ c.amount \in Nat /\ c.amount >= 50 /\ c.amount < 50000
  /\ c.minAmount = 50 /\ c.threshold = 50000 /\ c.enabled
  /\ c.method \in { "UPI", "CREDIT_CARD", "DEBIT_CARD", "NETBANKING" }
  /\ c.route.active /\ c.route.status = "HEALTHY" /\ c.route.health = 95
  /\ c.paymentStatus = "FAILED" /\ c.caseStatus = "RECOVERY_PENDING"

Backoff == PlanOf("DETERMINISTIC_RETRY_BACKOFF", "RETRYABLE")

LEMMA NaiveMeansOrdinary ==
  ASSUME NEW b \in Cases, NaiveRecovers(b), NEW engine
  PROVE  Ordinary(SeededContext(b, engine)) /\ Traits[b.profile].health = 95
  <1>1. b.profile \in Profile \ { "stale", "fraud", "pending", "highValue" }
    BY DEF Cases, NaiveRecovers, Unsafe
  <1>2. b.profile = "transient"
    BY <1>1 DEF NaiveRecovers, Profile, Traits
  <1>3. /\ b.amount \in { 50, 450, 600, 9500 }
        /\ b.method \in { "UPI", "CREDIT_CARD", "DEBIT_CARD", "NETBANKING" }
    BY <1>2 DEF Cases, Amounts
  <1>4. /\ Traits[b.profile].code = "GATEWAY_TIMEOUT"
        /\ Traits[b.profile].health = 95
    BY <1>2 DEF Traits
  <1> QED BY <1>2, <1>3, <1>4 DEF Ordinary, SeededContext

LEMMA OrdinarySelected ==
  ASSUME NEW c, Ordinary(c)
  PROVE  Classify(c.code) = "RETRYABLE" /\ SelectStrategy(c, "RETRYABLE") = Backoff
  <1>1. Classify(c.code) = "RETRYABLE"
    BY DEF Ordinary, Classify, KnownRetryableCodes, KnownNonRetryableCodes,
           KnownCustomerActionCodes
  <1>2. RouteHealthy(c)
    BY DEF Ordinary, RouteHealthy
  <1> QED BY <1>1, <1>2 DEF SelectStrategy, HandleRetryable, Backoff

LEMMA OrdinaryApproved ==
  ASSUME NEW c, Ordinary(c)
  PROVE  GuardPasses(c, Backoff, 0) /\ PolicyDecision(c, Backoff, 0) = "PERMITTED"
  <1>1. Backoff.strategy = "DETERMINISTIC_RETRY_BACKOFF" /\ Backoff.retryability = "RETRYABLE"
    BY DEF Backoff, PlanOf
  <1>2. GuardPasses(c, Backoff, 0)
    <2>1. GuardWindow(c.method) \in { 900, 3600, 7200 }
      BY DEF GuardWindow
    <2>2. ~(0 > GuardWindow(c.method))
      BY <2>1
    <2> DEFINE violated == GuardViolated(c, Backoff, 0)
    <2>3. DOMAIN violated =
            { "SAFETY_UNKNOWN_ERROR", "NON_RETRYABLE_ERROR", "MERCHANT_ENABLED",
              "HIGH_VALUE_ESCALATION", "MAX_RETRIES", "MIN_RECOVERY_VALUE", "MAX_WINDOW_SLA" }
      BY DEF GuardViolated
    <2>4. ~violated["SAFETY_UNKNOWN_ERROR"] /\ ~violated["NON_RETRYABLE_ERROR"]
      BY <1>1 DEF GuardViolated
    <2>5. /\ c.enabled /\ ~(c.attempt >= 2) /\ ~(c.attempt >= c.maxRetries)
          /\ ~(c.amount < c.minAmount)
      BY DEF Ordinary
    <2>6. /\ ~violated["MERCHANT_ENABLED"] /\ ~violated["MAX_WINDOW_SLA"]
          /\ ~violated["HIGH_VALUE_ESCALATION"] /\ ~violated["MAX_RETRIES"]
          /\ ~violated["MIN_RECOVERY_VALUE"]
      BY <2>2, <2>5 DEF GuardViolated
    <2> HIDE DEF violated
    <2>7. \A guard \in DOMAIN violated : ~violated[guard]
      BY <2>3, <2>4, <2>6
    <2> QED BY <2>7 DEF GuardPasses, violated
  <1>3. /\ ~(c.amount <= 0) /\ ~WorkflowClosed(c)
        /\ c.code \notin PendingErrorCodes /\ c.code \notin ProhibitedErrorCodes
        /\ ~MerchantRestricts(c) /\ ~RetriesExhausted(c, Backoff) /\ ~WindowClosed(c, 0)
        /\ ~StrategyForbidden(Backoff) /\ ~MethodForbidden(c, Backoff)
    BY <1>1 DEF Ordinary, WorkflowClosed, TerminalPaymentState, PendingErrorCodes,
                ProhibitedErrorCodes, MerchantRestricts, RetriesExhausted, WindowClosed,
                PolicyWindow, StrategyForbidden, PermittedStrategies, RecoveryStrategy,
                MethodForbidden, PermittedRetryMethods
  <1>4. \A rule \in DOMAIN Denied(c, Backoff, 0) : ~Denied(c, Backoff, 0)[rule]
    <2> DEFINE denied == Denied(c, Backoff, 0)
    <2>1. DOMAIN denied =
            { "FAIL_CLOSED", "TERMINAL_WORKFLOW_LOCK", "PENDING_RECONCILIATION",
              "PROHIBITED_SITUATION", "MERCHANT_RESTRICTIONS", "MAX_RETRY_COUNT",
              "MAX_RECOVERY_WINDOW", "PERMITTED_STRATEGIES", "PERMITTED_METHODS" }
      BY DEF Denied
    <2>2. /\ ~denied["FAIL_CLOSED"] /\ ~denied["TERMINAL_WORKFLOW_LOCK"]
          /\ ~denied["PENDING_RECONCILIATION"] /\ ~denied["PROHIBITED_SITUATION"]
          /\ ~denied["MERCHANT_RESTRICTIONS"] /\ ~denied["MAX_RETRY_COUNT"]
          /\ ~denied["MAX_RECOVERY_WINDOW"] /\ ~denied["PERMITTED_STRATEGIES"]
          /\ ~denied["PERMITTED_METHODS"]
      BY <1>3 DEF Denied
    <2> HIDE DEF denied
    <2>3. \A rule \in DOMAIN denied : ~denied[rule]
      BY <2>1, <2>2
    <2> QED BY <2>3 DEF denied
  <1>5. ~NeedsApproval(c)
    BY DEF NeedsApproval, Ordinary, SystemMaxRecoveryAmount
  <1> QED BY <1>2, <1>4, <1>5 DEF PolicyDecision

\* An ordinary payment goes straight to its approval, past the model.
OrdinaryInv ==
  /\ stage = "propose" => class = Classify(ctx.code)
  /\ Ordinary(ctx) =>
       /\ stage # "advised"
       /\ stage \in { "guard", "authorize", "store", "stored", "revalidated" } => plan = Backoff
       /\ stage = "store" => decision = "APPROVED" /\ reason = "NONE"
       /\ stage \in { "stored", "revalidated" } => outcome = "APPROVED"

LEMMA OrdinaryKeeps == OrdinaryInv /\ [Next]_vars => OrdinaryInv'
<1> SUFFICES ASSUME OrdinaryInv, [Next]_vars PROVE OrdinaryInv'
  OBVIOUS
<1>0. ctx' = ctx
  BY DEF Next, vars, ClassifyFailure, ProposeDirectly, Consult, Adopt, FallBack, GuardPass,
         GuardHalt, Authorize, Store, Revalidate, Propose, Decide
<1>1. CASE ClassifyFailure
  BY <1>1 DEF OrdinaryInv, ClassifyFailure, At
<1>2. CASE ProposeDirectly
  BY <1>2, OrdinarySelected DEF OrdinaryInv, ProposeDirectly, Propose, At
<1>3. CASE Consult
  <2>1. stage = "propose" /\ ~Deterministic
    BY <1>3 DEF Consult, At
  <2>2. ~Ordinary(ctx)
    BY <2>1, OrdinarySelected DEF OrdinaryInv, Ordinary, Deterministic, ClearCase
  <2> QED BY <1>0, <1>3, <2>2 DEF OrdinaryInv, Consult, At
<1>4. CASE Adopt \/ FallBack
  BY <1>4, <1>0 DEF OrdinaryInv, Adopt, FallBack, At
<1>5. CASE GuardPass
  BY <1>5 DEF OrdinaryInv, GuardPass, At
<1>6. CASE GuardHalt
  <2>1. stage = "guard" /\ ~GuardPasses(ctx, plan, 0)
    BY <1>6 DEF GuardHalt, At, Elapsed
  <2>2. ~Ordinary(ctx)
    BY <2>1, OrdinaryApproved DEF OrdinaryInv
  <2> QED BY <1>0, <1>6, <2>2 DEF OrdinaryInv, GuardHalt, At
<1>7. CASE Authorize
  <2>1. stage = "authorize" /\ stage' = "store" /\ plan' = plan
    BY <1>7 DEF Authorize, At, Decide
  <2>2. Ordinary(ctx) => decision' = "APPROVED" /\ reason' = "NONE"
    <3> SUFFICES ASSUME Ordinary(ctx) PROVE decision' = "APPROVED" /\ reason' = "NONE"
      OBVIOUS
    <3>1. PolicyDecision(ctx, plan, Elapsed) = "PERMITTED"
      BY <2>1, OrdinaryApproved DEF OrdinaryInv, Elapsed
    <3> QED BY <1>7, <3>1 DEF Authorize, Decide, DecisionOf
  <2> QED BY <1>0, <2>1, <2>2 DEF OrdinaryInv
<1>8. CASE Store
  BY <1>8 DEF OrdinaryInv, Store, TooLong, At
<1>9. CASE Revalidate
  BY <1>9 DEF OrdinaryInv, Revalidate, At
<1>10. CASE UNCHANGED vars
  BY <1>10 DEF OrdinaryInv, vars
<1> QED BY <1>1, <1>2, <1>3, <1>4, <1>5, <1>6, <1>7, <1>8, <1>9, <1>10 DEF Next

\* What the ground truth calls unsafe is what the rules refuse.
LEMMA UnsafeRefused ==
  ASSUME ApprovedMeansSafe, outcome = "APPROVED",
         NEW b \in Cases, NEW engine, ctx = SeededContext(b, engine)
  PROVE  ~Unsafe(b)
  <1>1. /\ ctx.amount <= SystemMaxRecoveryAmount
        /\ ctx.code \notin PendingErrorCodes \cup ProhibitedErrorCodes
        /\ ctx.paymentStatus \notin TerminalPaymentState
    BY DEF ApprovedMeansSafe, Approved
  <1>2. /\ ctx.amount = b.amount /\ ctx.code = Traits[b.profile].code
        /\ ctx.paymentStatus = IF b.profile = "stale" THEN "SUCCESS" ELSE "FAILED"
    BY DEF SeededContext
  <1>3. b.profile # "stale"
    BY <1>1, <1>2 DEF TerminalPaymentState
  <1>4. b.profile # "fraud"
    BY <1>1, <1>2 DEF Traits, ProhibitedErrorCodes
  <1>5. b.profile # "pending"
    BY <1>1, <1>2 DEF Traits, PendingErrorCodes
  <1>6. b.profile # "highValue"
    BY <1>1, <1>2 DEF Cases, Amounts, SystemMaxRecoveryAmount
  <1> QED BY <1>3, <1>4, <1>5, <1>6 DEF Unsafe

\* The zero unsafe actions that the report assumes are what the rules guarantee, and
\* the orchestrator recovers whatever the naive engine recovers.
THEOREM ReportEarned == Spec => []ReportIsEarned
<1>1. Init => OrdinaryInv
  BY DEF Init, OrdinaryInv
<1>2. OrdinaryInv /\ ApprovedMeansSafe => ReportIsEarned
  <2> SUFFICES ASSUME OrdinaryInv, ApprovedMeansSafe, stage = "stored", NEW b \in Evaluated
               PROVE  /\ Unsafe(b) => outcome # "APPROVED"
                      /\ NaiveRecovers(b) => Recovers(b)
    BY DEF ReportIsEarned
  <2>1. b \in Cases /\ ctx = SeededContext(b, ctx.engine)
    BY DEF Evaluated
  <2>2. Unsafe(b) => outcome # "APPROVED"
    BY <2>1, UnsafeRefused
  <2>3. NaiveRecovers(b) => Recovers(b)
    <3> SUFFICES ASSUME NaiveRecovers(b) PROVE Recovers(b)
      OBVIOUS
    <3>1. Ordinary(ctx) /\ Traits[b.profile].health = 95
      BY <2>1, NaiveMeansOrdinary
    <3>2. outcome = "APPROVED" /\ plan.strategy = "DETERMINISTIC_RETRY_BACKOFF"
      BY <3>1 DEF OrdinaryInv, Backoff, PlanOf
    <3> QED BY <3>1, <3>2 DEF Recovers
  <2> QED BY <2>2, <2>3
<1> QED BY <1>1, <1>2, OrdinaryKeeps, SafePlans, PTL DEF Spec

-------------------------------------------------------------------------------
(* What the policy engine adds to the guard *)

\* The name that FirstViolated returns is one of the order, and it is violated.
LEMMA FirstIsViolated ==
  ASSUME NEW order, Len(order) \in Nat, NEW violated, NEW n \in 1..Len(order), violated[order[n]]
  PROVE  \E i \in 1..Len(order) : FirstViolated(order, violated) = order[i] /\ violated[order[i]]
  <1> DEFINE I == { i \in 1..Len(order) : violated[order[i]] }
  <1>1. I \subseteq Nat /\ n \in I
    OBVIOUS
  <1>2. \E i \in I : \A j \in I : ~(<<j, i>> \in OpToRel(<, Nat))
    BY <1>1, NatLessThanWellFounded, WFMin
  <1>3. \E i \in I : \A j \in I : i =< j
    <2>1. \A i, j \in Nat : j < i => <<j, i>> \in OpToRel(<, Nat)
      BY DEF OpToRel
    <2>2. \A i, j \in Nat : ~(j < i) => i =< j
      OBVIOUS
    <2> HIDE DEF I
    <2> QED BY <1>1, <1>2, <2>1, <2>2
  <1>4. Min(I) \in I
    BY <1>3 DEF Min
  <1>5. SelectInSeq(order, LAMBDA name : violated[name]) = Min(I)
    BY <1>1 DEF SelectInSeq
  <1> QED BY <1>4, <1>5 DEF FirstViolated

\* The values of amount and method that the database admits: a positive amount
\* (models/payment.py:93) and a method with a window of its own.
Payable(c) == c.amount > 0 /\ c.method \in DOMAIN PolicyWindow

Deterministically(p) ==
  \/ p = SelectStrategy(ctx, Classify(ctx.code))
  \/ p = PlanOf("MANUAL_REVIEW", "UNKNOWN")

AddsInv ==
  /\ ctx \in Contexts
  /\ stage \in { "propose", "advised" } => class = Classify(ctx.code)
  /\ stage \in { "guard", "authorize" } /\ answer.kind # "ok" => Deterministically(plan)
  /\ stage = "authorize" => GuardPasses(ctx, plan, 0)
  /\ stage \in { "classify", "propose", "advised", "guard", "authorize" } => reason = "NONE"
  /\ PolicyAddsOnly

Denials == { "FAIL_CLOSED", "TERMINAL_WORKFLOW_LOCK", "PENDING_RECONCILIATION",
             "PROHIBITED_SITUATION", "MERCHANT_RESTRICTIONS", "MAX_RETRY_COUNT",
             "MAX_RECOVERY_WINDOW", "PERMITTED_STRATEGIES", "PERMITTED_METHODS" }

LEMMA Orders ==
  /\ Len(DenialOrder) \in Nat /\ DOMAIN DenialOrder = 1..Len(DenialOrder)
  /\ Len(GuardOrder) \in Nat /\ DOMAIN GuardOrder = 1..Len(GuardOrder)
  /\ ToSet(DenialOrder) = Denials /\ ToSet(GuardOrder) \cap Denials = {}
  <1>1. Len(DenialOrder) = 9 /\ DOMAIN DenialOrder = 1..9
    BY DEF DenialOrder
  <1>2. Len(GuardOrder) = 7 /\ DOMAIN GuardOrder = 1..7
    BY DEF GuardOrder
  <1>3. ToSet(DenialOrder) = Denials
    BY <1>1 DEF DenialOrder, ToSet, Denials
  <1>4. ToSet(GuardOrder) \cap Denials = {}
    BY <1>2 DEF GuardOrder, ToSet, Denials
  <1> QED BY <1>1, <1>2, <1>3, <1>4

\* The guard and the code tables leave nothing to deny but a closed workflow and a
\* rail that no retry may use.
LEMMA GuardCovers ==
  ASSUME NEW c \in Contexts, Payable(c), NEW p, GuardPasses(c, p, 0),
         p = SelectStrategy(c, Classify(c.code)) \/ p = PlanOf("MANUAL_REVIEW", "UNKNOWN"),
         NEW rule \in Denials, Denied(c, p, 0)[rule]
  PROVE  rule \in { "TERMINAL_WORKFLOW_LOCK", "PERMITTED_METHODS" }
  <1> DEFINE violated == GuardViolated(c, p, 0)
  <1>1. /\ ~violated["SAFETY_UNKNOWN_ERROR"] /\ ~violated["NON_RETRYABLE_ERROR"]
        /\ ~violated["MERCHANT_ENABLED"] /\ ~violated["MAX_RETRIES"]
        /\ ~violated["MIN_RECOVERY_VALUE"]
    <2>1. { "SAFETY_UNKNOWN_ERROR", "NON_RETRYABLE_ERROR", "MERCHANT_ENABLED", "MAX_RETRIES",
            "MIN_RECOVERY_VALUE" } \subseteq DOMAIN violated
      BY DEF GuardViolated
    <2>2. \A guard \in DOMAIN violated : ~violated[guard]
      BY DEF GuardPasses
    <2> HIDE DEF violated
    <2> QED BY <2>1, <2>2
  <1>2. /\ p.strategy # "MANUAL_REVIEW" /\ p.strategy # "TERMINAL_ABANDON"
        /\ ~(~c.enabled) /\ ~(c.attempt >= c.maxRetries) /\ ~(c.amount < c.minAmount)
    BY <1>1 DEF GuardViolated
  <1>3. p = SelectStrategy(c, Classify(c.code))
    BY <1>2 DEF PlanOf
  <1>4. Classify(c.code) \in { "RETRYABLE", "CUSTOMER_ACTION_REQUIRED" }
    BY <1>2, <1>3 DEF SelectStrategy, PlanOf, Classify
  <1>5. c.code \notin PendingErrorCodes /\ c.code \notin ProhibitedErrorCodes
    <2>1. c.code \in KnownRetryableCodes \cup KnownCustomerActionCodes
      BY <1>4 DEF Classify
    <2> QED BY <2>1 DEF KnownRetryableCodes, KnownCustomerActionCodes, PendingErrorCodes,
                        ProhibitedErrorCodes
  <1>6. p.strategy \in { "ROUTE_FAILOVER", "DETERMINISTIC_RETRY_BACKOFF", "NOTIFY_CUSTOMER_LINK" }
    BY <1>3, <1>4 DEF SelectStrategy, HandleRetryable, PlanOf
  <1>7. ~StrategyForbidden(p)
    BY <1>6 DEF StrategyForbidden, PermittedStrategies, RecoveryStrategy
  <1>8. ~WindowClosed(c, 0)
    BY DEF WindowClosed, PolicyWindow, Payable
  <1>9. ~(c.amount <= 0) /\ ~MerchantRestricts(c) /\ ~RetriesExhausted(c, p)
    BY <1>2, PlanningAssumption DEF Payable, MerchantRestricts, RetriesExhausted
  <1> DEFINE denied == Denied(c, p, 0)
  <1>10. /\ ~denied["FAIL_CLOSED"] /\ ~denied["PENDING_RECONCILIATION"]
         /\ ~denied["PROHIBITED_SITUATION"] /\ ~denied["MERCHANT_RESTRICTIONS"]
         /\ ~denied["MAX_RETRY_COUNT"] /\ ~denied["MAX_RECOVERY_WINDOW"]
         /\ ~denied["PERMITTED_STRATEGIES"]
    BY <1>5, <1>7, <1>8, <1>9 DEF Denied
  <1>11. denied[rule]
    OBVIOUS
  <1> HIDE DEF denied
  <1> QED BY <1>10, <1>11 DEF Denials

\* So the reason of a denial is one of these two.
LEMMA DenialMeans ==
  ASSUME NEW c \in Contexts, Payable(c), NEW p, GuardPasses(c, p, 0),
         p = SelectStrategy(c, Classify(c.code)) \/ p = PlanOf("MANUAL_REVIEW", "UNKNOWN"),
         PolicyReason(c, p, 0) \in Denials
  PROVE  PolicyReason(c, p, 0) \in { "TERMINAL_WORKFLOW_LOCK", "PERMITTED_METHODS" }
  <1>1. PolicyDecision(c, p, 0) = "DENIED"
    BY DEF PolicyReason, Denials
  <1>2. \E rule \in DOMAIN Denied(c, p, 0) : Denied(c, p, 0)[rule]
    BY <1>1 DEF PolicyDecision
  <1>3. DOMAIN Denied(c, p, 0) = Denials
    BY DEF Denied, Denials
  <1>4. PICK n \in 1..Len(DenialOrder) : Denied(c, p, 0)[DenialOrder[n]]
    BY <1>2, <1>3, Orders DEF ToSet
  <1>5. PICK i \in 1..Len(DenialOrder) :
          /\ FirstViolated(DenialOrder, Denied(c, p, 0)) = DenialOrder[i]
          /\ Denied(c, p, 0)[DenialOrder[i]]
    BY <1>4, Orders, FirstIsViolated
  <1>6. DenialOrder[i] \in Denials
    BY Orders DEF ToSet
  <1> QED BY <1>1, <1>5, <1>6, GuardCovers DEF PolicyReason

LEMMA GuardReasons ==
  ASSUME NEW c, NEW p, ~GuardPasses(c, p, 0)
  PROVE  GuardStopReason(c, p, 0) \notin Denials
  <1>1. PICK name \in DOMAIN GuardViolated(c, p, 0) : GuardViolated(c, p, 0)[name]
    BY DEF GuardPasses
  <1>2. DOMAIN GuardViolated(c, p, 0) = ToSet(GuardOrder)
    <2>1. Len(GuardOrder) = 7 /\ DOMAIN GuardOrder = 1..7
      BY DEF GuardOrder
    <2> QED BY <2>1 DEF GuardViolated, GuardOrder, ToSet
  <1>3. PICK n \in 1..Len(GuardOrder) : GuardViolated(c, p, 0)[GuardOrder[n]]
    BY <1>1, <1>2, Orders DEF ToSet
  <1>4. PICK i \in 1..Len(GuardOrder) : GuardStopReason(c, p, 0) = GuardOrder[i]
    BY <1>3, Orders, FirstIsViolated DEF GuardStopReason
  <1>5. GuardOrder[i] \in ToSet(GuardOrder)
    BY Orders DEF ToSet
  <1> QED BY <1>4, <1>5, Orders

LEMMA AddsKeeps ==
  ASSUME \A c \in Contexts : Payable(c)
  PROVE  AddsInv /\ [Next]_vars => AddsInv'
<1> SUFFICES ASSUME AddsInv, [Next]_vars PROVE AddsInv'
  OBVIOUS
<1>0. "NONE" \notin ToSet(DenialOrder)
  BY Orders DEF Denials
<1>1. CASE ClassifyFailure
  BY <1>1 DEF AddsInv, PolicyAddsOnly, ClassifyFailure, At
<1>2. CASE ProposeDirectly
  BY <1>0, <1>2 DEF AddsInv, Deterministically, PolicyAddsOnly, ProposeDirectly, Propose, At
<1>3. CASE Consult
  BY <1>0, <1>3 DEF AddsInv, PolicyAddsOnly, Consult, At
<1>4. CASE Adopt
  BY <1>0, <1>4 DEF AddsInv, PolicyAddsOnly, Adopt, Usable, Propose, At
<1>5. CASE FallBack
  BY <1>0, <1>5 DEF AddsInv, Deterministically, PolicyAddsOnly, FallBack, Propose, At
<1>6. CASE GuardPass
  BY <1>0, <1>6 DEF AddsInv, Deterministically, PolicyAddsOnly, GuardPass, At, Elapsed
<1>7. CASE GuardHalt
  <2>1. /\ stage' = "store" /\ UNCHANGED <<ctx, answer>>
        /\ reason' = GuardStopReason(ctx, plan, 0) /\ ~GuardPasses(ctx, plan, 0)
    BY <1>7 DEF GuardHalt, Decide, At, Elapsed
  <2>2. reason' \notin ToSet(DenialOrder)
    BY <2>1, GuardReasons, Orders
  <2> QED BY <2>1, <2>2 DEF AddsInv, PolicyAddsOnly
<1>8. CASE Authorize
  <2>1. /\ stage = "authorize" /\ stage' = "store" /\ UNCHANGED <<ctx, answer>>
        /\ reason' \in { "NONE", PolicyReason(ctx, plan, 0) }
    BY <1>8 DEF Authorize, Decide, At, Elapsed
  <2>2. PolicyAddsOnly'
    <3> SUFFICES ASSUME answer.kind # "ok", reason' \in ToSet(DenialOrder)
                 PROVE  reason' \in { "TERMINAL_WORKFLOW_LOCK", "PERMITTED_METHODS" }
      BY <2>1 DEF PolicyAddsOnly
    <3>1. reason' = PolicyReason(ctx, plan, 0) /\ reason' \in Denials
      BY <1>0, <2>1, Orders
    <3> QED BY <2>1, <3>1, DenialMeans DEF AddsInv, Deterministically
  <2> QED BY <2>1, <2>2 DEF AddsInv
<1>9. CASE Store \/ Revalidate
  BY <1>9 DEF AddsInv, PolicyAddsOnly, Store, Revalidate, At
<1>10. CASE UNCHANGED vars
  BY <1>10 DEF AddsInv, Deterministically, PolicyAddsOnly, vars
<1> QED BY <1>1, <1>2, <1>3, <1>4, <1>5, <1>6, <1>7, <1>8, <1>9, <1>10 DEF Next

\* After the guard, the policy engine denies a deterministic plan only for what the
\* guard and the code tables do not look at, for any payment the database admits.
THEOREM PolicyAddsTwo ==
  ASSUME \A c \in Contexts : Payable(c)
  PROVE  Spec => []PolicyAddsOnly
<1>1. Init => AddsInv
  BY Orders DEF Init, AddsInv, PolicyAddsOnly, Denials
<1>2. AddsInv => PolicyAddsOnly
  BY DEF AddsInv
<1> QED BY <1>1, <1>2, AddsKeeps, PTL DEF Spec

===============================================================================
