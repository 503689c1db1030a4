--------------------------- MODULE InvestigationAgent ---------------------------
(***************************************************************************)
(* The specialist agent (app/agent/) in the place of the language model of *)
(* RecoveryPlanning: when the decision hierarchy has an agent, tier 3 is   *)
(* its investigation.  It calls read-only tools one after the other on the *)
(* session of the planning transaction, stops when it knows enough or has  *)
(* found a reason to halt, recommends, and publishes what it did before    *)
(* the hierarchy (app/ai/hierarchy.py) makes a plan of it.                 *)
(*                                                                         *)
(* The merchant and the route were loaded into the same session when the   *)
(* context was built, so a tool that selects them again gets the values of *)
(* the context; attempts and customer are read for the first time.  An     *)
(* error of the database aborts the transaction: nothing can be read or    *)
(* stored in it any more.                                                  *)
(***************************************************************************)
EXTENDS RecoveryPlanning, FiniteSets

CONSTANTS
  Latencies,      \* avg_latency_ms of a route
  AttemptCounts,  \* how many attempts of the payment are recorded
  Customers,      \* customer profiles: [got |-> "report", risk, success] in percent
  MaxToolCalls,   \* max_tool_calls, and max_iterations
  CustomerCodes   \* codes for which a customer who rarely succeeds gets a link

Tools == << "getRouteHealth", "getMerchantRecoveryPolicy", "getPaymentAttempts",
            "getCustomerProfile", "getFailureHistory" >>
Tool == ToSet(Tools)

ASSUME AgentAssumption ==
  /\ AttemptCounts \subseteq Nat /\ Latencies \subseteq Nat
  /\ MaxToolCalls \in Nat \ {0}
  /\ \A c \in Customers : c.got = "report" /\ c.risk \in 0..100 /\ c.success \in 0..100

VARIABLES
  phase,     \* of the investigation: "none", "collect", "conclude", "publish", "over"
  step,      \* how many tools of the plan were called
  evidence,  \* what each tool returned
  halted,    \* a deterministic halt was found
  status,    \* InvestigationStatus of the audit event
  aborted,   \* the transaction of the session cannot be used any more
  balanced,  \* a load balancer is wired through the gateway
  audited    \* recommendations published as agent.investigation.completed

agent == <<phase, step, evidence, halted, status, aborted, balanced, audited>>
known == <<ctx, class, plan, decision, reason, outcome, boundary>>

Unasked == [got |-> "nothing"]
Missing == [got |-> "missing"]   \* there is no such row
Failed  == [got |-> "failed"]    \* the tool raised
Report(r) == [x \in DOMAIN r \cup {"got"} |-> IF x = "got" THEN "report" ELSE r[x]]

InitAgent ==
  /\ Init
  /\ phase = "none" /\ step = 0
  /\ evidence = [t \in Tool |-> Unasked]
  /\ halted = FALSE /\ status = "NONE" /\ aborted = FALSE
  /\ balanced \in BOOLEAN
  /\ audited = {}

\* An AIRecoveryRecommendation of the agent itself.
Recommend(strategy, review) ==
  [kind |-> "ok", strategy |-> strategy, confident |-> TRUE, toolsAllowed |-> TRUE,
   review |-> review]

-------------------------------------------------------------------------------
(* The tools *)

\* What a context looks like when the row behind it is missing (_build_context).
DefaultRoute    == ctx.route = [active |-> TRUE, status |-> "HEALTHY", health |-> 100]
DefaultMerchant == ctx.enabled /\ ctx.maxRetries = 2 /\ ctx.minAmount = 50 /\ ctx.threshold = 50000

\* What each tool may return while the transaction is usable and nothing raises.
Outputs ==
  [ getRouteHealth |->
      { Report([status |-> ctx.route.status, health |-> ctx.route.health, latency |-> l]) :
          l \in Latencies } \cup (IF DefaultRoute THEN {Missing} ELSE {}),
    getMerchantRecoveryPolicy |->
      { Report([enabled |-> ctx.enabled, maxRetries |-> ctx.maxRetries]) }
        \cup (IF DefaultMerchant THEN {Missing} ELSE {}),
    getPaymentAttempts |-> { Report([count |-> n]) : n \in AttemptCounts },
    getCustomerProfile |-> Customers \cup {Missing},
    getFailureHistory  |-> { Report([count |-> 0]) } ]

Read(t) == evidence[t].got = "report"

\* _is_evidence_sufficient: an attempt history counts even if it could not be read.
Sufficient ==
  /\ Read("getRouteHealth") /\ Read("getMerchantRecoveryPolicy")
  /\ evidence["getPaymentAttempts"] # Unasked

\* _check_immediate_halt_conditions
OptedOut(e) == e["getMerchantRecoveryPolicy"].got = "report"
               /\ ~e["getMerchantRecoveryPolicy"].enabled
HighRisk(e) == e["getCustomerProfile"].got = "report" /\ e["getCustomerProfile"].risk >= 85

-------------------------------------------------------------------------------
(* The investigation *)

In(from, to) == phase = from /\ phase' = to

Investigate ==
  /\ ~Deterministic /\ stage = "propose"
  /\ In("none", "collect")
  /\ UNCHANGED <<vars, step, evidence, halted, status, aborted, balanced, audited>>

\* The loop goes on while tools are left and the evidence is not sufficient.
Collecting == step < Len(Tools) /\ step < MaxToolCalls /\ ~Sufficient

Recommended(what, how) ==
  /\ answer' = what /\ status' = how
  /\ UNCHANGED <<stage, known>>

Recorded(t, output) == [evidence EXCEPT ![t] = output]

\* A tool returns, and its output may be a reason to halt at once: an opt-out
\* needs no review, a risky customer does.
CallTool ==
  /\ phase = "collect" /\ Collecting
  /\ LET t == Tools[step + 1] IN
       \E output \in IF aborted THEN {Failed} ELSE Outputs[t] \cup {Failed} :
         LET now == Recorded(t, output) IN
           /\ evidence' = now
           /\ aborted' = (aborted \/ output = Failed)
           /\ halted' = (OptedOut(now) \/ HighRisk(now))
           /\ IF halted'
              THEN /\ phase' = "publish"
                   /\ Recommended(Recommend("STOP", ~OptedOut(now)), "COMPLETED")
              ELSE UNCHANGED <<phase, status, vars>>
  /\ step' = step + 1
  /\ UNCHANGED <<balanced, audited>>

StopCollecting ==
  /\ ~Collecting
  /\ In("collect", "conclude")
  /\ UNCHANGED <<vars, step, evidence, halted, status, aborted, balanced, audited>>

\* What _synthesize_recommendation reads, with the defaults of its lookups.
RouteStatus == IF Read("getRouteHealth") THEN evidence["getRouteHealth"].status ELSE "NONE"
RouteHealth == IF Read("getRouteHealth") THEN evidence["getRouteHealth"].health ELSE 100
RouteLatency == IF Read("getRouteHealth") THEN evidence["getRouteHealth"].latency ELSE 250
MerchantLimit == IF Read("getMerchantRecoveryPolicy")
                 THEN evidence["getMerchantRecoveryPolicy"].maxRetries ELSE 2
CustomerSuccess == IF Read("getCustomerProfile")
                   THEN evidence["getCustomerProfile"].success ELSE 100

\* Mutant: the attempt number of the event is trusted more than the records.
RecordedAttempts_OfEvent == ctx.attempt

\* Without a readable history, the attempt number of the event.
RecordedAttempts == IF Read("getPaymentAttempts") THEN evidence["getPaymentAttempts"].count
                    ELSE IF evidence["getPaymentAttempts"] = Failed THEN ctx.attempt ELSE 0

Exhausted == RecordedAttempts >= MerchantLimit

RouteDegraded == RouteStatus \in { "DEGRADED", "DOWN" } \/ RouteHealth < 60

\* Scenarios A to D; RETRY_LATER becomes the same domain strategy as RETRY.
OwnAnswer ==
  IF Exhausted THEN Recommend("STOP", FALSE)
  ELSE IF RouteDegraded THEN Recommend("ALTERNATE_METHOD", FALSE)
  ELSE IF RouteLatency >= 600 THEN Recommend("RETRY", FALSE)
  ELSE IF CustomerSuccess < 30 /\ ctx.code \in CustomerCodes
       THEN Recommend("CUSTOMER_NOTIFICATION", FALSE)
  ELSE IF RouteHealth >= 80 THEN Recommend("RETRY", FALSE)
  ELSE Recommend("ESCALATE", TRUE)

Conclude ==
  /\ Exhausted \/ ~balanced
  /\ In("conclude", "publish")
  /\ Recommended(OwnAnswer, "COMPLETED")
  /\ UNCHANGED <<step, evidence, halted, aborted, balanced, audited>>

\* With a load balancer behind the gateway, the model concludes.
AskModel ==
  /\ ~Exhausted /\ balanced
  /\ In("conclude", "publish")
  /\ \E a \in Answers : Recommended(a, "COMPLETED")
  /\ UNCHANGED <<step, evidence, halted, aborted, balanced, audited>>

\* The runtime limit, or an exception of the loop: ESCALATE, with review.  A
\* query that is cancelled may leave the transaction unusable.
GiveUp(how) ==
  /\ phase \in { "collect", "conclude" }
  /\ phase' = "publish"
  /\ aborted' \in {aborted, TRUE}
  /\ Recommended(Recommend("ESCALATE", TRUE), how)
  /\ UNCHANGED <<step, evidence, halted, balanced, audited>>

Advise ==
  /\ At("propose", "advised")
  /\ UNCHANGED <<answer, known>>

\* Mutant: a failed publication is logged and forgotten.
PublicationFails_Swallowed ==
  /\ In("publish", "over")
  /\ Advise
  /\ UNCHANGED <<step, evidence, halted, status, aborted, balanced, audited>>

\* AuditPublicationError leaves orchestrate_failure: nothing is stored.
PublicationFails ==
  /\ In("publish", "over")
  /\ At("propose", "stored") /\ outcome' = "RAISED"
  /\ UNCHANGED <<ctx, class, answer, plan, decision, reason, boundary>>
  /\ UNCHANGED <<step, evidence, halted, status, aborted, balanced, audited>>

Publish ==
  /\ In("publish", "over")
  /\ audited' = audited \cup {[status |-> status, answer |-> answer]}
  /\ Advise
  /\ UNCHANGED <<step, evidence, halted, status, aborted, balanced>>

-------------------------------------------------------------------------------
(* The rest of orchestrate_failure, as in RecoveryPlanning *)

\* Mutant: the commit does not notice.
StoreDecision_Anyway == Store

\* In an aborted transaction the statements of the decision raise.
StoreDecision ==
  IF aborted
  THEN /\ At("store", "stored") /\ outcome' = "RAISED"
       /\ UNCHANGED <<ctx, class, answer, plan, decision, reason, boundary>>
  ELSE Store

NextAgent ==
  \/ Investigate \/ CallTool \/ StopCollecting \/ Conclude \/ AskModel
  \/ GiveUp("TIMEOUT") \/ GiveUp("ERROR") \/ PublicationFails \/ Publish
  \/ /\ ClassifyFailure \/ ProposeDirectly \/ Adopt \/ FallBack
        \/ GuardPass \/ GuardHalt \/ Authorize \/ StoreDecision
     /\ UNCHANGED agent

SpecAgent == InitAgent /\ [][NextAgent]_<<vars, agent>>

-------------------------------------------------------------------------------
(* Properties *)

\* A decision that rests on an investigation, or on the fallback after one, is
\* made only after exactly this investigation was published: the trail never
\* lacks the reasons of a stored decision (investigator.py:8 "never silently
\* swallowed").
AuditPrecedesDecision ==
  outcome \in { "APPROVED", "STOPPED", "ESCALATED" } /\ phase # "none" =>
    audited = {[status |-> status, answer |-> answer]}

\* The agent decides although tools failed, with defaults that favour a retry
\* (a healthy route, two retries, the attempt number of the event); but what
\* failed for the agent has failed for the transaction, so that no such decision
\* is ever stored (investigator.py:405-415).
StoredMeansRead ==
  outcome \in { "APPROVED", "STOPPED", "ESCALATED" } =>
    \A t \in Tool : evidence[t] # Failed

\* When an investigation ran to its conclusion, the attempts it found recorded bind the
\* decision even if the event counts fewer: no retry beyond the merchant's limit.
RecordedAttemptsBind ==
  RetryApproved /\ ~halted /\ status = "COMPLETED" /\ Read("getPaymentAttempts") =>
    evidence["getPaymentAttempts"].count < ctx.maxRetries

================================================================================
