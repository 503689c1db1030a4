------------------------ MODULE InvestigationAgentProofs ------------------------
(***************************************************************************)
(* Proofs about InvestigationAgent, for any failures, tools' outputs and   *)
(* number of tool calls: what must have happened before a decision that    *)
(* rests on an investigation can be in the database.                       *)
(***************************************************************************)
EXTENDS InvestigationAgent, RecoveryPlanningProofs, TLAPS

Decided == { "APPROVED", "STOPPED", "ESCALATED" }

\* The investigation goes on inside one step of the orchestrator, nothing is
\* stored before it is over, and a tool that failed has aborted the transaction.
AgentInv ==
  /\ outcome # "NONE" => stage \in { "stored", "revalidated" }
  /\ phase \in { "collect", "conclude", "publish" } =>
       stage = "propose" /\ ~Deterministic
  /\ phase \in { "none", "collect", "conclude", "publish" } => audited = {}
  /\ phase \in { "none", "collect", "conclude", "publish", "over" }
  /\ phase = "over" =>
       \/ audited = {[status |-> status, answer |-> answer]}
       \/ outcome = "RAISED" /\ stage = "stored"
  /\ \A t \in Tool : evidence[t] = Failed => aborted
  /\ outcome \in Decided => ~aborted

-------------------------------------------------------------------------------
(* The steps of the investigation *)

LEMMA CallToolKeeps == AgentInv /\ CallTool => AgentInv'
  <1> SUFFICES ASSUME AgentInv, CallTool PROVE AgentInv'
    OBVIOUS
  <1> DEFINE t == Tools[step + 1]
  <1>1. PICK output :
          /\ evidence' = Recorded(t, output)
          /\ aborted' = (aborted \/ output = Failed)
    BY DEF CallTool
  <1> HIDE DEF t
  <1>2. \A u \in Tool : evidence'[u] = Failed => aborted'
    <2> SUFFICES ASSUME NEW u \in Tool, evidence'[u] = Failed PROVE aborted'
      OBVIOUS
    <2>1. evidence'[u] = output \/ evidence'[u] = evidence[u]
      BY <1>1 DEF Recorded
    <2>2. QED BY <1>1, <2>1 DEF AgentInv
  <1>3. phase = "collect" /\ stage = "propose" /\ outcome = "NONE" /\ audited = {}
        /\ ~Deterministic
    BY DEF CallTool, AgentInv
  <1>4. /\ stage' = stage /\ outcome' = outcome /\ audited' = audited
        /\ ctx' = ctx /\ class' = class
        /\ phase' \in { "publish", "collect" }
    BY <1>3 DEF CallTool, Recommended, known, vars
  <1>5. ~Deterministic'
    BY <1>3, <1>4 DEF Deterministic, ClearCase, DegradedWithAlternative
  <1>6. QED BY <1>2, <1>3, <1>4, <1>5 DEF AgentInv, Decided

LEMMA InvestigationKeeps ==
  ASSUME AgentInv,
         \/ Investigate \/ StopCollecting \/ Conclude \/ AskModel
         \/ GiveUp("TIMEOUT") \/ GiveUp("ERROR")
  PROVE  AgentInv'
  <1>1. stage = "propose" /\ outcome = "NONE" /\ audited = {} /\ ~Deterministic
    BY DEF AgentInv, Investigate, StopCollecting, Conclude, AskModel, GiveUp, In
  <1>2. /\ stage' = stage /\ outcome' = outcome /\ audited' = audited
        /\ ctx' = ctx /\ class' = class /\ evidence' = evidence
        /\ phase' \in { "collect", "conclude", "publish" }
    BY DEF Investigate, StopCollecting, Conclude, AskModel, GiveUp, In, Recommended,
           known, vars
  <1>3. aborted' = aborted \/ aborted' = TRUE
    BY DEF Investigate, StopCollecting, Conclude, AskModel, GiveUp
  <1>4. ~Deterministic'
    BY <1>1, <1>2 DEF Deterministic, ClearCase, DegradedWithAlternative
  <1>5. \A t \in Tool : evidence'[t] = Failed => aborted'
    <2>1. aborted => aborted'
      BY <1>3, Zenon
    <2>2. QED BY <1>2, <2>1 DEF AgentInv
  <1>6. QED BY <1>1, <1>2, <1>4, <1>5 DEF AgentInv, Decided

\* The publication succeeds before the hierarchy goes on, or raises.
LEMMA PublicationKeeps ==
  ASSUME AgentInv, Publish \/ PublicationFails
  PROVE  AgentInv'
  <1>1. CASE Publish
    <2>1. phase = "publish" /\ phase' = "over" /\ outcome = "NONE" /\ outcome' = "NONE"
      BY <1>1 DEF AgentInv, Publish, In, Advise, known
    <2>2. /\ audited' = {[status |-> status', answer |-> answer']}
          /\ evidence' = evidence /\ aborted' = aborted
      BY <1>1, <2>1 DEF AgentInv, Publish, Advise
    <2>3. QED BY <2>1, <2>2 DEF AgentInv, Decided
  <1>2. CASE PublicationFails
    BY <1>2 DEF AgentInv, PublicationFails, In, At, Decided
  <1>3. QED BY <1>1, <1>2

\* The rest of the orchestration does not run while the agent does, and commits
\* nothing in a transaction that was aborted.
LEMMA OrchestrationKeeps ==
  ASSUME AgentInv, UNCHANGED agent,
         \/ ClassifyFailure \/ ProposeDirectly \/ Adopt \/ FallBack
         \/ GuardPass \/ GuardHalt \/ Authorize \/ StoreDecision
  PROVE  AgentInv'
  <1>0. UNCHANGED <<phase, evidence, status, aborted, audited>>
    BY DEF agent
  <1>1. ~(phase \in { "collect", "conclude", "publish" })
    <2>1. CASE ProposeDirectly
      BY <2>1 DEF AgentInv, ProposeDirectly
    <2>2. CASE ~ProposeDirectly
      BY <2>2 DEF AgentInv, ClassifyFailure, Adopt, FallBack, GuardPass, GuardHalt,
                  Authorize, StoreDecision, Store, At
    <2>3. QED BY <2>1, <2>2
  <1>2. answer' = answer
    BY DEF ClassifyFailure, ProposeDirectly, Adopt, FallBack, Propose, GuardPass, GuardHalt,
           Authorize, Decide, StoreDecision, Store
  <1>3. CASE ~StoreDecision
    <2>1. outcome' = outcome
      BY <1>3 DEF ClassifyFailure, ProposeDirectly, Adopt, FallBack, Propose, GuardPass,
                  GuardHalt, Authorize, Decide
    <2>2. stage \notin { "stored", "revalidated" }
      BY <1>3 DEF ClassifyFailure, ProposeDirectly, Adopt, FallBack, GuardPass,
                  GuardHalt, Authorize, At
    <2>3. QED BY <1>0, <1>1, <1>2, <2>1, <2>2 DEF AgentInv, Decided
  <1>4. CASE StoreDecision
    <2>1. stage = "store" /\ stage' = "stored" /\ outcome = "NONE"
      BY <1>4 DEF AgentInv, StoreDecision, Store, At
    <2>2. aborted => outcome' = "RAISED"
      BY <1>4 DEF StoreDecision
    <2>3. QED BY <1>0, <1>1, <1>2, <2>1, <2>2 DEF AgentInv, Decided
  <1>5. QED BY <1>3, <1>4

LEMMA AgentInvariant == SpecAgent => []AgentInv
  <1>1. InitAgent => AgentInv
    <2> SUFFICES ASSUME InitAgent PROVE AgentInv
      OBVIOUS
    <2>1. \A t \in Tool : evidence[t] # Failed
      BY DEF InitAgent, Unasked, Failed
    <2>2. QED BY <2>1 DEF InitAgent, Init, AgentInv, Decided
  <1>2. AgentInv /\ [NextAgent]_<<vars, agent>> => AgentInv'
    <2> SUFFICES ASSUME AgentInv, [NextAgent]_<<vars, agent>> PROVE AgentInv'
      OBVIOUS
    <2>1. CASE UNCHANGED <<vars, agent>>
      BY <2>1 DEF vars, agent, AgentInv, Deterministic, ClearCase, DegradedWithAlternative
    <2>2. CASE NextAgent
      BY <2>2, CallToolKeeps, InvestigationKeeps, PublicationKeeps, OrchestrationKeeps
         DEF NextAgent
    <2>3. QED BY <2>1, <2>2
  <1>3. QED BY <1>1, <1>2, PTL DEF SpecAgent

-------------------------------------------------------------------------------

\* Whatever the tools return and whenever they fail: a stored decision was made
\* on evidence that could all be read, although the agent goes on with defaults
\* when a tool has failed (investigator.py:402-413).
THEOREM StoredEvidenceRead == SpecAgent => []StoredMeansRead
  <1>1. AgentInv => StoredMeansRead
    BY DEF AgentInv, StoredMeansRead, Decided
  <1>2. QED BY <1>1, AgentInvariant, PTL

\* The investigation on which a stored decision rests was published before, with
\* exactly the recommendation that was decided on (investigator.py:510-538).
THEOREM PublishedFirst == SpecAgent => []AuditPrecedesDecision
  <1>1. AgentInv => AuditPrecedesDecision
    BY DEF AgentInv, AuditPrecedesDecision, Decided
  <1>2. QED BY <1>1, AgentInvariant, PTL

\* The agent is an adviser as any other: a plan that is approved after an
\* investigation respects the limits of merchant and engine, as RecoveryPlanning
\* promises without one ("zero AI bypass", policy/rules.py:5).
THEOREM AgentPlansSafe == SpecAgent => []ApprovedMeansSafe
  <1>1. InitAgent => PlanningInv
    BY PlanningStarts DEF InitAgent
  <1>2. PlanningInv /\ [NextAgent]_<<vars, agent>> => PlanningInv'
    <2> SUFFICES ASSUME PlanningInv, [NextAgent]_<<vars, agent>> PROVE PlanningInv'
      OBVIOUS
    <2>1. CASE \/ ClassifyFailure \/ ProposeDirectly \/ Adopt \/ FallBack
               \/ GuardPass \/ GuardHalt \/ Authorize
      BY <2>1, PlanningKeeps DEF Next
    <2>2. CASE StoreDecision
      <3>1. CASE ~aborted
        BY <2>2, <3>1, PlanningKeeps DEF StoreDecision, Next
      <3>2. CASE aborted
        BY <2>2, <3>2 DEF StoreDecision, At, PlanningInv, Elapsed
      <3>3. QED BY <3>1, <3>2
    \* What the agent itself does leaves everything but advice and stage alone.
    <2>3. CASE \/ Investigate \/ CallTool \/ StopCollecting \/ Conclude \/ AskModel
               \/ GiveUp("TIMEOUT") \/ GiveUp("ERROR") \/ Publish
      <3>1. UNCHANGED <<ctx, plan, decision, outcome>>
        BY <2>3 DEF Investigate, CallTool, StopCollecting, Conclude, AskModel, GiveUp,
                    Publish, Advise, Recommended, known, vars
      <3>2. stage' = stage \/ (stage = "propose" /\ stage' = "advised")
        BY <2>3 DEF Investigate, CallTool, StopCollecting, Conclude, AskModel, GiveUp,
                    Publish, Advise, Recommended, At, vars
      <3>3. QED BY <3>1, <3>2 DEF PlanningInv, Elapsed
    <2>4. CASE PublicationFails
      BY <2>4 DEF PublicationFails, At, PlanningInv, Elapsed
    <2>5. CASE UNCHANGED <<vars, agent>>
      BY <2>5, PlanningKeeps
    <2>6. QED BY <2>1, <2>2, <2>3, <2>4, <2>5 DEF NextAgent
  <1>3. QED BY <1>1, <1>2, PlanningMeans, PTL DEF SpecAgent

-------------------------------------------------------------------------------
(* Recorded attempts *)

ReadAttempts  == Read("getPaymentAttempts")
RecordedCount == evidence["getPaymentAttempts"].count
MerchantFailed == evidence["getMerchantRecoveryPolicy"] = Failed

\* The investigation concluded, and the records show that no attempt is left.
TooMany ==
  /\ ~halted /\ status = "COMPLETED" /\ ReadAttempts /\ ~MerchantFailed
  /\ RecordedCount >= ctx.maxRetries

Stopped == Recommend("STOP", FALSE)

\* The merchant is asked before the attempts, and where it has no row the context
\* was built from the same default; what is concluded from too many attempts is
\* never a retry.
BindInv ==
  /\ ctx \in Contexts /\ step \in Nat /\ DOMAIN evidence = Tool
  /\ step < 3 => evidence["getPaymentAttempts"] = Unasked
  /\ step >= 2 => MerchantFailed \/ MerchantLimit = ctx.maxRetries
  /\ ReadAttempts => RecordedCount \in Nat
  /\ phase \in { "none", "collect", "conclude" } => status = "NONE"
  /\ phase = "none" => stage # "advised"
  /\ phase = "over" => stage \notin { "classify", "propose" }
  /\ phase \in { "publish", "over" } /\ TooMany => answer = Stopped
  /\ stage \in { "guard", "authorize", "store" } \/ outcome = "APPROVED" =>
       (TooMany => plan.strategy = "TERMINAL_ABANDON")

LEMMA ToolNames ==
  /\ Tools[1] = "getRouteHealth" /\ Tools[2] = "getMerchantRecoveryPolicy"
  /\ Tools[3] = "getPaymentAttempts" /\ Tools[4] = "getCustomerProfile"
  /\ Tools[5] = "getFailureHistory" /\ Len(Tools) = 5
  BY DEF Tools

LEMMA ToolSet ==
  Tool = { "getRouteHealth", "getMerchantRecoveryPolicy", "getPaymentAttempts",
           "getCustomerProfile", "getFailureHistory" }
  BY DEF Tool, Tools, ToSet

LEMMA ReportFields ==
  /\ \A n : /\ Report([count |-> n]).got = "report"
            /\ Report([count |-> n]).count = n
  /\ \A e, m : /\ Report([enabled |-> e, maxRetries |-> m]).got = "report"
               /\ Report([enabled |-> e, maxRetries |-> m]).maxRetries = m
  BY DEF Report

\* What a tool returns goes into its own entry.
LEMMA CallToolRecords ==
  ASSUME BindInv, CallTool
  PROVE  /\ step < 5 /\ step' = step + 1 /\ DOMAIN evidence' = Tool
         /\ \A u \in Tool \ {Tools[step + 1]} : evidence'[u] = evidence[u]
         /\ \E output \in Outputs[Tools[step + 1]] \cup {Failed} :
              evidence'[Tools[step + 1]] = output
  <1> DEFINE t == Tools[step + 1]
  <1>1. step \in Nat /\ step < 5 /\ step' = step + 1
    BY ToolNames DEF BindInv, CallTool, Collecting
  <1>2. t \in Tool
    BY <1>1, ToolNames, ToolSet
  <1>3. PICK output \in Outputs[t] \cup {Failed} : evidence' = Recorded(t, output)
    BY DEF CallTool
  <1> HIDE DEF t
  <1>4. /\ DOMAIN evidence' = Tool /\ evidence'[t] = output
        /\ \A u \in Tool \ {t} : evidence'[u] = evidence[u]
    BY <1>2, <1>3 DEF BindInv, Recorded
  <1> QED BY <1>1, <1>3, <1>4 DEF t

LEMMA MerchantAnswers ==
  ASSUME NEW output \in Outputs["getMerchantRecoveryPolicy"]
  PROVE  \/ output.got = "report" /\ output.maxRetries = ctx.maxRetries
         \/ output.got # "report" /\ ctx.maxRetries = 2
  <1>1. \/ output = Report([enabled |-> ctx.enabled, maxRetries |-> ctx.maxRetries])
        \/ output = Missing /\ DefaultMerchant
    BY DEF Outputs
  <1>2. CASE output = Report([enabled |-> ctx.enabled, maxRetries |-> ctx.maxRetries])
    BY <1>2, ReportFields
  <1>3. CASE output = Missing /\ DefaultMerchant
    BY <1>3 DEF Missing, DefaultMerchant
  <1> QED BY <1>1, <1>2, <1>3

LEMMA AttemptAnswers ==
  ASSUME NEW output \in Outputs["getPaymentAttempts"] \cup {Failed}, output.got = "report"
  PROVE  output.count \in Nat
  <1>1. output # Failed
    BY DEF Failed
  <1>2. PICK n \in AttemptCounts : output = Report([count |-> n])
    BY <1>1 DEF Outputs
  <1> QED BY <1>2, ReportFields, AgentAssumption

LEMMA CallToolBinds == AgentInv /\ BindInv /\ CallTool => BindInv'
  <1> SUFFICES ASSUME AgentInv, BindInv, CallTool PROVE BindInv'
    OBVIOUS
  <1> DEFINE M == "getMerchantRecoveryPolicy"
             A == "getPaymentAttempts"
             t == Tools[step + 1]
  <1>1. /\ step \in Nat /\ step < 5 /\ step' = step + 1 /\ DOMAIN evidence' = Tool
        /\ \A u \in Tool \ {t} : evidence'[u] = evidence[u]
        /\ \E output \in Outputs[t] \cup {Failed} : evidence'[t] = output
    BY CallToolRecords DEF BindInv
  <1>2. phase = "collect" /\ status = "NONE" /\ stage = "propose" /\ outcome = "NONE"
    BY DEF CallTool, BindInv, AgentInv
  <1>3. /\ stage' = stage /\ UNCHANGED known
        /\ IF halted' THEN phase' = "publish" ELSE phase' = phase /\ status' = status
    BY DEF CallTool, Recommended, vars, known
  <1>4. ~TooMany'
    BY <1>2, <1>3 DEF TooMany
  <1>5. step' < 3 => evidence'[A] = Unasked
    <2>1. step' < 3 => t # A
      BY <1>1, ToolNames
    <2> QED BY <1>1, <2>1, ToolSet DEF BindInv
  <1>6. step' >= 2 => MerchantFailed' \/ MerchantLimit' = ctx'.maxRetries
    <2> SUFFICES ASSUME step' >= 2 PROVE MerchantFailed' \/ MerchantLimit' = ctx'.maxRetries
      OBVIOUS
    <2>0. ctx' = ctx
      BY <1>3 DEF known
    <2>1. CASE step = 1
      <3>1. PICK output \in Outputs[M] \cup {Failed} : evidence'[M] = output
        BY <1>1, <2>1, ToolNames
      <3>2. CASE output = Failed
        BY <3>1, <3>2 DEF MerchantFailed
      <3>3. CASE output # Failed
        <4>1. \/ evidence'[M].got = "report" /\ evidence'[M].maxRetries = ctx.maxRetries
              \/ evidence'[M].got # "report" /\ ctx.maxRetries = 2
          BY <3>1, <3>3, MerchantAnswers
        <4> QED BY <2>0, <4>1 DEF MerchantLimit, Read
      <3> QED BY <3>2, <3>3
    <2>2. CASE step # 1
      <3>1. step >= 2 /\ t # M
        BY <1>1, <2>2, ToolNames
      <3>2. evidence'[M] = evidence[M]
        BY <1>1, <3>1, ToolSet
      <3> QED BY <2>0, <3>1, <3>2 DEF BindInv, MerchantFailed, MerchantLimit, Read
    <2> QED BY <2>1, <2>2
  <1>7. ReadAttempts' => RecordedCount' \in Nat
    <2>1. CASE t = A
      <3>1. PICK output \in Outputs[A] \cup {Failed} : evidence'[A] = output
        BY <1>1, <2>1
      <3> QED BY <3>1, AttemptAnswers DEF ReadAttempts, RecordedCount, Read
    <2>2. CASE t # A
      BY <1>1, <2>2, ToolSet DEF BindInv, ReadAttempts, RecordedCount, Read
    <2> QED BY <2>1, <2>2
  <1>8. /\ ctx' \in Contexts /\ step' \in Nat
        /\ phase' \in { "publish", "collect" } /\ (phase' = "collect" => status' = "NONE")
    BY <1>1, <1>2, <1>3 DEF BindInv, known
  <1> QED BY <1>1, <1>2, <1>3, <1>4, <1>5, <1>6, <1>7, <1>8 DEF BindInv

\* The conclusion itself: what the records exhaust, the agent stops, and a model is
\* asked only when they do not.
LEMMA ConclusionBinds ==
  ASSUME AgentInv, BindInv,
         \/ Investigate \/ StopCollecting \/ Conclude \/ AskModel
         \/ GiveUp("TIMEOUT") \/ GiveUp("ERROR")
  PROVE  BindInv'
  <1>1. /\ stage' = stage /\ UNCHANGED known /\ UNCHANGED <<step, evidence, halted>>
        /\ stage = "propose" /\ outcome = "NONE"
    BY DEF AgentInv, Investigate, StopCollecting, Conclude, AskModel, GiveUp, In, Recommended,
           known, vars
  <1>2. /\ phase' \in { "collect", "conclude", "publish" }
        /\ phase' # "publish" => status' = "NONE"
    BY DEF BindInv, Investigate, StopCollecting, Conclude, AskModel, GiveUp, In, vars
  <1>3. TooMany' /\ phase' = "publish" => answer' = Stopped
    <2> SUFFICES ASSUME TooMany', phase' = "publish" PROVE answer' = Stopped
      OBVIOUS
    <2>1. ReadAttempts /\ ~MerchantFailed /\ RecordedCount >= ctx.maxRetries
      BY <1>1 DEF TooMany, ReadAttempts, Read, MerchantFailed, RecordedCount, known
    <2>2. MerchantLimit = ctx.maxRetries
      <3>1. evidence["getPaymentAttempts"] # Unasked
        BY <2>1 DEF ReadAttempts, Read, Unasked
      <3> QED BY <2>1, <3>1 DEF BindInv
    <2>3. Exhausted
      BY <2>1, <2>2 DEF Exhausted, RecordedAttempts, ReadAttempts, RecordedCount
    <2>4. status' = "COMPLETED"
      BY DEF TooMany
    <2>5. Conclude
      BY <2>3, <2>4 DEF AskModel, GiveUp, Recommended, Investigate, StopCollecting, In
    <2> QED BY <2>3, <2>5 DEF Conclude, Recommended, OwnAnswer, Stopped
  <1>4. UNCHANGED <<ReadAttempts, RecordedCount, MerchantFailed, MerchantLimit>>
    BY <1>1 DEF ReadAttempts, RecordedCount, MerchantFailed, MerchantLimit, Read
  <1> QED BY <1>1, <1>2, <1>3, <1>4 DEF BindInv, known

LEMMA PublicationBinds ==
  ASSUME AgentInv, BindInv, Publish \/ PublicationFails
  PROVE  BindInv'
  <1>1. /\ UNCHANGED <<ctx, answer, plan, step, evidence, halted, status>>
        /\ phase = "publish" /\ phase' = "over"
        /\ stage' \in { "advised", "stored" } /\ outcome' # "APPROVED"
    BY DEF AgentInv, Publish, PublicationFails, In, Advise, At, known
  <1>2. UNCHANGED <<ReadAttempts, RecordedCount, MerchantFailed, MerchantLimit, TooMany>>
    BY <1>1 DEF ReadAttempts, RecordedCount, MerchantFailed, MerchantLimit, TooMany, Read
  <1> QED BY <1>1, <1>2 DEF BindInv

\* The hierarchy adopts a stop as it is.
LEMMA StopAdopted ==
  ASSUME answer = Stopped, Adopt \/ FallBack
  PROVE  plan'.strategy = "TERMINAL_ABANDON"
  <1>1. /\ answer.kind = "ok" /\ answer.strategy = "STOP" /\ answer.confident = TRUE
        /\ answer.toolsAllowed = TRUE /\ answer.review = FALSE
    BY DEF Stopped, Recommend
  <1>2. Usable
    BY <1>1 DEF Usable
  <1>3. Adopt
    BY <1>2 DEF FallBack
  <1> QED BY <1>1, <1>3 DEF Adopt, Propose, PlanOf, DomainStrategy

LEMMA OrchestrationBinds ==
  ASSUME AgentInv, BindInv, UNCHANGED agent,
         \/ ClassifyFailure \/ ProposeDirectly \/ Adopt \/ FallBack
         \/ GuardPass \/ GuardHalt \/ Authorize \/ StoreDecision
  PROVE  BindInv'
  <1>1. UNCHANGED <<phase, step, evidence, halted, status, ctx, answer>>
    BY DEF agent, ClassifyFailure, ProposeDirectly, Adopt, FallBack, Propose, GuardPass,
           GuardHalt, Authorize, Decide, StoreDecision, Store
  <1>2. UNCHANGED <<ReadAttempts, RecordedCount, MerchantFailed, MerchantLimit, TooMany>>
    BY <1>1 DEF ReadAttempts, RecordedCount, MerchantFailed, MerchantLimit, TooMany, Read
  <1>3. TooMany => phase \in { "publish", "over" }
    BY DEF BindInv, AgentInv, TooMany
  <1>4. CASE ClassifyFailure \/ ProposeDirectly
    <2>1. ~TooMany /\ outcome' = outcome /\ stage' \in { "propose", "guard" }
      BY <1>3, <1>4 DEF BindInv, AgentInv, ClassifyFailure, ProposeDirectly, Propose, At
    <2>2. phase = "over" => stage' \notin { "classify", "propose" }
      BY <1>4 DEF BindInv, ClassifyFailure, ProposeDirectly, At
    <2> QED BY <1>1, <1>2, <2>1, <2>2 DEF BindInv
  <1>5. CASE Adopt \/ FallBack
    <2>1. stage = "advised" /\ stage' = "guard"
      BY <1>5 DEF Adopt, FallBack, At
    <2>2. TooMany => plan'.strategy = "TERMINAL_ABANDON"
      BY <1>3, <1>5, StopAdopted DEF BindInv
    <2> QED BY <1>1, <1>2, <2>1, <2>2 DEF BindInv
  <1>6. CASE GuardPass \/ GuardHalt \/ Authorize \/ StoreDecision
    <2>1. /\ plan' = plan
          /\ stage \in { "guard", "authorize", "store" }
          /\ stage' \in { "authorize", "store", "stored" }
      BY <1>6 DEF GuardPass, GuardHalt, Authorize, Decide, StoreDecision, Store, At
    <2> QED BY <1>1, <1>2, <2>1 DEF BindInv
  <1> QED BY <1>4, <1>5, <1>6

LEMMA BindInvariant == SpecAgent => []BindInv
  <1>1. InitAgent => BindInv
    <2> SUFFICES ASSUME InitAgent PROVE BindInv
      OBVIOUS
    <2>1. \A t \in Tool : evidence[t] = Unasked
      BY DEF InitAgent
    <2>2. evidence["getPaymentAttempts"] = Unasked /\ ~ReadAttempts
      BY <2>1, ToolSet DEF ReadAttempts, Read, Unasked
    <2> QED BY <2>2 DEF InitAgent, Init, BindInv, TooMany
  <1>2. AgentInv /\ BindInv /\ [NextAgent]_<<vars, agent>> => BindInv'
    <2> SUFFICES ASSUME AgentInv, BindInv, [NextAgent]_<<vars, agent>> PROVE BindInv'
      OBVIOUS
    <2>1. CASE UNCHANGED <<vars, agent>>
      <3>1. UNCHANGED <<ReadAttempts, RecordedCount, MerchantFailed, MerchantLimit, TooMany>>
        BY <2>1 DEF vars, agent, ReadAttempts, RecordedCount, MerchantFailed, MerchantLimit,
                    TooMany, Read
      <3> QED BY <2>1, <3>1 DEF vars, agent, BindInv
    <2>2. CASE NextAgent
      BY <2>2, CallToolBinds, ConclusionBinds, PublicationBinds, OrchestrationBinds
         DEF NextAgent
    <2> QED BY <2>1, <2>2
  <1> QED BY <1>1, <1>2, AgentInvariant, PTL DEF SpecAgent

\* The attempts that are recorded bind the agent's conclusion, whoever draws it and
\* whatever the event counts: a history that could be read and shows the merchant's
\* limit is followed by no approved retry (investigator.py:413).
THEOREM RecordsBind == SpecAgent => []RecordedAttemptsBind
  <1>1. AgentInv /\ BindInv => RecordedAttemptsBind
    <2> SUFFICES ASSUME AgentInv, BindInv, RetryApproved, ~halted, status = "COMPLETED",
                        ReadAttempts, ~(RecordedCount < ctx.maxRetries)
                 PROVE  FALSE
      BY DEF RecordedAttemptsBind, ReadAttempts, RecordedCount
    <2>1. ~MerchantFailed
      BY ToolSet DEF AgentInv, Decided, RetryApproved, Approved, MerchantFailed
    <2>2. RecordedCount >= ctx.maxRetries
      BY PlanningAssumption DEF BindInv
    <2>3. plan.strategy = "TERMINAL_ABANDON"
      BY <2>1, <2>2 DEF BindInv, TooMany, RetryApproved, Approved
    <2> QED BY <2>3 DEF RetryApproved, RetryStrategy
  <1> QED BY <1>1, AgentInvariant, BindInvariant, PTL

===============================================================================
