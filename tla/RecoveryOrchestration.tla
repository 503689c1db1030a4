------------------------- MODULE RecoveryOrchestration -------------------------
(***************************************************************************)
(* From a payment.failed event to a committed decision and its events: the *)
(* members of the consumer group iro-recovery-group                        *)
(* (app/consumers/recovery_consumer.py), the transaction of                *)
(* orchestrate_failure (app/orchestrator/orchestrator.py) and its commit   *)
(* before publication, for one partition of the topic and the failures of  *)
(* one payment.  The group, its offsets and the way a member loses its     *)
(* partition are those of Kafka behind app/events/broker.py; the database  *)
(* is PostgreSQL under READ COMMITTED.  The execution service appears as a *)
(* contract: it reads the case, takes its row lock and ends its attempt.   *)
(***************************************************************************)
EXTENDS PlanningRules, FiniteSets

CONSTANTS
  Consumers,       \* the members of the group
  Log,             \* the partition: a sequence of [id, type, attempt]
  MaxRetries,      \* Merchant.max_auto_retries
  RestartOnError,  \* does the caller restart a member that raised?
  MaxFaults,       \* how many exceptions and crashes happen in a behaviour
  MaxRebalances,   \* how often the partition moves
  Executor, Nobody

Failures == { e \in { Log[i] : i \in DOMAIN Log } : e.type = "payment.failed" }
EventIds == { e.id : e \in Failures }

ASSUME OrchestrationAssumption ==
  /\ Consumers # {} /\ Executor \notin Consumers
  /\ Nobody \notin Consumers \cup {Executor}
  /\ Log \in Seq([id : STRING, type : STRING, attempt : Nat])
  /\ MaxRetries \in Nat /\ MaxFaults \in Nat /\ MaxRebalances \in Nat
  /\ RestartOnError \in BOOLEAN

VARIABLES
  assigned,   \* the member that owns the partition
  position,   \* of each member: the next offset it fetches
  committed,  \* the offset the group has committed: the next one to read
  pc,         \* of each member: where it is
  msg,        \* of each member: the offset in hand, 0 for none
  seen,       \* of each member: case and payment as its transaction read them
  decision,   \* of each member: what it decided
  todo,       \* of each member: the announcements it has yet to publish
  processed,  \* committed rows of processed_events, by event id
  inserting,  \* of each event id: the member whose insert is not committed
  case,       \* the committed row of the case, or NoCase
  caseRow,    \* who has written the row of the case and not committed
  payment,    \* Payment.status
  published,  \* how often each announcement of each event was published
  exec,       \* the executor: where it is
  faults, rebalances

group    == <<assigned, position, committed>>
member   == <<pc, msg, seen, decision, todo>>
database == <<processed, inserting, case, caseRow, payment>>
bounds   == <<faults, rebalances>>
vars     == <<group, member, database, published, exec, bounds>>

NoCase == [state |-> "NONE", status |-> "NONE"]
Unread == [case |-> NoCase, payment |-> "NONE"]

\* Where a member is: polling, about to look the event up, to register it, to
\* load the case, to insert it, to build the context, to commit, to publish, to
\* commit the offset.
PC == { "poll", "lookup", "register", "load", "create", "plan", "commit", "emit", "ack" }

\* The members inside the planning transaction, with the event registered.
Planning == { "load", "create", "plan", "commit" }

\* APPROVED comes with a retry, or with a payment link for the customer only.
Decision == { "NONE", "RETRY", "LINK", "STOPPED", "ESCALATED" }

\* _emit_approved, _emit_stopped, _emit_escalated: one publish after the other.
Announcements ==
  [ RETRY     |-> << "recovery.started", "notification.requested",
                     "payment.retry_requested" >>,
    LINK      |-> << "recovery.started", "notification.requested" >>,
    STOPPED   |-> << "recovery.stopped" >>,
    ESCALATED |-> << "recovery.escalated" >> ]

AnnouncementType == UNION { ToSet(Announcements[d]) : d \in DOMAIN Announcements }

Init ==
  /\ assigned \in Consumers
  /\ position = [w \in Consumers |-> 1] /\ committed = 1
  /\ pc = [w \in Consumers |-> "poll"] /\ msg = [w \in Consumers |-> 0]
  /\ seen = [w \in Consumers |-> Unread] /\ decision = [w \in Consumers |-> "NONE"]
  /\ todo = [w \in Consumers |-> <<>>]
  /\ processed = {} /\ inserting = [id \in EventIds |-> Nobody]
  /\ case = NoCase /\ caseRow = Nobody /\ payment = "FAILED"
  /\ published = [a \in AnnouncementType \X EventIds |-> 0]
  /\ exec = "idle"
  /\ faults = 0 /\ rebalances = 0

-------------------------------------------------------------------------------
(* The consumer group *)

Event(w) == Log[msg[w]]

At(w, from, to) == pc[w] = from /\ pc' = [pc EXCEPT ![w] = to]

\* Kafka gives the partition to another member, which starts at the committed
\* offset.  The old one is not interrupted: it goes on with its message.
Rebalance(w) ==
  /\ w # assigned /\ rebalances < MaxRebalances
  /\ assigned' = w
  /\ position' = [position EXCEPT ![w] = committed]
  /\ rebalances' = rebalances + 1
  /\ UNCHANGED <<committed, member, database, published, exec, faults>>

\* Mutant: the offset is committed when the message is fetched.
Poll_AutoCommit(w) ==
  /\ assigned = w /\ position[w] \in DOMAIN Log
  /\ At(w, "poll", "lookup")
  /\ msg' = [msg EXCEPT ![w] = position[w]]
  /\ position' = [position EXCEPT ![w] = @ + 1]
  /\ committed' = position[w] + 1
  /\ UNCHANGED <<assigned, seen, decision, todo, database, published, exec, bounds>>

Poll(w) ==
  /\ assigned = w /\ position[w] \in DOMAIN Log
  /\ At(w, "poll", "lookup")
  /\ msg' = [msg EXCEPT ![w] = position[w]]
  /\ position' = [position EXCEPT ![w] = @ + 1]
  /\ UNCHANGED <<assigned, committed, seen, decision, todo, database, published, exec, bounds>>

\* What a message leaves behind in the member when it is done with it.
Forget(w) ==
  /\ msg' = [msg EXCEPT ![w] = 0]
  /\ seen' = [seen EXCEPT ![w] = Unread]
  /\ decision' = [decision EXCEPT ![w] = "NONE"]
  /\ todo' = [todo EXCEPT ![w] = <<>>]

\* Events of other types are acknowledged, processed ones too: aiokafka commits
\* the position of the member.
Skip(w) ==
  /\ At(w, "lookup", "ack")
  /\ \/ Event(w).type # "payment.failed"
     \/ Event(w).id \in processed
  /\ UNCHANGED <<group, msg, seen, decision, todo, database, published, exec, bounds>>

Ack(w) ==
  /\ assigned = w
  /\ At(w, "ack", "poll")
  /\ committed' = position[w]
  /\ Forget(w)
  /\ UNCHANGED <<assigned, position, database, published, exec, bounds>>

\* Mutant: a member that is restarted goes on where it was.
ResumeAt_NextMessage(w) == position[w]

\* The offset at which a member that raised goes on.
ResumeAt(w) == IF RestartOnError THEN committed ELSE position[w]

\* A transaction that ends without its commit: what it inserted is gone.
Rollback(w) ==
  /\ inserting' = [id \in EventIds |-> IF inserting[id] = w THEN Nobody ELSE inserting[id]]
  /\ caseRow' = IF caseRow = w THEN Nobody ELSE caseRow
  /\ UNCHANGED <<processed, case, payment>>

\* An exception leaves process_next: the caller's session rolls back, the offset
\* is not committed.
Abort(w, offset) ==
  /\ pc' = [pc EXCEPT ![w] = "poll"]
  /\ position' = [position EXCEPT ![w] = offset]
  /\ Forget(w)
  /\ Rollback(w)
  /\ UNCHANGED <<assigned, committed, published, exec>>

\* Kafka refuses the commit of a member that lost its partition.
AckRefused(w) ==
  /\ pc[w] = "ack" /\ assigned # w
  /\ Abort(w, ResumeAt(w))
  /\ UNCHANGED bounds

Raise(w) ==
  /\ pc[w] # "poll" /\ faults < MaxFaults
  /\ Abort(w, ResumeAt(w))
  /\ faults' = faults + 1 /\ UNCHANGED rebalances

Crash(w) ==
  /\ pc[w] # "poll" /\ faults < MaxFaults
  /\ Abort(w, committed)
  /\ faults' = faults + 1 /\ UNCHANGED rebalances

-------------------------------------------------------------------------------
(* The transaction: register the event, load the case, plan, commit *)

Lookup(w) ==
  /\ At(w, "lookup", "register")
  /\ Event(w).type = "payment.failed" /\ Event(w).id \notin processed
  /\ UNCHANGED <<group, msg, seen, decision, todo, database, published, exec, bounds>>

\* Mutant: there is no primary key, rows are just added.
Register_Unchecked(w) ==
  /\ At(w, "register", "load")
  /\ inserting' = [inserting EXCEPT ![Event(w).id] = w]
  /\ UNCHANGED <<group, msg, seen, decision, todo, processed, case, caseRow, payment,
                 published, exec, bounds>>

\* Mutant: the insert does not wait for another member's open insert.
Register_Unlocked(w) ==
  /\ At(w, "register", "load")
  /\ Event(w).id \notin processed
  /\ inserting' = [inserting EXCEPT ![Event(w).id] = w]
  /\ UNCHANGED <<group, msg, seen, decision, todo, processed, case, caseRow, payment,
                 published, exec, bounds>>

\* The insert waits while another transaction has inserted the same key.
Register(w) ==
  /\ At(w, "register", "load")
  /\ inserting[Event(w).id] = Nobody
  /\ Event(w).id \notin processed
  /\ inserting' = [inserting EXCEPT ![Event(w).id] = w]
  /\ UNCHANGED <<group, msg, seen, decision, todo, processed, case, caseRow, payment,
                 published, exec, bounds>>

\* The key was committed since the lookup: IntegrityError, which nobody catches.
RegisterConflict(w) ==
  /\ pc[w] = "register" /\ Event(w).id \in processed
  /\ Abort(w, ResumeAt(w))
  /\ UNCHANGED bounds

\* The case is read; there is one per payment, created at the first failure.
LoadCase(w) ==
  /\ At(w, "load", IF case = NoCase THEN "create" ELSE "plan")
  /\ seen' = [seen EXCEPT ![w].case = case]
  /\ UNCHANGED <<group, msg, decision, todo, database, published, exec, bounds>>

CreateCase(w) ==
  /\ caseRow = Nobody /\ case = NoCase
  /\ At(w, "create", "plan")
  /\ caseRow' = w
  /\ UNCHANGED <<group, msg, seen, decision, todo, processed, inserting, case, payment,
                 published, exec, bounds>>

CreateConflict(w) ==
  /\ pc[w] = "create" /\ case # NoCase
  /\ Abort(w, ResumeAt(w))
  /\ UNCHANGED bounds

\* What classifier, selector or model, guard and policy engine may decide
\* (RecoveryPlanning): the limit of attempts and a closed payment or case leave
\* no approval.
Decisions(w, c, status) ==
  IF \/ Event(w).attempt >= MaxRetries
     \/ WorkflowClosed([caseStatus |-> c.status, paymentStatus |-> status])
  THEN { "STOPPED", "ESCALATED" } ELSE Decision \ {"NONE"}

\* Mutant: the announcements go out before the transaction is committed.
Plan_PublishFirst(w) ==
  /\ At(w, "plan", "emit")
  /\ seen' = [seen EXCEPT ![w].payment = payment]
  /\ \E d \in Decisions(w, seen[w].case, payment) :
       /\ decision' = [decision EXCEPT ![w] = d]
       /\ todo' = [todo EXCEPT ![w] = Announcements[d]]
  /\ UNCHANGED <<group, msg, database, published, exec, bounds>>

\* _build_context reads the payment; the decision follows from what was read.
Plan(w) ==
  /\ At(w, "plan", "commit")
  /\ seen' = [seen EXCEPT ![w].payment = payment]
  /\ \E d \in Decisions(w, seen[w].case, payment) :
       decision' = [decision EXCEPT ![w] = d]
  /\ UNCHANGED <<group, msg, todo, database, published, exec, bounds>>

\* Mutant: the decision is stored where the state belongs.
CaseAfter_WrongEnum(d) ==
  [state |-> d, status |-> IF d \in {"RETRY", "LINK"} THEN "RECOVERY_PENDING" ELSE d]

\* The case row as the decision leaves it in memory.
CaseAfter(d) ==
  IF d \in {"RETRY", "LINK"} THEN [state |-> "APPROVED", status |-> "RECOVERY_PENDING"]
                             ELSE [state |-> d, status |-> d]

\* The UPDATE has only the columns whose value differs from what was loaded; the
\* others keep what another transaction has committed since.
ChangedColumns(w) ==
  { column \in DOMAIN NoCase : CaseAfter(decision[w])[column] # seen[w].case[column] }

\* Mutant: the UPDATE has all columns of the object.
StoredCase_AllColumns(w) == CaseAfter(decision[w])

StoredCase(w) ==
  [column \in DOMAIN NoCase |->
     IF column \in ChangedColumns(w) THEN CaseAfter(decision[w])[column] ELSE case[column]]

\* The commit waits for the row of the case if it writes it (a halt writes
\* completed_at in any case), and makes event, case and decision durable together.
CommitDecision(w) ==
  /\ At(w, "commit", "emit")
  /\ caseRow \in {w, Nobody} \/ (ChangedColumns(w) = {} /\ decision[w] \in {"RETRY", "LINK"})
  /\ case' = StoredCase(w)
  /\ processed' = processed \cup {Event(w).id}
  /\ inserting' = [inserting EXCEPT ![Event(w).id] = Nobody]
  /\ caseRow' = IF caseRow = w THEN Nobody ELSE caseRow
  /\ todo' = [todo EXCEPT ![w] = Announcements[decision[w]]]
  /\ UNCHANGED <<group, msg, seen, decision, payment, published, exec, bounds>>

\* After the commit, one publish at a time.
Emit(w) ==
  /\ pc[w] = "emit"
  /\ pc' = [pc EXCEPT ![w] = IF Len(todo[w]) = 1 THEN "ack" ELSE "emit"]
  /\ published' = [published EXCEPT ![<<Head(todo[w]), Event(w).id>>] = @ + 1]
  /\ todo' = [todo EXCEPT ![w] = Tail(@)]
  /\ UNCHANGED <<group, msg, seen, decision, database, exec, bounds>>

-------------------------------------------------------------------------------
(* The execution service, by its contract *)

\* A retry request, possibly late or repeated, finds payment and case open.
ExecLoad ==
  /\ exec = "idle"
  /\ \E id \in EventIds : published[<<"payment.retry_requested", id>>] > 0
  /\ payment \notin TerminalPaymentState
  /\ case # NoCase /\ CanTransition(case.state, "EXECUTING")
  /\ exec' = "loaded"
  /\ UNCHANGED <<group, member, database, published, bounds>>

ExecClaim ==
  /\ exec = "loaded" /\ caseRow = Nobody
  /\ exec' = "executing" /\ caseRow' = Executor
  /\ UNCHANGED <<group, member, processed, inserting, case, payment, published, bounds>>

\* The attempt succeeds, fails (it may be tried again or not), or is rolled back; or
\* the policy of the boundary stops or escalates it. The executor writes recovery_state and never status.
ExecEnd ==
  /\ exec = "executing"
  /\ \/ payment' = "RECOVERED" /\ case' = [case EXCEPT !.state = "RECOVERY_SUCCEEDED"]
     \/ payment' = payment /\ \E s \in {"RECOVERY_FAILED", "STOPPED", "ESCALATED", case.state} :
                                case' = [case EXCEPT !.state = s]
  /\ exec' = "idle" /\ caseRow' = Nobody
  /\ UNCHANGED <<group, member, processed, inserting, published, bounds>>

-------------------------------------------------------------------------------

Consume(w)  == Poll(w) \/ Skip(w) \/ Ack(w) \/ AckRefused(w)
Transact(w) == Lookup(w) \/ RegisterConflict(w) \/ LoadCase(w) \/ CreateConflict(w) \/ Plan(w)
Wait(w)     == Register(w) \/ CreateCase(w) \/ CommitDecision(w)
Fault(w)    == Raise(w) \/ Crash(w) \/ Rebalance(w)
Execute     == ExecLoad \/ ExecClaim \/ ExecEnd

Next ==
  \/ \E w \in Consumers : Consume(w) \/ Transact(w) \/ Wait(w) \/ Emit(w) \/ Fault(w)
  \/ Execute

Spec == Init /\ [][Next]_vars

\* The event loop runs a member that can go on, Kafka delivers, PostgreSQL serves
\* the waiters of a lock in order, an execution ends.
Fairness ==
  /\ \A w \in Consumers : /\ WF_vars(Consume(w)) /\ WF_vars(Transact(w))
                          /\ WF_vars(Emit(w)) /\ SF_vars(Wait(w))
  /\ WF_vars(ExecEnd)

FairSpec == Spec /\ Fairness

-------------------------------------------------------------------------------
(* Properties *)

TypeOK ==
  /\ assigned \in Consumers
  /\ position \in [Consumers -> 1..(Len(Log) + 1)] /\ committed \in 1..(Len(Log) + 1)
  /\ pc \in [Consumers -> PC] /\ msg \in [Consumers -> 0..Len(Log)]
  /\ decision \in [Consumers -> Decision]
  /\ \A w \in Consumers : todo[w] \in Seq(AnnouncementType)
  /\ processed \subseteq EventIds
  /\ inserting \in [EventIds -> Consumers \cup {Nobody}]
  /\ case \in [state : RecoveryState, status : PaymentState] \cup {NoCase}
  /\ \A w \in Consumers :
       seen[w].case \in [state : RecoveryState, status : PaymentState] \cup {NoCase}
  /\ caseRow \in Consumers \cup {Executor, Nobody}
  /\ payment \in PaymentState
  /\ published \in [AnnouncementType \X EventIds -> Nat]
  /\ exec \in {"idle", "loaded", "executing"}
  /\ faults \in 0..MaxFaults /\ rebalances \in 0..MaxRebalances

\* However often an event is delivered, by whom and after which faults, each of
\* its announcements is published once at most, so there is one retry request.
PublishedOnce == \A a \in DOMAIN published : published[a] <= 1

\* Two members never plan the payment at the same time: the key of the event and
\* the offsets, which a member only leaves behind when it is done, exclude it.
SinglePlanner ==
  \A v, w \in Consumers : pc[v] \in Planning /\ pc[w] \in Planning => v = w

\* An announcement speaks of a decision that is committed, with its case.
AnnouncementsReportCommits ==
  \A a \in DOMAIN published : published[a] > 0 => a[2] \in processed /\ case # NoCase

\* "Kafka offsets are committed only after this database transaction successfully
\* commits" (docs/specs/phase_2_specification.md:135): no failure below the
\* committed offset is unprocessed.
OffsetsAfterCommit ==
  \A i \in 1..(committed - 1) : Log[i] \in Failures => Log[i].id \in processed

\* A case that planning closed is not opened again: whoever planned on an older
\* read of it, its status stays STOPPED or ESCALATED.
ClosedStaysClosed ==
  [][case.status \in TerminalPaymentState => case'.status \in TerminalPaymentState]_vars

\* Every failure on the topic is planned in the end.
EveryFailurePlanned == \A id \in EventIds : <>(id \in processed)

\* The contract of planning, seen in the committed rows and the published events.
Contract ==
  INSTANCE PlanningContract
    WITH Failed <- EventIds, Stories <- Announcements, Types <- AnnouncementType,
         planned <- processed, told <- published

\* Members that overlap, redeliveries, rollbacks and crashes do together what one
\* planner would do that plans each failure once and tells one decision of it.
KeepsPlanning == Contract!Promise

===============================================================================
