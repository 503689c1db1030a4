---------------------- MODULE RecoveryOrchestrationProofs ----------------------
(* Proofs about RecoveryOrchestration, for any members, partition, faults and  *)
(* rebalances: what is announced was committed, and announced once; offsets    *)
(* follow the commits and one member plans at a time; a closed case stays so;  *)
(* the group implements PlanningContract.                                      *)
EXTENDS RecoveryOrchestration, TLAPS

\* A member about to publish has its event recorded and its case committed.
EmitsCommitted ==
  \A w \in Consumers : pc[w] = "emit" => Event(w).id \in processed /\ case # NoCase

\* A member at its commit has decided.
HasDecided == \A w \in Consumers : pc[w] = "commit" => decision[w] \in Decision \ {"NONE"}

\* Nobody has seen a case that does not exist.
SeenExists == case = NoCase => \A w \in Consumers : seen[w].case = NoCase

CaseFilled == case # NoCase => case.status # "NONE"

\* The executor works on a case that exists.
ExecutesCase == exec # "idle" => case # NoCase

Status     == PaymentState \cup {"NONE"}
CaseRecord == [state : RecoveryState \cup {"NONE"}, status : Status]

Shape ==
  /\ pc \in [Consumers -> PC]
  /\ DOMAIN msg = Consumers /\ DOMAIN decision = Consumers
  /\ seen \in [Consumers -> [case : CaseRecord, payment : Status]]
  /\ case \in CaseRecord /\ payment \in Status
  /\ DOMAIN published = AnnouncementType \X EventIds

CommitInv ==
  /\ Shape /\ EmitsCommitted /\ HasDecided /\ SeenExists /\ CaseFilled
  /\ ExecutesCase /\ AnnouncementsReportCommits

LEMMA EmptyRecords ==
  /\ NoCase \in CaseRecord /\ DOMAIN NoCase = {"state", "status"}
  /\ NoCase.state = "NONE" /\ NoCase.status = "NONE"
  /\ Unread \in [case : CaseRecord, payment : Status] /\ Unread.case = NoCase
  <1>1. NoCase \in CaseRecord
    BY DEF NoCase, CaseRecord, Status
  <1>2. DOMAIN NoCase = {"state", "status"}
    BY DEF NoCase
  <1>3. NoCase.state = "NONE" /\ NoCase.status = "NONE"
    BY DEF NoCase
  <1> QED BY <1>1, <1>2, <1>3 DEF Unread, Status

LEMMA CommitInit == Init => CommitInv
  <1> SUFFICES ASSUME Init PROVE CommitInv
    OBVIOUS
  <1>1. Shape
    <2>1. pc \in [Consumers -> PC]
      BY DEF Init, PC
    <2>2. seen \in [Consumers -> [case : CaseRecord, payment : Status]]
      BY EmptyRecords DEF Init
    <2>3. case \in CaseRecord /\ payment \in Status
      BY EmptyRecords DEF Init, Status, PaymentState
    <2> QED BY <2>1, <2>2, <2>3 DEF Init, Shape
  <1>2. EmitsCommitted /\ HasDecided
    BY DEF Init, EmitsCommitted, HasDecided
  <1>3. SeenExists /\ CaseFilled /\ ExecutesCase
    BY EmptyRecords DEF Init, SeenExists, CaseFilled, ExecutesCase
  <1>4. AnnouncementsReportCommits
    BY DEF Init, AnnouncementsReportCommits
  <1> QED BY <1>1, <1>2, <1>3, <1>4 DEF CommitInv

\* Steps that commit nothing, publish nothing, and bring nobody to a commit or to
\* a publication.
LEMMA QuietStep ==
  ASSUME CommitInv, Shape', UNCHANGED <<processed, case, published>>,
         exec' = exec \/ case # NoCase,
         \A v \in Consumers :
           /\ pc'[v] = "emit" => pc[v] = "emit" /\ msg'[v] = msg[v]
           /\ pc'[v] = "commit" => pc[v] = "commit" /\ decision'[v] = decision[v]
           /\ seen'[v].case \in {seen[v].case, case, NoCase}
  PROVE  CommitInv'
  <1>1. EmitsCommitted'
    BY DEF CommitInv, EmitsCommitted, Event
  <1>2. HasDecided'
    BY DEF CommitInv, HasDecided
  <1>3. SeenExists' /\ CaseFilled' /\ ExecutesCase'
    BY EmptyRecords DEF CommitInv, SeenExists, CaseFilled, ExecutesCase, NoCase
  <1>4. AnnouncementsReportCommits'
    BY DEF CommitInv, AnnouncementsReportCommits
  <1> QED BY <1>1, <1>2, <1>3, <1>4 DEF CommitInv

\* A member that gives its message up.
LEMMA AbortStep ==
  ASSUME CommitInv, NEW w \in Consumers, NEW offset, Abort(w, offset)
  PROVE  CommitInv'
  <1>1. Shape'
    <2>1. pc' \in [Consumers -> PC]
      BY DEF CommitInv, Shape, Abort, PC
    <2>2. seen' \in [Consumers -> [case : CaseRecord, payment : Status]]
      BY EmptyRecords DEF CommitInv, Shape, Abort, Forget
    <2> QED BY <2>1, <2>2 DEF CommitInv, Shape, Abort, Forget, Rollback
  <1>2. \A v \in Consumers :
          /\ pc'[v] = "emit" => pc[v] = "emit" /\ msg'[v] = msg[v]
          /\ pc'[v] = "commit" => pc[v] = "commit" /\ decision'[v] = decision[v]
          /\ seen'[v].case \in {seen[v].case, case, NoCase}
    BY EmptyRecords DEF CommitInv, Shape, Abort, Forget
  <1> QED BY <1>1, <1>2, QuietStep DEF Abort, Rollback

\* A member that moves on inside its transaction, or that takes or leaves a message.
LEMMA MoveStep ==
  ASSUME CommitInv, NEW w \in Consumers,
         Poll(w) \/ Skip(w) \/ Ack(w) \/ Lookup(w) \/ Register(w) \/ LoadCase(w)
           \/ CreateCase(w)
  PROVE  CommitInv'
  <1> DEFINE Target == { "lookup", "ack", "poll", "register", "load", "create", "plan" }
  <1> USE DEF Poll, Skip, Ack, Lookup, Register, LoadCase, CreateCase, At, Forget
  <1>1. /\ \E to \in Target : pc' = [pc EXCEPT ![w] = to]
        /\ UNCHANGED <<processed, case, payment, published, exec>>
    BY DEF database, group
  <1>2. /\ \/ msg' = msg
           \/ \E m : msg' = [msg EXCEPT ![w] = m]
        /\ decision' = decision \/ decision' = [decision EXCEPT ![w] = "NONE"]
        /\ \/ seen' = seen
           \/ seen' = [seen EXCEPT ![w] = Unread]
           \/ seen' = [seen EXCEPT ![w].case = case]
    OBVIOUS
  <1> HIDE DEF Poll, Skip, Ack, Lookup, Register, LoadCase, CreateCase, At, Forget
  <1>3. Shape'
    <2>1. pc' \in [Consumers -> PC]
      BY <1>1 DEF CommitInv, Shape, PC
    <2>2. seen' \in [Consumers -> [case : CaseRecord, payment : Status]]
      BY <1>2, EmptyRecords DEF CommitInv, Shape
    <2> QED BY <1>1, <1>2, <2>1, <2>2 DEF CommitInv, Shape
  <1>4. \A v \in Consumers :
          /\ pc'[v] = "emit" => pc[v] = "emit" /\ msg'[v] = msg[v]
          /\ pc'[v] = "commit" => pc[v] = "commit" /\ decision'[v] = decision[v]
    BY <1>1, <1>2 DEF CommitInv, Shape
  <1>5. \A v \in Consumers : seen'[v].case \in {seen[v].case, case, NoCase}
    BY <1>2, EmptyRecords DEF CommitInv, Shape
  <1> QED BY <1>1, <1>3, <1>4, <1>5, QuietStep

LEMMA PlanStep ==
  ASSUME CommitInv, NEW w \in Consumers, Plan(w)
  PROVE  CommitInv'
  <1>1. PICK d \in Decisions(w, seen[w].case, payment) :
          decision' = [decision EXCEPT ![w] = d]
    BY DEF Plan
  <1>2. d \in Decision \ {"NONE"}
    BY DEF Decisions, Decision
  <1>3. /\ pc' = [pc EXCEPT ![w] = "commit"]
        /\ seen' = [seen EXCEPT ![w].payment = payment]
        /\ UNCHANGED <<msg, processed, case, payment, published, exec>>
    BY DEF Plan, At, database
  <1>4. Shape'
    <2>1. pc' \in [Consumers -> PC]
      BY <1>3 DEF CommitInv, Shape, PC
    <2>2. seen' \in [Consumers -> [case : CaseRecord, payment : Status]]
      BY <1>3 DEF CommitInv, Shape
    <2> QED BY <1>1, <1>3, <2>1, <2>2 DEF CommitInv, Shape
  <1>5. EmitsCommitted'
    BY <1>3 DEF CommitInv, EmitsCommitted, Shape, Event
  <1>6. HasDecided'
    BY <1>1, <1>2, <1>3 DEF CommitInv, HasDecided, Shape
  <1>7. SeenExists' /\ CaseFilled' /\ ExecutesCase'
    <2>1. \A v \in Consumers : seen'[v].case = seen[v].case
      BY <1>3 DEF CommitInv, Shape
    <2> QED BY <1>3, <2>1 DEF CommitInv, SeenExists, CaseFilled, ExecutesCase, NoCase
  <1>8. AnnouncementsReportCommits'
    BY <1>3 DEF CommitInv, AnnouncementsReportCommits
  <1> QED BY <1>4, <1>5, <1>6, <1>7, <1>8 DEF CommitInv

\* What a member stores is a case, also if it only changes one column of it.
LEMMA StoredIsCase ==
  ASSUME CommitInv, NEW w \in Consumers, pc[w] = "commit"
  PROVE  StoredCase(w) \in CaseRecord /\ StoredCase(w).status # "NONE"
  <1>1. decision[w] \in Decision \ {"NONE"}
    BY DEF CommitInv, HasDecided
  <1>2. /\ CaseAfter(decision[w]) \in CaseRecord
        /\ CaseAfter(decision[w]).status # "NONE"
    BY <1>1 DEF CaseAfter, Decision, CaseRecord, Status, RecoveryState, PaymentState
  <1>3. case \in CaseRecord /\ seen[w].case \in CaseRecord
    BY DEF CommitInv, Shape
  <1>4. StoredCase(w) \in CaseRecord
    <2>1. /\ StoredCase(w).state \in { CaseAfter(decision[w]).state, case.state }
          /\ StoredCase(w).status \in { CaseAfter(decision[w]).status, case.status }
      BY EmptyRecords DEF StoredCase
    <2>2. StoredCase(w) = [state  |-> StoredCase(w).state, status |-> StoredCase(w).status]
      BY EmptyRecords DEF StoredCase
    <2> QED BY <1>2, <1>3, <2>1, <2>2 DEF CaseRecord
  <1>5. StoredCase(w).status # "NONE"
    <2>1. CASE "status" \in ChangedColumns(w)
      BY <1>2, <2>1, EmptyRecords DEF StoredCase
    <2>2. CASE "status" \notin ChangedColumns(w)
      <3>1. seen[w].case.status # "NONE"
        BY <1>2, <2>2, EmptyRecords DEF ChangedColumns
      <3>2. case.status # "NONE"
        BY <3>1, EmptyRecords DEF CommitInv, SeenExists, CaseFilled
      <3> QED BY <2>2, <3>2, EmptyRecords DEF StoredCase
    <2> QED BY <2>1, <2>2
  <1> QED BY <1>4, <1>5

\* The commit records event and case together, so what follows it may be published.
LEMMA CommitStep ==
  ASSUME CommitInv, NEW w \in Consumers, CommitDecision(w)
  PROVE  CommitInv'
  <1>1. /\ pc[w] = "commit" /\ pc' = [pc EXCEPT ![w] = "emit"]
        /\ case' = StoredCase(w) /\ processed' = processed \cup {Event(w).id}
        /\ UNCHANGED <<msg, seen, decision, payment, published>>
    BY DEF CommitDecision, At
  <1>2. case' \in CaseRecord /\ case'.status # "NONE" /\ case' # NoCase
    BY <1>1, StoredIsCase, EmptyRecords
  <1>3. Shape'
    <2>1. pc' \in [Consumers -> PC]
      BY <1>1 DEF CommitInv, Shape, PC
    <2> QED BY <1>1, <1>2, <2>1 DEF CommitInv, Shape
  <1>4. EmitsCommitted'
    BY <1>1, <1>2 DEF CommitInv, EmitsCommitted, Shape, Event
  <1>5. HasDecided'
    BY <1>1 DEF CommitInv, HasDecided, Shape
  <1>6. SeenExists' /\ CaseFilled' /\ ExecutesCase'
    BY <1>2 DEF SeenExists, CaseFilled, ExecutesCase, NoCase
  <1>7. AnnouncementsReportCommits'
    BY <1>1, <1>2 DEF CommitInv, AnnouncementsReportCommits, NoCase
  <1> QED BY <1>3, <1>4, <1>5, <1>6, <1>7 DEF CommitInv

LEMMA EmitStep ==
  ASSUME CommitInv, NEW w \in Consumers, Emit(w)
  PROVE  CommitInv'
  <1> DEFINE announcement == <<Head(todo[w]), Event(w).id>>
  <1>1. /\ pc[w] = "emit" /\ \E to \in {"emit", "ack"} : pc' = [pc EXCEPT ![w] = to]
        /\ published' = [published EXCEPT ![announcement] = @ + 1]
        /\ UNCHANGED <<msg, seen, decision, processed, case, payment, exec>>
    BY DEF Emit, database
  <1>2. Shape'
    <2>1. pc' \in [Consumers -> PC]
      BY <1>1 DEF CommitInv, Shape, PC
    <2> QED BY <1>1, <2>1 DEF CommitInv, Shape
  <1>3. EmitsCommitted'
    BY <1>1 DEF CommitInv, EmitsCommitted, Shape, Event
  <1>4. HasDecided' /\ SeenExists' /\ CaseFilled' /\ ExecutesCase'
    BY <1>1, EmptyRecords
    DEF CommitInv, Shape, HasDecided, SeenExists, CaseFilled, ExecutesCase
  <1>5. AnnouncementsReportCommits'
    <2>1. Event(w).id \in processed /\ case # NoCase
      BY <1>1 DEF CommitInv, EmitsCommitted
    <2> SUFFICES ASSUME NEW a \in DOMAIN published, published'[a] > 0
                 PROVE  a[2] \in processed' /\ case' # NoCase
      BY <1>1 DEF AnnouncementsReportCommits, NoCase
    <2>2. CASE a = announcement
      BY <1>1, <2>1, <2>2 DEF NoCase
    <2>3. CASE a # announcement
      <3>1. published'[a] = published[a]
        BY <1>1, <2>3 DEF CommitInv, Shape
      <3> QED BY <1>1, <3>1 DEF CommitInv, AnnouncementsReportCommits, NoCase
    <2> QED BY <2>2, <2>3
  <1> QED BY <1>2, <1>3, <1>4, <1>5 DEF CommitInv

\* An execution ends with the same case in another state.
LEMMA ExecuteStep ==
  ASSUME CommitInv, Execute
  PROVE  CommitInv'
  <1>1. CASE ExecLoad \/ ExecClaim
    <2>1. /\ UNCHANGED <<pc, msg, seen, decision, processed, case, payment, published>>
          /\ exec' = exec \/ case # NoCase
      BY <1>1 DEF ExecLoad, ExecClaim, member, database, CommitInv, ExecutesCase
    <2> QED BY <2>1, QuietStep DEF CommitInv, Shape
  <1>2. CASE ExecEnd
    <2>1. case # NoCase /\ case.status # "NONE" /\ case \in CaseRecord
      BY <1>2 DEF ExecEnd, CommitInv, ExecutesCase, CaseFilled, Shape
    <2>2. PICK s \in RecoveryState \cup {"NONE"} : case' = [case EXCEPT !.state = s]
      BY <1>2, <2>1 DEF ExecEnd, RecoveryState, CaseRecord
    <2>3. case' \in CaseRecord /\ case'.status # "NONE" /\ case' # NoCase
      BY <2>1, <2>2, EmptyRecords DEF CaseRecord
    <2>4. /\ UNCHANGED <<pc, msg, seen, decision, processed, published>>
          /\ payment' \in {payment, "RECOVERED"}
      BY <1>2 DEF ExecEnd, member
    <2>5. Shape'
      BY <2>3, <2>4 DEF CommitInv, Shape, Status, PaymentState
    <2>6. EmitsCommitted' /\ HasDecided' /\ AnnouncementsReportCommits'
      BY <2>3, <2>4
      DEF CommitInv, EmitsCommitted, HasDecided, AnnouncementsReportCommits, Event, NoCase
    <2>7. SeenExists' /\ CaseFilled' /\ ExecutesCase'
      BY <2>3 DEF SeenExists, CaseFilled, ExecutesCase, NoCase
    <2> QED BY <2>5, <2>6, <2>7 DEF CommitInv
  <1> QED BY <1>1, <1>2 DEF Execute

LEMMA CommitInvariant == Spec => []CommitInv
<1>1. CommitInv /\ [Next]_vars => CommitInv'
  <2> SUFFICES ASSUME CommitInv, [Next]_vars PROVE CommitInv'
    OBVIOUS
  <2>1. ASSUME NEW w \in Consumers, AckRefused(w) \/ RegisterConflict(w) \/ CreateConflict(w)
                                      \/ Raise(w) \/ Crash(w)
        PROVE  CommitInv'
    <3>1. \E offset : Abort(w, offset)
      BY <2>1 DEF AckRefused, RegisterConflict, CreateConflict, Raise, Crash
    <3> QED BY <3>1, AbortStep
  <2>2. CASE (\E w \in Consumers : Rebalance(w)) \/ UNCHANGED vars
    <3>1. UNCHANGED <<pc, msg, seen, decision, processed, case, payment, published, exec>>
      BY <2>2 DEF Rebalance, vars, member, database
    <3> QED BY <3>1, QuietStep DEF CommitInv, Shape
  <2> QED BY <2>1, <2>2, MoveStep, PlanStep, CommitStep, EmitStep, ExecuteStep
          DEF Next, Consume, Transact, Wait, Fault
<1> QED BY CommitInit, <1>1, PTL DEF Spec

\* Nothing is announced that is not committed, whatever fails and whoever owns the
\* partition.
THEOREM CommitsFirst == Spec => []AnnouncementsReportCommits
<1>1. CommitInv => AnnouncementsReportCommits
  BY DEF CommitInv
<1> QED BY CommitInvariant, <1>1, PTL

-------------------------------------------------------------------------------
(* Each announcement once *)

\* What a member may still have to publish.
Rest ==
  { << "recovery.started", "notification.requested", "payment.retry_requested" >>,
    << "notification.requested", "payment.retry_requested" >>,
    << "payment.retry_requested" >>,
    << "recovery.started", "notification.requested" >>, << "notification.requested" >>,
    << "recovery.stopped" >>, << "recovery.escalated" >> }

\* Where a member has found its message to be a failure to plan.
Registered == Planning \cup { "register", "emit" }

Id(w) == Event(w).id

Members ==
  /\ pc \in [Consumers -> PC]
  /\ DOMAIN msg = Consumers /\ DOMAIN todo = Consumers /\ DOMAIN inserting = EventIds
  /\ DOMAIN published = AnnouncementType \X EventIds

\* The open insert of the key is the lock of planning.
PlansAlone ==
  \A w \in Consumers :
    /\ pc[w] = "lookup" => msg[w] \in DOMAIN Log
    /\ pc[w] \in Registered => Event(w) \in Failures
    /\ pc[w] \in Planning => inserting[Id(w)] = w /\ Id(w) \notin processed

EmitsAlone ==
  \A v, w \in Consumers : pc[v] = "emit" /\ pc[w] = "emit" /\ Id(v) = Id(w) => v = w

EmitsNew ==
  \A w \in Consumers : pc[w] = "emit" =>
    /\ Id(w) \in processed /\ todo[w] \in Rest
    /\ \A a \in ToSet(todo[w]) : published[<<a, Id(w)>>] = 0

PublishedSoFar ==
  \A a \in DOMAIN published :
    published[a] \in {0, 1} /\ (a[2] \notin processed => published[a] = 0)

OnceInv == Members /\ PlansAlone /\ EmitsAlone /\ EmitsNew /\ PublishedSoFar

LEMMA FailureIds == \A w : Event(w) \in Failures => Id(w) \in EventIds
  BY DEF Id, EventIds

LEMMA RestShrinks ==
  ASSUME NEW r \in Rest
  PROVE  /\ Head(r) \in AnnouncementType /\ Head(r) \in ToSet(r)
         /\ Len(r) # 1 => /\ Tail(r) \in Rest
                          /\ ToSet(Tail(r)) \subseteq ToSet(r) \ {Head(r)}
  <1>1. AnnouncementType = { "recovery.started", "notification.requested",
                             "payment.retry_requested", "recovery.stopped",
                             "recovery.escalated" }
    BY DEF AnnouncementType, Announcements, ToSet
  <1>2. Head(r) \in AnnouncementType /\ Head(r) \in ToSet(r)
    BY <1>1 DEF Rest, ToSet
  <1>3. Len(r) # 1 => Tail(r) \in Rest /\ ToSet(Tail(r)) \subseteq ToSet(r) \ {Head(r)}
    <2>1. \A a, b, c : /\ Tail(<<a, b, c>>) = <<b, c>> /\ Tail(<<a, b>>) = <<b>>
                       /\ Head(<<a, b, c>>) = a /\ Head(<<a, b>>) = a
                       /\ Len(<<a>>) = 1
      OBVIOUS
    <2>2. \A a, b, c : /\ ToSet(<<a, b, c>>) = {a, b, c} /\ ToSet(<<a, b>>) = {a, b}
                       /\ ToSet(<<a>>) = {a}
      BY DEF ToSet
    <2>3. CASE r = << "recovery.started", "notification.requested", "payment.retry_requested" >>
      <3>1. /\ Head(r) = "recovery.started"
            /\ Tail(r) = << "notification.requested", "payment.retry_requested" >>
        BY <2>1, <2>3
      <3>2. /\ ToSet(r) = { "recovery.started", "notification.requested",
                            "payment.retry_requested" }
            /\ ToSet(Tail(r)) = { "notification.requested", "payment.retry_requested" }
        BY <2>2, <2>3, <3>1
      <3> QED BY <3>1, <3>2 DEF Rest
    <2>4. CASE r \in { << "notification.requested", "payment.retry_requested" >>,
                       << "recovery.started", "notification.requested" >> }
      <3>1. PICK a, b : /\ r = <<a, b>> /\ a # b
                        /\ b \in { "payment.retry_requested", "notification.requested" }
        BY <2>4
      <3>2. Head(r) = a /\ Tail(r) = <<b>> /\ ToSet(r) = {a, b} /\ ToSet(Tail(r)) = {b}
        BY <2>1, <2>2, <3>1
      <3> QED BY <3>1, <3>2 DEF Rest
    <2>5. CASE r \notin { << "recovery.started", "notification.requested",
                             "payment.retry_requested" >>,
                          << "notification.requested", "payment.retry_requested" >>,
                          << "recovery.started", "notification.requested" >> }
      BY <2>1, <2>5 DEF Rest
    <2> QED BY <2>3, <2>4, <2>5
  <1> QED BY <1>2, <1>3

LEMMA AnnouncedInFull ==
  ASSUME NEW d \in Decision \ {"NONE"}
  PROVE  /\ Announcements[d] \in Rest /\ ToSet(Announcements[d]) \subseteq AnnouncementType
  BY DEF Decision, Announcements, Rest, AnnouncementType

\* Steps that commit and publish nothing, and let nobody into planning or publishing
\* who does not hold the key.
LEMMA OnceFrame ==
  ASSUME OnceInv, Members', UNCHANGED <<processed, published>>,
         \A v \in Consumers :
           /\ pc'[v] = "lookup" => msg'[v] \in DOMAIN Log
           /\ pc'[v] \in Registered => msg'[v] = msg[v] /\ Event(v) \in Failures
           /\ pc'[v] \in Planning => inserting'[Id(v)] = v /\ Id(v) \notin processed
           /\ pc'[v] = "emit" => pc[v] = "emit" /\ todo'[v] = todo[v]
  PROVE  OnceInv'
  <1>1. \A v \in Consumers :
          pc'[v] \in Registered => Id(v)' = Id(v) /\ Event(v)' = Event(v)
    BY DEF Id, Event
  <1>2. PlansAlone'
    BY <1>1 DEF PlansAlone, Registered
  <1>3. EmitsAlone'
    BY <1>1 DEF OnceInv, EmitsAlone, Registered
  <1>4. EmitsNew'
    BY <1>1 DEF OnceInv, EmitsNew, Registered
  <1>5. PublishedSoFar'
    BY DEF OnceInv, PublishedSoFar
  <1> QED BY <1>2, <1>3, <1>4, <1>5 DEF OnceInv

\* A member that gives its message up, or takes or leaves one.
LEMMA OnceAbort ==
  ASSUME OnceInv, NEW w \in Consumers, NEW offset, Abort(w, offset)
  PROVE  OnceInv'
  <1>1. /\ pc' = [pc EXCEPT ![w] = "poll"] /\ msg' = [msg EXCEPT ![w] = 0]
        /\ todo' = [todo EXCEPT ![w] = <<>>] /\ UNCHANGED <<processed, published>>
        /\ inserting' = [id \in EventIds |-> IF inserting[id] = w THEN Nobody ELSE inserting[id]]
    BY DEF Abort, Forget, Rollback
  <1>2. Members'
    <2>1. pc' \in [Consumers -> PC]
      BY <1>1 DEF OnceInv, Members, PC
    <2> QED BY <1>1, <2>1 DEF OnceInv, Members
  <1>3. ASSUME NEW v \in Consumers
        PROVE  /\ pc'[v] = "lookup" => msg'[v] \in DOMAIN Log
               /\ pc'[v] \in Registered => msg'[v] = msg[v] /\ Event(v) \in Failures
               /\ pc'[v] \in Planning => inserting'[Id(v)] = v /\ Id(v) \notin processed
               /\ pc'[v] = "emit" => pc[v] = "emit" /\ todo'[v] = todo[v]
    <2>1. CASE v = w
      BY <1>1, <2>1 DEF OnceInv, Members, Registered, Planning
    <2>2. CASE v # w
      BY <1>1, <2>2, FailureIds DEF OnceInv, Members, PlansAlone, Registered, Planning
    <2> QED BY <2>1, <2>2
  <1> QED BY <1>1, <1>2, <1>3, OnceFrame

LEMMA OnceMove ==
  ASSUME OnceInv, NEW w \in Consumers,
         Poll(w) \/ Skip(w) \/ Ack(w) \/ Lookup(w) \/ LoadCase(w) \/ CreateCase(w) \/ Plan(w)
  PROVE  OnceInv'
  <1>1. PICK to \in { "poll", "lookup", "ack", "register", "create", "plan", "commit" } :
          pc' = [pc EXCEPT ![w] = to]
    BY DEF Poll, Skip, Ack, Lookup, LoadCase, CreateCase, Plan, At
  <1>2. /\ \/ msg' = msg /\ to \notin { "lookup", "poll" }
           \/ to = "lookup" /\ \E m \in DOMAIN Log : msg' = [msg EXCEPT ![w] = m]
           \/ to = "poll" /\ msg' = [msg EXCEPT ![w] = 0]
        /\ todo' = todo \/ (to = "poll" /\ todo' = [todo EXCEPT ![w] = <<>>])
        /\ UNCHANGED <<inserting, processed, published>>
    <2>1. pc'[w] = to
      BY <1>1 DEF OnceInv, Members
    <2> QED BY <2>1 DEF Poll, Skip, Ack, Lookup, LoadCase, CreateCase, Plan, At, Forget, database,
                        OnceInv, Members
  <1>3. Members'
    <2>1. pc' \in [Consumers -> PC]
      BY <1>1 DEF OnceInv, Members, PC
    <2> QED BY <1>2, <2>1 DEF OnceInv, Members
  <1>4. /\ to = "register" => pc[w] = "lookup" /\ Event(w).type = "payment.failed"
        /\ to \in { "create", "plan", "commit" } => pc[w] \in Planning
    <2>1. pc'[w] = to
      BY <1>1 DEF OnceInv, Members
    <2> QED BY <2>1 DEF Poll, Skip, Ack, Lookup, LoadCase, CreateCase, Plan, At,
                        OnceInv, Members, Planning
  <1>5. to = "register" => Event(w) \in Failures
    BY <1>4 DEF OnceInv, PlansAlone, Event, Failures
  <1>6. ASSUME NEW v \in Consumers
        PROVE  /\ pc'[v] = "lookup" => msg'[v] \in DOMAIN Log
               /\ pc'[v] \in Registered => msg'[v] = msg[v] /\ Event(v) \in Failures
               /\ pc'[v] \in Planning => inserting'[Id(v)] = v /\ Id(v) \notin processed
               /\ pc'[v] = "emit" => pc[v] = "emit" /\ todo'[v] = todo[v]
    <2>1. CASE v = w
      BY <1>1, <1>2, <1>4, <1>5, <2>1 DEF OnceInv, Members, PlansAlone, Registered, Planning
    <2>2. CASE v # w
      BY <1>1, <1>2, <2>2 DEF OnceInv, Members, PlansAlone, Registered
    <2> QED BY <2>1, <2>2
  <1> QED BY <1>2, <1>3, <1>6, OnceFrame

\* The insert of the key finds nobody else in planning with it.
LEMMA OnceRegister ==
  ASSUME OnceInv, NEW w \in Consumers, Register(w)
  PROVE  OnceInv'
  <1>1. /\ pc[w] = "register" /\ pc' = [pc EXCEPT ![w] = "load"]
        /\ inserting[Id(w)] = Nobody /\ Id(w) \notin processed
        /\ inserting' = [inserting EXCEPT ![Id(w)] = w]
        /\ UNCHANGED <<msg, todo, processed, published>>
    BY DEF Register, At, Id
  <1>2. Event(w) \in Failures /\ Id(w) \in EventIds
    BY <1>1, FailureIds DEF OnceInv, PlansAlone, Registered
  <1>3. Members'
    <2>1. pc' \in [Consumers -> PC]
      BY <1>1 DEF OnceInv, Members, PC
    <2> QED BY <1>1, <2>1 DEF OnceInv, Members
  <1>4. ASSUME NEW v \in Consumers
        PROVE  /\ pc'[v] = "lookup" => msg'[v] \in DOMAIN Log
               /\ pc'[v] \in Registered => msg'[v] = msg[v] /\ Event(v) \in Failures
               /\ pc'[v] \in Planning => inserting'[Id(v)] = v /\ Id(v) \notin processed
               /\ pc'[v] = "emit" => pc[v] = "emit" /\ todo'[v] = todo[v]
    <2>1. CASE v = w
      BY <1>1, <1>2, <2>1 DEF OnceInv, Members
    <2>2. CASE v # w
      BY <1>1, <2>2, OrchestrationAssumption DEF OnceInv, Members, PlansAlone, Registered
    <2> QED BY <2>1, <2>2
  <1> QED BY <1>1, <1>3, <1>4, OnceFrame

\* The commit ends the planning of the event, and nobody has announced it before.
LEMMA OnceCommit ==
  ASSUME CommitInv, OnceInv, NEW w \in Consumers, CommitDecision(w)
  PROVE  OnceInv'
  <1>1. /\ pc[w] = "commit" /\ pc' = [pc EXCEPT ![w] = "emit"]
        /\ processed' = processed \cup {Id(w)}
        /\ inserting' = [inserting EXCEPT ![Id(w)] = Nobody]
        /\ todo' = [todo EXCEPT ![w] = Announcements[decision[w]]]
        /\ UNCHANGED <<msg, published>>
    BY DEF CommitDecision, At, Id
  <1>2. \A v \in Consumers : Id(v)' = Id(v) /\ Event(v)' = Event(v)
    BY <1>1 DEF Id, Event
  <1>3. /\ inserting[Id(w)] = w /\ Id(w) \notin processed
        /\ Event(w) \in Failures /\ Id(w) \in EventIds
    BY <1>1, FailureIds DEF OnceInv, PlansAlone, Planning, Registered
  <1>4. decision[w] \in Decision \ {"NONE"}
    BY <1>1 DEF CommitInv, HasDecided
  <1>5. Members'
    <2>1. pc' \in [Consumers -> PC]
      BY <1>1 DEF OnceInv, Members, PC
    <2> QED BY <1>1, <2>1 DEF OnceInv, Members
  <1>6. PlansAlone'
    <2> SUFFICES ASSUME NEW v \in Consumers
                 PROVE  /\ pc'[v] = "lookup" => msg'[v] \in DOMAIN Log
                        /\ pc'[v] \in Registered => Event(v)' \in Failures
                        /\ pc'[v] \in Planning =>
                             inserting'[Id(v)'] = v /\ Id(v)' \notin processed'
      BY DEF PlansAlone
    <2>1. CASE v = w
      BY <1>1, <1>2, <1>3, <2>1 DEF OnceInv, Members, Planning
    <2>2. CASE v # w
      BY <1>1, <1>2, <1>3, <2>2 DEF OnceInv, Members, PlansAlone
    <2> QED BY <2>1, <2>2
  <1>7. EmitsAlone'
    <2>1. \A v \in Consumers : pc[v] = "emit" => Id(v) # Id(w)
      BY <1>3 DEF OnceInv, EmitsNew
    <2> QED BY <1>1, <1>2, <2>1 DEF OnceInv, Members, EmitsAlone
  <1>8. EmitsNew'
    <2> SUFFICES ASSUME NEW v \in Consumers, pc'[v] = "emit"
                 PROVE  /\ Id(v)' \in processed' /\ todo'[v] \in Rest
                        /\ \A a \in ToSet(todo'[v]) : published'[<<a, Id(v)'>>] = 0
      BY DEF EmitsNew
    <2>1. CASE v = w
      <3>1. todo'[v] = Announcements[decision[w]]
        BY <1>1, <2>1 DEF OnceInv, Members
      <3>2. ASSUME NEW a \in ToSet(todo'[v]) PROVE published'[<<a, Id(v)'>>] = 0
        <4>1. <<a, Id(w)>> \in DOMAIN published
          BY <1>3, <1>4, <3>1, AnnouncedInFull DEF OnceInv, Members
        <4> QED BY <1>1, <1>2, <1>3, <2>1, <4>1 DEF OnceInv, PublishedSoFar
      <3> QED BY <1>1, <1>2, <1>4, <2>1, <3>1, <3>2, AnnouncedInFull
    <2>2. CASE v # w
      BY <1>1, <1>2, <2>2 DEF OnceInv, Members, EmitsNew
    <2> QED BY <2>1, <2>2
  <1>9. PublishedSoFar'
    BY <1>1 DEF OnceInv, PublishedSoFar
  <1> QED BY <1>5, <1>6, <1>7, <1>8, <1>9 DEF OnceInv

LEMMA OnceEmit ==
  ASSUME OnceInv, NEW w \in Consumers, Emit(w)
  PROVE  OnceInv'
  <1> DEFINE it == <<Head(todo[w]), Id(w)>>
  <1>1. /\ pc[w] = "emit"
        /\ pc' = [pc EXCEPT ![w] = IF Len(todo[w]) = 1 THEN "ack" ELSE "emit"]
        /\ published' = [published EXCEPT ![it] = @ + 1]
        /\ todo' = [todo EXCEPT ![w] = Tail(@)]
        /\ UNCHANGED <<msg, processed, inserting>>
    BY DEF Emit, database, Id
  <1>2. \A v \in Consumers : Id(v)' = Id(v) /\ Event(v)' = Event(v)
    BY <1>1 DEF Id, Event
  <1>3. /\ todo[w] \in Rest /\ Id(w) \in processed /\ Id(w) \in EventIds
        /\ \A a \in ToSet(todo[w]) : published[<<a, Id(w)>>] = 0
    BY <1>1, FailureIds DEF OnceInv, EmitsNew, PlansAlone, Registered
  <1>4. it \in DOMAIN published /\ published[it] = 0
    BY <1>3, RestShrinks DEF OnceInv, Members
  <1>5. /\ DOMAIN published' = DOMAIN published /\ published'[it] = 1
        /\ \A a \in DOMAIN published \ {it} : published'[a] = published[a]
    BY <1>1, <1>4
  <1>6. Members'
    <2>1. pc' \in [Consumers -> PC]
      BY <1>1 DEF OnceInv, Members, PC
    <2> QED BY <1>1, <1>5, <2>1 DEF OnceInv, Members
  <1>7. PlansAlone' /\ EmitsAlone'
    <2>1. \A v \in Consumers : pc'[v] = pc[v] \/ (v = w /\ pc'[v] = "ack")
      BY <1>1 DEF OnceInv, Members
    <2>2. "ack" \notin Registered /\ "ack" # "emit" /\ "ack" \notin Planning
      BY DEF Registered, Planning
    <2>3. PlansAlone'
      BY <1>1, <1>2, <2>1, <2>2 DEF OnceInv, PlansAlone
    <2>4. EmitsAlone'
      BY <1>2, <2>1 DEF OnceInv, EmitsAlone
    <2> QED BY <2>3, <2>4
  <1>8. EmitsNew'
    <2> SUFFICES ASSUME NEW v \in Consumers, pc'[v] = "emit"
                 PROVE  /\ Id(v)' \in processed' /\ todo'[v] \in Rest
                        /\ \A a \in ToSet(todo'[v]) : published'[<<a, Id(v)'>>] = 0
      BY DEF EmitsNew
    <2>1. CASE v = w
      <3>1. Len(todo[w]) # 1 /\ todo'[v] = Tail(todo[w])
        BY <1>1, <2>1 DEF OnceInv, Members
      <3>2. todo'[v] \in Rest /\ ToSet(todo'[v]) \subseteq ToSet(todo[w]) \ {Head(todo[w])}
        BY <1>3, <3>1, RestShrinks
      <3>3. \A a \in ToSet(todo'[v]) : <<a, Id(w)>> # it /\ published[<<a, Id(w)>>] = 0
        BY <1>3, <3>2
      <3>4. \A a \in ToSet(todo'[v]) : published'[<<a, Id(w)>>] = 0
        BY <1>1, <1>4, <3>3
      <3> QED BY <1>1, <1>2, <1>3, <2>1, <3>2, <3>4
    <2>2. CASE v # w
      <3>1. pc[v] = "emit" /\ todo'[v] = todo[v]
        BY <1>1, <2>2 DEF OnceInv, Members
      <3>2. Id(v) # Id(w)
        BY <1>1, <2>2, <3>1 DEF OnceInv, EmitsAlone
      <3>3. \A a \in ToSet(todo[v]) : published'[<<a, Id(v)>>] = published[<<a, Id(v)>>]
        BY <1>1, <3>2
      <3> QED BY <1>1, <1>2, <3>1, <3>3 DEF OnceInv, EmitsNew
    <2> QED BY <2>1, <2>2
  <1>9. PublishedSoFar'
    <2>1. it[2] \in processed
      BY <1>3
    <2> QED BY <1>1, <1>5, <2>1 DEF OnceInv, PublishedSoFar
  <1> QED BY <1>6, <1>7, <1>8, <1>9 DEF OnceInv

LEMMA OnceInvariant == Spec => []OnceInv
<1>1. Init => OnceInv
  <2> SUFFICES ASSUME Init PROVE OnceInv
    OBVIOUS
  <2>1. Members
    BY DEF Init, Members, PC
  <2>2. \A w \in Consumers : pc[w] = "poll"
    BY DEF Init
  <2>3. PlansAlone /\ EmitsAlone /\ EmitsNew
    BY <2>2 DEF PlansAlone, EmitsAlone, EmitsNew, Registered, Planning
  <2>4. PublishedSoFar
    BY DEF Init, PublishedSoFar
  <2> QED BY <2>1, <2>3, <2>4 DEF OnceInv
<1>2. CommitInv /\ OnceInv /\ [Next]_vars => OnceInv'
  <2> SUFFICES ASSUME CommitInv, OnceInv, [Next]_vars PROVE OnceInv'
    OBVIOUS
  <2>1. ASSUME NEW w \in Consumers, AckRefused(w) \/ RegisterConflict(w) \/ CreateConflict(w)
                                      \/ Raise(w) \/ Crash(w)
        PROVE  OnceInv'
    <3>1. \E offset : Abort(w, offset)
      BY <2>1 DEF AckRefused, RegisterConflict, CreateConflict, Raise, Crash
    <3> QED BY <3>1, OnceAbort
  <2>2. CASE (\E w \in Consumers : Rebalance(w)) \/ Execute \/ UNCHANGED vars
    <3>1. UNCHANGED <<pc, msg, todo, inserting, processed, published>>
      BY <2>2 DEF Rebalance, Execute, ExecLoad, ExecClaim, ExecEnd, vars, member, database
    <3> QED BY <3>1, OnceFrame DEF OnceInv, Members, PlansAlone, Registered
  <2> QED BY <2>1, <2>2, OnceMove, OnceRegister, OnceCommit, OnceEmit
          DEF Next, Consume, Transact, Wait, Fault
<1> QED BY <1>1, <1>2, CommitInvariant, PTL DEF Spec

\* However often an event is delivered, by whom and after which faults, each of its
\* announcements is published at most once.
THEOREM AnnouncedOnce == Spec => []PublishedOnce
<1>1. OnceInv => PublishedOnce
  BY DEF OnceInv, PublishedSoFar, PublishedOnce
<1> QED BY OnceInvariant, <1>1, PTL

-------------------------------------------------------------------------------
(* Offsets, when a member that raised goes on from the committed offset *)

\* With the events done, every failure before offset n is planned, but perhaps the
\* one at offset m.
Settled(done, n, m) ==
  \A i \in DOMAIN Log : i < n /\ i # m /\ Log[i] \in Failures => Log[i].id \in done

Offset == 1..(Len(Log) + 1)

\* A member is never past a failure that is not planned, wherever it starts.
BehindInv ==
  /\ committed \in Offset /\ Settled(processed, committed, 0)
  /\ DOMAIN position = Consumers /\ DOMAIN msg = Consumers /\ DOMAIN pc = Consumers
  /\ \A w \in Consumers : position[w] \in Offset /\ pc[w] \in PC
  /\ \A w \in Consumers : pc[w] \in { "poll", "emit", "ack" } => Settled(processed, position[w], 0)
  /\ \A w \in Consumers : pc[w] \in PC \ { "poll", "emit", "ack" } =>
       /\ msg[w] \in DOMAIN Log
       /\ Settled(processed, position[w], msg[w]) /\ Settled(processed, msg[w], 0)

LEMMA LogOffsets == DOMAIN Log = 1..Len(Log) /\ Len(Log) \in Nat
  BY OrchestrationAssumption

\* What is settled stays settled.
LEMMA SettledStays ==
  ASSUME NEW done, NEW more, NEW n, NEW m, Settled(done, n, m), done \subseteq more
  PROVE  Settled(more, n, m)
  BY DEF Settled

\* Steps at which the members keep their place, or go back to the committed offset.
LEMMA BehindFrame ==
  ASSUME BehindInv, processed \subseteq processed', committed' = committed,
         DOMAIN position' = Consumers, DOMAIN msg' = Consumers, DOMAIN pc' = Consumers,
         \A v \in Consumers :
           /\ pc'[v] \in PC
           /\ position'[v] \in { position[v], committed }
           /\ \/ pc'[v] = "poll" /\ position'[v] = committed
              \/ pc'[v] = pc[v] /\ msg'[v] = msg[v]
              \/ /\ {pc[v], pc'[v]} \subseteq PC \ { "poll", "emit", "ack" }
                 /\ msg'[v] = msg[v]
              \/ {pc[v], pc'[v]} \subseteq { "emit", "ack" }
  PROVE  BehindInv'
  <1>1. Settled(processed', committed', 0) /\ \A m : Settled(processed', committed', m)
    BY SettledStays, LogOffsets DEF BehindInv, Settled
  <1>2. ASSUME NEW v \in Consumers, pc'[v] \in { "poll", "emit", "ack" }
        PROVE  Settled(processed', position'[v], 0)
    BY <1>1, <1>2 DEF BehindInv, Settled
  <1>3. ASSUME NEW v \in Consumers, pc'[v] \in PC \ { "poll", "emit", "ack" }
        PROVE  /\ msg'[v] \in DOMAIN Log
               /\ Settled(processed', position'[v], msg'[v]) /\ Settled(processed', msg'[v], 0)
    BY <1>1, <1>3 DEF BehindInv, Settled
  <1> QED BY <1>1, <1>2, <1>3 DEF BehindInv

LEMMA BehindAbort ==
  ASSUME RestartOnError, BehindInv, NEW w \in Consumers,
         \/ AckRefused(w) \/ RegisterConflict(w) \/ CreateConflict(w) \/ Raise(w) \/ Crash(w)
  PROVE  BehindInv'
  <1>1. Abort(w, committed)
    BY DEF AckRefused, RegisterConflict, CreateConflict, Raise, Crash, ResumeAt
  <1>2. /\ pc' = [pc EXCEPT ![w] = "poll"] /\ msg' = [msg EXCEPT ![w] = 0]
        /\ position' = [position EXCEPT ![w] = committed]
        /\ UNCHANGED <<committed, processed>>
    BY <1>1 DEF Abort, Forget, Rollback
  <1>3. \A v \in Consumers :
           /\ pc'[v] \in PC
           /\ position'[v] \in { position[v], committed }
           /\ \/ pc'[v] = "poll" /\ position'[v] = committed
              \/ pc'[v] = pc[v] /\ msg'[v] = msg[v]
    BY <1>2 DEF BehindInv, PC
  <1> QED BY <1>2, <1>3, BehindFrame DEF BehindInv

\* A member inside its transaction, or publishing.
LEMMA BehindMove ==
  ASSUME BehindInv, NEW w \in Consumers,
         \/ Lookup(w) \/ Register(w) \/ LoadCase(w) \/ CreateCase(w) \/ Plan(w) \/ Emit(w)
  PROVE  BehindInv'
  <1>1. PICK to \in PC : pc' = [pc EXCEPT ![w] = to]
    BY DEF Lookup, Register, LoadCase, CreateCase, Plan, Emit, At, PC
  <1>2. UNCHANGED <<committed, position, msg, processed>>
    BY DEF Lookup, Register, LoadCase, CreateCase, Plan, Emit, group, database
  <1>3. \/ {pc[w], to} \subseteq PC \ { "poll", "emit", "ack" }
        \/ {pc[w], to} \subseteq { "emit", "ack" }
    <2>1. pc'[w] = to
      BY <1>1 DEF BehindInv
    <2> QED BY <2>1 DEF Lookup, Register, LoadCase, CreateCase, Plan, Emit, At, PC, BehindInv
  <1>4. \A v \in Consumers :
           /\ pc'[v] \in PC
           /\ position'[v] \in { position[v], committed }
           /\ \/ pc'[v] = pc[v] /\ msg'[v] = msg[v]
              \/ /\ {pc[v], pc'[v]} \subseteq PC \ { "poll", "emit", "ack" }
                 /\ msg'[v] = msg[v]
              \/ {pc[v], pc'[v]} \subseteq { "emit", "ack" }
    BY <1>1, <1>2, <1>3 DEF BehindInv
  <1> QED BY <1>1, <1>2, <1>4, BehindFrame DEF BehindInv

\* The new owner starts at the committed offset.
LEMMA BehindRebalance ==
  ASSUME BehindInv, NEW w \in Consumers, Rebalance(w)
  PROVE  BehindInv'
  <1>1. /\ position' = [position EXCEPT ![w] = committed]
        /\ UNCHANGED <<committed, pc, msg, processed>>
    BY DEF Rebalance, member, database
  <1> QED BY <1>1, BehindFrame DEF BehindInv

LEMMA BehindPoll ==
  ASSUME BehindInv, NEW w \in Consumers, Poll(w)
  PROVE  BehindInv'
  <1>1. /\ pc[w] = "poll" /\ pc' = [pc EXCEPT ![w] = "lookup"]
        /\ position[w] \in DOMAIN Log
        /\ msg' = [msg EXCEPT ![w] = position[w]]
        /\ position' = [position EXCEPT ![w] = @ + 1]
        /\ UNCHANGED <<committed, processed>>
    BY DEF Poll, At, database
  <1>2. Settled(processed, position[w], 0)
    BY <1>1 DEF BehindInv
  <1>3. position[w] + 1 \in Offset /\ Settled(processed, position[w] + 1, position[w])
    BY <1>1, <1>2, LogOffsets DEF Settled, Offset
  <1>4. \A v \in Consumers : position'[v] \in Offset /\ pc'[v] \in PC
    BY <1>1, <1>3 DEF BehindInv, PC
  <1>5. ASSUME NEW v \in Consumers
        PROVE  /\ pc'[v] \in { "poll", "emit", "ack" } => Settled(processed', position'[v], 0)
               /\ pc'[v] \in PC \ { "poll", "emit", "ack" } =>
                    /\ msg'[v] \in DOMAIN Log
                    /\ Settled(processed', position'[v], msg'[v]) /\ Settled(processed', msg'[v], 0)
    <2>1. CASE v = w
      BY <1>1, <1>2, <1>3, <2>1 DEF BehindInv, Settled
    <2>2. CASE v # w
      BY <1>1, <2>2 DEF BehindInv, Settled
    <2> QED BY <2>1, <2>2
  <1> QED BY <1>1, <1>4, <1>5 DEF BehindInv, Settled

\* A member is done with its message when there is nothing to plan or when it has
\* planned it.
LEMMA BehindSettle ==
  ASSUME BehindInv, NEW w \in Consumers, Skip(w) \/ CommitDecision(w)
  PROVE  BehindInv'
  <1>1. PICK to \in { "ack", "emit" } : pc' = [pc EXCEPT ![w] = to]
    BY DEF Skip, CommitDecision, At
  <1>2. /\ UNCHANGED <<committed, position, msg>> /\ processed \subseteq processed'
        /\ pc[w] \in { "lookup", "commit" }
        /\ Event(w) \in Failures => Event(w).id \in processed'
    BY DEF Skip, CommitDecision, At, group, database, Failures
  <1>3. msg[w] \in DOMAIN Log /\ Settled(processed, position[w], msg[w])
    BY <1>2 DEF BehindInv, PC
  <1>4. Settled(processed', position[w], 0)
    BY <1>2, <1>3 DEF Settled, Event
  <1>5. ASSUME NEW v \in Consumers
        PROVE  /\ pc'[v] \in PC
               /\ pc'[v] \in { "poll", "emit", "ack" } => Settled(processed', position'[v], 0)
               /\ pc'[v] \in PC \ { "poll", "emit", "ack" } =>
                    /\ msg'[v] \in DOMAIN Log
                    /\ Settled(processed', position'[v], msg'[v]) /\ Settled(processed', msg'[v], 0)
    <2>1. CASE v = w
      BY <1>1, <1>2, <1>4, <2>1 DEF BehindInv, PC
    <2>2. CASE v # w
      BY <1>1, <1>2, <2>2 DEF BehindInv, Settled
    <2> QED BY <2>1, <2>2
  <1>6. Settled(processed', committed', 0)
    BY <1>2 DEF BehindInv, Settled
  <1> QED BY <1>1, <1>2, <1>5, <1>6 DEF BehindInv

LEMMA BehindAck ==
  ASSUME BehindInv, NEW w \in Consumers, Ack(w)
  PROVE  BehindInv'
  <1>1. /\ pc[w] = "ack" /\ pc' = [pc EXCEPT ![w] = "poll"]
        /\ committed' = position[w] /\ msg' = [msg EXCEPT ![w] = 0]
        /\ UNCHANGED <<position, processed>>
    BY DEF Ack, At, Forget, database
  <1>2. Settled(processed, position[w], 0) /\ position[w] \in Offset
    BY <1>1 DEF BehindInv
  <1>3. \A v \in Consumers :
          /\ pc'[v] \in PC
          /\ pc'[v] = pc[v] \/ (pc'[v] = "poll" /\ v = w)
          /\ v # w => msg'[v] = msg[v]
    BY <1>1 DEF BehindInv, PC
  <1> QED BY <1>1, <1>2, <1>3 DEF BehindInv, Settled

LEMMA BehindInvariant == ASSUME RestartOnError PROVE Spec => []BehindInv
<1>1. Init => BehindInv
  <2> SUFFICES ASSUME Init PROVE BehindInv
    OBVIOUS
  <2>1. 1 \in Offset /\ \A m : Settled(processed, 1, m)
    BY LogOffsets DEF Offset, Settled
  <2> QED BY <2>1 DEF Init, BehindInv, PC
<1>2. BehindInv /\ [Next]_vars => BehindInv'
  <2> SUFFICES ASSUME BehindInv, [Next]_vars PROVE BehindInv'
    OBVIOUS
  <2>1. CASE Execute \/ UNCHANGED vars
    <3>1. UNCHANGED <<committed, position, pc, msg, processed>>
      BY <2>1 DEF Execute, ExecLoad, ExecClaim, ExecEnd, vars, group, member, database
    <3> QED BY <3>1, BehindFrame DEF BehindInv
  <2> QED BY <2>1, BehindAbort, BehindMove, BehindRebalance, BehindPoll, BehindSettle,
             BehindAck DEF Next, Consume, Transact, Wait, Fault
<1> QED BY <1>1, <1>2, PTL DEF Spec

\* If a member that raised goes on from the committed offset, no failure below that
\* offset is ever unplanned (docs/specs/phase_2_specification.md:135).
THEOREM OffsetsFollow == ASSUME RestartOnError PROVE Spec => []OffsetsAfterCommit
<1>1. BehindInv => OffsetsAfterCommit
  BY LogOffsets DEF BehindInv, Settled, Offset, OffsetsAfterCommit
<1> QED BY <1>1, BehindInvariant, PTL

\* And no two members plan the payment at the same time: the one with the later
\* message would have left an unplanned failure behind.
THEOREM OnePlanner == ASSUME RestartOnError PROVE Spec => []SinglePlanner
<1>1. BehindInv /\ OnceInv => SinglePlanner
  <2> SUFFICES ASSUME BehindInv, OnceInv, NEW v \in Consumers, NEW w \in Consumers,
                      pc[v] \in Planning, pc[w] \in Planning, v # w
               PROVE  FALSE
    BY DEF SinglePlanner
  <2>1. \A u \in {v, w} : /\ msg[u] \in DOMAIN Log /\ Settled(processed, msg[u], 0)
                          /\ inserting[Id(u)] = u /\ Id(u) \notin processed
                          /\ Event(u) \in Failures
    BY DEF BehindInv, OnceInv, PlansAlone, Planning, PC, Registered
  <2>2. msg[v] # msg[w]
    BY <2>1 DEF Id, Event
  <2>3. PICK x \in {v, w}, y \in {v, w} : msg[x] < msg[y]
    BY <2>1, <2>2, LogOffsets
  <2>4. msg[x] # 0
    BY <2>1, LogOffsets
  <2> QED
    BY <2>1, <2>3, <2>4 DEF Settled, Id, Event
<1> QED BY <1>1, BehindInvariant, OnceInvariant, PTL

-------------------------------------------------------------------------------
(* A case that planning closed stays closed *)

\* Planning writes these values of status only.
PlannedStatus == { "NONE", "RECOVERY_PENDING", "STOPPED", "ESCALATED" }

\* Who plans without having seen a case is about to insert it; who approves has not
\* seen it closed.
ClosedInv ==
  /\ case.status \in PlannedStatus
  /\ \A w \in Consumers : seen[w].case.status \in PlannedStatus
  /\ \A w \in Consumers :
       pc[w] \in { "plan", "commit" } /\ seen[w].case.status = "NONE" => caseRow = w /\ case = NoCase
  /\ \A w \in Consumers :
       pc[w] = "commit" /\ decision[w] \in { "RETRY", "LINK" }
         => seen[w].case.status \notin TerminalPaymentState

\* A step of one member, or of none, that leaves the case as it is.
LEMMA ClosedQuiet ==
  ASSUME ClosedInv, case' = case,
         \A v \in Consumers : seen'[v].case \in { seen[v].case, NoCase },
         \A v \in Consumers :
           pc'[v] \in { "plan", "commit" } =>
             /\ pc[v] = pc'[v] /\ seen'[v].case = seen[v].case /\ decision'[v] = decision[v]
             /\ caseRow = v => caseRow' = v
  PROVE  ClosedInv'
  BY EmptyRecords DEF ClosedInv, PlannedStatus

LEMMA ClosedAbort ==
  ASSUME CommitInv, ClosedInv, NEW w \in Consumers, NEW offset, Abort(w, offset)
  PROVE  ClosedInv'
  <1>1. \A v \in Consumers : seen'[v].case \in { seen[v].case, NoCase }
    BY EmptyRecords DEF Abort, Forget, CommitInv, Shape
  <1>2. \A v \in Consumers :
           pc'[v] \in { "plan", "commit" } =>
             /\ pc[v] = pc'[v] /\ seen'[v].case = seen[v].case /\ decision'[v] = decision[v]
             /\ caseRow = v => caseRow' = v
    BY DEF Abort, Forget, Rollback, CommitInv, Shape
  <1> QED BY <1>1, <1>2, ClosedQuiet DEF Abort, Rollback

\* Members that take or leave a message, look it up, register it or publish.
LEMMA ClosedMove ==
  ASSUME CommitInv, ClosedInv, NEW w \in Consumers,
         Poll(w) \/ Skip(w) \/ Ack(w) \/ Lookup(w) \/ Register(w) \/ Emit(w)
  PROVE  ClosedInv'
  <1>1. /\ case' = case /\ caseRow' = caseRow
        /\ \E to \in { "lookup", "ack", "poll", "register", "load", "emit" } :
             pc' = [pc EXCEPT ![w] = to]
        /\ \/ UNCHANGED <<seen, decision>>
           \/ /\ seen' = [seen EXCEPT ![w] = Unread]
              /\ decision' = [decision EXCEPT ![w] = "NONE"]
    BY DEF Poll, Skip, Ack, Lookup, Register, Emit, At, Forget, database
  <1>2. \A v \in Consumers : seen'[v].case \in { seen[v].case, NoCase }
    BY <1>1, EmptyRecords DEF CommitInv, Shape
  <1>3. \A v \in Consumers :
           pc'[v] \in { "plan", "commit" } =>
             /\ pc[v] = pc'[v] /\ seen'[v].case = seen[v].case /\ decision'[v] = decision[v]
             /\ caseRow = v => caseRow' = v
    BY <1>1 DEF CommitInv, Shape
  <1> QED BY <1>1, <1>2, <1>3, ClosedQuiet

\* The case that is loaded has a status.
LEMMA ClosedLoad ==
  ASSUME CommitInv, ClosedInv, NEW w \in Consumers, LoadCase(w)
  PROVE  ClosedInv'
  <1>1. /\ pc' = [pc EXCEPT ![w] = IF case = NoCase THEN "create" ELSE "plan"]
        /\ seen' = [seen EXCEPT ![w].case = case]
        /\ UNCHANGED <<decision, case, caseRow>>
    BY DEF LoadCase, At, database
  <1>2. /\ seen'[w].case = case /\ \A v \in Consumers \ {w} : seen'[v].case = seen[v].case
        /\ pc'[w] = "plan" => case.status # "NONE"
        /\ pc'[w] \in { "create", "plan" } /\ \A v \in Consumers \ {w} : pc'[v] = pc[v]
    BY <1>1 DEF CommitInv, Shape, CaseFilled
  <1> QED BY <1>1, <1>2 DEF ClosedInv

LEMMA ClosedCreate ==
  ASSUME CommitInv, ClosedInv, NEW w \in Consumers, CreateCase(w)
  PROVE  ClosedInv'
  <1>1. /\ caseRow = Nobody /\ case = NoCase /\ caseRow' = w
        /\ pc' = [pc EXCEPT ![w] = "plan"]
        /\ UNCHANGED <<seen, decision, case>>
    BY DEF CreateCase, At
  <1>2. pc'[w] = "plan" /\ \A v \in Consumers \ {w} : pc'[v] = pc[v]
    BY <1>1 DEF CommitInv, Shape
  <1> QED BY <1>1, <1>2, OrchestrationAssumption DEF ClosedInv

\* No approval for a case that was read closed.
LEMMA ClosedPlan ==
  ASSUME CommitInv, ClosedInv, NEW w \in Consumers, Plan(w)
  PROVE  ClosedInv'
  <1>1. /\ pc[w] = "plan" /\ pc' = [pc EXCEPT ![w] = "commit"]
        /\ seen' = [seen EXCEPT ![w].payment = payment]
        /\ UNCHANGED <<case, caseRow>>
    BY DEF Plan, At, database
  <1>2. PICK d \in Decisions(w, seen[w].case, payment) : decision' = [decision EXCEPT ![w] = d]
    BY DEF Plan
  <1>3. d \in { "RETRY", "LINK" } => seen[w].case.status \notin TerminalPaymentState
    BY <1>2 DEF Decisions, WorkflowClosed
  <1>4. \A v \in Consumers : seen'[v].case = seen[v].case
    BY <1>1 DEF CommitInv, Shape
  <1>5. /\ decision'[w] = d
        /\ \A v \in Consumers \ {w} : pc'[v] = pc[v] /\ decision'[v] = decision[v]
    BY <1>1, <1>2 DEF CommitInv, Shape
  <1> QED BY <1>1, <1>3, <1>4, <1>5 DEF ClosedInv

\* The commit: an approval changes the status of a case that it creates, and leaves
\* the column alone otherwise.
LEMMA ClosedCommit ==
  ASSUME CommitInv, ClosedInv, NEW w \in Consumers, CommitDecision(w)
  PROVE  /\ ClosedInv'
         /\ case.status \in TerminalPaymentState => case'.status \in TerminalPaymentState
  <1>1. /\ pc[w] = "commit" /\ pc' = [pc EXCEPT ![w] = "emit"]
        /\ case' = StoredCase(w) /\ UNCHANGED <<seen, decision>>
        /\ caseRow' = IF caseRow = w THEN Nobody ELSE caseRow
        /\ caseRow \in {w, Nobody} \/ (ChangedColumns(w) = {} /\ decision[w] \in {"RETRY", "LINK"})
    BY DEF CommitDecision, At
  <1>2. decision[w] \in Decision \ {"NONE"}
    BY <1>1 DEF CommitInv, HasDecided
  <1>3. case'.status = IF CaseAfter(decision[w]).status # seen[w].case.status
                       THEN CaseAfter(decision[w]).status ELSE case.status
    BY <1>1, EmptyRecords DEF StoredCase, ChangedColumns
  <1>4. CASE decision[w] \in { "RETRY", "LINK" }
    <2>1. CaseAfter(decision[w]).status = "RECOVERY_PENDING"
      BY <1>4 DEF CaseAfter
    <2>2. seen[w].case.status \in { "NONE", "RECOVERY_PENDING" }
      BY <1>1, <1>4 DEF ClosedInv, PlannedStatus, TerminalPaymentState
    <2>3. CASE seen[w].case.status = "NONE"
      <3>1. case = NoCase /\ case'.status = "RECOVERY_PENDING" /\ caseRow = w
        BY <1>1, <1>3, <2>1, <2>3 DEF ClosedInv
      <3>2. case.status \notin TerminalPaymentState
        BY <3>1, EmptyRecords DEF TerminalPaymentState
      <3>3. \A v \in Consumers \ {w} : ~(pc[v] \in { "plan", "commit" } /\ seen[v].case.status = "NONE")
        BY <3>1 DEF ClosedInv
      <3> QED BY <1>1, <3>1, <3>2, <3>3 DEF ClosedInv, PlannedStatus, CommitInv, Shape
    <2>4. CASE seen[w].case.status = "RECOVERY_PENDING"
      <3>1. case'.status = case.status
        BY <1>3, <2>1, <2>4
      <3>2. case # NoCase
        BY <2>4, EmptyRecords DEF CommitInv, SeenExists
      <3> QED BY <1>1, <3>1, <3>2 DEF ClosedInv, CommitInv, Shape
    <2> QED BY <2>2, <2>3, <2>4
  <1>5. CASE decision[w] \notin { "RETRY", "LINK" }
    <2>1. CaseAfter(decision[w]).status \in { "STOPPED", "ESCALATED" }
      BY <1>2, <1>5 DEF CaseAfter, Decision
    <2>2. case'.status \in { CaseAfter(decision[w]).status, case.status }
      BY <1>3
    <2>3. \A v \in Consumers \ {w} : ~(pc[v] \in { "plan", "commit" } /\ seen[v].case.status = "NONE")
      BY <1>1, <1>5, OrchestrationAssumption DEF ClosedInv
    <2>4. case.status \in TerminalPaymentState => case'.status \in TerminalPaymentState
      BY <2>1, <2>2 DEF TerminalPaymentState
    <2> QED BY <1>1, <2>1, <2>2, <2>3, <2>4 DEF ClosedInv, PlannedStatus, CommitInv, Shape
  <1> QED BY <1>4, <1>5

\* The executor leaves the status of the case alone.
LEMMA ClosedExecute ==
  ASSUME CommitInv, ClosedInv, Execute
  PROVE  ClosedInv' /\ case'.status = case.status
  <1>1. UNCHANGED <<pc, seen, decision>>
    BY DEF Execute, ExecLoad, ExecClaim, ExecEnd, member
  <1>2. case # NoCase
    BY DEF Execute, ExecLoad, ExecClaim, ExecEnd, CommitInv, ExecutesCase
  <1>3. case'.status = case.status
    <2>1. case' = case \/ \E s : case' = [case EXCEPT !.state = s]
      BY DEF Execute, ExecLoad, ExecClaim, ExecEnd, database
    <2>2. case = [state |-> case.state, status |-> case.status]
      BY DEF CommitInv, Shape, CaseRecord
    <2> QED BY <2>1, <2>2
  <1> QED BY <1>1, <1>2, <1>3 DEF ClosedInv

LEMMA ClosedNext ==
  CommitInv /\ ClosedInv /\ [Next]_vars
    => /\ ClosedInv'
       /\ case.status \in TerminalPaymentState => case'.status \in TerminalPaymentState
  <1> SUFFICES ASSUME CommitInv, ClosedInv, [Next]_vars
               PROVE  /\ ClosedInv'
                      /\ case.status \in TerminalPaymentState => case'.status \in TerminalPaymentState
    OBVIOUS
  <1>1. ASSUME NEW w \in Consumers, AckRefused(w) \/ RegisterConflict(w) \/ CreateConflict(w)
                                      \/ Raise(w) \/ Crash(w)
        PROVE  ClosedInv' /\ case' = case
    <2>1. \E offset : Abort(w, offset)
      BY <1>1 DEF AckRefused, RegisterConflict, CreateConflict, Raise, Crash
    <2> QED BY <2>1, ClosedAbort DEF Abort, Rollback
  <1>2. CASE (\E w \in Consumers : Rebalance(w)) \/ UNCHANGED vars
    <2>1. UNCHANGED <<pc, seen, decision, case, caseRow>>
      BY <1>2 DEF Rebalance, vars, member, database
    <2> QED BY <2>1 DEF ClosedInv
  <1>3. ASSUME NEW w \in Consumers,
               Poll(w) \/ Skip(w) \/ Ack(w) \/ Lookup(w) \/ Register(w) \/ Emit(w)
                 \/ LoadCase(w) \/ CreateCase(w) \/ Plan(w)
        PROVE  ClosedInv' /\ case' = case
    <2>1. case' = case
      BY <1>3 DEF Poll, Skip, Ack, Lookup, Register, Emit, LoadCase, CreateCase, Plan, database
    <2> QED BY <1>3, <2>1, ClosedMove, ClosedLoad, ClosedCreate, ClosedPlan
  <1> QED BY <1>1, <1>2, <1>3, ClosedCommit, ClosedExecute
          DEF Next, Consume, Transact, Wait, Fault

\* A case that planning closed is not opened again, whoever planned on an older read
\* of it: an approval writes the status only of a case that it has inserted itself.
THEOREM NeverReopened == Spec => ClosedStaysClosed
<1>1. Init => ClosedInv
  BY EmptyRecords DEF Init, ClosedInv, PlannedStatus
<1>2. CommitInv /\ ClosedInv /\ [Next]_vars => ClosedInv'
  BY ClosedNext
<1>3. CommitInv /\ ClosedInv /\ [Next]_vars
        => [case.status \in TerminalPaymentState => case'.status \in TerminalPaymentState]_vars
  BY ClosedNext
<1> QED BY <1>1, <1>2, <1>3, CommitInvariant, PTL DEF Spec, ClosedStaysClosed

-------------------------------------------------------------------------------
(* The types of the variables *)

\* The offsets of the group and where its members are.
PlaceInv ==
  /\ assigned \in Consumers /\ committed \in Offset
  /\ position \in [Consumers -> Offset]
  /\ pc \in [Consumers -> PC] /\ msg \in [Consumers -> 0..Len(Log)]
  /\ faults \in 0..MaxFaults /\ rebalances \in 0..MaxRebalances

\* What the members decided and announce, and the keys of the events.
AnnounceInv ==
  /\ decision \in [Consumers -> Decision]
  /\ \A w \in Consumers : todo[w] \in Seq(AnnouncementType)
  /\ processed \subseteq EventIds
  /\ inserting \in [EventIds -> Consumers \cup {Nobody}]
  /\ published \in [AnnouncementType \X EventIds -> Nat]

\* A case is either not there or has both a state and a status.
FilledCase == [state : RecoveryState, status : PaymentState]

CaseInv ==
  /\ case \in FilledCase \cup {NoCase}
  /\ \A w \in Consumers : seen[w].case \in FilledCase \cup {NoCase}
  /\ caseRow \in Consumers \cup {Executor, Nobody}
  /\ payment \in PaymentState /\ exec \in { "idle", "loaded", "executing" }

LEMMA PlaceStep == PlaceInv /\ [Next]_vars => PlaceInv'
  <1> SUFFICES ASSUME PlaceInv, [Next]_vars PROVE PlaceInv'
    OBVIOUS
  <1> USE DEF PlaceInv
  <1>1. ASSUME NEW w \in Consumers, NEW offset \in Offset, Abort(w, offset),
               \/ UNCHANGED bounds
               \/ faults < MaxFaults /\ faults' = faults + 1 /\ UNCHANGED rebalances
        PROVE  PlaceInv'
    <2>1. /\ pc' = [pc EXCEPT ![w] = "poll"] /\ msg' = [msg EXCEPT ![w] = 0]
          /\ position' = [position EXCEPT ![w] = offset]
          /\ UNCHANGED <<assigned, committed>>
      BY <1>1 DEF Abort, Forget
    <2>2. pc' \in [Consumers -> PC]
      BY <2>1 DEF PC
    <2>3. msg' \in [Consumers -> 0..Len(Log)]
      BY <2>1, LogOffsets
    <2>4. faults' \in 0..MaxFaults /\ rebalances' \in 0..MaxRebalances
      BY <1>1, OrchestrationAssumption DEF bounds
    <2> QED BY <2>1, <2>2, <2>3, <2>4
  <1>2. ASSUME NEW w \in Consumers, AckRefused(w) \/ RegisterConflict(w) \/ CreateConflict(w)
                                      \/ Raise(w) \/ Crash(w)
        PROVE  PlaceInv'
    <2>1. ResumeAt(w) \in Offset
      BY DEF ResumeAt
    <2> QED BY <1>1, <1>2, <2>1
            DEF AckRefused, RegisterConflict, CreateConflict, Raise, Crash
  <1>3. ASSUME NEW w \in Consumers, Poll(w) PROVE PlaceInv'
    <2>1. /\ pc' = [pc EXCEPT ![w] = "lookup"] /\ position[w] \in DOMAIN Log
          /\ msg' = [msg EXCEPT ![w] = position[w]]
          /\ position' = [position EXCEPT ![w] = @ + 1]
          /\ UNCHANGED <<assigned, committed, faults, rebalances>>
      BY <1>3 DEF Poll, At, bounds
    <2>2. position[w] + 1 \in Offset /\ position[w] \in 0..Len(Log)
      BY <2>1, LogOffsets DEF Offset
    <2>3. pc' \in [Consumers -> PC]
      BY <2>1 DEF PC
    <2> QED BY <2>1, <2>2, <2>3
  <1>4. ASSUME NEW w \in Consumers, Ack(w) PROVE PlaceInv'
    <2>1. /\ pc' = [pc EXCEPT ![w] = "poll"] /\ committed' = position[w]
          /\ msg' = [msg EXCEPT ![w] = 0]
          /\ UNCHANGED <<assigned, position, faults, rebalances>>
      BY <1>4 DEF Ack, At, Forget, bounds
    <2>2. pc' \in [Consumers -> PC]
      BY <2>1 DEF PC
    <2> QED BY <2>1, <2>2, LogOffsets
  <1>5. ASSUME NEW w \in Consumers, Rebalance(w) PROVE PlaceInv'
    <2>1. /\ assigned' = w /\ position' = [position EXCEPT ![w] = committed]
          /\ rebalances < MaxRebalances /\ rebalances' = rebalances + 1
          /\ UNCHANGED <<committed, pc, msg, faults>>
      BY <1>5 DEF Rebalance, member
    <2> QED BY <2>1, OrchestrationAssumption
  <1>6. ASSUME NEW w \in Consumers,
               \/ Skip(w) \/ Lookup(w) \/ Register(w) \/ LoadCase(w) \/ CreateCase(w)
               \/ Plan(w) \/ CommitDecision(w) \/ Emit(w)
        PROVE  PlaceInv'
    <2>1. /\ \E to \in PC : pc' = [pc EXCEPT ![w] = to]
          /\ UNCHANGED <<assigned, position, committed, msg, faults, rebalances>>
      BY <1>6 DEF Skip, Lookup, Register, LoadCase, CreateCase, Plan, CommitDecision, Emit, At,
                  group, bounds, PC
    <2> QED BY <2>1
  <1>7. CASE Execute \/ UNCHANGED vars
    <2>1. UNCHANGED <<assigned, position, committed, pc, msg, faults, rebalances>>
      BY <1>7 DEF Execute, ExecLoad, ExecClaim, ExecEnd, vars, group, member, bounds
    <2> QED BY <2>1
  <1> QED BY <1>2, <1>3, <1>4, <1>5, <1>6, <1>7 DEF Next, Consume, Transact, Wait, Fault

\* What is left to publish is a sequence of announcements.
LEMMA RestIsSequence == Rest \subseteq Seq(AnnouncementType)
  <1>1. AnnouncementType = { "recovery.started", "notification.requested",
                             "payment.retry_requested", "recovery.stopped",
                             "recovery.escalated" }
    BY DEF AnnouncementType, Announcements, ToSet
  <1> QED BY <1>1 DEF Rest

LEMMA AnnounceStep == CommitInv /\ OnceInv /\ AnnounceInv /\ [Next]_vars => AnnounceInv'
  <1> SUFFICES ASSUME CommitInv, OnceInv, AnnounceInv, [Next]_vars PROVE AnnounceInv'
    OBVIOUS
  <1> USE DEF AnnounceInv
  <1>0. DOMAIN todo = Consumers
    BY DEF OnceInv, Members
  <1>1. ASSUME NEW w \in Consumers,
               \/ AckRefused(w) \/ RegisterConflict(w) \/ CreateConflict(w) \/ Raise(w)
               \/ Crash(w)
        PROVE  AnnounceInv'
    <2>1. \E offset : Abort(w, offset)
      BY <1>1 DEF AckRefused, RegisterConflict, CreateConflict, Raise, Crash
    <2>2. /\ decision' = [decision EXCEPT ![w] = "NONE"]
          /\ todo' = [todo EXCEPT ![w] = <<>>] /\ UNCHANGED <<processed, published>>
          /\ inserting' = [id \in EventIds |-> IF inserting[id] = w THEN Nobody ELSE inserting[id]]
      BY <2>1 DEF Abort, Forget, Rollback
    <2>3. decision' \in [Consumers -> Decision]
      BY <2>2 DEF Decision
    <2>4. \A v \in Consumers : todo'[v] \in Seq(AnnouncementType)
      BY <1>0, <2>2
    <2>5. inserting' \in [EventIds -> Consumers \cup {Nobody}]
      BY <2>2
    <2> QED BY <2>2, <2>3, <2>4, <2>5
  <1>2. ASSUME NEW w \in Consumers, Ack(w) PROVE AnnounceInv'
    <2>1. /\ decision' = [decision EXCEPT ![w] = "NONE"]
          /\ todo' = [todo EXCEPT ![w] = <<>>]
          /\ UNCHANGED <<processed, published, inserting>>
      BY <1>2 DEF Ack, Forget, database
    <2>2. decision' \in [Consumers -> Decision]
      BY <2>1 DEF Decision
    <2>3. \A v \in Consumers : todo'[v] \in Seq(AnnouncementType)
      BY <1>0, <2>1
    <2> QED BY <2>1, <2>2, <2>3
  <1>3. ASSUME NEW w \in Consumers, Plan(w) PROVE AnnounceInv'
    <2>1. PICK d \in Decisions(w, seen[w].case, payment) :
            decision' = [decision EXCEPT ![w] = d]
      BY <1>3 DEF Plan
    <2>2. d \in Decision
      BY DEF Decisions, Decision
    <2>3. UNCHANGED <<todo, processed, published, inserting>>
      BY <1>3 DEF Plan, database
    <2> QED BY <2>1, <2>2, <2>3
  <1>4. ASSUME NEW w \in Consumers, Register(w) PROVE AnnounceInv'
    <2>1. /\ inserting' = [inserting EXCEPT ![Id(w)] = w]
          /\ UNCHANGED <<decision, todo, processed, published>>
      BY <1>4 DEF Register, Id
    <2> QED BY <2>1
  <1>5. ASSUME NEW w \in Consumers, CommitDecision(w) PROVE AnnounceInv'
    <2>1. /\ pc[w] = "commit" /\ processed' = processed \cup {Id(w)}
          /\ inserting' = [inserting EXCEPT ![Id(w)] = Nobody]
          /\ todo' = [todo EXCEPT ![w] = Announcements[decision[w]]]
          /\ UNCHANGED <<decision, published>>
      BY <1>5 DEF CommitDecision, At, Id
    <2>2. Id(w) \in EventIds
      BY <2>1, FailureIds DEF OnceInv, PlansAlone, Registered, Planning
    <2>3. Announcements[decision[w]] \in Seq(AnnouncementType)
      BY <2>1, AnnouncedInFull, RestIsSequence DEF CommitInv, HasDecided
    <2>4. \A v \in Consumers : todo'[v] \in Seq(AnnouncementType)
      BY <1>0, <2>1, <2>3
    <2> QED BY <2>1, <2>2, <2>4
  <1>6. ASSUME NEW w \in Consumers, Emit(w) PROVE AnnounceInv'
    <2>1. /\ pc[w] = "emit" /\ todo' = [todo EXCEPT ![w] = Tail(@)]
          /\ published' = [published EXCEPT ![<<Head(todo[w]), Id(w)>>] = @ + 1]
          /\ UNCHANGED <<decision, processed, inserting>>
      BY <1>6 DEF Emit, database, Id
    <2>2. todo[w] # <<>>
      <3>1. ToSet(todo[w]) # {}
        BY <2>1, RestShrinks DEF OnceInv, EmitsNew
      <3> QED BY <3>1 DEF ToSet
    <2>3. Tail(todo[w]) \in Seq(AnnouncementType)
      BY <2>2
    <2>4. \A v \in Consumers : todo'[v] \in Seq(AnnouncementType)
      BY <1>0, <2>1, <2>3
    <2>5. published' \in [AnnouncementType \X EventIds -> Nat]
      <3>1. ASSUME NEW S, NEW f \in [S -> Nat], NEW a PROVE [f EXCEPT ![a] = @ + 1] \in [S -> Nat]
        <4>1. CASE a \in S
          BY <4>1
        <4>2. CASE a \notin S
          BY <4>2
        <4> QED BY <4>1, <4>2
      <3> QED BY <2>1, <3>1
    <2> QED BY <2>1, <2>4, <2>5
  <1>7. ASSUME \/ \E w \in Consumers : \/ Poll(w) \/ Skip(w) \/ Lookup(w) \/ LoadCase(w)
                                       \/ CreateCase(w) \/ Rebalance(w)
               \/ Execute \/ UNCHANGED vars
        PROVE  AnnounceInv'
    <2>1. UNCHANGED <<decision, todo, processed, inserting, published>>
      BY <1>7 DEF Poll, Skip, Lookup, LoadCase, CreateCase, Rebalance, Execute, ExecLoad,
                  ExecClaim, ExecEnd, vars, member, database
    <2> QED BY <2>1
  <1> QED BY <1>1, <1>2, <1>3, <1>4, <1>5, <1>6, <1>7
          DEF Next, Consume, Transact, Wait, Fault

\* A decision stored over a case leaves a whole case: a column that is not written
\* was seen with the value, so the case was there.
LEMMA StoredIsFilled ==
  ASSUME CommitInv, CaseInv, NEW w \in Consumers, pc[w] = "commit"
  PROVE  StoredCase(w) \in FilledCase
  <1>1. decision[w] \in Decision \ {"NONE"}
    BY DEF CommitInv, HasDecided
  <1>2. CaseAfter(decision[w]) \in FilledCase
    BY <1>1 DEF CaseAfter, Decision, FilledCase, RecoveryState, PaymentState
  <1>3. "NONE" \notin RecoveryState /\ "NONE" \notin PaymentState
    BY DEF RecoveryState, PaymentState
  <1>4. case = NoCase => seen[w].case = NoCase
    BY DEF CommitInv, SeenExists
  <1>5. StoredCase(w).state \in RecoveryState
    BY <1>2, <1>3, <1>4, EmptyRecords DEF StoredCase, ChangedColumns, CaseInv, FilledCase
  <1>6. StoredCase(w).status \in PaymentState
    BY <1>2, <1>3, <1>4, EmptyRecords DEF StoredCase, ChangedColumns, CaseInv, FilledCase
  <1>7. StoredCase(w) = [state |-> StoredCase(w).state, status |-> StoredCase(w).status]
    BY EmptyRecords DEF StoredCase
  <1> QED BY <1>5, <1>6, <1>7 DEF FilledCase

LEMMA CaseStep == CommitInv /\ CaseInv /\ [Next]_vars => CaseInv'
  <1> SUFFICES ASSUME CommitInv, CaseInv, [Next]_vars PROVE CaseInv'
    OBVIOUS
  <1>0. /\ DOMAIN seen = Consumers
        /\ seen \in [Consumers -> [case : CaseRecord, payment : Status]]
    BY DEF CommitInv, Shape
  <1>1. ASSUME NEW w \in Consumers,
               \/ AckRefused(w) \/ RegisterConflict(w) \/ CreateConflict(w) \/ Raise(w)
               \/ Crash(w)
        PROVE  CaseInv'
    <2>1. \E offset : Abort(w, offset)
      BY <1>1 DEF AckRefused, RegisterConflict, CreateConflict, Raise, Crash
    <2>2. /\ seen' = [seen EXCEPT ![w] = Unread]
          /\ caseRow' \in {caseRow, Nobody} /\ UNCHANGED <<case, payment, exec>>
      BY <2>1 DEF Abort, Forget, Rollback
    <2>3. \A v \in Consumers : seen'[v].case \in {seen[v].case, NoCase}
      BY <1>0, <2>2, EmptyRecords
    <2> QED BY <2>2, <2>3 DEF CaseInv, NoCase
  <1>2. ASSUME NEW w \in Consumers,
               \/ Poll(w) \/ Skip(w) \/ Ack(w) \/ Lookup(w) \/ Register(w) \/ LoadCase(w)
               \/ Emit(w) \/ Plan(w) \/ CreateCase(w)
        PROVE  CaseInv'
    <2>1. /\ UNCHANGED <<case, payment, exec>> /\ caseRow' \in {caseRow, w}
          /\ \/ seen' = seen
             \/ seen' = [seen EXCEPT ![w] = Unread]
             \/ seen' = [seen EXCEPT ![w].case = case]
             \/ seen' = [seen EXCEPT ![w].payment = payment]
      BY <1>2 DEF Poll, Skip, Ack, Lookup, Register, LoadCase, Emit, Plan, CreateCase, Forget,
                  database
    <2>2. \A v \in Consumers : seen'[v].case \in {seen[v].case, case, NoCase}
      BY <1>0, <2>1, EmptyRecords
    <2> QED BY <2>1, <2>2 DEF CaseInv, NoCase
  <1>3. ASSUME NEW w \in Consumers, CommitDecision(w) PROVE CaseInv'
    <2>1. /\ pc[w] = "commit" /\ case' = StoredCase(w)
          /\ caseRow' \in {caseRow, Nobody} /\ UNCHANGED <<seen, payment, exec>>
      BY <1>3 DEF CommitDecision, At
    <2> QED BY <2>1, StoredIsFilled DEF CaseInv, NoCase, FilledCase
  <1>4. CASE ExecLoad \/ ExecClaim
    BY <1>4 DEF ExecLoad, ExecClaim, CaseInv, NoCase, FilledCase, member, database
  <1>5. CASE ExecEnd
    <2>1. case \in FilledCase
      BY <1>5 DEF ExecEnd, CommitInv, ExecutesCase, CaseInv
    <2>2. PICK s \in RecoveryState : case' = [case EXCEPT !.state = s]
      BY <1>5, <2>1 DEF ExecEnd, RecoveryState, FilledCase
    <2>3. case' \in FilledCase
      BY <2>1, <2>2 DEF FilledCase
    <2>4. /\ payment' \in {payment, "RECOVERED"} /\ exec' = "idle" /\ caseRow' = Nobody
          /\ UNCHANGED seen
      BY <1>5 DEF ExecEnd, member
    <2>5. payment' \in PaymentState
      BY <2>4 DEF CaseInv, PaymentState
    <2> QED BY <2>3, <2>4, <2>5 DEF CaseInv, NoCase, FilledCase
  <1>6. CASE (\E w \in Consumers : Rebalance(w)) \/ UNCHANGED vars
    BY <1>6 DEF Rebalance, vars, member, database, CaseInv, NoCase, FilledCase
  <1> QED BY <1>1, <1>2, <1>3, <1>4, <1>5, <1>6
          DEF Next, Consume, Transact, Wait, Fault, Execute

\* Each variable has its type: offsets stay in the partition, a member publishes
\* announcements only, and a case is absent or has both its columns.
THEOREM OrchestrationTypes == Spec => []TypeOK
<1>1. Init => PlaceInv /\ AnnounceInv /\ CaseInv
  <2> SUFFICES ASSUME Init PROVE PlaceInv /\ AnnounceInv /\ CaseInv
    OBVIOUS
  <2>1. PlaceInv
    BY LogOffsets, OrchestrationAssumption DEF Init, PlaceInv, Offset, PC
  <2>2. AnnounceInv
    BY DEF Init, AnnounceInv, Decision
  <2>3. CaseInv
    BY EmptyRecords DEF Init, CaseInv, PaymentState
  <2> QED BY <2>1, <2>2, <2>3
<1>2. CommitInv /\ OnceInv /\ PlaceInv /\ AnnounceInv /\ CaseInv => TypeOK
  BY DEF PlaceInv, AnnounceInv, CaseInv, FilledCase, Offset, TypeOK
<1> QED BY <1>1, <1>2, PlaceStep, AnnounceStep, CaseStep, CommitInvariant, OnceInvariant, PTL
        DEF Spec

-------------------------------------------------------------------------------
(* The contract of planning *)

\* Where a member is in the announcements of a decision: the next one is at "at".
Places ==
  { [story |-> "RETRY", at |-> 1, rest |-> << "recovery.started", "notification.requested",
                                              "payment.retry_requested" >>],
    [story |-> "RETRY", at |-> 2, rest |-> << "notification.requested",
                                              "payment.retry_requested" >>],
    [story |-> "RETRY", at |-> 3, rest |-> << "payment.retry_requested" >>],
    [story |-> "LINK", at |-> 1, rest |-> << "recovery.started", "notification.requested" >>],
    [story |-> "LINK", at |-> 2, rest |-> << "notification.requested" >>],
    [story |-> "STOPPED", at |-> 1, rest |-> << "recovery.stopped" >>],
    [story |-> "ESCALATED", at |-> 1, rest |-> << "recovery.escalated" >>] }

\* What was told of an event, and what comes before a place.
Told(id)  == { t \in AnnouncementType : published[<<t, id>>] > 0 }
Before(p) == { Announcements[p.story][j] : j \in 1..(p.at - 1) }

\* A member that publishes has told its event the beginning of one decision.
TellsStory ==
  \A w \in Consumers : pc[w] = "emit" =>
    \E p \in Places : todo[w] = p.rest /\ Told(Id(w)) = Before(p)

\* Somebody asked for the execution that is under way, and the payment is open.
ExecutesRequest ==
  exec # "idle" => /\ payment \notin TerminalPaymentState
                   /\ \E id \in EventIds : published[<<"payment.retry_requested", id>>] > 0

\* At a place the next announcement is the head of what is left, and behind it
\* comes the next place.
LEMMA PlaceNext ==
  ASSUME NEW p \in Places
  PROVE  /\ p.story \in DOMAIN Announcements /\ p.at \in DOMAIN Announcements[p.story]
         /\ Announcements[p.story][p.at] = Head(p.rest)
         /\ Len(p.rest) # 1 =>
              \E q \in Places : q.rest = Tail(p.rest) /\ Before(q) = Before(p) \cup {Head(p.rest)}
  <1>0. \A a, b, c : /\ Head(<<a>>) = a /\ Head(<<a, b>>) = a /\ Head(<<a, b, c>>) = a
                     /\ Tail(<<a, b>>) = <<b>> /\ Tail(<<a, b, c>>) = <<b, c>>
                     /\ Len(<<a>>) = 1
                     /\ DOMAIN <<a>> = 1..1 /\ DOMAIN <<a, b>> = 1..2 /\ DOMAIN <<a, b, c>> = 1..3
                     /\ <<a>>[1] = a /\ <<a, b>>[1] = a /\ <<a, b>>[2] = b
                     /\ <<a, b, c>>[1] = a /\ <<a, b, c>>[2] = b /\ <<a, b, c>>[3] = c
    OBVIOUS
  <1>1. /\ p.story \in DOMAIN Announcements /\ p.at \in DOMAIN Announcements[p.story]
        /\ Announcements[p.story][p.at] = Head(p.rest)
    BY <1>0 DEF Places, Announcements
  <1>2. ASSUME Len(p.rest) # 1
        PROVE  \E q \in Places : /\ q.story = p.story /\ q.at = p.at + 1
                                 /\ q.rest = Tail(p.rest)
    <2>1. CASE p.story = "RETRY" /\ p.at = 1
      <3> DEFINE q == [story |-> "RETRY", at |-> 2, rest |-> << "notification.requested", "payment.retry_requested" >>]
      <3>1. q \in Places /\ q.story = "RETRY" /\ q.at = 2
            /\ q.rest = << "notification.requested", "payment.retry_requested" >>
        BY DEF Places
      <3>2. p.rest = << "recovery.started", "notification.requested", "payment.retry_requested" >>
        BY <2>1 DEF Places
      <3>3. Tail(p.rest) = q.rest
        BY <1>0, <3>1, <3>2
      <3> HIDE DEF q
      <3>4. q.story = p.story /\ q.at = p.at + 1
        BY <2>1, <3>1
      <3> QED BY <3>1, <3>3, <3>4
    <2>2. CASE p.story = "RETRY" /\ p.at = 2
      <3> DEFINE q == [story |-> "RETRY", at |-> 3, rest |-> << "payment.retry_requested" >>]
      <3>1. q \in Places /\ q.story = "RETRY" /\ q.at = 3
            /\ q.rest = << "payment.retry_requested" >>
        BY DEF Places
      <3>2. p.rest = << "notification.requested", "payment.retry_requested" >>
        BY <2>2 DEF Places
      <3>3. Tail(p.rest) = q.rest
        BY <1>0, <3>1, <3>2
      <3> HIDE DEF q
      <3>4. q.story = p.story /\ q.at = p.at + 1
        BY <2>2, <3>1
      <3> QED BY <3>1, <3>3, <3>4
    <2>3. CASE p.story = "LINK" /\ p.at = 1
      <3> DEFINE q == [story |-> "LINK", at |-> 2, rest |-> << "notification.requested" >>]
      <3>1. q \in Places /\ q.story = "LINK" /\ q.at = 2
            /\ q.rest = << "notification.requested" >>
        BY DEF Places
      <3>2. p.rest = << "recovery.started", "notification.requested" >>
        BY <2>3 DEF Places
      <3>3. Tail(p.rest) = q.rest
        BY <1>0, <3>1, <3>2
      <3> HIDE DEF q
      <3>4. q.story = p.story /\ q.at = p.at + 1
        BY <2>3, <3>1
      <3> QED BY <3>1, <3>3, <3>4
    <2>4. CASE ~(p.story = "RETRY" /\ p.at \in {1, 2}) /\ ~(p.story = "LINK" /\ p.at = 1)
      BY <1>0, <1>2, <2>4 DEF Places
    <2> QED BY <2>1, <2>2, <2>3, <2>4
  <1>3. ASSUME NEW q \in Places, q.story = p.story, q.at = p.at + 1
        PROVE  Before(q) = Before(p) \cup {Head(p.rest)}
    <2>1. p.at \in Nat \ {0} /\ 1..(q.at - 1) = (1..(p.at - 1)) \cup {p.at}
      <3>1. p.at \in {1, 2, 3}
        BY DEF Places
      <3> QED BY <1>3, <3>1
    <2> QED BY <1>1, <1>3, <2>1 DEF Before
  <1> QED BY <1>1, <1>2, <1>3

LEMMA FirstPlace ==
  ASSUME NEW d \in Decision \ {"NONE"}
  PROVE  \E p \in Places : p.rest = Announcements[d] /\ Before(p) = {}
  <1>1. \E p \in Places : p.rest = Announcements[d] /\ p.at = 1
    BY DEF Decision, Announcements, Places
  <1>2. \A p : p.at = 1 => Before(p) = {}
    BY DEF Before
  <1> QED BY <1>1, <1>2

\* A member that is not publishing tells nothing; who begins has told nothing yet.
LEMMA StoryStep ==
  CommitInv /\ OnceInv /\ TellsStory /\ [Next]_vars => TellsStory'
  <1> SUFFICES ASSUME CommitInv, OnceInv, TellsStory, [Next]_vars PROVE TellsStory'
    OBVIOUS
  <1>1. ASSUME UNCHANGED published,
               \A v \in Consumers : pc'[v] = "emit" =>
                 pc[v] = "emit" /\ todo'[v] = todo[v] /\ msg'[v] = msg[v]
        PROVE  TellsStory'
    BY <1>1 DEF TellsStory, Told, Id, Event
  <1>2. ASSUME NEW w \in Consumers,
               \/ AckRefused(w) \/ RegisterConflict(w) \/ CreateConflict(w) \/ Raise(w)
               \/ Crash(w)
        PROVE  TellsStory'
    <2>1. \E offset : Abort(w, offset)
      BY <1>2 DEF AckRefused, RegisterConflict, CreateConflict, Raise, Crash
    <2> QED BY <1>1, <2>1 DEF Abort, Forget, OnceInv, Members
  <1>3. ASSUME NEW w \in Consumers,
               \/ Poll(w) \/ Skip(w) \/ Ack(w) \/ Lookup(w) \/ Register(w) \/ LoadCase(w)
               \/ CreateCase(w) \/ Plan(w)
        PROVE  TellsStory'
    <2>1. /\ \E to \in PC \ {"emit"} : pc' = [pc EXCEPT ![w] = to]
          /\ todo' = todo \/ todo' = [todo EXCEPT ![w] = <<>>]
          /\ msg' = msg \/ \E m : msg' = [msg EXCEPT ![w] = m]
          /\ UNCHANGED published
      BY <1>3 DEF Poll, Skip, Ack, Lookup, Register, LoadCase, CreateCase, Plan, At, Forget, PC
    <2> QED BY <1>1, <2>1 DEF OnceInv, Members
  <1>4. ASSUME NEW w \in Consumers, CommitDecision(w) PROVE TellsStory'
    <2>1. /\ pc[w] = "commit" /\ pc' = [pc EXCEPT ![w] = "emit"]
          /\ todo' = [todo EXCEPT ![w] = Announcements[decision[w]]]
          /\ UNCHANGED <<msg, published>>
      BY <1>4 DEF CommitDecision, At
    <2>2. Id(w) \in EventIds /\ Id(w) \notin processed /\ decision[w] \in Decision \ {"NONE"}
      BY <2>1, FailureIds
      DEF OnceInv, PlansAlone, Registered, Planning, CommitInv, HasDecided
    <2>3. Told(Id(w)) = {}
      <3>1. ASSUME NEW t \in AnnouncementType PROVE published[<<t, Id(w)>>] = 0
        <4>1. <<t, Id(w)>> \in DOMAIN published
          BY <2>2 DEF OnceInv, Members
        <4> QED BY <2>2, <4>1 DEF OnceInv, PublishedSoFar
      <3> QED BY <3>1 DEF Told
    <2>4. \A v \in Consumers : Id(v)' = Id(v) /\ Told(Id(v))' = Told(Id(v))
      BY <2>1 DEF Id, Event, Told
    <2>5. \E p \in Places : p.rest = Announcements[decision[w]] /\ Before(p) = {}
      BY <2>2, FirstPlace
    <2>6. ASSUME NEW v \in Consumers, pc'[v] = "emit"
          PROVE  \E p \in Places : todo'[v] = p.rest /\ Told(Id(v))' = Before(p)
      <3>1. CASE v = w
        BY <2>1, <2>3, <2>4, <2>5, <3>1 DEF OnceInv, Members
      <3>2. CASE v # w
        <4>1. pc[v] = "emit" /\ todo'[v] = todo[v]
          BY <2>1, <2>6, <3>2 DEF OnceInv, Members
        <4> QED BY <2>4, <4>1 DEF TellsStory
      <3> QED BY <3>1, <3>2
    <2> QED BY <2>6 DEF TellsStory, Before
  <1>5. ASSUME NEW w \in Consumers, Emit(w) PROVE TellsStory'
    <2> DEFINE it == <<Head(todo[w]), Id(w)>>
    <2>1. /\ pc[w] = "emit"
          /\ pc' = [pc EXCEPT ![w] = IF Len(todo[w]) = 1 THEN "ack" ELSE "emit"]
          /\ published' = [published EXCEPT ![it] = @ + 1]
          /\ todo' = [todo EXCEPT ![w] = Tail(@)] /\ UNCHANGED msg
      BY <1>5 DEF Emit, Id
    <2>2. PICK p \in Places : todo[w] = p.rest /\ Told(Id(w)) = Before(p)
      BY <2>1 DEF TellsStory
    <2>3. /\ Id(w) \in EventIds /\ Head(todo[w]) \in AnnouncementType /\ published[it] = 0
      BY <2>1, FailureIds, RestShrinks DEF OnceInv, EmitsNew, PlansAlone, Registered
    <2>4. it \in DOMAIN published /\ \A v \in Consumers : Id(v)' = Id(v)
      BY <2>1, <2>3 DEF OnceInv, Members, Id, Event
    <2>5. Told(Id(w))' = Told(Id(w)) \cup {Head(todo[w])}
      <3>1. \A t \in AnnouncementType :
              published'[<<t, Id(w)>>] = IF t = Head(todo[w]) THEN 1 ELSE published[<<t, Id(w)>>]
        BY <2>1, <2>3, <2>4 DEF OnceInv, Members
      <3>2. Id(w)' = Id(w)
        BY <2>4
      <3> QED BY <2>3, <3>1, <3>2 DEF Told
    <2>6. ASSUME NEW v \in Consumers, pc'[v] = "emit"
          PROVE  \E q \in Places : todo'[v] = q.rest /\ Told(Id(v))' = Before(q)
      <3>1. CASE v = w
        <4>1. Len(p.rest) # 1 /\ todo'[v] = Tail(p.rest)
          BY <2>1, <2>2, <2>6, <3>1 DEF OnceInv, Members
        <4> QED BY <2>2, <2>5, <3>1, <4>1, PlaceNext
      <3>2. CASE v # w
        <4>1. pc[v] = "emit" /\ todo'[v] = todo[v]
          BY <2>1, <2>6, <3>2 DEF OnceInv, Members
        <4>2. Id(v) # Id(w)
          BY <2>1, <3>2, <4>1 DEF OnceInv, EmitsAlone
        <4>3. \A t \in AnnouncementType : published'[<<t, Id(v)>>] = published[<<t, Id(v)>>]
          BY <2>1, <4>2
        <4>4. Told(Id(v))' = Told(Id(v))
          BY <2>4, <4>3 DEF Told
        <4> QED BY <4>1, <4>4 DEF TellsStory
      <3> QED BY <3>1, <3>2
    <2> QED BY <2>6 DEF TellsStory, Before
  <1>6. CASE (\E w \in Consumers : Rebalance(w)) \/ Execute \/ UNCHANGED vars
    BY <1>1, <1>6 DEF Rebalance, Execute, ExecLoad, ExecClaim, ExecEnd, vars, member
  <1> QED BY <1>2, <1>3, <1>4, <1>5, <1>6 DEF Next, Consume, Transact, Wait, Fault

\* Nobody but the executor changes the payment, and a request is not taken back.
LEMMA RequestStep ==
  OnceInv /\ ExecutesRequest /\ [Next]_vars => ExecutesRequest'
  <1> SUFFICES ASSUME OnceInv, ExecutesRequest, [Next]_vars PROVE ExecutesRequest'
    OBVIOUS
  <1>1. CASE Execute
    <2>1. CASE ExecLoad
      <3>1. payment' = payment /\ published' = published
        BY <2>1 DEF ExecLoad, database
      <3>2. /\ payment \notin TerminalPaymentState
            /\ \E id \in EventIds : published[<<"payment.retry_requested", id>>] > 0
        BY <2>1 DEF ExecLoad
      <3> QED BY <3>1, <3>2 DEF ExecutesRequest
    <2>2. CASE ExecClaim
      <3>1. exec = "loaded" /\ payment' = payment /\ published' = published
        BY <2>2 DEF ExecClaim
      <3>2. /\ payment \notin TerminalPaymentState
            /\ \E id \in EventIds : published[<<"payment.retry_requested", id>>] > 0
        BY <3>1 DEF ExecutesRequest
      <3> QED BY <3>1, <3>2 DEF ExecutesRequest
    <2>3. CASE ExecEnd
      BY <2>3 DEF ExecEnd, ExecutesRequest
    <2> QED BY <1>1, <2>1, <2>2, <2>3 DEF Execute
  <1>2. ASSUME NEW w \in Consumers, Emit(w) PROVE ExecutesRequest'
    <2> DEFINE it == <<Head(todo[w]), Id(w)>>
    <2>1. published' = [published EXCEPT ![it] = @ + 1] /\ UNCHANGED <<payment, exec>>
      BY <1>2 DEF Emit, Id, database
    <2>2. published[it] = 0 /\ it \in DOMAIN published
      BY <1>2, FailureIds, RestShrinks
      DEF Emit, Id, OnceInv, Members, EmitsNew, PlansAlone, Registered
    <2>3. \A a \in DOMAIN published : published[a] > 0 => published'[a] > 0
      BY <2>1, <2>2 DEF OnceInv, PublishedSoFar
    <2>4. "payment.retry_requested" \in AnnouncementType
      BY RestShrinks DEF Rest
    <2> QED BY <2>1, <2>3, <2>4 DEF ExecutesRequest, OnceInv, Members
  <1>3. CASE UNCHANGED <<payment, published, exec>>
    BY <1>3 DEF ExecutesRequest
  <1> QED BY <1>1, <1>2, <1>3
          DEF Next, Consume, Transact, Wait, Fault, Poll, Skip, Ack, AckRefused, Lookup, Register,
              RegisterConflict, LoadCase, CreateCase, CreateConflict, Plan, CommitDecision,
              Raise, Crash, Rebalance, Abort, Rollback, vars, database

ContractInv == CommitInv /\ OnceInv /\ ClosedInv /\ TellsStory /\ ExecutesRequest

LEMMA ContractInvariant == Spec => []ContractInv
<1>1. Init => ClosedInv /\ TellsStory /\ ExecutesRequest
  BY EmptyRecords DEF Init, ClosedInv, PlannedStatus, TellsStory, ExecutesRequest
<1>2. CommitInv /\ ClosedInv /\ [Next]_vars => ClosedInv'
  BY ClosedNext
<1>3. CommitInv /\ OnceInv /\ ClosedInv /\ TellsStory /\ ExecutesRequest => ContractInv
  BY DEF ContractInv
<1> QED BY <1>1, <1>2, <1>3, StoryStep, RequestStep, CommitInvariant, OnceInvariant, PTL DEF Spec

LEMMA ContractStep == ContractInv /\ [Next]_vars => [Contract!Step]_(Contract!planning)
  <1> SUFFICES ASSUME ContractInv, [Next]_vars PROVE [Contract!Step]_(Contract!planning)
    OBVIOUS
  <1> USE DEF ContractInv
  <1>1. ASSUME NEW w \in Consumers, CommitDecision(w) PROVE Contract!Step
    <2>1. /\ pc[w] = "commit" /\ case' = StoredCase(w)
          /\ processed' = processed \cup {Id(w)} /\ UNCHANGED <<payment, published>>
      BY <1>1 DEF CommitDecision, At, Id
    <2>2. Id(w) \in EventIds /\ Id(w) \notin processed
      BY <2>1, FailureIds DEF OnceInv, PlansAlone, Registered, Planning
    <2>3. case'.status \in PlannedStatus
      BY <1>1, ClosedCommit DEF ClosedInv
    <2>4. case' # NoCase /\ case'.status # "NONE"
      BY <2>1, StoredIsCase, EmptyRecords
    <2>5. case.status \in TerminalPaymentState => case'.status \in TerminalPaymentState
      BY <1>1, ClosedCommit
    <2>6. Contract!Decide(Id(w))
      BY <2>1, <2>2, <2>3, <2>4, <2>5
      DEF Contract!Decide, PlannedStatus, TerminalPaymentState, Contract!TerminalPaymentState
    <2> QED BY <2>2, <2>6 DEF Contract!Step
  <1>2. ASSUME NEW w \in Consumers, Emit(w) PROVE Contract!Step
    <2> DEFINE it == <<Head(todo[w]), Id(w)>>
    <2>1. /\ pc[w] = "emit" /\ published' = [published EXCEPT ![it] = @ + 1]
          /\ UNCHANGED <<processed, case, payment>>
      BY <1>2 DEF Emit, Id, database
    <2>2. PICK p \in Places : todo[w] = p.rest /\ Told(Id(w)) = Before(p)
      BY <2>1 DEF TellsStory
    <2>3. Id(w) \in EventIds /\ Id(w) \in processed /\ published[it] = 0
      BY <2>1, FailureIds, RestShrinks DEF OnceInv, EmitsNew, PlansAlone, Registered
    <2>4. /\ p.story \in DOMAIN Announcements /\ p.at \in DOMAIN Announcements[p.story]
          /\ it = <<Announcements[p.story][p.at], Id(w)>>
      BY <2>2, PlaceNext
    <2>5. published' = [published EXCEPT ![it] = 1]
      BY <2>1, <2>3
    <2>6. Contract!Told(Id(w)) = { Announcements[p.story][j] : j \in 1..(p.at - 1) }
      BY <2>2 DEF Contract!Told, Told, Before
    <2>7. \E d \in DOMAIN Announcements : \E i \in DOMAIN Announcements[d] :
            /\ Contract!Told(Id(w)) = { Announcements[d][j] : j \in 1..(i - 1) }
            /\ published[<<Announcements[d][i], Id(w)>>] = 0
            /\ published' = [published EXCEPT ![<<Announcements[d][i], Id(w)>>] = 1]
      <3> HIDE DEF it
      <3> QED BY <2>3, <2>4, <2>5, <2>6
    <2>8. Contract!Announce(Id(w))
      BY <2>1, <2>3, <2>7 DEF Contract!Announce
    <2> QED BY <2>3, <2>8 DEF Contract!Step
  <1>3. CASE ExecEnd
    <2>1. /\ exec = "executing" /\ UNCHANGED <<processed, published>>
          /\ \/ payment' = "RECOVERED" /\ case' = [case EXCEPT !.state = "RECOVERY_SUCCEEDED"]
             \/ payment' = payment /\ \E s : case' = [case EXCEPT !.state = s]
      BY <1>3 DEF ExecEnd
    <2>2. case # NoCase /\ case \in CaseRecord
      BY <2>1 DEF CommitInv, ExecutesCase, Shape
    <2>3. case'.status = case.status /\ (case'.state = "RECOVERY_SUCCEEDED" \/ payment' = payment)
      BY <2>1, <2>2 DEF CaseRecord
    <2>4. PICK id \in EventIds : published[<<"payment.retry_requested", id>>] > 0
      BY <2>1 DEF ExecutesRequest
    <2>5. "payment.retry_requested" \in AnnouncementType
      BY RestShrinks DEF Rest
    <2>6. id \in processed
      <3>1. <<"payment.retry_requested", id>> \in DOMAIN published
        BY <2>5 DEF OnceInv, Members
      <3> QED BY <2>4, <3>1 DEF CommitInv, AnnouncementsReportCommits
    <2>7. payment \notin TerminalPaymentState
      BY <2>1 DEF ExecutesRequest
    <2>8. Contract!Execute
      BY <2>1, <2>2, <2>3, <2>4, <2>6, <2>7
      DEF Contract!Execute, TerminalPaymentState, Contract!TerminalPaymentState
    <2> QED BY <2>8 DEF Contract!Step
  <1>4. CASE UNCHANGED <<processed, case, payment, published>>
    BY <1>4 DEF Contract!planning
  <1>5. \/ \E w \in Consumers : CommitDecision(w) \/ Emit(w)
        \/ ExecEnd
        \/ UNCHANGED <<processed, case, payment, published>>
    BY DEF Next, Consume, Transact, Wait, Fault, Execute, ExecLoad, ExecClaim, Poll, Skip, Ack,
           AckRefused, Lookup, Register, RegisterConflict, LoadCase, CreateCase, CreateConflict,
           Plan, Raise, Crash, Rebalance, Abort, Rollback, vars, database
  <1> QED BY <1>1, <1>2, <1>3, <1>4, <1>5

\* The group implements the contract of planning, for any members, partition, faults
\* and rebalances, and however errors are treated: each failure is planned once, and
\* what is published of it is the beginning of the announcements of one decision.
THEOREM GroupKeepsPlanning == Spec => KeepsPlanning
<1>1. Init => Contract!Begin
  BY DEF Init, Contract!Begin
<1> QED BY <1>1, ContractStep, ContractInvariant, PTL DEF Spec, KeepsPlanning, Contract!Promise

===============================================================================
