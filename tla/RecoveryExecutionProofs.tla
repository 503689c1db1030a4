------------------------ MODULE RecoveryExecutionProofs ------------------------
(***************************************************************************)
(* Proofs about RecoveryExecution, for any number of workers, any retry    *)
(* limit, any set of requested attempts and any number of faults.          *)
(***************************************************************************)
EXTENDS RecoveryExecution, TLAPS

-------------------------------------------------------------------------------
(* Typing *)

LEMMA EventTypes ==
  ASSUME NEW type \in EventType, NEW n \in Nat
  PROVE  Ev(type, n) \in Event
  BY DEF Ev, Event

LEMMA TypeInit == Init => TypeOK
  <1> SUFFICES ASSUME Init PROVE TypeOK
    OBVIOUS
  <1>1. rows \in [Attempts -> Row]
    BY DEF Init, Row, KeyedRow
  <1>2. /\ pc \in [Workers -> PC]
        /\ attempt \in [Workers -> Attempts \cup {0}]
        /\ seenPayment \in [Workers -> PaymentState \cup {"ABSENT"}]
        /\ seenCase \in [Workers -> RecoveryState \cup {"ABSENT"}]
    BY DEF Init, PC
  <1>3. /\ reply \in [Workers -> Outcome]
        /\ outbox \in [Workers -> Seq(Event)]
        /\ result \in [Workers -> Result]
    BY DEF Init, Outcome, Result
  <1>4. /\ payment \in PaymentState \cup {"ABSENT"}
        /\ caseState \in RecoveryState \cup {"ABSENT"}
        /\ calls \in [Attempts -> Nat] /\ charges \in Nat
    BY DEF Init, PaymentState, RecoveryState
  <1>5. QED BY <1>1, <1>2, <1>3, <1>4 DEF Init, TypeOK

\* The steps of one worker keep the types.
LEMMA TypeStep ==
  ASSUME TypeOK, NEW w \in Workers
  PROVE  /\ \A n \in Attempts : Acquire(w, n) => TypeOK'
         /\ \A n \in Attempts : Contend(w, n) => TypeOK'
         /\ Advance(w) => TypeOK'
         /\ Wait(w) => TypeOK'
         /\ Fail(w) => TypeOK'
  <1> USE DEF store, gateway, world, locals
  <1>0. EndTransaction(w) => caseRow' \in Workers \cup {Free}
    BY DEF TypeOK, EndTransaction
  <1>1. ASSUME NEW n \in Attempts, Acquire(w, n) PROVE TypeOK'
    BY <1>1 DEF Acquire, TypeOK, Goto, PC, Result
  <1>2. ASSUME NEW n \in Attempts, Contend(w, n) PROVE TypeOK'
    BY <1>2 DEF Contend, TypeOK, Result
  <1>3. ASSUME LoadPayment(w) PROVE TypeOK'
    BY <1>3 DEF LoadPayment, TypeOK, Goto, Return, PC, Result
  <1>4. ASSUME LoadCase(w) PROVE TypeOK'
    BY <1>4 DEF LoadCase, TypeOK, Goto, Return, PC, Result
  <1>5. ASSUME Discard(w) PROVE TypeOK'
    BY <1>5 DEF Discard, TypeOK, Goto, Return, PC, Result
  <1>6. ASSUME Continue(w) PROVE TypeOK'
    BY <1>6 DEF Continue, TypeOK, Goto, PC
  <1>7. ASSUME Judge(w) PROVE TypeOK'
    <2>1. BoundaryVerdicts \subseteq Verdict
      BY ExecutionAssumption DEF BoundaryVerdicts, Verdict
    <2>2. \A v \in Verdict : AfterJudge[v] \in PC
      BY DEF Verdict, AfterJudge, PC
    <2>3. QED
      BY <1>7, <2>1, <2>2 DEF Judge, TypeOK, Goto, Return, PC, Result
  <1>8. ASSUME Reserve(w) PROVE TypeOK'
    BY <1>8 DEF Reserve, TypeOK, Goto, PC
  <1>9. ASSUME FindDuplicate(w) PROVE TypeOK'
    BY <1>9 DEF FindDuplicate, TypeOK, Goto, Return, PC, Result
  <1>10. ASSUME ViolateConstraint(w) PROVE TypeOK'
    BY <1>0, <1>10 DEF ViolateConstraint, TypeOK, Goto, Return, PC, Result
  <1>11. ASSUME CallProvider(w) PROVE TypeOK'
    <2>1. reply' \in [Workers -> Outcome] /\ charges' \in Nat
      BY <1>11 DEF CallProvider, Debits, TypeOK
    <2>2. calls' \in [Attempts -> Nat]
      <3> DEFINE a == attempt[w]
      <3>1. calls \in [Attempts -> Nat] /\ calls' = [calls EXCEPT ![a] = calls[a] + 1]
        BY <1>11 DEF CallProvider, TypeOK
      <3> HIDE DEF a
      <3>2. ASSUME NEW n \in Attempts PROVE calls'[n] \in Nat
        <4>1. calls[n] \in Nat /\ calls[n] + 1 \in Nat
          BY <3>1
        <4>2. calls'[n] = IF n = a THEN calls[n] + 1 ELSE calls[n]
          BY <3>1
        <4>3. QED BY <4>1, <4>2
      <3>3. DOMAIN calls' = Attempts /\ calls' = [n \in Attempts |-> calls'[n]]
        BY <3>1
      <3>4. QED BY <3>2, <3>3
    <2>3. pc' \in [Workers -> PC]
      BY <1>11 DEF CallProvider, TypeOK, Goto, PC
    <2>4. QED BY <1>11, <2>1, <2>2, <2>3 DEF CallProvider, TypeOK
  <1>12. ASSUME Settle(w) PROVE TypeOK'
    <2>0. attempt[w] \in Attempts \cup {0}
      BY DEF TypeOK
    <2>1. attempt[w] \in Nat /\ attempt[w] + 1 \in Nat
      BY <2>0, ExecutionAssumption DEF Attempts
    <2>2. ASSUME NEW row \in Row, NEW target \in RecoveryState,
                 NEW status \in Result, NEW events \in Seq(Event),
                 Commit(w, row, target, status, events),
                 payment' \in PaymentState \cup {"ABSENT"}
          PROVE  TypeOK'
      <3>1. ended' = (target \in TerminalRecoveryState)
        BY <2>2 DEF Commit
      <3>2. ended' \in BOOLEAN
        BY <3>1
      <3>3. /\ rows' \in [Attempts -> Row] /\ attemptCount' \in Nat
            /\ caseState' \in RecoveryState
        BY <2>1, <2>2 DEF Commit, TypeOK
      <3>4. /\ outbox' \in [Workers -> Seq(Event)] /\ result' \in [Workers -> Result]
            /\ pc' \in [Workers -> PC]
        BY <2>2 DEF Commit, TypeOK, Goto, PC
      <3>5. /\ caseRow' \in Workers \cup {Free}
            /\ UNCHANGED <<lock, calls, charges, enabled, published, faults,
                           attempt, seenPayment, seenCase, reply>>
        BY <1>0, <2>2 DEF Commit
      <3> QED BY <2>2, <3>2, <3>3, <3>4, <3>5 DEF TypeOK
    <2>3. /\ Row \cap {"SUCCESS", "FAILED_RECOVERABLE", "FAILED_FINAL"} =
               {"SUCCESS", "FAILED_RECOVERABLE", "FAILED_FINAL"}
          /\ {"RECOVERY_SUCCEEDED", "RECOVERY_FAILED", "STOPPED"} \subseteq RecoveryState
          /\ {"SUCCESS", "RETRY_SCHEDULED", "STOPPED"} \subseteq Result
          /\ "RECOVERED" \in PaymentState
      BY DEF Row, KeyedRow, RecoveryState, Result, PaymentState
    <2>4. \A t, u \in EventType, n, m \in Nat :
            /\ << Ev(t, n), Ev(u, m) >> \in Seq(Event)
            /\ << Ev(t, n) >> \in Seq(Event)
      BY EventTypes
    <2>5. CASE SettleSuccess(w)
      BY <2>1, <2>2, <2>3, <2>4, <2>5 DEF SettleSuccess, EventType
    <2>6. CASE SettleRetry(w)
      BY <2>1, <2>2, <2>3, <2>4, <2>6 DEF SettleRetry, EventType, TypeOK
    <2>7. CASE SettleStop(w)
      BY <2>1, <2>2, <2>3, <2>4, <2>7 DEF SettleStop, EventType, TypeOK
    <2>8. QED BY <1>12, <2>5, <2>6, <2>7 DEF Settle
  <1>13. ASSUME Publish(w) PROVE TypeOK'
    <2>1. outbox[w] \in Seq(Event) /\ outbox[w] # <<>>
      BY <1>13 DEF Publish, TypeOK
    <2>2. Head(outbox[w]) \in Event /\ Tail(outbox[w]) \in Seq(Event)
      BY <2>1
    <2>3. QED BY <1>13, <2>2 DEF Publish, TypeOK, Goto, PC
  <1>14. ASSUME Release(w) PROVE TypeOK'
    BY <1>14 DEF Release, TypeOK, Goto, PC
  <1>15. ASSUME Close(w) PROVE TypeOK'
    BY <1>0, <1>15 DEF Close, TypeOK, Goto, PC, Outcome
  <1>16. ASSUME HaltAtBoundary(w) PROVE TypeOK'
    BY <1>16 DEF HaltAtBoundary, Halt, TypeOK, Goto, Return, PC, Result, RecoveryState
  <1>17. ASSUME Claim(w) PROVE TypeOK'
    BY <1>17 DEF Claim, TypeOK, Goto, PC
  <1>18. ASSUME Crash(w) PROVE TypeOK'
    BY <1>0, <1>18 DEF Crash, TypeOK, Goto, PC, Outcome, Result
  <1>19. ASSUME Raise(w) PROVE TypeOK'
    BY <1>19 DEF Raise, TypeOK, Goto, Return, PC, Result
  <1>20. ASSUME ReleaseFails(w) PROVE TypeOK'
    BY <1>20 DEF ReleaseFails, TypeOK, Goto, PC
  <1>21. QED
    BY <1>1, <1>2, <1>3, <1>4, <1>5, <1>6, <1>7, <1>8, <1>9, <1>10, <1>11, <1>12,
       <1>13, <1>14, <1>15, <1>16, <1>17, <1>18, <1>19, <1>20
    DEF Advance, Wait, Fail

LEMMA TypeNext == TypeOK /\ [Next]_vars => TypeOK'
  <1> SUFFICES ASSUME TypeOK, [Next]_vars PROVE TypeOK'
    OBVIOUS
  <1> USE DEF store, gateway, world, locals
  <1>1. CASE Environment
    <2>1. CASE Replan
      <3>1. PICK s \in Replans : caseState' = s /\ ended' = (ended /\ s \in TerminalRecoveryState)
        BY <2>1 DEF Replan
      <3>2. caseState' \in RecoveryState
        BY <3>1, ExecutionAssumption DEF RecoveryState
      <3>3. ended' \in BOOLEAN
        BY <3>1
      <3> QED BY <2>1, <3>2, <3>3 DEF Replan, TypeOK
    <2>2. CASE Expire \/ CustomerPays \/ MerchantOptsOut
      BY <2>2 DEF Expire, CustomerPays, MerchantOptsOut, TypeOK, PaymentState
    <2> QED BY <1>1, <2>1, <2>2 DEF Environment
  <1>2. CASE UNCHANGED vars
    BY <1>2 DEF vars, TypeOK
  <1>3. QED BY <1>1, <1>2, TypeStep DEF Next

\* Every reachable state of the executor has the types of its data model.
THEOREM TypeCorrect == Spec => []TypeOK
  BY TypeInit, TypeNext, PTL DEF Spec

-------------------------------------------------------------------------------
(* Mutual exclusion, when no TTL elapses under a running call *)

\* Every execution between Acquire and Release holds the lock.
OwnerInside == \A w \in Workers : Critical(w) => lock = w

LEMMA OwnerInit == Init => OwnerInside
  BY DEF Init, OwnerInside, Critical

\* A step that moves one worker from the inside leaves the others in place.
LEMMA OwnerStep ==
  ASSUME TypeOK, OwnerInside, EarlyExpiry = FALSE, NEW w \in Workers
  PROVE  /\ \A n \in Attempts : Acquire(w, n) => OwnerInside'
         /\ \A n \in Attempts : Contend(w, n) => OwnerInside'
         /\ Advance(w) => OwnerInside'
         /\ Wait(w) => OwnerInside'
         /\ Fail(w) => OwnerInside'
  <1> USE DEF store, gateway, world, locals, OwnerInside, Critical
  <1>0. pc \in [Workers -> PC] /\ Free \notin Workers
    BY ExecutionAssumption DEF TypeOK
  <1>1. ASSUME NEW n \in Attempts, Acquire(w, n) PROVE OwnerInside'
    <2>1. \A v \in Workers : pc[v] \in {"idle", "close"}
      BY <1>0, <1>1 DEF Acquire
    <2>2. QED BY <1>0, <1>1, <2>1 DEF Acquire, Goto
  <1>2. ASSUME NEW n \in Attempts, Contend(w, n) PROVE OwnerInside'
    BY <1>2 DEF Contend
  <1>3. \A from, to \in PC :
          from \notin {"idle", "close"} /\ Goto(w, from, to) /\ lock' = lock => OwnerInside'
    BY <1>0 DEF Goto
  <1>4. ASSUME LoadPayment(w) \/ LoadCase(w) \/ Discard(w) \/ Continue(w) PROVE OwnerInside'
    BY <1>3, <1>4 DEF LoadPayment, LoadCase, Discard, Continue, Return, PC
  <1>5. ASSUME Judge(w) PROVE OwnerInside'
    <2>1. \A v \in Verdict : AfterJudge[v] \in PC
      BY DEF Verdict, AfterJudge, PC
    <2>2. BoundaryVerdicts \subseteq Verdict
      BY ExecutionAssumption DEF BoundaryVerdicts, Verdict
    <2>3. QED BY <1>3, <1>5, <2>1, <2>2 DEF Judge, Return, PC
  <1>6. ASSUME Reserve(w) \/ FindDuplicate(w) \/ ViolateConstraint(w) PROVE OwnerInside'
    BY <1>3, <1>6 DEF Reserve, FindDuplicate, ViolateConstraint, Return, PC
  <1>7. ASSUME CallProvider(w) PROVE OwnerInside'
    BY <1>3, <1>7 DEF CallProvider, PC
  <1>8. ASSUME Settle(w) PROVE OwnerInside'
    BY <1>3, <1>8 DEF Settle, SettleSuccess, SettleRetry, SettleStop, Commit, PC
  <1>9. ASSUME Publish(w) PROVE OwnerInside'
    BY <1>3, <1>9 DEF Publish, PC
  <1>10. ASSUME Release(w) PROVE OwnerInside'
    BY <1>0, <1>10 DEF Release, Goto
  <1>11. ASSUME Close(w) PROVE OwnerInside'
    BY <1>0, <1>11 DEF Close, Goto
  <1>12. ASSUME Wait(w) PROVE OwnerInside'
    BY <1>3, <1>12 DEF Wait, HaltAtBoundary, Halt, Claim, Return, PC
  <1>13. ASSUME Crash(w) PROVE OwnerInside'
    BY <1>0, <1>13 DEF Crash, Goto
  <1>14. ASSUME Raise(w) \/ ReleaseFails(w) PROVE OwnerInside'
    <2>1. CASE Raise(w)
      <3>1. pc[w] \notin {"idle", "close"} /\ pc[w] \in PC
        BY <1>0, <2>1 DEF Raise
      <3>2. QED BY <1>3, <2>1, <3>1 DEF Raise, Return, PC
    <2>2. CASE ReleaseFails(w)
      BY <1>0, <2>2 DEF ReleaseFails, Goto
    <2>3. QED BY <1>14, <2>1, <2>2
  <1>15. QED
    BY <1>1, <1>2, <1>4, <1>5, <1>6, <1>7, <1>8, <1>9, <1>10, <1>11, <1>12, <1>13, <1>14
    DEF Advance, Fail

LEMMA OwnerNext ==
  ASSUME EarlyExpiry = FALSE
  PROVE  TypeOK /\ OwnerInside /\ [Next]_vars => OwnerInside'
  <1> SUFFICES ASSUME TypeOK, OwnerInside, [Next]_vars PROVE OwnerInside'
    OBVIOUS
  <1>1. CASE Expire
    BY <1>1 DEF Expire, TypeOK, OwnerInside, Critical
  <1>2. CASE CustomerPays \/ Replan \/ MerchantOptsOut
    BY <1>2 DEF CustomerPays, Replan, MerchantOptsOut, OwnerInside, Critical
  <1>3. CASE UNCHANGED vars
    BY <1>3 DEF vars, OwnerInside, Critical
  <1>4. QED BY <1>1, <1>2, <1>3, OwnerStep DEF Next, Environment

\* While no TTL elapses under a running call, at most one execution of the
\* payment is between acquiring and releasing its lock.
THEOREM Exclusion ==
  ASSUME EarlyExpiry = FALSE
  PROVE  Spec => []MutualExclusion
  <1>1. OwnerInside => MutualExclusion
    BY DEF OwnerInside, MutualExclusion
  <1>2. Spec => []OwnerInside
    BY OwnerInit, OwnerNext, TypeCorrect, PTL DEF Spec
  <1>3. QED BY <1>1, <1>2, PTL

-------------------------------------------------------------------------------
(* No double debit *)

\* The provider has debited the customer for w, which has not committed it yet.
Owes(w) == pc[w] = "settle" /\ reply[w] = "SUCCESS"

\* Every debit is committed or owed ...
DebitKnown == charges = 0 \/ payment = "RECOVERED" \/ \E w \in Workers : Owes(w)

\* ... and an execution is past the boundary checks, or will pass them, only if
\* the payment is not recovered.
Fresh(w) ==
  CASE pc[w] \in { "judge", "stop", "escalate", "claim", "reserve", "call", "settle" } ->
         payment # "RECOVERED"
    [] pc[w] \in { "loadCase", "check" } ->
         payment = "RECOVERED" => seenPayment[w] = "RECOVERED"
    [] OTHER -> TRUE

\* What the books of the provider and the rows need to agree: an answer is not
\* lost, neither on its way nor with the worker that has it.
AnswersKept == LostAnswers = FALSE /\ "settle" \notin FaultPoints

DebitInv == /\ AnswersKept => NoDoubleDebit /\ DebitKnown
            /\ \A w \in Workers : Fresh(w)

LEMMA DebitInit == Init => DebitInv
  BY DEF Init, DebitInv, NoDoubleDebit, DebitKnown, Fresh, Owes

\* When no answer is lost, the debit is what the answer says.
LEMMA CallAnswered ==
  ASSUME LostAnswers = FALSE, TypeOK, NEW w \in Workers, CallProvider(w)
  PROVE  \E o \in Outcome : /\ reply' = [reply EXCEPT ![w] = o]
                            /\ charges' = IF o = "SUCCESS" THEN charges + 1 ELSE charges
  <1>1. charges \in Nat
    BY DEF TypeOK
  <1>2. PICK o \in Outcome : /\ reply' = [reply EXCEPT ![w] = o]
                             /\ \E d \in Debits(o) : charges' = charges + d
    BY DEF CallProvider
  <1>3. charges' = IF o = "SUCCESS" THEN charges + 1 ELSE charges
    BY <1>1, <1>2 DEF Debits
  <1> QED BY <1>2, <1>3

LEMMA DebitStep ==
  ASSUME TypeOK, OwnerInside, DebitInv, NEW w \in Workers
  PROVE  /\ \A n \in Attempts : Acquire(w, n) => DebitInv'
         /\ \A n \in Attempts : Contend(w, n) => DebitInv'
         /\ Advance(w) => DebitInv'
         /\ Wait(w) => DebitInv'
         /\ Fail(w) => DebitInv'
  <1> USE DEF store, gateway, world, locals
  <1>0. pc \in [Workers -> PC] /\ reply \in [Workers -> Outcome] /\ charges \in Nat
    BY DEF TypeOK
  \* A step that moves no money and does not end the debt of w.
  <1>1. ASSUME NEW from \in PC \ {"settle"}, NEW to \in PC \ {"settle"},
               Goto(w, from, to), payment' = payment, charges' = charges,
               seenPayment' = seenPayment, Fresh(w)',
               \A v \in Workers \ {w} : reply'[v] = reply[v]
        PROVE  DebitInv'
    <2>1. \A v \in Workers \ {w} : pc'[v] = pc[v]
      BY <1>0, <1>1 DEF Goto
    <2>2. \A v \in Workers \ {w} : Fresh(v)'
      BY <1>1, <2>1 DEF DebitInv, Fresh
    <2>3. \A v \in Workers : Owes(v) => v # w /\ Owes(v)'
      BY <1>1, <2>1 DEF Owes, Goto
    <2>4. QED BY <1>1, <2>2, <2>3 DEF DebitInv, NoDoubleDebit, DebitKnown
  <1>2. ASSUME NEW n \in Attempts, Acquire(w, n) PROVE DebitInv'
    BY <1>0, <1>1, <1>2 DEF Acquire, Goto, Fresh, PC
  <1>3. ASSUME NEW n \in Attempts, Contend(w, n) PROVE DebitInv'
    BY <1>3 DEF Contend, DebitInv, NoDoubleDebit, DebitKnown, Fresh, Owes
  \* The reads: what they saw is still true of a recovered payment.
  <1>4. ASSUME LoadPayment(w) PROVE DebitInv'
    <2>1. pc[w] = "loadPayment" /\ pc' = [pc EXCEPT ![w] = pc'[w]]
          /\ pc'[w] \in {"loadCase", "release"}
      BY <1>0, <1>4 DEF LoadPayment, Goto, Return
    <2>2. \A v \in Workers \ {w} : pc[v] \in {"idle", "close"} /\ pc'[v] = pc[v]
      BY <1>0, <2>1 DEF OwnerInside, Critical
    <2>3. \A v \in Workers : Fresh(v)'
      BY <1>0, <1>4, <2>1, <2>2 DEF LoadPayment, Fresh, TypeOK
    <2>4. \A v \in Workers : ~Owes(v)
      BY <2>1, <2>2 DEF Owes
    <2>5. QED BY <1>4, <2>3, <2>4 DEF LoadPayment, DebitInv, NoDoubleDebit, DebitKnown
  <1>5. ASSUME LoadCase(w) PROVE DebitInv'
    <2>1. Fresh(w)
      BY DEF DebitInv
    <2>2. QED BY <1>0, <1>1, <1>5, <2>1 DEF LoadCase, Goto, Return, Fresh, PC
  <1>6. ASSUME Discard(w) PROVE DebitInv'
    BY <1>0, <1>1, <1>6 DEF Discard, Goto, Return, Fresh, PC
  \* Only an execution that saw the payment unrecovered passes the checks.
  <1>7. ASSUME Continue(w) PROVE DebitInv'
    <2>1. Fresh(w)
      BY DEF DebitInv
    <2>2. QED BY <1>0, <1>1, <1>7, <2>1 DEF Continue, Goto, Fresh, PC
  <1>8. ASSUME Judge(w) PROVE DebitInv'
    <2>1. Fresh(w)
      BY DEF DebitInv
    <2>2. BoundaryVerdicts \subseteq Verdict
      BY ExecutionAssumption DEF BoundaryVerdicts, Verdict
    <2>3. \A v \in Verdict : AfterJudge[v] \in {"claim", "stop", "escalate"}
      BY DEF Verdict, AfterJudge
    <2>4. PICK to \in {"claim", "stop", "escalate", "release"} : Goto(w, "judge", to)
      BY <1>8, <2>2, <2>3 DEF Judge, Return
    <2>5. Fresh(w)'
      BY <1>0, <1>8, <2>1, <2>4 DEF Judge, Goto, Fresh
    <2>6. QED BY <1>1, <1>8, <2>4, <2>5 DEF Judge, PC
  <1>9. ASSUME Reserve(w) PROVE DebitInv'
    <2>1. Fresh(w)
      BY DEF DebitInv
    <2>2. QED BY <1>0, <1>1, <1>9, <2>1 DEF Reserve, Goto, Fresh, PC
  <1>10. ASSUME FindDuplicate(w) \/ ViolateConstraint(w) PROVE DebitInv'
    BY <1>0, <1>1, <1>10 DEF FindDuplicate, ViolateConstraint, Goto, Return, Fresh, PC
  \* The call: before it nothing was debited, since the payment is not recovered
  \* and nobody else can owe a debit inside the lock.
  <1>11. ASSUME CallProvider(w) PROVE DebitInv'
    <2>1. pc[w] = "call" /\ pc' = [pc EXCEPT ![w] = "settle"] /\ payment' = payment
      BY <1>11 DEF CallProvider, Goto
    <2>2. \A v \in Workers \ {w} : pc[v] \in {"idle", "close"} /\ pc'[v] = pc[v]
      BY <1>0, <2>1 DEF OwnerInside, Critical
    <2>3. payment # "RECOVERED"
      BY <2>1 DEF DebitInv, Fresh
    <2>4. \A v \in Workers : Fresh(v)'
      BY <1>0, <2>1, <2>2, <2>3 DEF Fresh
    <2>5. ASSUME AnswersKept PROVE NoDoubleDebit' /\ DebitKnown'
      <3>1. charges = 0
        BY <2>1, <2>2, <2>3, <2>5 DEF DebitInv, DebitKnown, Owes
      <3>2. PICK o \in Outcome : /\ reply' = [reply EXCEPT ![w] = o]
                                 /\ charges' = IF o = "SUCCESS" THEN charges + 1 ELSE charges
        BY <1>11, <2>5, CallAnswered DEF AnswersKept
      <3>3. charges' = 0 \/ Owes(w)'
        BY <1>0, <2>1, <3>1, <3>2 DEF Owes
      <3>4. charges' <= 1
        BY <3>1, <3>2
      <3> QED BY <3>3, <3>4 DEF NoDoubleDebit, DebitKnown
    <2> QED BY <2>4, <2>5 DEF DebitInv
  <1>12. ASSUME Settle(w) PROVE DebitInv'
    <2>1. pc[w] = "settle" /\ pc' = [pc EXCEPT ![w] = "publish"] /\ charges' = charges
      BY <1>12 DEF Settle, SettleSuccess, SettleRetry, SettleStop, Commit, Goto
    <2>2. \A v \in Workers \ {w} : pc[v] \in {"idle", "close"} /\ pc'[v] = pc[v]
      BY <1>0, <2>1 DEF OwnerInside, Critical
    <2>3. \A v \in Workers : Fresh(v)'
      BY <1>0, <2>1, <2>2 DEF Fresh
    <2>4. CASE reply[w] = "SUCCESS"
      BY <1>12, <2>1, <2>3, <2>4
      DEF Settle, SettleSuccess, SettleRetry, SettleStop, DebitInv, NoDoubleDebit, DebitKnown
    <2>5. CASE reply[w] # "SUCCESS"
      <3>1. payment' = payment
        BY <1>12, <2>5 DEF Settle, SettleSuccess, SettleRetry, SettleStop
      <3>2. \A v \in Workers : ~Owes(v)
        BY <2>2, <2>5 DEF Owes
      <3>3. QED BY <2>1, <2>3, <3>1, <3>2 DEF DebitInv, NoDoubleDebit, DebitKnown
    <2>6. QED BY <2>4, <2>5
  <1>13. ASSUME Publish(w) PROVE DebitInv'
    BY <1>0, <1>1, <1>13 DEF Publish, Goto, Fresh, PC
  <1>14. ASSUME Release(w) \/ ReleaseFails(w) PROVE DebitInv'
    BY <1>0, <1>1, <1>14 DEF Release, ReleaseFails, Goto, Fresh, PC
  <1>15. ASSUME Close(w) PROVE DebitInv'
    <2>1. pc[w] = "close" /\ pc' = [pc EXCEPT ![w] = "idle"]
      BY <1>15 DEF Close, Goto
    <2>2. \A v \in Workers : Fresh(v)'
      BY <1>0, <1>15, <2>1 DEF Close, Fresh, DebitInv
    <2>3. \A v \in Workers : Owes(v) => Owes(v)'
      BY <1>0, <1>15, <2>1 DEF Close, Owes
    <2>4. QED BY <1>15, <2>2, <2>3 DEF Close, DebitInv, NoDoubleDebit, DebitKnown
  <1>16. ASSUME HaltAtBoundary(w) PROVE DebitInv'
    BY <1>0, <1>1, <1>16 DEF HaltAtBoundary, Halt, Goto, Return, Fresh, PC
  <1>17. ASSUME Claim(w) PROVE DebitInv'
    <2>1. Fresh(w)
      BY DEF DebitInv
    <2>2. QED BY <1>0, <1>1, <1>17, <2>1 DEF Claim, Goto, Fresh, PC
  \* A fault hits no execution that owes a debit, if answers are kept.
  <1>18. ASSUME Crash(w) \/ Raise(w) PROVE DebitInv'
    <2>1. /\ \E to \in { "idle", "release" } : pc' = [pc EXCEPT ![w] = to]
          /\ UNCHANGED <<payment, charges>>
          /\ \A v \in Workers \ {w} : UNCHANGED <<seenPayment[v], reply[v]>>
          /\ AnswersKept => pc[w] # "settle"
      BY <1>0, <1>18 DEF Crash, Raise, Return, Goto, AnswersKept, TypeOK
    <2>2. \A v \in Workers : Fresh(v)'
      BY <1>0, <2>1 DEF Fresh, DebitInv
    <2>3. AnswersKept => \A v \in Workers : Owes(v) => Owes(v)'
      BY <1>0, <2>1 DEF Owes
    <2>4. QED BY <2>1, <2>2, <2>3 DEF DebitInv, NoDoubleDebit, DebitKnown
  <1>20. QED
    BY <1>2, <1>3, <1>4, <1>5, <1>6, <1>7, <1>8, <1>9, <1>10, <1>11, <1>12, <1>13,
       <1>14, <1>15, <1>16, <1>17, <1>18
    DEF Advance, Wait, Fail

LEMMA DebitNext == TypeOK /\ OwnerInside /\ DebitInv /\ [Next]_vars => DebitInv'
  <1> SUFFICES ASSUME TypeOK, OwnerInside, DebitInv, [Next]_vars PROVE DebitInv'
    OBVIOUS
  <1> USE DEF store, gateway, world, locals
  <1>1. CASE Expire \/ Replan \/ MerchantOptsOut \/ UNCHANGED vars
    BY <1>1
    DEF Expire, Replan, MerchantOptsOut, vars, DebitInv, NoDoubleDebit, DebitKnown, Fresh, Owes
  <1>2. CASE CustomerPays
    BY <1>2 DEF CustomerPays, DebitInv, NoDoubleDebit, DebitKnown, Fresh, Owes
  <1>3. QED BY <1>1, <1>2, DebitStep DEF Next, Environment

\* The provider debits the customer at most once, whatever requests are
\* delivered, repeated or overlapping, when no TTL elapses under a running call,
\* no worker dies between the provider's answer and its commit, and no debit is
\* answered by a timeout or an exception.
THEOREM SingleDebit ==
  ASSUME EarlyExpiry = FALSE, LostAnswers = FALSE, "settle" \notin FaultPoints
  PROVE  Spec => []NoDoubleDebit
  <1>1. Spec => []OwnerInside
    BY OwnerInit, OwnerNext, TypeCorrect, PTL DEF Spec
  <1>2. Spec => []DebitInv
    BY <1>1, DebitInit, DebitNext, TypeCorrect, PTL DEF Spec
  <1>3. DebitInv => NoDoubleDebit
    BY DEF DebitInv, AnswersKept
  <1>4. QED BY <1>2, <1>3, PTL

-------------------------------------------------------------------------------
(* The database alone: what the row lock and the rows of the attempts give,   *)
(* whether or not the key in Redis outlives the call it protects.             *)

\* An event announces the outcome that the table of attempts has.
Reports(e, table) ==
  \/ /\ e.type \in { "payment.succeeded", "recovery.completed" }
     /\ e.attempt \in Attempts /\ table[e.attempt] = "SUCCESS"
  \/ /\ e.type \in { "recovery.failed", "recovery.stopped" }
     /\ e.attempt \in Attempts /\ table[e.attempt] = "FAILED_FINAL"
  \/ /\ e.type = "payment.retry_requested"
     /\ e.attempt - 1 \in Attempts /\ e.attempt <= MaxRetries
     /\ table[e.attempt - 1] = "FAILED_RECOVERABLE"

\* Who is in its transaction holds the row of the case, and nobody else has touched
\* the attempt it has reserved.
RowHeld(w) ==
  /\ Critical(w) => attempt[w] \in Attempts
  /\ InTransaction(w) => caseRow = w
  /\ pc[w] \in { "call", "settle" } => rows[attempt[w]] = "NONE"

RowInv ==
  /\ \A w \in Workers : RowHeld(w)
  /\ \A w \in Workers : \A i \in DOMAIN outbox[w] : Reports(outbox[w][i], rows)
  /\ \A e \in published : Reports(e, rows)

LEMMA RowInit == Init => RowInv
  BY DEF Init, RowInv, RowHeld, Critical, InTransaction

\* A step that writes no row, publishes nothing and takes the row of nobody else.
LEMMA RowQuiet ==
  ASSUME TypeOK, RowInv, NEW w \in Workers, NEW to, pc' = [pc EXCEPT ![w] = to],
         UNCHANGED <<rows, published>>,
         \A v \in Workers \ {w} : attempt'[v] = attempt[v] /\ outbox'[v] = outbox[v],
         \A v \in Workers \ {w} : caseRow = v => caseRow' = v,
         outbox'[w] \in { outbox[w], <<>> },
         RowHeld(w)'
  PROVE  RowInv'
  <1>1. \A v \in Workers \ {w} : pc'[v] = pc[v]
    BY DEF TypeOK
  <1>2. \A v \in Workers : RowHeld(v)'
    BY <1>1 DEF RowInv, RowHeld, Critical, InTransaction
  <1>3. \A e : Reports(e, rows) => Reports(e, rows')
    BY DEF Reports
  <1>4. \A v \in Workers : \A i \in DOMAIN outbox'[v] : Reports(outbox'[v][i], rows')
    BY <1>3 DEF RowInv
  <1> QED BY <1>2, <1>3, <1>4 DEF RowInv

\* The commit settles an attempt that no row has, and its events report just that.
LEMMA RowSettle ==
  ASSUME TypeOK, RowInv, NEW w \in Workers, Settle(w)
  PROVE  /\ RowInv'
         /\ \A n \in Attempts : rows[n] # "NONE" => rows'[n] = rows[n]
  <1> DEFINE n == attempt[w]
  <1>1. /\ pc[w] = "settle" /\ pc' = [pc EXCEPT ![w] = "publish"]
        /\ UNCHANGED <<attempt, published>>
        /\ caseRow' = IF caseRow = w THEN Free ELSE caseRow
    BY DEF Settle, SettleSuccess, SettleRetry, SettleStop, Commit, Goto, EndTransaction, locals
  <1>2. n \in Attempts /\ caseRow = w /\ rows[n] = "NONE"
    BY <1>1 DEF RowInv, RowHeld, Critical, InTransaction
  <1>3. PICK row \in KeyedRow, events \in Seq(Event) :
          /\ rows' = [rows EXCEPT ![n] = row] /\ outbox' = [outbox EXCEPT ![w] = events]
          /\ \A i \in DOMAIN events : Reports(events[i], rows')
    <2>1. n \in Nat /\ n + 1 \in Nat /\ MaxRetries \in Nat /\ Attempts \subseteq Nat
      BY <1>2, ExecutionAssumption DEF Attempts
    <2>2. rows \in [Attempts -> Row]
      BY DEF TypeOK
    <2>3. CASE SettleSuccess(w)
      <3> DEFINE events == << Ev("payment.succeeded", n), Ev("recovery.completed", n) >>
      <3>1. rows' = [rows EXCEPT ![n] = "SUCCESS"] /\ outbox' = [outbox EXCEPT ![w] = events]
        BY <2>3 DEF SettleSuccess, Commit
      <3>2. rows'[n] = "SUCCESS"
        BY <1>2, <2>2, <3>1
      <3>3. \A i \in DOMAIN events : Reports(events[i], rows')
        BY <1>2, <3>2 DEF Reports, Ev
      <3>4. events \in Seq(Event)
        BY <2>1, EventTypes DEF EventType
      <3> QED BY <3>1, <3>3, <3>4 DEF KeyedRow
    <2>4. CASE SettleRetry(w)
      <3> DEFINE events == << Ev("payment.retry_requested", n + 1) >>
      <3>1. /\ rows' = [rows EXCEPT ![n] = "FAILED_RECOVERABLE"]
            /\ outbox' = [outbox EXCEPT ![w] = events] /\ RetryAllowed(w)
        BY <2>4 DEF SettleRetry, Commit
      <3>2. rows'[n] = "FAILED_RECOVERABLE"
        BY <1>2, <2>2, <3>1
      <3>3. n < MaxRetries
        BY <2>1, <3>1, ExecutionAssumption DEF RetryAllowed, ShouldRetry, StopReason
      <3>4. \A i \in DOMAIN events : Reports(events[i], rows')
        BY <1>2, <2>1, <3>2, <3>3 DEF Reports, Ev
      <3>5. events \in Seq(Event)
        BY <2>1, EventTypes DEF EventType
      <3> QED BY <3>1, <3>4, <3>5 DEF KeyedRow
    <2>5. CASE SettleStop(w)
      <3> DEFINE events == << Ev("recovery.failed", n), Ev("recovery.stopped", n) >>
      <3>1. rows' = [rows EXCEPT ![n] = "FAILED_FINAL"] /\ outbox' = [outbox EXCEPT ![w] = events]
        BY <2>5 DEF SettleStop, Commit
      <3>2. rows'[n] = "FAILED_FINAL"
        BY <1>2, <2>2, <3>1
      <3>3. \A i \in DOMAIN events : Reports(events[i], rows')
        BY <1>2, <3>2 DEF Reports, Ev
      <3>4. events \in Seq(Event)
        BY <2>1, EventTypes DEF EventType
      <3> QED BY <3>1, <3>3, <3>4 DEF KeyedRow
    <2> QED BY <2>3, <2>4, <2>5 DEF Settle
  <1>4. \A m \in Attempts : rows[m] # "NONE" => rows'[m] = rows[m]
    BY <1>2, <1>3 DEF TypeOK
  <1>5. \A e : Reports(e, rows) => Reports(e, rows')
    BY <1>4 DEF Reports
  <1>6. \A v \in Workers \ {w} : pc'[v] = pc[v] /\ ~InTransaction(v)
    BY <1>1, <1>2 DEF TypeOK, RowInv, RowHeld
  <1>7. \A v \in Workers : RowHeld(v)'
    BY <1>1, <1>2, <1>6 DEF TypeOK, RowInv, RowHeld, Critical, InTransaction
  <1>8. \A v \in Workers : \A i \in DOMAIN outbox'[v] : Reports(outbox'[v][i], rows')
    <2> SUFFICES ASSUME NEW v \in Workers
                 PROVE  \A i \in DOMAIN outbox'[v] : Reports(outbox'[v][i], rows')
      OBVIOUS
    <2>1. CASE v = w
      BY <1>3, <2>1 DEF TypeOK
    <2>2. CASE v # w
      BY <1>3, <1>5, <2>2 DEF TypeOK, RowInv
    <2> QED BY <2>1, <2>2
  <1>9. \A e \in published' : Reports(e, rows')
    BY <1>1, <1>5 DEF RowInv
  <1> QED BY <1>4, <1>7, <1>8, <1>9 DEF RowInv

LEMMA RowPublish ==
  ASSUME TypeOK, RowInv, NEW w \in Workers, Publish(w)
  PROVE  RowInv'
  <1>1. /\ pc[w] = "publish" /\ \E to \in { "publish", "release" } : pc' = [pc EXCEPT ![w] = to]
        /\ outbox[w] # <<>> /\ outbox' = [outbox EXCEPT ![w] = Tail(@)]
        /\ published' = published \cup { Head(outbox[w]) }
        /\ UNCHANGED <<rows, attempt, caseRow>>
    BY DEF Publish, Goto, store
  <1>2. outbox[w] \in Seq(Event)
    BY DEF TypeOK
  <1>3. Reports(Head(outbox[w]), rows)
    <2>1. 1 \in DOMAIN outbox[w] /\ Head(outbox[w]) = outbox[w][1]
      BY <1>1, <1>2
    <2> QED BY <2>1 DEF RowInv
  <1>4. \A i \in DOMAIN Tail(outbox[w]) : Reports(Tail(outbox[w])[i], rows)
    <2>1. \A i \in DOMAIN Tail(outbox[w]) :
             i + 1 \in DOMAIN outbox[w] /\ Tail(outbox[w])[i] = outbox[w][i + 1]
      BY <1>1, <1>2
    <2> QED BY <2>1 DEF RowInv
  <1>5. \A e : Reports(e, rows) => Reports(e, rows')
    BY <1>1 DEF Reports
  <1>6. \A v \in Workers : RowHeld(v)'
    BY <1>1 DEF TypeOK, RowInv, RowHeld, Critical, InTransaction
  <1>7. \A v \in Workers : \A i \in DOMAIN outbox'[v] : Reports(outbox'[v][i], rows')
    <2>1. outbox'[w] = Tail(outbox[w]) /\ \A v \in Workers \ {w} : outbox'[v] = outbox[v]
      BY <1>1 DEF TypeOK
    <2> QED BY <1>4, <1>5, <2>1 DEF RowInv
  <1>8. \A e \in published' : Reports(e, rows')
    BY <1>1, <1>3, <1>5 DEF RowInv
  <1> QED BY <1>6, <1>7, <1>8 DEF RowInv

\* All the other steps of an execution are quiet.
LEMMA RowStep ==
  ASSUME TypeOK, RowInv, NEW w \in Workers
  PROVE  /\ \A n \in Attempts : Acquire(w, n) => RowInv'
         /\ \A n \in Attempts : Contend(w, n) => RowInv'
         /\ Advance(w) => RowInv'
         /\ Wait(w) => RowInv'
         /\ Fail(w) => RowInv'
  <1> USE DEF store, gateway, world, locals
  <1>0. /\ pc \in [Workers -> PC] /\ attempt \in [Workers -> Attempts \cup {0}]
        /\ outbox \in [Workers -> Seq(Event)]
        /\ caseRow \in Workers \cup {Free} /\ Free \notin Workers
        /\ RowHeld(w)
    BY ExecutionAssumption DEF TypeOK, RowInv
  <1>1. ASSUME NEW n \in Attempts, Acquire(w, n) PROVE RowInv'
    <2>1. RowHeld(w)'
      BY <1>0, <1>1 DEF Acquire, Goto, RowHeld, Critical, InTransaction
    <2> QED BY <1>0, <1>1, <2>1, RowQuiet DEF Acquire, Goto
  <1>2. ASSUME NEW n \in Attempts, Contend(w, n) PROVE RowInv'
    <2>1. UNCHANGED <<pc, attempt, caseRow, rows, outbox, published>>
      BY <1>2 DEF Contend
    <2> QED BY <2>1 DEF RowInv, RowHeld, Reports, Critical, InTransaction
  \* Inside, before the transaction and in it.
  <1>3. ASSUME LoadPayment(w) \/ LoadCase(w) \/ Discard(w) \/ Continue(w) \/ Judge(w)
               \/ HaltAtBoundary(w) \/ Claim(w) \/ Reserve(w) \/ FindDuplicate(w)
               \/ CallProvider(w)
        PROVE  RowInv'
    <2>1. UNCHANGED <<attempt, outbox, rows, published>>
      BY <1>3 DEF LoadPayment, LoadCase, Discard, Continue, Judge, HaltAtBoundary, Halt, Claim,
                  Reserve, FindDuplicate, CallProvider
    <2>2. /\ Critical(w) /\ \E to : pc' = [pc EXCEPT ![w] = to]
          /\ caseRow' = caseRow \/ (caseRow = Free /\ caseRow' = w)
      BY <1>3 DEF LoadPayment, LoadCase, Discard, Continue, Judge, HaltAtBoundary, Halt, Claim,
                  Reserve, FindDuplicate, CallProvider, Goto, Return, Critical
    <2>3. ASSUME Judge(w) PROVE RowHeld(w)'
      <3>1. BoundaryVerdicts \subseteq Verdict
        BY ExecutionAssumption DEF BoundaryVerdicts, Verdict
      <3>2. \A v \in Verdict : AfterJudge[v] \in { "claim", "stop", "escalate" }
        BY DEF Verdict, AfterJudge
      <3>3. pc'[w] \in { "claim", "stop", "escalate", "release" }
        BY <1>0, <2>3, <3>1, <3>2 DEF Judge, Goto, Return
      <3> QED BY <1>0, <2>1, <2>2, <3>3 DEF RowHeld, Critical, InTransaction
    <2>4. ASSUME ~Judge(w) PROVE RowHeld(w)'
      <3>1. InTransaction(w)' => caseRow' = w
        BY <1>0, <1>3, <2>4
        DEF LoadPayment, LoadCase, Discard, Continue, HaltAtBoundary, Halt, Claim,
            Reserve, FindDuplicate, CallProvider, Goto, Return, RowHeld, InTransaction
      <3>2. pc'[w] \in { "call", "settle" } => rows'[attempt'[w]] = "NONE"
        BY <1>0, <1>3, <2>4
        DEF LoadPayment, LoadCase, Discard, Continue, HaltAtBoundary, Halt, Claim,
            Reserve, FindDuplicate, CallProvider, Goto, Return, RowHeld
      <3> QED BY <1>0, <2>1, <2>2, <3>1, <3>2 DEF RowHeld, Critical, InTransaction
    <2>5. RowHeld(w)'
      BY <2>3, <2>4
    <2> QED BY <1>0, <2>1, <2>2, <2>5, RowQuiet
  \* The end of a transaction without its commit, and of the call.
  <1>4. ASSUME ViolateConstraint(w) \/ Release(w) \/ Close(w) \/ Fail(w) PROVE RowInv'
    <2>1. /\ UNCHANGED <<rows, published>>
          /\ \A v \in Workers \ {w} : attempt'[v] = attempt[v] /\ outbox'[v] = outbox[v]
          /\ outbox'[w] \in { outbox[w], <<>> }
          /\ attempt'[w] \in { attempt[w], 0 }
          /\ \A v \in Workers \ {w} : caseRow = v => caseRow' = v
      BY <1>0, <1>4 DEF ViolateConstraint, Release, Close, Fail, Crash, Raise, ReleaseFails,
                        EndTransaction
    <2>2. \/ pc' = [pc EXCEPT ![w] = "release"] /\ Critical(w) /\ attempt'[w] = attempt[w]
          \/ pc' = [pc EXCEPT ![w] = "close"]
          \/ pc' = [pc EXCEPT ![w] = "idle"]
      BY <1>0, <1>4 DEF ViolateConstraint, Release, Close, Fail, Crash, Raise, ReleaseFails,
                        Goto, Return, Critical
    <2>3. RowHeld(w)'
      BY <1>0, <2>1, <2>2 DEF RowHeld, Critical, InTransaction
    <2> QED BY <2>1, <2>2, <2>3, RowQuiet
  <1> QED BY <1>1, <1>2, <1>3, <1>4, RowSettle, RowPublish DEF Advance, Wait

LEMMA RowInvariant == Spec => []RowInv
  <1>1. TypeOK /\ RowInv /\ [Next]_vars => RowInv'
    <2> SUFFICES ASSUME TypeOK, RowInv, [Next]_vars PROVE RowInv'
      OBVIOUS
    <2>1. CASE Environment \/ UNCHANGED vars
      <3>1. UNCHANGED <<pc, attempt, caseRow, rows, outbox, published>>
        BY <2>1 DEF Environment, Expire, CustomerPays, Replan, MerchantOptsOut, vars, store, locals
      <3> QED BY <3>1 DEF RowInv, RowHeld, Reports, Critical, InTransaction
    <2> QED BY <2>1, RowStep DEF Next
  <1> QED BY <1>1, RowInit, TypeCorrect, PTL DEF Spec

\* Every event that was published reports an outcome that is durable.
THEOREM EventsFollowRows == Spec => []EventsReportCommits
  <1>1. RowInv => EventsReportCommits
    BY DEF RowInv, EventsReportCommits, Reports
  <1> QED BY <1>1, RowInvariant, PTL

\* An attempt that was settled is never settled again.
THEOREM SettledOnce == Spec => AttemptsWriteOnce
  <1>1. TypeOK /\ RowInv /\ [Next]_vars
          => [\A n \in Attempts : rows[n] # "NONE" => rows'[n] = rows[n]]_vars
    <2> SUFFICES ASSUME TypeOK, RowInv, Next, NEW n \in Attempts, rows[n] # "NONE"
                 PROVE  rows'[n] = rows[n]
      OBVIOUS
    <2>1. CASE \E w \in Workers : Settle(w)
      BY <2>1, RowSettle
    <2>2. CASE ~\E w \in Workers : Settle(w)
      BY <2>2
      DEF Next, Environment, Acquire, Contend, Advance, Wait, Fail, LoadPayment, LoadCase,
          Discard, Continue, Judge, Reserve, FindDuplicate, ViolateConstraint, CallProvider,
          Publish, Release, Close, HaltAtBoundary, Halt, Claim, Crash, Raise, ReleaseFails,
          Expire, CustomerPays, Replan, MerchantOptsOut, store
    <2> QED BY <2>1, <2>2
  <1> QED BY <1>1, RowInvariant, TypeCorrect, PTL DEF Spec, AttemptsWriteOnce

-------------------------------------------------------------------------------
(* Keys and debits, when no worker dies between the answer and its commit *)

\* A key that was used belongs to a settled attempt, or to the one being settled.
KeysKnown ==
  \A n \in Attempts :
    \/ calls[n] = 0
    \/ calls[n] = 1 /\ (rows[n] # "NONE" \/ \E w \in Workers : pc[w] = "settle" /\ attempt[w] = n)

\* A debit is committed with its attempt, or owed.
DebitPlaced ==
  \/ charges = 0
  \/ payment = "RECOVERED" /\ \E n \in Attempts : rows[n] = "SUCCESS"
  \/ \E w \in Workers : Owes(w)

PaidInv == KeysKnown /\ (LostAnswers \/ DebitPlaced)

\* A step that neither calls nor settles.
LEMMA PaidQuiet ==
  ASSUME PaidInv, UNCHANGED <<rows, calls, charges>>,
         payment = "RECOVERED" => payment' = "RECOVERED",
         \A v \in Workers : pc[v] = "settle" =>
           pc'[v] = "settle" /\ attempt'[v] = attempt[v] /\ reply'[v] = reply[v]
  PROVE  PaidInv'
  <1>1. KeysKnown'
    BY DEF PaidInv, KeysKnown
  <1>2. DebitPlaced => DebitPlaced'
    BY DEF DebitPlaced, Owes
  <1> QED BY <1>1, <1>2 DEF PaidInv

\* The call: the row lock keeps every other answer away, and the unique key says that
\* the attempt was not tried before.
LEMMA PaidCall ==
  ASSUME TypeOK, RowInv, PaidInv, NEW w \in Workers, CallProvider(w)
  PROVE  PaidInv'
  <1>1. /\ pc[w] = "call" /\ pc' = [pc EXCEPT ![w] = "settle"]
        /\ UNCHANGED <<payment, rows, attempt>>
        /\ calls' = [calls EXCEPT ![attempt[w]] = @ + 1]
    BY DEF CallProvider, Goto, store
  <1>2. attempt[w] \in Attempts /\ caseRow = w /\ rows[attempt[w]] = "NONE"
    BY <1>1 DEF RowInv, RowHeld, Critical, InTransaction
  <1>3. \A v \in Workers : pc[v] # "settle"
    BY <1>1, <1>2 DEF RowInv, RowHeld, InTransaction
  <1>5. pc'[w] = "settle"
    BY <1>1 DEF TypeOK
  <1>6. ASSUME ~LostAnswers PROVE DebitPlaced'
    <2>1. PICK o \in Outcome : /\ reply' = [reply EXCEPT ![w] = o]
                               /\ charges' = IF o = "SUCCESS" THEN charges + 1 ELSE charges
      BY <1>6, CallAnswered, ExecutionAssumption
    <2>2. reply'[w] = o
      BY <2>1 DEF TypeOK
    <2> QED BY <1>1, <1>3, <1>5, <1>6, <2>1, <2>2 DEF PaidInv, DebitPlaced, Owes
  <1>7. KeysKnown'
    <2> SUFFICES ASSUME NEW n \in Attempts
                 PROVE  \/ calls'[n] = 0
                        \/ /\ calls'[n] = 1
                           /\ \/ rows'[n] # "NONE"
                              \/ \E v \in Workers : pc'[v] = "settle" /\ attempt'[v] = n
      BY DEF KeysKnown
    <2>1. CASE n = attempt[w]
      <3>1. calls[n] = 0
        BY <1>2, <1>3, <2>1 DEF PaidInv, KeysKnown
      <3>2. calls'[n] = 1 /\ attempt'[w] = n
        BY <1>1, <1>2, <2>1, <3>1 DEF TypeOK
      <3> QED BY <1>5, <3>2
    <2>2. CASE n # attempt[w]
      BY <1>1, <1>3, <2>2 DEF TypeOK, PaidInv, KeysKnown
    <2> QED BY <2>1, <2>2
  <1> QED BY <1>6, <1>7 DEF PaidInv

LEMMA PaidSettle ==
  ASSUME TypeOK, RowInv, PaidInv, NEW w \in Workers, Settle(w)
  PROVE  PaidInv'
  <1>1. /\ pc[w] = "settle" /\ UNCHANGED <<calls, charges, attempt>>
        /\ reply[w] = "SUCCESS" => payment' = "RECOVERED"
        /\ reply[w] # "SUCCESS" => payment' = payment
    BY DEF Settle, SettleSuccess, SettleRetry, SettleStop, Commit, Goto, gateway, locals
  <1>2. attempt[w] \in Attempts /\ caseRow = w
    BY <1>1 DEF RowInv, RowHeld, Critical, InTransaction
  <1>3. \A v \in Workers \ {w} : pc[v] # "settle"
    BY <1>2 DEF RowInv, RowHeld, InTransaction
  <1>4. PICK row \in KeyedRow : /\ rows' = [rows EXCEPT ![attempt[w]] = row]
                                /\ reply[w] = "SUCCESS" => row = "SUCCESS"
    BY DEF Settle, SettleSuccess, SettleRetry, SettleStop, Commit, KeyedRow
  <1>5. rows'[attempt[w]] = row /\ row # "NONE"
    BY <1>2, <1>4 DEF TypeOK, KeyedRow
  <1>6. \A n \in Attempts : rows[n] # "NONE" => rows'[n] = rows[n]
    BY RowSettle
  <1>7. KeysKnown'
    <2> SUFFICES ASSUME NEW n \in Attempts PROVE calls'[n] = 0 \/ (calls'[n] = 1 /\ rows'[n] # "NONE")
      BY DEF KeysKnown
    <2>1. CASE n = attempt[w]
      BY <1>1, <1>5, <2>1 DEF PaidInv, KeysKnown
    <2>2. CASE n # attempt[w]
      BY <1>1, <1>3, <1>6, <2>2 DEF PaidInv, KeysKnown
    <2> QED BY <2>1, <2>2
  <1>8. DebitPlaced => DebitPlaced'
    <2>1. CASE reply[w] = "SUCCESS"
      BY <1>1, <1>2, <1>4, <1>5, <2>1 DEF DebitPlaced
    <2>2. CASE reply[w] # "SUCCESS"
      <3>1. \A v \in Workers : ~Owes(v)
        BY <1>3, <2>2 DEF Owes
      <3> QED BY <1>1, <1>6, <2>2, <3>1 DEF DebitPlaced
    <2> QED BY <2>1, <2>2
  <1> QED BY <1>7, <1>8 DEF PaidInv

LEMMA PaidInvariant ==
  ASSUME "settle" \notin FaultPoints
  PROVE  Spec => []PaidInv
  <1>1. Init => PaidInv
    BY DEF Init, PaidInv, KeysKnown, DebitPlaced
  <1>2. TypeOK /\ RowInv /\ PaidInv /\ [Next]_vars => PaidInv'
    <2> SUFFICES ASSUME TypeOK, RowInv, PaidInv, [Next]_vars PROVE PaidInv'
      OBVIOUS
    <2> USE DEF store, gateway, world, locals
    <2>1. ASSUME NEW w \in Workers, ~CallProvider(w), ~Settle(w),
                 \/ \E n \in Attempts : Acquire(w, n) \/ Contend(w, n)
                 \/ Advance(w) \/ Wait(w) \/ Fail(w)
          PROVE  PaidInv'
      <3>1. UNCHANGED <<rows, calls, charges, payment>>
        BY <2>1
        DEF Acquire, Contend, Advance, Wait, Fail, LoadPayment, LoadCase, Discard, Continue,
            Judge, Reserve, FindDuplicate, ViolateConstraint, Publish, Release, Close,
            HaltAtBoundary, Halt, Claim, Crash, Raise, ReleaseFails
      <3>2. /\ \/ UNCHANGED pc
               \/ pc[w] # "settle" /\ \E to : pc' = [pc EXCEPT ![w] = to]
            /\ pc[w] = "settle" => UNCHANGED <<attempt[w], reply[w]>>
            /\ \A v \in Workers \ {w} : UNCHANGED <<attempt[v], reply[v]>>
        BY <2>1
        DEF TypeOK, Acquire, Contend, Advance, Wait, Fail, LoadPayment, LoadCase, Discard,
            Continue, Judge, Reserve, FindDuplicate, ViolateConstraint, Publish, Release, Close,
            HaltAtBoundary, Halt, Claim, Crash, Raise, ReleaseFails, Goto, Return
      <3>3. \A v \in Workers : pc[v] = "settle" =>
              pc'[v] = "settle" /\ attempt'[v] = attempt[v] /\ reply'[v] = reply[v]
        BY <3>2 DEF TypeOK
      <3> QED BY <3>1, <3>3, PaidQuiet
    <2>2. CASE Environment \/ UNCHANGED vars
      <3>1. /\ UNCHANGED <<rows, calls, charges, pc, attempt, reply>>
            /\ payment = "RECOVERED" => payment' = "RECOVERED"
        BY <2>2 DEF Environment, Expire, CustomerPays, Replan, MerchantOptsOut, vars
      <3> QED BY <3>1, PaidQuiet
    <2> QED BY <2>1, <2>2, PaidCall, PaidSettle DEF Next
  <1> QED BY <1>1, <1>2, RowInvariant, TypeCorrect, PTL DEF Spec

\* An idempotency key reaches the provider once (app/execution/idempotency.py:6-7),
\* as long as no worker dies between the answer and the commit: after such a death
\* the reservation is gone with the transaction.
THEOREM KeysUsedOnce ==
  ASSUME "settle" \notin FaultPoints
  PROVE  Spec => []OneCallPerKey
  <1>1. PaidInv => OneCallPerKey
    BY DEF PaidInv, KeysKnown, OneCallPerKey
  <1> QED BY <1>1, PaidInvariant, PTL

\* A debit is never forgotten, under the same assumption and if no debit is answered
\* by a timeout or an exception.
THEOREM DebitsAccounted ==
  ASSUME LostAnswers = FALSE, "settle" \notin FaultPoints
  PROVE  Spec => []DebitAccounted
  <1>1. RowInv /\ PaidInv => DebitAccounted
    BY DEF RowInv, RowHeld, InTransaction, PaidInv, DebitPlaced, Owes, DebitAccounted
  <1> QED BY <1>1, PaidInvariant, RowInvariant, PTL

-------------------------------------------------------------------------------
(* One debit without the key in Redis, when recovery starts with attempt 1 *)

\* A retry is requested after a failure that may be tried again, so the attempts
\* before one that is asked for have all failed.
FailedBefore(n) == \A m \in Attempts : m < n => rows[m] = "FAILED_RECOVERABLE"

TurnInv ==
  /\ NoDoubleDebit
  /\ \A w \in Workers : Critical(w) => FailedBefore(attempt[w])
  /\ \A n \in Attempts : rows[n] \in KeyedRow => FailedBefore(n)

\* A step that leaves the rows as they are and pays nothing.
LEMMA TurnQuiet ==
  ASSUME TurnInv, rows' = rows, charges' = charges,
         \A v \in Workers : Critical(v)' => FailedBefore(attempt'[v])
  PROVE  TurnInv'
  BY DEF TurnInv, NoDoubleDebit, FailedBefore, Critical

LEMMA TurnRequested ==
  ASSUME TypeOK, RowInv, TurnInv, InitialRequests \subseteq {1}, NEW n \in Attempts, Requested(n)
  PROVE  FailedBefore(n)
  <1>1. n \in Nat /\ Attempts \subseteq Nat /\ \A m \in Attempts : m >= 1
    BY ExecutionAssumption DEF Attempts
  <1>2. CASE n \in InitialRequests
    BY <1>1, <1>2 DEF FailedBefore
  <1>3. CASE Ev("payment.retry_requested", n) \in published
    <2>1. n - 1 \in Attempts /\ rows[n - 1] = "FAILED_RECOVERABLE"
      BY <1>3 DEF RowInv, Reports, Ev
    <2>2. FailedBefore(n - 1)
      BY <2>1 DEF TurnInv, KeyedRow
    <2> QED BY <1>1, <2>1, <2>2 DEF FailedBefore
  <1> QED BY <1>2, <1>3 DEF Requested

LEMMA TurnInvariant ==
  ASSUME LostAnswers = FALSE, "settle" \notin FaultPoints, InitialRequests \subseteq {1}
  PROVE  Spec => []TurnInv
  <1>1. Init => TurnInv
    BY DEF Init, TurnInv, NoDoubleDebit, Critical, KeyedRow
  <1>2. TypeOK /\ RowInv /\ PaidInv /\ TurnInv /\ [Next]_vars => TurnInv'
    <2> SUFFICES ASSUME TypeOK, RowInv, PaidInv, TurnInv, [Next]_vars PROVE TurnInv'
      OBVIOUS
    <2> USE DEF store, gateway, world, locals
    <2>1. ASSUME NEW w \in Workers, NEW n \in Attempts, Acquire(w, n) PROVE TurnInv'
      <3>1. FailedBefore(n)
        BY <2>1, TurnRequested DEF Acquire
      <3>2. \A v \in Workers : Critical(v)' => FailedBefore(attempt'[v])
        BY <2>1, <3>1 DEF Acquire, Goto, TypeOK, TurnInv, Critical
      <3> QED BY <2>1, <3>2, TurnQuiet DEF Acquire
    \* The call: whoever has debited before would have kept this attempt from it.
    <2>2. ASSUME NEW w \in Workers, CallProvider(w) PROVE TurnInv'
      <3>1. /\ pc[w] = "call" /\ pc' = [pc EXCEPT ![w] = "settle"]
            /\ UNCHANGED <<rows, attempt>>
            /\ charges' \in { charges, charges + 1 }
        BY <2>2, CallAnswered DEF CallProvider, Goto
      <3>2. attempt[w] \in Attempts /\ caseRow = w /\ rows[attempt[w]] = "NONE"
        BY <3>1 DEF RowInv, RowHeld, Critical, InTransaction
      <3>3. \A v \in Workers : ~Owes(v)
        BY <3>1, <3>2 DEF RowInv, RowHeld, InTransaction, Owes
      <3>4. ASSUME NEW n \in Attempts, rows[n] = "SUCCESS" PROVE FALSE
        <4>1. FailedBefore(n) /\ FailedBefore(attempt[w])
          BY <3>1, <3>4 DEF TurnInv, KeyedRow, Critical
        <4>2. n \in Nat /\ attempt[w] \in Nat
          BY <3>2 DEF Attempts
        <4>3. n < attempt[w] \/ attempt[w] < n \/ n = attempt[w]
          BY <4>2
        <4> QED BY <3>2, <3>4, <4>1, <4>3 DEF FailedBefore
      <3>5. charges = 0
        BY <3>3, <3>4 DEF PaidInv, DebitPlaced
      <3>6. \A v \in Workers : Critical(v)' => Critical(v)
        BY <3>1 DEF TypeOK, Critical
      <3> QED BY <3>1, <3>5, <3>6 DEF TurnInv, NoDoubleDebit, FailedBefore
    <2>3. ASSUME NEW w \in Workers, Settle(w) PROVE TurnInv'
      <3>1. /\ pc[w] = "settle" /\ pc' = [pc EXCEPT ![w] = "publish"]
            /\ UNCHANGED <<charges, attempt>>
            /\ \E row : rows' = [rows EXCEPT ![attempt[w]] = row]
        BY <2>3 DEF Settle, SettleSuccess, SettleRetry, SettleStop, Commit, Goto
      <3>2. \A n \in Attempts : rows[n] # "NONE" => rows'[n] = rows[n]
        BY <2>3, RowSettle
      <3>3. \A n : FailedBefore(n) => \A m \in Attempts : m < n => rows'[m] = "FAILED_RECOVERABLE"
        BY <3>2 DEF FailedBefore
      <3>4. \A v \in Workers : Critical(v)' => Critical(v)
        BY <3>1 DEF TypeOK, Critical
      <3>5. \A n \in Attempts \ {attempt[w]} : rows'[n] = rows[n]
        BY <3>1 DEF TypeOK
      <3>6. FailedBefore(attempt[w])
        BY <3>1 DEF TurnInv, Critical
      <3>7. \A n \in Attempts : rows'[n] \in KeyedRow =>
              \A m \in Attempts : m < n => rows'[m] = "FAILED_RECOVERABLE"
        BY <3>3, <3>5, <3>6 DEF TurnInv
      <3>8. \A v \in Workers : Critical(v)' =>
              \A m \in Attempts : m < attempt'[v] => rows'[m] = "FAILED_RECOVERABLE"
        BY <3>1, <3>3, <3>4 DEF TurnInv
      <3> QED BY <3>1, <3>7, <3>8 DEF TurnInv, NoDoubleDebit, FailedBefore
    <2>4. ASSUME NEW w \in Workers, ~CallProvider(w), ~Settle(w),
                 (\E n \in Attempts : Contend(w, n)) \/ Advance(w) \/ Wait(w) \/ Fail(w)
          PROVE  TurnInv'
      <3>1. UNCHANGED <<rows, charges>>
        BY <2>4
        DEF Contend, Advance, Wait, Fail, LoadPayment, LoadCase, Discard, Continue,
            Judge, Reserve, FindDuplicate, ViolateConstraint, Publish, Release, Close,
            HaltAtBoundary, Halt, Claim, Crash, Raise, ReleaseFails
      <3>2. /\ \/ UNCHANGED pc
               \/ pc[w] # "idle" /\ \E to : pc' = [pc EXCEPT ![w] = to]
            /\ \/ UNCHANGED attempt
               \/ pc' = [pc EXCEPT ![w] = "idle"] /\ attempt' = [attempt EXCEPT ![w] = 0]
            /\ pc[w] = "close" => pc' = pc \/ pc' = [pc EXCEPT ![w] = "idle"]
        BY <2>4
        DEF Contend, Advance, Wait, Fail, LoadPayment, LoadCase, Discard,
            Continue, Judge, Reserve, FindDuplicate, ViolateConstraint, Publish, Release, Close,
            HaltAtBoundary, Halt, Claim, Crash, Raise, ReleaseFails, Goto, Return, Idle
      <3>3. \A v \in Workers : Critical(v)' => Critical(v) /\ attempt'[v] = attempt[v]
        BY <3>2 DEF TypeOK, Critical
      <3>4. \A v \in Workers : Critical(v)' => FailedBefore(attempt'[v])
        BY <3>3 DEF TurnInv
      <3> QED BY <3>1, <3>4, TurnQuiet
    <2>5. CASE Environment \/ UNCHANGED vars
      <3>1. UNCHANGED <<rows, charges, pc, attempt>>
        BY <2>5 DEF Environment, Expire, CustomerPays, Replan, MerchantOptsOut, vars
      <3> QED BY <3>1, TurnQuiet DEF TurnInv, Critical
    <2> QED BY <2>1, <2>2, <2>3, <2>4, <2>5 DEF Next
  <1> QED BY <1>1, <1>2, PaidInvariant, RowInvariant, TypeCorrect, PTL DEF Spec

\* One debit even if the key in Redis elapses under running calls: the row lock, the
\* unique number of an attempt and the order of the requests are enough.
THEOREM SingleDebitUnlocked ==
  ASSUME LostAnswers = FALSE, "settle" \notin FaultPoints, InitialRequests \subseteq {1}
  PROVE  Spec => []NoDoubleDebit
  <1>1. TurnInv => NoDoubleDebit
    BY DEF TurnInv
  <1> QED BY <1>1, TurnInvariant, PTL

-------------------------------------------------------------------------------
(* The contract: when no TTL elapses under a running call, no worker dies between   *)
(* the provider's answer and its commit and no answer is lost, RecoveryExecution   *)
(* implements RecoveryContract.  Workers, locks and transactions disappear: each step of an   *)
(* execution is a step of the contract, or changes nothing it speaks of.           *)

\* What an execution may rely on although it read it some steps ago, since nobody
\* else is inside: no execution has closed the case it judged, its attempt is still
\* unused, and a debit it was told of is in the provider's books.
Past(w) == pc[w] \in { "judge", "stop", "escalate", "claim", "reserve", "call", "settle" }

Sure(w) ==
  /\ Critical(w) => attempt[w] \in Attempts
  /\ pc[w] = "check" /\ ended => seenCase[w] \in TerminalRecoveryState
  /\ Past(w) => ~ended
  /\ pc[w] \in { "call", "settle" } => rows[attempt[w]] = "NONE"
  /\ Owes(w) => charges # 0

\* The row still shows the closure of an execution that planning has not undone.
EndShown == ended => caseState \in TerminalRecoveryState

SureInv == EndShown /\ \A w \in Workers : Sure(w)

LEMMA SureInit == Init => SureInv
  BY DEF Init, SureInv, EndShown, Sure, Past, Critical, Owes

\* Who is inside is alone.
LEMMA Alone ==
  ASSUME TypeOK, OwnerInside, NEW w \in Workers, Critical(w)
  PROVE  \A v \in Workers \ {w} : pc[v] \in { "idle", "close" }
  BY DEF OwnerInside, Critical

\* The conditions of a worker that is outside.
LEMMA OutsideSure ==
  ASSUME NEW v, pc'[v] \in { "idle", "close" }
  PROVE  Sure(v)'
  BY DEF Sure, Past, Critical, Owes

\* A step that neither pays nor writes a row.
LEMMA QuietSure ==
  ASSUME TypeOK, SureInv, NEW w \in Workers, NEW from \in PC, NEW to,
         Goto(w, from, to), UNCHANGED <<caseState, ended, rows, charges>>,
         \A v \in Workers \ {w} : UNCHANGED <<attempt[v], seenCase[v], reply[v]>>,
         Sure(w)'
  PROVE  SureInv'
  <1>1. pc[w] = from /\ \A v \in Workers \ {w} : pc'[v] = pc[v]
    BY DEF TypeOK, Goto
  <1>2. \A v \in Workers \ {w} : Sure(v)'
    BY <1>1 DEF SureInv, Sure, Past, Critical, Owes
  <1>3. QED BY <1>2 DEF SureInv, EndShown

LEMMA SureStep ==
  ASSUME TypeOK, OwnerInside, SureInv, NEW w \in Workers
  PROVE  /\ \A n \in Attempts : Acquire(w, n) => SureInv'
         /\ \A n \in Attempts : Contend(w, n) => SureInv'
         /\ Advance(w) => SureInv'
         /\ Wait(w) => SureInv'
         /\ Fail(w) => SureInv'
  <1> USE DEF store, gateway, world, locals
  <1>0. /\ pc \in [Workers -> PC] /\ reply \in [Workers -> Outcome] /\ charges \in Nat
        /\ attempt \in [Workers -> Attempts \cup {0}]
        /\ seenCase \in [Workers -> RecoveryState \cup {"ABSENT"}]
        /\ Sure(w)
    BY DEF TypeOK, SureInv
  <1>1. ASSUME NEW n \in Attempts, Acquire(w, n) PROVE SureInv'
    <2>1. Sure(w)'
      BY <1>0, <1>1 DEF Acquire, Goto, Sure, Past, Critical, Owes
    <2>2. Goto(w, "idle", "loadPayment")
      BY <1>1 DEF Acquire
    <2>3. QED BY <1>0, <1>1, <2>1, <2>2, QuietSure DEF Acquire, PC
  <1>2. ASSUME NEW n \in Attempts, Contend(w, n) PROVE SureInv'
    BY <1>2 DEF Contend, SureInv, EndShown, Sure, Past, Critical, Owes
  <1>3. ASSUME LoadPayment(w) PROVE SureInv'
    <2>1. PICK to \in { "loadCase", "release" } : Goto(w, "loadPayment", to)
      BY <1>3 DEF LoadPayment, Return
    <2>2. Sure(w)'
      BY <1>0, <1>3, <2>1 DEF LoadPayment, Goto, Sure, Past, Critical, Owes
    <2>3. QED BY <1>3, <2>1, <2>2, QuietSure DEF LoadPayment, PC
  <1>4. ASSUME LoadCase(w) PROVE SureInv'
    <2>1. PICK to \in { "check", "release" } : Goto(w, "loadCase", to)
      BY <1>4 DEF LoadCase, Return
    <2>2. Sure(w)'
      BY <1>0, <1>4, <2>1 DEF LoadCase, Goto, SureInv, EndShown, Sure, Past, Critical, Owes
    <2>3. QED BY <1>0, <1>4, <2>1, <2>2, QuietSure DEF LoadCase, PC
  <1>5. ASSUME Discard(w) PROVE SureInv'
    <2>1. Goto(w, "check", "release")
      BY <1>5 DEF Discard, Return
    <2>2. Sure(w)'
      BY <1>0, <1>5, <2>1 DEF Discard, Goto, Sure, Past, Critical, Owes
    <2>3. QED BY <1>5, <2>1, <2>2, QuietSure DEF Discard, PC
  <1>6. ASSUME Continue(w) PROVE SureInv'
    <2>1. Goto(w, "check", "judge")
      BY <1>6 DEF Continue
    <2>2. Sure(w)'
      BY <1>0, <1>6, <2>1 DEF Continue, Goto, Sure, Past, Critical, Owes
    <2>3. QED BY <1>6, <2>1, <2>2, QuietSure DEF Continue, PC
  <1>7. ASSUME Judge(w) PROVE SureInv'
    <2>1. BoundaryVerdicts \subseteq Verdict
      BY ExecutionAssumption DEF BoundaryVerdicts, Verdict
    <2>2. \A v \in Verdict : AfterJudge[v] \in {"claim", "stop", "escalate"}
      BY DEF Verdict, AfterJudge
    <2>3. PICK to \in {"claim", "stop", "escalate", "release"} : Goto(w, "judge", to)
      BY <1>7, <2>1, <2>2 DEF Judge, Return
    <2>4. Sure(w)'
      BY <1>0, <1>7, <2>3 DEF Judge, Goto, Sure, Past, Critical, Owes
    <2>5. QED BY <1>7, <2>3, <2>4, QuietSure DEF Judge, PC
  <1>8. ASSUME Reserve(w) PROVE SureInv'
    <2>1. Goto(w, "reserve", "call") /\ rows[attempt[w]] = "NONE"
      BY <1>8 DEF Reserve
    <2>2. Sure(w)'
      BY <1>0, <1>8, <2>1 DEF Reserve, Goto, Sure, Past, Critical, Owes
    <2>3. QED BY <1>8, <2>1, <2>2, QuietSure DEF Reserve, PC
  <1>9. ASSUME FindDuplicate(w) \/ ViolateConstraint(w) PROVE SureInv'
    <2>1. Goto(w, "reserve", "release")
      BY <1>9 DEF FindDuplicate, ViolateConstraint, Return
    <2>2. Sure(w)'
      BY <1>0, <1>9, <2>1 DEF FindDuplicate, ViolateConstraint, Goto, Sure, Past, Critical, Owes
    <2>3. QED BY <1>9, <2>1, <2>2, QuietSure DEF FindDuplicate, ViolateConstraint, PC
  \* The call: a debit is in the provider's books.
  <1>10. ASSUME CallProvider(w) PROVE SureInv'
    <2>1. /\ pc[w] = "call" /\ pc' = [pc EXCEPT ![w] = "settle"]
          /\ UNCHANGED <<caseState, ended, rows, attempt, seenCase>>
      BY <1>10 DEF CallProvider, Goto
    <2>2. \A v \in Workers \ {w} : pc[v] \in { "idle", "close" } /\ pc'[v] = pc[v]
      BY <1>0, <2>1, Alone DEF Critical
    <2>3. PICK o \in Outcome : /\ reply' = [reply EXCEPT ![w] = o]
                               /\ \E d \in Debits(o) : charges' = charges + d
      BY <1>10 DEF CallProvider
    <2>4. pc'[w] = "settle" /\ reply'[w] = o
      BY <1>0, <2>1, <2>3
    <2>5. Owes(w)' => charges' # 0
      BY <1>0, <2>3, <2>4 DEF Owes, Debits
    <2>6. Sure(w)'
      BY <1>0, <2>1, <2>4, <2>5 DEF Sure, Past, Critical
    <2>7. \A v \in Workers : Sure(v)'
      BY <2>2, <2>6, OutsideSure
    <2>8. QED BY <2>1, <2>7 DEF SureInv, EndShown
  \* The commit: the others are outside.
  <1>11. ASSUME Settle(w) PROVE SureInv'
    <2>1. /\ pc[w] = "settle" /\ pc' = [pc EXCEPT ![w] = "publish"]
          /\ UNCHANGED <<charges, attempt>>
          /\ ended' = (caseState' \in TerminalRecoveryState)
      BY <1>11 DEF Settle, SettleSuccess, SettleRetry, SettleStop, Commit, Goto
    <2>2. \A v \in Workers \ {w} : pc[v] \in { "idle", "close" } /\ pc'[v] = pc[v]
      BY <1>0, <2>1, Alone DEF Critical
    <2>3. Sure(w)'
      BY <1>0, <2>1 DEF Sure, Past, Critical, Owes
    <2>4. \A v \in Workers : Sure(v)'
      BY <2>2, <2>3, OutsideSure
    <2>5. QED BY <2>1, <2>4 DEF SureInv, EndShown
  <1>12. ASSUME Publish(w) PROVE SureInv'
    <2>1. PICK to \in { "publish", "release" } : Goto(w, "publish", to)
      BY <1>12 DEF Publish
    <2>2. Sure(w)'
      BY <1>0, <1>12, <2>1 DEF Publish, Goto, Sure, Past, Critical, Owes
    <2>3. QED BY <1>12, <2>1, <2>2, QuietSure DEF Publish, PC
  <1>13. ASSUME Release(w) \/ ReleaseFails(w) PROVE SureInv'
    <2>1. /\ Goto(w, "release", "close")
          /\ UNCHANGED <<caseState, ended, rows, charges, attempt, seenCase, reply>>
      BY <1>13 DEF Release, ReleaseFails
    <2>2. pc'[w] = "close"
      BY <1>0, <2>1 DEF Goto
    <2>3. QED BY <2>1, <2>2, OutsideSure, QuietSure DEF PC
  <1>14. ASSUME NEW from \in PC, Goto(w, from, "idle"),
                UNCHANGED <<caseState, ended, rows, charges>>,
                attempt' = [attempt EXCEPT ![w] = 0],
                seenCase' = [seenCase EXCEPT ![w] = "ABSENT"],
                reply' = [reply EXCEPT ![w] = "SUCCESS"]
         PROVE  SureInv'
    <2>1. pc'[w] = "idle"
      BY <1>0, <1>14 DEF Goto
    <2>2. \A v \in Workers \ {w} : UNCHANGED <<attempt[v], seenCase[v], reply[v]>>
      BY <1>0, <1>14
    <2>3. QED BY <1>14, <2>1, <2>2, OutsideSure, QuietSure
  <1>15. ASSUME Close(w) PROVE SureInv'
    BY <1>14, <1>15 DEF Close, PC
  <1>16. ASSUME Crash(w) PROVE SureInv'
    BY <1>0, <1>14, <1>16 DEF Crash
  \* The case is closed while nobody else is inside.
  <1>17. ASSUME HaltAtBoundary(w) PROVE SureInv'
    <2>1. /\ pc[w] \in { "stop", "escalate" } /\ pc' = [pc EXCEPT ![w] = "release"]
          /\ UNCHANGED <<rows, charges, attempt>>
          /\ caseState' \in { "STOPPED", "ESCALATED" }
      BY <1>17 DEF HaltAtBoundary, Halt, Return, Goto
    <2>2. \A v \in Workers \ {w} : pc[v] \in { "idle", "close" } /\ pc'[v] = pc[v]
      BY <1>0, <2>1, Alone DEF Critical
    <2>3. Sure(w)'
      BY <1>0, <2>1 DEF Sure, Past, Critical, Owes
    <2>4. \A v \in Workers : Sure(v)'
      BY <2>2, <2>3, OutsideSure
    <2>5. QED BY <2>1, <2>4 DEF SureInv, EndShown, TerminalRecoveryState
  <1>18. ASSUME Claim(w) PROVE SureInv'
    <2>1. Goto(w, "claim", "reserve")
      BY <1>18 DEF Claim
    <2>2. Sure(w)'
      BY <1>0, <1>18, <2>1 DEF Claim, Goto, Sure, Past, Critical, Owes
    <2>3. QED BY <1>18, <2>1, <2>2, QuietSure DEF Claim, PC
  <1>19. ASSUME Raise(w) PROVE SureInv'
    <2>1. pc[w] \in PC \ {"idle", "close"} /\ Goto(w, pc[w], "release")
      BY <1>0, <1>19 DEF Raise, Return
    <2>2. Sure(w)'
      BY <1>0, <1>19, <2>1 DEF Raise, Goto, Sure, Past, Critical, Owes
    <2>3. QED BY <1>19, <2>1, <2>2, QuietSure DEF Raise
  <1>20. QED
    BY <1>1, <1>2, <1>3, <1>4, <1>5, <1>6, <1>7, <1>8, <1>9, <1>10, <1>11, <1>12, <1>13,
       <1>15, <1>16, <1>17, <1>18, <1>19
    DEF Advance, Wait, Fail

LEMMA SureNext == TypeOK /\ OwnerInside /\ SureInv /\ [Next]_vars => SureInv'
  <1> SUFFICES ASSUME TypeOK, OwnerInside, SureInv, [Next]_vars PROVE SureInv'
    OBVIOUS
  <1> USE DEF store, gateway, world, locals
  <1>1. CASE Environment \/ UNCHANGED vars
    <2>1. /\ UNCHANGED <<pc, attempt, seenCase, reply, rows, charges>>
          /\ ended' => ended
          /\ EndShown'
      <3>1. CASE Replan
        <4>1. PICK s \in Replans : caseState' = s /\ ended' = (ended /\ s \in TerminalRecoveryState)
          BY <3>1 DEF Replan
        <4> QED BY <3>1, <4>1 DEF Replan, EndShown
      <3>2. CASE Expire \/ CustomerPays \/ MerchantOptsOut \/ UNCHANGED vars
        BY <3>2 DEF Expire, CustomerPays, MerchantOptsOut, vars, SureInv, EndShown
      <3> QED BY <1>1, <3>1, <3>2 DEF Environment
    <2>2. \A w \in Workers : Sure(w)'
      BY <2>1 DEF SureInv, Sure, Past, Critical, Owes
    <2> QED BY <2>1, <2>2 DEF SureInv
  <1>2. QED BY <1>1, SureStep DEF Next

\* All that is known of a reachable state.
ContractInv == TypeOK /\ OwnerInside /\ DebitInv /\ SureInv

LEMMA ContractInvariant ==
  ASSUME EarlyExpiry = FALSE
  PROVE  Spec => []ContractInv
  <1>1. Init => ContractInv
    BY TypeInit, OwnerInit, DebitInit, SureInit DEF ContractInv
  <1>2. ContractInv /\ [Next]_vars => ContractInv'
    BY TypeNext, OwnerNext, DebitNext, SureNext DEF ContractInv
  <1>3. QED BY <1>1, <1>2, PTL DEF Spec

-------------------------------------------------------------------------------
(* The refinement *)

LEMMA ContractBegins == Init => Contract!Begin
  BY DEF Init, Contract!Begin

\* With nobody owing a debit and a payment that is not recovered, none was made.
LEMMA NothingDebited ==
  ASSUME TypeOK, OwnerInside, DebitInv, AnswersKept, NEW w \in Workers, Past(w), ~Owes(w)
  PROVE  charges = 0 /\ payment # "RECOVERED"
  <1>1. \A v \in Workers : ~Owes(v)
    BY Alone DEF Past, Critical, Owes
  <1>2. payment # "RECOVERED"
    BY DEF DebitInv, Fresh, Past
  <1>3. QED BY <1>1, <1>2 DEF DebitInv, DebitKnown

\* The steps of one execution: the call is a debit or nothing, the commit settles
\* one attempt, the boundary closes the case, and nothing else is seen.
LEMMA ContractStep ==
  ASSUME ContractInv, AnswersKept, NEW w \in Workers
  PROVE  /\ \A n \in Attempts : Acquire(w, n) => UNCHANGED Contract!contract
         /\ \A n \in Attempts : Contend(w, n) => UNCHANGED Contract!contract
         /\ Advance(w) => [Contract!Step]_(Contract!contract)
         /\ Wait(w) => [Contract!Step]_(Contract!contract)
         /\ Fail(w) => UNCHANGED Contract!contract
  <1> USE DEF store, gateway, world, locals
  <1>0. TypeOK /\ OwnerInside /\ DebitInv /\ Sure(w)
    BY DEF ContractInv, SureInv
  <1>1. /\ \A n \in Attempts : Acquire(w, n) => UNCHANGED Contract!contract
        /\ \A n \in Attempts : Contend(w, n) => UNCHANGED Contract!contract
        /\ Fail(w) => UNCHANGED Contract!contract
    BY DEF Acquire, Contend, Fail, Crash, Raise, ReleaseFails, Contract!contract
  <1>2. \/ LoadPayment(w) \/ LoadCase(w) \/ Discard(w) \/ Continue(w) \/ Judge(w)
        \/ Reserve(w) \/ FindDuplicate(w) \/ ViolateConstraint(w)
        \/ Publish(w) \/ Release(w) \/ Close(w) \/ Claim(w)
        => UNCHANGED Contract!contract
    BY DEF LoadPayment, LoadCase, Discard, Continue, Judge, Reserve, FindDuplicate,
           ViolateConstraint, Publish, Release, Close, Claim, Contract!contract
  <1>3. ASSUME CallProvider(w) PROVE [Contract!Step]_(Contract!contract)
    <2>1. /\ pc[w] = "call" /\ UNCHANGED <<payment, caseState, rows, ended>>
          /\ charges' = charges \/ charges' = charges + 1
      BY <1>0, <1>3, CallAnswered DEF CallProvider, Goto, AnswersKept
    <2>2. charges = 0 /\ payment # "RECOVERED" /\ ~ended
      BY <1>0, <2>1, NothingDebited DEF Sure, Past, Owes
    <2>3. CASE charges' = charges
      BY <2>1, <2>3 DEF Contract!contract
    <2>4. CASE charges' = charges + 1
      <3>1. Contract!Debit
        BY <2>1, <2>2, <2>4
        DEF Contract!Debit
      <3>2. QED BY <3>1 DEF Contract!Step
    <2>5. QED BY <2>1, <2>3, <2>4
  <1>4. ASSUME Settle(w) PROVE [Contract!Step]_(Contract!contract)
    <2> DEFINE n == attempt[w]
    <2>1. pc[w] = "settle" /\ n \in Attempts /\ rows[n] = "NONE" /\ ~ended
      BY <1>0, <1>4
      DEF Settle, SettleSuccess, SettleRetry, SettleStop, Commit, Goto, Sure, Past, Critical
    <2>2. ASSUME NEW row, NEW target, charges' = charges,
                 rows' = [rows EXCEPT ![n] = row], caseState' = target,
                 ended' = (target \in TerminalRecoveryState)
          PROVE  Contract!Conclude(n, row, target)
      BY <2>1, <2>2
      DEF Contract!Conclude, TerminalRecoveryState, Contract!TerminalRecoveryState
    <2>3. CASE SettleSuccess(w)
      <3>1. charges = 1 /\ payment # "RECOVERED"
        <4>1. Owes(w)
          BY <2>1, <2>3 DEF SettleSuccess, Owes
        <4>2. charges # 0 /\ charges <= 1 /\ charges \in Nat
          BY <1>0, <4>1 DEF Sure, DebitInv, NoDoubleDebit, TypeOK
        <4>3. payment # "RECOVERED"
          BY <1>0, <2>1 DEF DebitInv, Fresh
        <4>4. QED BY <4>2, <4>3
      <3>2. Contract!Conclude(n, "SUCCESS", "RECOVERY_SUCCEEDED") /\ payment' = "RECOVERED"
        BY <2>2, <2>3 DEF SettleSuccess, Commit
      <3>3. Contract!Recover(n)
        BY <3>1, <3>2 DEF Contract!Recover
      <3>4. QED BY <2>1, <3>3 DEF Contract!Step
    <2>4. CASE SettleRetry(w) \/ SettleStop(w)
      <3>1. charges = 0
        BY <1>0, <2>1, <2>4, NothingDebited DEF SettleRetry, SettleStop, Past, Owes
      <3>2. \/ Contract!Conclude(n, "FAILED_RECOVERABLE", "RECOVERY_FAILED")
            \/ Contract!Conclude(n, "FAILED_FINAL", "STOPPED")
        BY <2>2, <2>4 DEF SettleRetry, SettleStop, Commit
      <3>3. payment' = payment
        BY <2>4 DEF SettleRetry, SettleStop
      <3>4. Contract!GiveUp(n)
        BY <3>1, <3>2, <3>3 DEF Contract!GiveUp
      <3>5. QED BY <2>1, <3>4 DEF Contract!Step
    <2>5. QED BY <1>4, <2>3, <2>4 DEF Settle
  <1>5. ASSUME HaltAtBoundary(w) PROVE [Contract!Step]_(Contract!contract)
    <2>1. /\ pc[w] \in { "stop", "escalate" } /\ caseState' \in { "STOPPED", "ESCALATED" }
          /\ ended' = TRUE /\ UNCHANGED <<payment, rows, charges>>
      BY <1>5 DEF HaltAtBoundary, Halt, Return, Goto
    <2>2. charges = 0 /\ ~ended
      BY <1>0, <2>1, NothingDebited DEF Sure, Past, Owes
    <2>3. Contract!CloseCase
      BY <2>1, <2>2 DEF Contract!CloseCase
    <2>4. QED BY <2>3 DEF Contract!Step
  <1>6. QED BY <1>1, <1>2, <1>3, <1>4, <1>5 DEF Advance, Wait

LEMMA ContractNext ==
  ASSUME AnswersKept
  PROVE  ContractInv /\ [Next]_vars => [Contract!Step]_(Contract!contract)
  <1> SUFFICES ASSUME ContractInv, [Next]_vars PROVE [Contract!Step]_(Contract!contract)
    OBVIOUS
  <1> USE DEF store, gateway, world, locals
  <1>1. CASE CustomerPays
    BY <1>1 DEF CustomerPays, Contract!PaidElsewhere, Contract!Step
  <1>2. CASE Expire \/ MerchantOptsOut \/ UNCHANGED vars
    BY <1>2 DEF Expire, MerchantOptsOut, vars, Contract!contract
  <1>3. CASE Replan
    <2>1. PICK s \in Replans : /\ caseState # "ABSENT" /\ caseState' = s
                               /\ ended' = (ended /\ s \in TerminalRecoveryState)
                               /\ UNCHANGED <<payment, rows, charges>>
      BY <1>3 DEF Replan
    <2>2. s \in { "APPROVED", "STOPPED", "ESCALATED" }
      BY ExecutionAssumption
    <2>3. Contract!Replan
      BY <2>1, <2>2
      DEF Contract!Replan, TerminalRecoveryState, Contract!TerminalRecoveryState
    <2> QED BY <2>3 DEF Contract!Step
  <1>4. QED BY <1>1, <1>2, <1>3, ContractStep DEF Next, Environment

\* The executor implements the contract of recovery: whatever workers, requests and
\* faults there are, the rows and the debits change only as one sequential recovery
\* would change them.
THEOREM ExecutionKeepsContract ==
  ASSUME EarlyExpiry = FALSE, LostAnswers = FALSE, "settle" \notin FaultPoints
  PROVE  Spec => KeepsContract
  <1>1. Init => Contract!Begin
    BY ContractBegins
  <1>2. ContractInv /\ [Next]_vars => [Contract!Step]_(Contract!contract)
    BY ContractNext DEF AnswersKept
  <1>3. Spec => []ContractInv
    BY ContractInvariant
  <1>4. QED BY <1>1, <1>2, <1>3, PTL DEF Spec, KeepsContract, Contract!Promise

\* The provider is never called after an execution has recovered the payment or closed
\* the case, as committed at the moment of the call and not as it was read, unless
\* planning has opened the case again; planning may write the case between any two
\* steps, and a halt it commits after the reads of an execution is not seen.
THEOREM CallsOnOpenCase ==
  ASSUME EarlyExpiry = FALSE
  PROVE  Spec => NoCallOnClosedCase
  <1>1. ContractInv /\ [Next]_vars =>
          [calls' # calls => payment # "RECOVERED" /\ ~ended]_vars
    <2> SUFFICES ASSUME ContractInv, Next, calls' # calls
                 PROVE  payment # "RECOVERED" /\ ~ended
      OBVIOUS
    <2> USE DEF store, gateway, world, locals
    <2>1. PICK w \in Workers : CallProvider(w)
      BY DEF Next, Environment, Acquire, Contend, Advance, Wait, Fail, LoadPayment, LoadCase,
             Discard, Continue, Judge, Reserve, FindDuplicate, ViolateConstraint, Settle,
             SettleSuccess, SettleRetry, SettleStop, Commit, Publish, Release, Close,
             HaltAtBoundary, Halt, Claim, Crash, Raise, ReleaseFails, Expire, CustomerPays,
             Replan, MerchantOptsOut
    <2>2. pc[w] = "call"
      BY <2>1 DEF CallProvider, Goto
    <2>3. QED BY <2>2 DEF ContractInv, DebitInv, Fresh, SureInv, Sure, Past
  <1>2. Spec => []ContractInv
    BY ContractInvariant
  <1>3. QED BY <1>1, <1>2, PTL DEF Spec, NoCallOnClosedCase

===============================================================================
