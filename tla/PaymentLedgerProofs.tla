--------------------------- MODULE PaymentLedgerProofs ---------------------------
(***************************************************************************)
(* Proofs about PaymentLedger, for any number of sessions, attempts,       *)
(* reports, crashes and audit records: the writers of the rows share only  *)
(* the unique constraint, and that is enough.  And about the audit trail,  *)
(* for any number of alterations, of any columns, and any clocks: what a   *)
(* chain that verifies shows, and when an untouched one does.              *)
(***************************************************************************)
EXTENDS PaymentLedger, RankingProofs, TLAPS

Executor == writer["executor"]

-------------------------------------------------------------------------------
(* Types *)

Session ==
  [pc : { "idle", "commit", "publish" }, number : 0..MaxAttempt, seen : PaymentState \cup { "NONE" }]
Transaction ==
  [pc : { "idle", "append", "reserve", "pay", "commit" }, number : 0..MaxAttempt,
   result : { "NONE", "APPROVED", "STOPPED", "DISCARDED", "HALTED", "SUCCESS", "RETRY_SCHEDULED" }]

\* TypeOK, and what it needs of the transactions under way: they have a number,
\* and neither the orchestrator nor the executor goes past the limit.
TypeInv ==
  /\ TypeOK
  /\ call \in [Callers -> Session] /\ writer \in [Writers -> Transaction]
  /\ \A c \in Callers : call[c].pc # "idle" => call[c].number \in Numbers
  /\ \A w \in Writers : writer[w].pc # "idle" => writer[w].number \in Numbers
  /\ writer["orchestrator"].pc # "idle" => writer["orchestrator"].number \in failed
  /\ writer["orchestrator"].result = "APPROVED" => writer["orchestrator"].number < MaxAttempt
  /\ Executor.pc = "reserve" => Executor.result = "NONE"
  /\ Executor.result = "RETRY_SCHEDULED" => reserved < MaxAttempt

LEMMA NumberTypes ==
  /\ MaxAttempt \in Nat
  /\ \A n \in Numbers : n \in 0..MaxAttempt
  /\ \A n \in Numbers : n # 0
  /\ \A n \in Numbers : n < MaxAttempt => n + 1 \in Numbers
  <1>1. MaxAttempt \in Nat
    BY LedgerAssumption
  <1>2. QED BY <1>1 DEF Numbers

LEMMA TypeStart == Init => TypeInv
  <1> SUFFICES ASSUME Init PROVE TypeInv
    OBVIOUS
  <1>1. payment \in PaymentState
    BY DEF Init, PaymentState
  <1>2. 0 \in 0..MaxAttempt
    BY NumberTypes
  <1>3. \A w \in Writers : writer[w].pc = "idle" /\ writer[w].result = "NONE"
    BY DEF Init, NoTx
  <1>4. \A c \in Callers : call[c].pc = "idle"
    BY DEF Init, NoCall
  <1>5. TypeOK
    BY <1>1, <1>2, <1>3, <1>4 DEF Init, TypeOK
  <1>6. NoTx \in Transaction
    BY <1>2 DEF NoTx, Transaction
  <1>7. writer \in [Writers -> Transaction] /\ call \in [Callers -> Session]
    BY <1>2, <1>6 DEF Init, NoCall, Session
  <1>8. QED BY <1>3, <1>4, <1>5, <1>7 DEF Init, TypeInv, Executor, Writers

\* Between the flush of the executor's row and its commit nobody has a row of that
\* number; a debit has such a row, or is the one about to be committed.
NumbersInv ==
  /\ reserved = 0 => Executor.pc # "pay"
  /\ reserved # 0 =>
       /\ Executor.pc \in { "pay", "append", "commit" }
       /\ ~Taken(reserved)
  /\ \A a, b \in attempts : a.number = b.number => a = b
  /\ \A n \in debits :
       \/ \E a \in attempts : a.number = n /\ a.keyed /\ a.status = "SUCCESS"
       \/ /\ n = reserved /\ reserved # 0
        /\ Executor.pc \in { "append", "commit" } /\ Executor.result = "SUCCESS"

\* The steps that touch neither the attempts nor what the executor is about to do.
LEMMA NumbersQuiet ==
  ASSUME NumbersInv, UNCHANGED <<attempts, reserved, debits>>,
         writer'["executor"] = writer["executor"]
  PROVE  NumbersInv'
  BY DEF NumbersInv, Taken, Executor

\* A writer changes its own position only.
LEMMA OtherWriter ==
  ASSUME NEW x, writer' = [writer EXCEPT !["orchestrator"] = x]
  PROVE  writer'["executor"] = writer["executor"]
  OBVIOUS

LEMMA NumbersStep == TypeInv /\ NumbersInv /\ [Next]_vars => NumbersInv'
  <1> SUFFICES ASSUME TypeInv, NumbersInv, [Next]_vars PROVE NumbersInv'
    OBVIOUS
  <1>0. DOMAIN writer = Writers /\ Executor \in Transaction
    BY DEF TypeInv, Executor, Writers
  <1> USE DEF rows, audit, sessions, events, bounds
  <1>1. ASSUME NEW c \in Callers, CommitReport(c) PROVE NumbersInv'
    <2> DEFINE n == call[c].number
               row == [number |-> n, keyed |-> FALSE, status |-> "FAILED"]
    <2>1. /\ reserved # n /\ ~Taken(n)
          /\ attempts' = attempts \cup {row}
          /\ UNCHANGED <<writer, reserved, debits>>
      BY <1>1 DEF CommitReport
    <2>2. row.number = n
      OBVIOUS
    <2> HIDE DEF n, row
    <2>3. QED BY <2>1, <2>2 DEF NumbersInv, Taken, Executor
  <1>2. ASSUME NEW c \in Callers,
               Report(c) \/ ReportRefused(c) \/ PublishReport(c) \/ CrashCaller(c)
        PROVE  NumbersInv'
    BY <1>2, NumbersQuiet DEF Report, ReportRefused, PublishReport, CrashCaller
  <1>3. ASSUME NEW w \in Writers, Append_(w) PROVE NumbersInv'
    <2>1. CASE w = "orchestrator"
      BY <1>3, <2>1, NumbersQuiet DEF Append_
    <2>2. CASE w = "executor"
      BY <1>0, <1>3, <2>2 DEF Append_, NumbersInv, Taken, Executor
    <2>3. QED BY <2>1, <2>2 DEF Writers
  <1>4. ASSUME NEW w \in Writers, CrashWriter(w) PROVE NumbersInv'
    <2>1. CASE w = "orchestrator"
      BY <1>4, <2>1, NumbersQuiet DEF CrashWriter, Finish
    <2>2. CASE w = "executor"
      <3>1. /\ reserved' = 0 /\ writer'["executor"].pc = "idle"
            /\ UNCHANGED <<attempts, debits>>
            /\ reserved # 0 => Executor.pc = "pay"
        BY <1>0, <1>4, <2>2 DEF CrashWriter, Finish, NoTx, Executor
      <3>2. QED BY <3>1 DEF NumbersInv, Executor
    <2>3. QED BY <2>1, <2>2 DEF Writers
  <1>5. CASE Orchestrate
    BY <1>5, NumbersQuiet DEF Orchestrate
  <1>6. CASE CommitDecision
    BY <1>6, NumbersQuiet DEF CommitDecision, Finish
  <1>7. CASE Execute
    BY <1>0, <1>7 DEF Execute, NumbersInv, Taken, Executor, Writers
  <1>8. CASE Reserve
    <2>1. /\ Executor.pc = "reserve" /\ Executor.result = "NONE"
          /\ reserved' = Executor.number /\ reserved' # 0 /\ ~Taken(Executor.number)
          /\ writer'["executor"].pc = "pay" /\ writer'["executor"].result = "NONE"
          /\ UNCHANGED <<attempts, debits>>
      BY <1>0, <1>8, NumberTypes DEF Reserve, TypeInv, Executor, Writers
    <2>2. QED BY <2>1 DEF NumbersInv, Taken, Executor
  <1>9. CASE ReserveRefused
    <2>1. /\ Executor.pc = "reserve" /\ writer'["executor"].pc = "idle"
          /\ UNCHANGED <<attempts, debits, reserved>>
      BY <1>0, <1>9 DEF ReserveRefused, Finish, NoTx, Executor, Writers
    <2>2. QED BY <2>1 DEF NumbersInv, Executor
  <1>10. CASE Pay
    <2>1. PICK result \in { "SUCCESS", "RETRY_SCHEDULED", "STOPPED" } :
            /\ debits' = IF result = "SUCCESS" THEN debits \cup {reserved} ELSE debits
            /\ writer' = [writer EXCEPT !["executor"] = [@ EXCEPT !.pc = "append", !.result = result]]
      BY <1>10 DEF Pay
    <2>2. /\ writer'["executor"].pc = "append" /\ writer'["executor"].result = result
          /\ Executor.pc = "pay" /\ UNCHANGED <<attempts, reserved>>
      <3>1. writer'["executor"] = [Executor EXCEPT !.pc = "append", !.result = result]
        BY <1>0, <2>1 DEF Executor, Writers
      <3>2. "pc" \in DOMAIN Executor /\ "result" \in DOMAIN Executor
        BY <1>0 DEF Transaction
      <3>3. QED BY <1>10, <3>1, <3>2 DEF Pay, Executor
    <2>3. reserved # 0 /\ ~Taken(reserved)
      BY <2>2 DEF NumbersInv
    <2>4. \A n \in debits : \E a \in attempts : a.number = n /\ a.keyed /\ a.status = "SUCCESS"
      BY <2>2 DEF NumbersInv
    <2>5. \A n \in debits' : n \in debits \/ (n = reserved /\ result = "SUCCESS")
      BY <2>1
    <2>6. \A n \in debits' :
            \/ \E a \in attempts' : a.number = n /\ a.keyed /\ a.status = "SUCCESS"
            \/ n = reserved' /\ reserved' # 0 /\ result = "SUCCESS"
      BY <2>2, <2>3, <2>4, <2>5
    <2>7. Taken(reserved)' = Taken(reserved)
      BY <2>2 DEF Taken
    <2>8. \A a, b \in attempts' : a.number = b.number => a = b
      BY <2>2 DEF NumbersInv
    <2>9. QED BY <2>2, <2>3, <2>6, <2>7, <2>8 DEF NumbersInv, Executor
  <1>11. CASE CommitDiscard
    <2>1. /\ reserved = 0 /\ writer'["executor"].pc = "idle"
          /\ UNCHANGED <<attempts, debits, reserved>>
      BY <1>0, <1>11 DEF CommitDiscard, Finish, NoTx, Executor, Writers
    <2>2. QED BY <2>1 DEF NumbersInv, Executor
  <1>12. CASE CommitOutcome
    <2> DEFINE row == [number |-> reserved, keyed |-> TRUE,
                       status |-> IF Executor.result = "SUCCESS" THEN "SUCCESS" ELSE "FAILED"]
    <2>1. /\ reserved # 0 /\ reserved' = 0 /\ attempts' = attempts \cup {row}
          /\ writer'["executor"].pc = "idle" /\ UNCHANGED debits
      BY <1>0, <1>12 DEF CommitOutcome, Finish, NoTx, Executor, Writers
    <2>2. row.number = reserved /\ row.keyed
          /\ (Executor.result = "SUCCESS" => row.status = "SUCCESS")
      OBVIOUS
    <2> HIDE DEF row
    <2>3. ~Taken(reserved)
      BY <2>1 DEF NumbersInv
    <2>4. \A a, b \in attempts' : a.number = b.number => a = b
      BY <2>1, <2>2, <2>3 DEF NumbersInv, Taken
    <2>5. \A n \in debits' : \E a \in attempts' : a.number = n /\ a.keyed /\ a.status = "SUCCESS"
      BY <2>1, <2>2 DEF NumbersInv
    <2>6. QED BY <2>1, <2>4, <2>5 DEF NumbersInv, Executor
  <1>13. CASE Alter
    BY <1>13, NumbersQuiet DEF Alter
  <1>14. CASE UNCHANGED vars
    BY <1>14, NumbersQuiet DEF vars
  <1>15. QED
    BY <1>1, <1>2, <1>3, <1>4, <1>5, <1>6, <1>7, <1>8, <1>9, <1>10, <1>11, <1>12, <1>13, <1>14
    DEF Next

LEMMA TypeStep == TypeInv /\ NumbersInv /\ [Next]_vars => TypeInv'
  <1> SUFFICES ASSUME TypeInv, NumbersInv, [Next]_vars PROVE TypeInv'
    OBVIOUS
  <1> USE NumberTypes DEF rows, audit, sessions, events, bounds
  <1>0. /\ TypeOK /\ call \in [Callers -> Session] /\ writer \in [Writers -> Transaction]
        /\ Executor \in Transaction /\ writer["orchestrator"] \in Transaction
    BY DEF TypeInv, Executor, Writers
  <1>1. ASSUME NEW c \in Callers, Report(c) PROVE TypeInv'
    BY <1>0, <1>1 DEF Report, TypeInv, TypeOK, Session, Executor
  <1>2. ASSUME NEW c \in Callers, CommitReport(c) PROVE TypeInv'
    <2>1. call[c].number \in Numbers
      BY <1>2 DEF CommitReport, TypeInv
    <2>2. [number |-> call[c].number, keyed |-> FALSE, status |-> "FAILED"]
            \in [number : Numbers, keyed : BOOLEAN, status : {"SUCCESS", "FAILED"}]
      BY <2>1
    <2>3. payment' \in PaymentState
      BY <1>0, <1>2 DEF CommitReport, TypeOK, PaymentState
    <2>4. /\ attempts' \subseteq [number : Numbers, keyed : BOOLEAN, status : {"SUCCESS", "FAILED"}]
          /\ failures' \subseteq Numbers
      BY <1>0, <1>2, <2>1, <2>2 DEF CommitReport, TypeOK
    <2> DEFINE next == [call[c] EXCEPT !.pc = "publish"]
    <2>5. next \in Session /\ next.pc = "publish" /\ next.number = call[c].number
      BY <1>0 DEF Session
    <2>6. call' = [call EXCEPT ![c] = next]
      BY <1>2 DEF CommitReport, CallAt
    <2> HIDE DEF next
    <2>7. \A k \in Callers : k # c => call'[k] = call[k]
      BY <1>0, <2>6
    <2>8. call' \in [Callers -> Session] /\ call'[c] = next
      BY <1>0, <2>5, <2>6
    <2>9. \A k \in Callers : call'[k].pc \in { "idle", "commit", "publish" }
      BY <1>0, <2>5, <2>7, <2>8 DEF TypeOK
    <2>10. \A k \in Callers : call'[k].pc # "idle" => call'[k].number \in Numbers
      BY <1>0, <2>1, <2>5, <2>7, <2>8 DEF TypeInv
    <2>11. UNCHANGED <<open, writer, reserved, debits, failed, requested, decided, overlapped>>
      BY <1>2 DEF CommitReport
    <2>12. QED BY <1>0, <2>3, <2>4, <2>11, <2>8, <2>9, <2>10 DEF TypeInv, TypeOK, Executor
  <1>3. ASSUME NEW c \in Callers, ReportRefused(c) \/ PublishReport(c) \/ CrashCaller(c)
        PROVE  TypeInv'
    BY <1>0, <1>3 DEF ReportRefused, PublishReport, CrashCaller, NoCall, TypeInv, TypeOK, Session, Executor
  <1>4. ASSUME NEW w \in Writers, Append_(w) PROVE TypeInv'
    BY <1>0, <1>4 DEF Append_, TypeInv, TypeOK, Transaction, Executor, Writers
  <1>5. ASSUME NEW w \in Writers, CrashWriter(w) PROVE TypeInv'
    BY <1>0, <1>5 DEF CrashWriter, Finish, NoTx, TypeInv, TypeOK, Transaction, Executor, Writers
  <1>6. CASE Orchestrate
    BY <1>0, <1>6 DEF Orchestrate, TypeInv, TypeOK, Transaction, Executor, Writers
  <1>7. CASE CommitDecision
    <2> DEFINE tx == writer["orchestrator"]
    <2>1. /\ tx.pc = "commit" /\ tx.number \in Numbers
          /\ tx.result = "APPROVED" => tx.number + 1 \in Numbers
      BY <1>7, NumberTypes DEF CommitDecision, TypeInv, Writers
    <2>2. /\ writer'["orchestrator"] = NoTx /\ writer'["executor"] = writer["executor"]
          /\ writer' \in [Writers -> Transaction]
      BY <1>0, <1>7 DEF CommitDecision, Finish, NoTx, Transaction, Writers
    <2>3. /\ requested' \subseteq Numbers
          /\ open' \in BOOLEAN
      BY <1>0, <1>7, <2>1 DEF CommitDecision, TypeOK
    <2>4. overlapped' \in BOOLEAN
      BY <1>0, <1>7 DEF CommitDecision, CommitRecord, TypeOK
    <2>5. UNCHANGED <<payment, attempts, failures, call, reserved, debits, failed>>
      BY <1>7 DEF CommitDecision
    <2>6. decided' \subseteq failed'
      BY <1>0, <1>7, <2>5 DEF CommitDecision, TypeInv, TypeOK
    <2>7. QED
      BY <1>0, <2>2, <2>3, <2>4, <2>5, <2>6 DEF TypeInv, TypeOK, NoTx, Transaction, Executor, Writers
  <1>8. CASE Execute
    BY <1>0, <1>8 DEF Execute, TypeInv, TypeOK, Transaction, Executor, Writers
  <1>9. CASE Reserve
    BY <1>0, <1>9 DEF Reserve, TypeInv, TypeOK, Transaction, Executor, Writers
  <1>10. CASE ReserveRefused
    BY <1>0, <1>10 DEF ReserveRefused, Finish, NoTx, TypeInv, TypeOK, Transaction, Executor, Writers
  <1>11. CASE Pay
    <2>1. PICK result \in { "SUCCESS", "RETRY_SCHEDULED", "STOPPED" } :
            /\ result = "RETRY_SCHEDULED" => reserved < MaxAttempt
            /\ debits' = IF result = "SUCCESS" THEN debits \cup {reserved} ELSE debits
            /\ writer' = [writer EXCEPT !["executor"] = [@ EXCEPT !.pc = "append", !.result = result]]
      BY <1>11 DEF Pay
    <2>2. /\ Executor.pc = "pay" /\ reserved \in Numbers
          /\ UNCHANGED <<rows, audit, call, reserved, events>>
      BY <1>0, <1>11 DEF Pay, NumbersInv, TypeOK, Executor, Numbers
    <2>3. debits' \subseteq Numbers
      BY <1>0, <2>1, <2>2 DEF TypeOK
    <2>4. [Executor EXCEPT !.pc = "append", !.result = result] \in Transaction
      BY <1>0 DEF Transaction
    <2>5. /\ writer' \in [Writers -> Transaction]
          /\ writer'["executor"] = [Executor EXCEPT !.pc = "append", !.result = result]
          /\ writer'["orchestrator"] = writer["orchestrator"]
      BY <1>0, <2>1, <2>4 DEF Executor, Writers
    <2>6. /\ writer'["executor"].pc = "append" /\ writer'["executor"].result = result
          /\ writer'["executor"].number = Executor.number
      BY <1>0, <2>5 DEF Transaction
    <2>7. Executor.number \in Numbers
      BY <2>2 DEF TypeInv, Executor, Writers
    <2>8. TypeOK'
      BY <1>0, <2>2, <2>3, <2>5 DEF TypeOK, Transaction, Writers
    <2>9. QED BY <1>0, <2>1, <2>2, <2>5, <2>6, <2>7, <2>8 DEF TypeInv, Executor, Writers
  <1>12. CASE CommitDiscard
    BY <1>0, <1>12 DEF CommitDiscard, CommitRecord, Finish, NoTx, TypeInv, TypeOK, Transaction, Executor, Writers
  <1>13. CASE CommitOutcome
    <2> DEFINE status == IF Executor.result = "SUCCESS" THEN "SUCCESS" ELSE "FAILED"
    <2>1. /\ reserved \in Numbers
          /\ Executor.result = "RETRY_SCHEDULED" => reserved + 1 \in Numbers
      BY <1>0, <1>13 DEF CommitOutcome, TypeInv, TypeOK, Numbers
    <2>2. [number |-> reserved, keyed |-> TRUE, status |-> status]
            \in [number : Numbers, keyed : BOOLEAN, status : {"SUCCESS", "FAILED"}]
      BY <2>1
    <2>3. attempts' = attempts \cup {[number |-> reserved, keyed |-> TRUE, status |-> status]}
      BY <1>13 DEF CommitOutcome, Executor
    <2>4. attempts' \subseteq [number : Numbers, keyed : BOOLEAN, status : {"SUCCESS", "FAILED"}]
      BY <1>0, <2>2, <2>3 DEF TypeOK
    <2>5. /\ failures' \subseteq Numbers /\ requested' \subseteq Numbers
          /\ open' \in BOOLEAN /\ reserved' = 0
      BY <1>0, <1>13, <2>1 DEF CommitOutcome, TypeOK, Executor
    <2>6. payment' \in PaymentState
      BY <1>0, <1>13 DEF CommitOutcome, TypeOK, PaymentState
    <2>7. overlapped' \in BOOLEAN
      BY <1>0, <1>13 DEF CommitOutcome, CommitRecord, TypeOK
    <2>8. /\ writer'["executor"] = NoTx /\ writer'["orchestrator"] = writer["orchestrator"]
          /\ writer' \in [Writers -> Transaction]
      BY <1>0, <1>13 DEF CommitOutcome, Finish, NoTx, Transaction, Writers
    <2>9. UNCHANGED <<call, debits, failed, decided>>
      BY <1>13 DEF CommitOutcome
    <2>10. QED
      BY <1>0, <2>4, <2>5, <2>6, <2>7, <2>8, <2>9
      DEF TypeInv, TypeOK, NoTx, Transaction, Executor, Writers
  <1>14. CASE Alter
    BY <1>0, <1>14 DEF Alter, TypeInv, TypeOK, Executor
  <1>15. CASE UNCHANGED vars
    BY <1>0, <1>15 DEF vars, TypeInv, TypeOK, Executor
  <1>16. QED
    BY <1>1, <1>2, <1>3, <1>4, <1>5, <1>6, <1>7, <1>8, <1>9, <1>10, <1>11, <1>12, <1>13, <1>14, <1>15
    DEF Next

\* An announced failure, and the one before a requested retry, have their rows; so
\* has what a caller is about to announce.
EventsInv ==
  /\ failed \subseteq failures
  /\ \A n \in requested : n - 1 \in failures
  /\ \A n \in failures : \E a \in attempts : a.number = n /\ a.status = "FAILED"
  /\ \A c \in Callers : call[c].pc = "publish" => call[c].number \in failures

LEMMA EventsStep == TypeInv /\ EventsInv /\ [Next]_vars => EventsInv'
  <1> SUFFICES ASSUME TypeInv, EventsInv, [Next]_vars PROVE EventsInv'
    OBVIOUS
  <1> USE DEF rows, audit, sessions, events, bounds
  <1>0. TypeOK /\ DOMAIN call = Callers /\ call \in [Callers -> Session]
    BY DEF TypeInv
  <1>1. ASSUME NEW c \in Callers, CommitReport(c) PROVE EventsInv'
    <2> DEFINE n == call[c].number
               row == [number |-> n, keyed |-> FALSE, status |-> "FAILED"]
    <2>1. row.number = n /\ row.status = "FAILED"
      OBVIOUS
    <2>2. /\ attempts' = attempts \cup {row} /\ failures' = failures \cup {n}
          /\ UNCHANGED <<failed, requested>>
          /\ call' = [call EXCEPT ![c].pc = "publish"]
      BY <1>1 DEF CommitReport, CallAt
    <2>3. /\ call'[c].number = n
          /\ \A k \in Callers : k # c => call'[k] = call[k]
      BY <1>0, <2>2 DEF Session
    <2> HIDE DEF n, row
    <2>4. QED BY <2>1, <2>2, <2>3 DEF EventsInv
  <1>2. ASSUME NEW c \in Callers, Report(c) \/ ReportRefused(c) \/ CrashCaller(c)
        PROVE  EventsInv'
    BY <1>0, <1>2 DEF Report, ReportRefused, CrashCaller, NoCall, EventsInv
  <1>3. ASSUME NEW c \in Callers, PublishReport(c) PROVE EventsInv'
    BY <1>0, <1>3 DEF PublishReport, NoCall, EventsInv
  <1>4. CASE CommitDecision
    <2> DEFINE n == writer["orchestrator"].number
    <2>1. /\ requested' \subseteq requested \cup {n + 1}
          /\ UNCHANGED <<attempts, failures, failed, call>>
      BY <1>4 DEF CommitDecision
    <2>2. n \in Numbers /\ n \in failed
      BY <1>4 DEF CommitDecision, TypeInv, Writers
    <2>3. (n + 1) - 1 = n
      BY <2>2, NumberTypes DEF Numbers
    <2> HIDE DEF n
    <2>4. QED BY <2>1, <2>2, <2>3 DEF EventsInv
  <1>5. CASE CommitOutcome
    <2> DEFINE row == [number |-> reserved, keyed |-> TRUE,
                       status |-> IF Executor.result = "SUCCESS" THEN "SUCCESS" ELSE "FAILED"]
    <2>1. /\ row.number = reserved
          /\ Executor.result # "SUCCESS" => row.status = "FAILED"
      OBVIOUS
    <2>2. /\ attempts' = attempts \cup {row}
          /\ failures' = IF Executor.result = "SUCCESS" THEN failures ELSE failures \cup {reserved}
          /\ requested' = IF Executor.result = "RETRY_SCHEDULED"
                          THEN requested \cup {reserved + 1} ELSE requested
          /\ UNCHANGED <<failed, call>>
      BY <1>5 DEF CommitOutcome, Executor
    <2>3. (reserved + 1) - 1 = reserved
      BY <1>0, NumberTypes DEF TypeOK
    <2> HIDE DEF row
    <2>4. QED BY <2>1, <2>2, <2>3 DEF EventsInv
  <1>6. CASE \/ \E w \in Writers : Append_(w) \/ CrashWriter(w)
             \/ Orchestrate \/ Execute \/ Reserve \/ ReserveRefused \/ Pay \/ CommitDiscard
             \/ Alter \/ UNCHANGED vars
    <2>1. UNCHANGED <<attempts, failures, failed, requested, call>>
      BY <1>6 DEF Append_, CrashWriter, Orchestrate, Execute, Reserve, ReserveRefused, Pay,
                  CommitDiscard, Alter, vars
    <2>2. QED BY <2>1 DEF EventsInv
  <1>7. QED BY <1>1, <1>2, <1>3, <1>4, <1>5, <1>6 DEF Next

-------------------------------------------------------------------------------
(* Numbers, rows and events: the theorems *)

LedgerInv == TypeInv /\ NumbersInv /\ EventsInv

LEMMA LedgerInvariant == Spec => []LedgerInv
  <1>1. Init => LedgerInv
    <2> SUFFICES ASSUME Init PROVE LedgerInv
      OBVIOUS
    <2>1. TypeInv
      BY TypeStart
    <2>2. NumbersInv
      BY DEF Init, NoTx, NumbersInv, Executor, Writers
    <2>3. EventsInv
      BY DEF Init, NoCall, EventsInv
    <2>4. QED BY <2>1, <2>2, <2>3 DEF LedgerInv
  <1>2. LedgerInv /\ [Next]_vars => LedgerInv'
    BY TypeStep, NumbersStep, EventsStep DEF LedgerInv
  <1>3. QED BY <1>1, <1>2, PTL DEF Spec

\* Attempts, failures and events have numbers within the limit, and a decision is
\* only stored of a failure that was published.
THEOREM LedgerTypes == Spec => []TypeOK
  <1>1. LedgerInv => TypeOK
    BY DEF LedgerInv, TypeInv
  <1>2. QED BY <1>1, LedgerInvariant, PTL

\* The payment service and the executor count the attempts of a payment without a
\* lock in common and never use a number twice, and what the service has reported
\* as failed is never debited (app/execution/idempotency.py:89).
THEOREM OneCountOfAttempts == Spec => []NumbersAreShared
  <1>1. LedgerInv => NumbersAreShared
    <2> SUFFICES ASSUME NumbersInv PROVE NumbersAreShared
      BY DEF LedgerInv
    <2>1. ASSUME NEW a \in attempts, a.number \in debits PROVE a.keyed /\ a.status = "SUCCESS"
      <3>1. a.number # reserved \/ reserved = 0
        BY DEF NumbersInv, Taken
      <3>2. PICK b \in attempts : b.number = a.number /\ b.keyed /\ b.status = "SUCCESS"
        BY <2>1, <3>1 DEF NumbersInv
      <3>3. a = b
        BY <3>2 DEF NumbersInv
      <3>4. QED BY <3>2, <3>3
    <2>2. QED BY <2>1 DEF NumbersInv, NumbersAreShared
  <1>2. QED BY <1>1, LedgerInvariant, PTL

\* What payment.failed and payment.retry_requested announce has its rows.
THEOREM EventsHaveRows == Spec => []EventsReportRows
  <1>1. LedgerInv => EventsReportRows
    BY DEF LedgerInv, EventsInv, EventsReportRows
  <1>2. QED BY <1>1, LedgerInvariant, PTL

-------------------------------------------------------------------------------
(* The chain *)

LEMMA HashTakesApart ==
  /\ \A a, b, c, d : Hash(a, b) = Hash(c, d) => a = c /\ b = d
  /\ \A a, b : Hash(a, b) # Genesis
  <1>1. ASSUME NEW a, NEW b, NEW c, NEW d, Hash(a, b) = Hash(c, d) PROVE a = c /\ b = d
    BY <1>1 DEF Hash
  <1>2. ASSUME NEW a, NEW b PROVE Hash(a, b) # Genesis
    <2>1. Len(<<a, b>>) = 2 /\ Len(<< >>) = 0
      OBVIOUS
    <2>2. QED BY <2>1 DEF Hash, Genesis
  <1>3. QED BY <1>1, <1>2

LEMMA CanonicalTakesApart ==
  \A r, h : Canonical(r) = Canonical(h) =>
              r.id = h.id /\ r.timestamp = h.timestamp /\ r.content = h.content
  <1> SUFFICES ASSUME NEW r, NEW h, Canonical(r) = Canonical(h)
               PROVE  r.id = h.id /\ r.timestamp = h.timestamp /\ r.content = h.content
    OBVIOUS
  <1>1. \A x : /\ Canonical(x).id = x.id /\ Canonical(x).timestamp = x.timestamp
               /\ Canonical(x).content = x.content
    BY DEF Canonical
  <1>2. QED BY <1>1

Columns == { "id", "timestamp", "content", "note", "parent", "hash" }

LEMMA AppendedFields ==
  ASSUME NEW id, NEW t, NEW c, NEW p
  PROVE  LET x == Appended(id, t, c, p)
         IN  /\ DOMAIN x = Columns
             /\ x.id = id /\ x.timestamp = t /\ x.content = c /\ x.parent = p
             /\ x.hash = Hash(Canonical(x), p)
  BY DEF Appended, Canonical, Columns

\* The order of the trail, as a set of pairs.
Order(T) == { e \in T \X T : Before(e[1], e[2]) }

\* Records that can be put in order: no two have the same identifier.
Sortable(T) ==
  /\ IsFiniteSet(T)
  /\ \A r \in T : r.id \in Int /\ r.timestamp \in Int
  /\ \A r, s \in T : r.id = s.id => r = s

LEMMA OrderTotal ==
  ASSUME NEW T, Sortable(T)
  PROVE  /\ \A r, s \in T : <<r, s>> \in Order(T) <=> Before(r, s)
         /\ TotalOn(Order(T), T)
  <1>1. \A r, s \in T : <<r, s>> \in Order(T) <=> Before(r, s)
    BY DEF Order
  <1>2. \A r \in T : ~Before(r, r)
    BY DEF Before, Sortable
  <1>3. \A r, s, u \in T : Before(r, s) /\ Before(s, u) => Before(r, u)
    BY DEF Before, Sortable
  <1>4. \A r, s \in T : r # s => Before(r, s) \/ Before(s, r)
    BY DEF Before, Sortable
  <1>5. QED BY <1>1, <1>2, <1>3, <1>4 DEF TotalOn

\* ORDER BY: every record has its place, and the places are in the order.
LEMMA InOrderSorts ==
  ASSUME NEW T, Sortable(T)
  PROVE  /\ Cardinality(T) \in Nat
         /\ DOMAIN InOrder(T) = 1..Cardinality(T) /\ Len(InOrder(T)) = Cardinality(T)
         /\ \A i \in 1..Cardinality(T) : InOrder(T)[i] \in T
         /\ \A r \in T : \E i \in 1..Cardinality(T) : InOrder(T)[i] = r
         /\ \A i, j \in 1..Cardinality(T) : i < j => Before(InOrder(T)[i], InOrder(T)[j])
  <1> DEFINE R == Order(T)
             n == Cardinality(T)
  <1>1. n \in Nat /\ IsFiniteSet(T)
    BY FS_CardinalityType DEF Sortable
  <1>2. \A x \in T : Rank(R, T, x) = Cardinality({ y \in T : Before(y, x) })
    <2> TAKE x \in T
    <2>1. Earlier(R, T, x) = { y \in T : Before(y, x) }
      BY OrderTotal DEF Earlier
    <2>2. QED BY <2>1 DEF Rank
  <1>3. TotalOn(R, T)
    BY OrderTotal
  <1>4. ASSUME NEW i \in 1..n
        PROVE  InOrder(T)[i] \in T /\ Rank(R, T, InOrder(T)[i]) = i - 1
    <2>1. i - 1 \in 0..(Cardinality(T) - 1)
      BY <1>1
    <2> HIDE DEF R
    <2>2. \E x \in T : Cardinality({ y \in T : Before(y, x) }) = i - 1
      BY <1>1, <1>2, <1>3, <2>1, RankTaken
    <2>3. InOrder(T)[i] = CHOOSE x \in T : Cardinality({ y \in T : Before(y, x) }) = i - 1
      BY DEF InOrder, Sorted, Nth
    <2>4. QED BY <1>2, <2>2, <2>3
  <1>5. DOMAIN InOrder(T) = 1..n
    BY DEF InOrder, Sorted
  <1>6. /\ \A r \in T : \E i \in 1..n : InOrder(T)[i] = r
        /\ \A i, j \in 1..n : i < j => <<InOrder(T)[i], InOrder(T)[j]>> \in R
    <2> HIDE DEF R
    <2>1. QED BY <1>1, <1>3, <1>4, SortedByRank
  <1>7. \A i, j \in 1..n : i < j => Before(InOrder(T)[i], InOrder(T)[j])
    BY <1>4, <1>6, OrderTotal
  <1>8. InOrder(T) \in Seq(T)
    <2>1. InOrder(T) = [i \in 1..n |-> InOrder(T)[i]]
      BY DEF InOrder, Sorted
    <2>2. QED BY <1>1, <1>4, <2>1
  <1>9. Len(InOrder(T)) = n
    BY <1>1, <1>5, <1>8
  <1>10. QED BY <1>1, <1>4, <1>5, <1>6, <1>7, <1>9

\* Numbers that break a rule have a least one.
LEMMA LeastBreach ==
  ASSUME NEW B \in SUBSET Nat, B # {}
  PROVE  \E k \in B : \A j \in B : ~(j < k)
  <1>1. \A i, j \in Nat : j < i => <<j, i>> \in OpToRel(<, Nat)
    BY DEF OpToRel
  <1>2. PICK k \in B : \A j \in B : ~(<<j, k>> \in OpToRel(<, Nat))
    BY NatLessThanWellFounded, WFMin
  <1>3. QED BY <1>1, <1>2

-------------------------------------------------------------------------------
(* What a chain that verifies shows *)

LEMMA HashAgrees ==
  ASSUME NEW r, NEW h, r.hash = h.hash,
         r.hash = Hash(Canonical(r), r.parent), h.hash = Hash(Canonical(h), h.parent)
  PROVE  Agree(r, h)
  <1>1. Hash(Canonical(r), r.parent) = Hash(Canonical(h), h.parent)
    OBVIOUS
  <1>2. Canonical(r) = Canonical(h) /\ r.parent = h.parent
    BY <1>1, HashTakesApart
  <1>3. QED BY <1>2, CanonicalTakesApart DEF Agree

IsList(s) == Len(s) \in Nat /\ DOMAIN s = 1..Len(s)

LEMMA VerifiedAt ==
  ASSUME NEW s, IsList(s), Verified(s), NEW i \in 1..Len(s)
  PROVE  /\ s[i].hash = Hash(Canonical(s[i]), s[i].parent) /\ s[i].hash # Genesis
         /\ i = 1 => s[i].parent = Genesis
         /\ i # 1 => i - 1 \in 1..Len(s) /\ s[i].parent = s[i - 1].hash
  <1>1. i \in DOMAIN s
    BY DEF IsList
  <1>2. Linked(s, i) /\ s[i].hash = Hash(Canonical(s[i]), s[i].parent)
    BY <1>1 DEF Verified
  <1>3. i # 1 => i - 1 \in 1..Len(s)
    BY DEF IsList
  <1>4. QED BY <1>2, <1>3, HashTakesApart DEF Linked

\* Two chains that verify and have a hash in common agree from there down to the first
\* record, at the same places.
LEMMA ChainsAgree ==
  ASSUME NEW s, NEW t, IsList(s), IsList(t), Verified(s), Verified(t),
         NEW i \in 1..Len(s), NEW j \in 1..Len(t), s[i].hash = t[j].hash
  PROVE  i = j /\ \A q \in 1..i : Agree(s[q], t[q])
  <1>0. Len(s) \in Nat /\ Len(t) \in Nat /\ i \in Nat /\ j \in Nat
    BY DEF IsList
  <1>1. \A d \in Nat : d < i /\ d < j => s[i - d].hash = t[j - d].hash
    <2> DEFINE B == { d \in Nat : d < i /\ d < j /\ s[i - d].hash # t[j - d].hash }
    <2> SUFFICES ASSUME B # {} PROVE FALSE
      OBVIOUS
    <2>1. B \in SUBSET Nat
      OBVIOUS
    <2>2. PICK d \in B : \A e \in B : ~(e < d)
      BY <2>1, LeastBreach
    <2>3. d \in Nat /\ d < i /\ d < j /\ s[i - d].hash # t[j - d].hash
      OBVIOUS
    <2>4. d # 0
      BY <1>0, <2>3
    <2> DEFINE p == i - (d - 1)
               q == j - (d - 1)
    <2>5. /\ d - 1 \in Nat /\ d - 1 < d /\ d - 1 < i /\ d - 1 < j
          /\ p \in 1..Len(s) /\ q \in 1..Len(t) /\ p # 1 /\ q # 1
          /\ p - 1 = i - d /\ q - 1 = j - d
      BY <1>0, <2>3, <2>4
    <2>6. s[p].hash = t[q].hash
      <3>1. ~(d - 1 \in B)
        <4> HIDE DEF B
        <4>1. QED BY <2>2, <2>5
      <3>2. QED BY <2>5, <3>1
    <2> HIDE DEF B, p, q
    <2>7. /\ s[p].hash = Hash(Canonical(s[p]), s[p].parent) /\ s[p].parent = s[p - 1].hash
          /\ t[q].hash = Hash(Canonical(t[q]), t[q].parent) /\ t[q].parent = t[q - 1].hash
      BY <2>5, VerifiedAt
    <2>8. s[p].parent = t[q].parent
      BY <2>6, <2>7, HashAgrees DEF Agree
    <2>9. QED BY <2>3, <2>5, <2>7, <2>8
  <1>2. i = j
    <2>1. ASSUME i < j PROVE FALSE
      <3> DEFINE q == j - (i - 1)
      <3>1. /\ i - 1 \in Nat /\ i - 1 < i /\ i - 1 < j /\ i - (i - 1) = 1
            /\ q \in 1..Len(t) /\ q # 1 /\ 1 \in 1..Len(s)
        BY <1>0, <2>1
      <3>2. s[1].hash = t[q].hash
        BY <1>1, <3>1
      <3> HIDE DEF q
      <3>3. /\ s[1].hash = Hash(Canonical(s[1]), s[1].parent) /\ s[1].parent = Genesis
            /\ t[q].hash = Hash(Canonical(t[q]), t[q].parent)
            /\ q - 1 \in 1..Len(t) /\ t[q].parent = t[q - 1].hash
        BY <3>1, VerifiedAt
      <3>4. t[q - 1].hash # Genesis
        BY <3>3, VerifiedAt
      <3>5. QED BY <3>2, <3>3, <3>4, HashAgrees DEF Agree
    <2>2. ASSUME j < i PROVE FALSE
      <3> DEFINE p == i - (j - 1)
      <3>1. /\ j - 1 \in Nat /\ j - 1 < i /\ j - 1 < j /\ j - (j - 1) = 1
            /\ p \in 1..Len(s) /\ p # 1 /\ 1 \in 1..Len(t)
        BY <1>0, <2>2
      <3>2. s[p].hash = t[1].hash
        BY <1>1, <3>1
      <3> HIDE DEF p
      <3>3. /\ t[1].hash = Hash(Canonical(t[1]), t[1].parent) /\ t[1].parent = Genesis
            /\ s[p].hash = Hash(Canonical(s[p]), s[p].parent)
            /\ p - 1 \in 1..Len(s) /\ s[p].parent = s[p - 1].hash
        BY <3>1, VerifiedAt
      <3>4. s[p - 1].hash # Genesis
        BY <3>3, VerifiedAt
      <3>5. QED BY <3>2, <3>3, <3>4, HashAgrees DEF Agree
    <2>3. QED BY <1>0, <2>1, <2>2
  <1>3. ASSUME NEW q \in 1..i PROVE Agree(s[q], t[q])
    <2>1. /\ i - q \in Nat /\ i - q < i /\ i - (i - q) = q
          /\ q \in 1..Len(s) /\ q \in 1..Len(t)
      BY <1>0, <1>2
    <2>2. s[q].hash = t[q].hash
      BY <1>1, <1>2, <2>1
    <2>3. QED BY <2>1, <2>2, VerifiedAt, HashAgrees
  <1>4. QED BY <1>2, <1>3

\* The hash that is chained to when the trail is s.
EndOf(s) == IF Len(s) = 0 THEN Genesis ELSE s[Len(s)].hash

\* What an append leaves: a row with the hash that fits, chained to the end of the trail
\* that it saw.
Recorded(e) ==
  /\ e.row.hash = Hash(Canonical(e.row), e.row.parent)
  /\ IsList(e.before) /\ e.row.parent = EndOf(e.before)

\* A record with the hash of an appended one is that one, and vouches for those before.
LEMMA RecordVouches ==
  ASSUME NEW s, IsList(s), Verified(s), NEW i \in 1..Len(s), NEW e, Recorded(e),
         s[i].hash = e.row.hash
  PROVE  /\ Agree(s[i], e.row)
         /\ Verified(e.before) =>
              /\ Len(e.before) = i - 1
              /\ \A j \in 1..(i - 1) : Agree(s[j], e.before[j])
  <1> DEFINE n == Len(e.before)
  <1>1. Agree(s[i], e.row)
    BY VerifiedAt, HashAgrees DEF Recorded
  <1>2. s[i].parent = EndOf(e.before) /\ n \in Nat /\ IsList(e.before)
    BY <1>1 DEF Agree, Recorded, IsList
  <1>3. ASSUME Verified(e.before), n = 0 PROVE n = i - 1
    <2>1. s[i].parent = Genesis
      BY <1>2, <1>3 DEF EndOf
    <2>2. i = 1
      <3> SUFFICES ASSUME i # 1 PROVE FALSE
        OBVIOUS
      <3>1. i - 1 \in 1..Len(s) /\ s[i].parent = s[i - 1].hash
        BY VerifiedAt
      <3>2. s[i - 1].hash # Genesis
        BY <3>1, VerifiedAt
      <3>3. QED BY <2>1, <3>1, <3>2
    <2>3. QED BY <1>3, <2>2
  <1>4. ASSUME Verified(e.before), n # 0
        PROVE  n = i - 1 /\ \A j \in 1..(i - 1) : Agree(s[j], e.before[j])
    <2>1. n \in 1..n /\ s[i].parent = e.before[n].hash
      BY <1>2, <1>4 DEF EndOf
    <2>2. e.before[n].hash # Genesis
      BY <1>2, <1>4, <2>1, VerifiedAt
    <2>3. i # 1
      BY <2>1, <2>2, VerifiedAt
    <2>4. i - 1 \in 1..Len(s) /\ s[i - 1].hash = e.before[n].hash
      BY <2>1, <2>3, VerifiedAt
    <2>5. QED BY <1>2, <1>4, <2>1, <2>4, ChainsAgree
  <1>5. ASSUME Verified(e.before)
        PROVE  n = i - 1 /\ \A j \in 1..(i - 1) : Agree(s[j], e.before[j])
    BY <1>2, <1>3, <1>4, <1>5
  <1>6. QED BY <1>1, <1>5

-------------------------------------------------------------------------------
(* The trail and its history *)

HistoryInv ==
  /\ \E S : history \in Seq(S)
  /\ \A k \in 1..Len(history) : Recorded(history[k])

\* A record under way: its time is a number, its parent the end of the trail it saw.
UnderWayInv ==
  /\ DOMAIN record = Writers /\ clock \in Int
  /\ \A w \in Writers : writer[w].pc = "commit" =>
       /\ record[w].time \in Int
       /\ IsList(record[w].before) /\ record[w].parent = EndOf(record[w].before)

\* Of a trail that anybody may have altered: it can still be put in order.
TrailInv == Sortable(trail) /\ \A r \in trail : DOMAIN r = Columns

FaithInv == HistoryInv /\ UnderWayInv /\ TrailInv

LEMMA HistoryLength == HistoryInv => Len(history) \in Nat /\ DOMAIN history = 1..Len(history)
  BY DEF HistoryInv

LEMMA Appending ==
  ASSUME NEW S, NEW s \in Seq(S), NEW x
  PROVE  /\ Append(s, x) \in Seq(S \cup {x})
         /\ Len(Append(s, x)) = Len(s) + 1
         /\ \A i \in 1..Len(s) : Append(s, x)[i] = s[i]
         /\ Append(s, x)[Len(s) + 1] = x
  <1>1. s \in Seq(S \cup {x})
    OBVIOUS
  <1>2. QED BY <1>1

\* What the commit of a writer does to trail and history, and what it adds.
LEMMA Commits ==
  ASSUME HistoryInv, UnderWayInv, NEW w \in Writers, writer[w].pc = "commit",
         CommitRecord(w)
  PROVE  \E x :
           /\ DOMAIN x = Columns
           /\ x.id \in Int /\ x.timestamp = record[w].time /\ x.timestamp \in Int
           /\ x.parent = record[w].parent /\ x.hash = Hash(Canonical(x), x.parent)
           /\ \A r \in trail : r.id # x.id
           /\ trail' = trail \cup {x}
           /\ \E S : history' \in Seq(S)
           /\ Len(history') = Len(history) + 1
           /\ \A i \in 1..Len(history) : history'[i] = history[i]
           /\ history'[Len(history) + 1] = [row |-> x, before |-> record[w].before]
  <1>1. PICK id \in { n \in 1..MaxRecords : Fresh(n) } :
          LET appended == Appended(id, record[w].time, Content(w), record[w].parent)
          IN  /\ trail' = trail \cup {appended}
              /\ history' = Append(history, [row |-> appended, before |-> record[w].before])
    BY DEF CommitRecord
  <1> DEFINE x == Appended(id, record[w].time, Content(w), record[w].parent)
             e == [row |-> x, before |-> record[w].before]
  <1>2. id \in Int /\ \A r \in trail : r.id # id
    BY LedgerAssumption DEF Fresh
  <1>3. /\ DOMAIN x = Columns
        /\ x.id = id /\ x.timestamp = record[w].time /\ x.parent = record[w].parent
        /\ x.hash = Hash(Canonical(x), record[w].parent)
    BY AppendedFields
  <1>4. trail' = trail \cup {x} /\ history' = Append(history, e)
    BY <1>1
  <1>5. record[w].time \in Int
    BY DEF UnderWayInv
  <1> HIDE DEF x
  <1>6. PICK S : history \in Seq(S)
    BY DEF HistoryInv
  <1>7. /\ history' \in Seq(S \cup {e}) /\ Len(history') = Len(history) + 1
        /\ \A i \in 1..Len(history) : history'[i] = history[i]
        /\ history'[Len(history) + 1] = e
    BY <1>4, <1>6, Appending
  <1>8. QED BY <1>2, <1>3, <1>4, <1>5, <1>7

LEMMA FaithCommit ==
  ASSUME FaithInv, NEW w \in Writers, writer[w].pc = "commit", CommitRecord(w),
         writer'[w].pc # "commit", \A v \in Writers \ {w} : writer'[v] = writer[v],
         UNCHANGED clock
  PROVE  FaithInv'
  <1> DEFINE n == Len(history)
  <1>0. HistoryInv /\ UnderWayInv /\ TrailInv /\ n \in Nat
    BY HistoryLength DEF FaithInv
  <1>1. PICK x :
           /\ DOMAIN x = Columns
           /\ x.id \in Int /\ x.timestamp = record[w].time /\ x.timestamp \in Int
           /\ x.parent = record[w].parent /\ x.hash = Hash(Canonical(x), x.parent)
           /\ \A r \in trail : r.id # x.id
           /\ trail' = trail \cup {x}
           /\ \E S : history' \in Seq(S)
           /\ Len(history') = n + 1
           /\ \A i \in 1..n : history'[i] = history[i]
           /\ history'[n + 1] = [row |-> x, before |-> record[w].before]
    BY <1>0, Commits
  <1>2. record' = [record EXCEPT ![w] = NoRecord]
    BY DEF CommitRecord
  <1> HIDE DEF n
  <1>3. HistoryInv'
    <2>1. ASSUME NEW k \in 1..n PROVE Recorded(history'[k])
      BY <1>0, <1>1 DEF HistoryInv, n
    <2>2. Recorded(history'[n + 1])
      <3> DEFINE e == [row |-> x, before |-> record[w].before]
      <3>1. e.row = x /\ e.before = record[w].before
        OBVIOUS
      <3>2. IsList(record[w].before) /\ record[w].parent = EndOf(record[w].before)
        BY <1>0 DEF UnderWayInv
      <3> HIDE DEF e
      <3>3. Recorded(e)
        BY <1>1, <3>1, <3>2 DEF Recorded
      <3>4. QED BY <1>1, <3>3 DEF e
    <2>3. \A k \in 1..(n + 1) : Recorded(history'[k])
      <3> TAKE k \in 1..(n + 1)
      <3>1. k \in 1..n \/ k = n + 1
        BY <1>0
      <3>2. QED BY <2>1, <2>2, <3>1
    <2>4. QED BY <1>1, <2>3 DEF HistoryInv, Recorded, IsList, EndOf
  <1>4. UnderWayInv'
    <2>1. ASSUME NEW v \in Writers, writer'[v].pc = "commit"
          PROVE  /\ record'[v].time \in Int
                 /\ IsList(record'[v].before) /\ record'[v].parent = EndOf(record'[v].before)
      <3>1. v # w /\ writer[v].pc = "commit"
        BY <2>1
      <3>2. record'[v] = record[v]
        BY <1>0, <1>2, <3>1 DEF UnderWayInv
      <3>3. QED BY <1>0, <3>1, <3>2 DEF UnderWayInv
    <2>2. DOMAIN record' = Writers /\ clock' \in Int
      BY <1>0, <1>2 DEF UnderWayInv
    <2>3. QED BY <2>1, <2>2 DEF UnderWayInv, IsList, EndOf
  <1>5. TrailInv'
    <2>1. IsFiniteSet(trail')
      BY <1>0, <1>1, FS_AddElement DEF TrailInv, Sortable
    <2>2. \A r, s \in trail' : r.id = s.id => r = s
      BY <1>0, <1>1 DEF TrailInv, Sortable
    <2>3. \A r \in trail' : r.id \in Int /\ r.timestamp \in Int /\ DOMAIN r = Columns
      BY <1>0, <1>1 DEF TrailInv, Sortable
    <2>4. QED BY <2>1, <2>2, <2>3 DEF TrailInv, Sortable
  <1>6. QED BY <1>3, <1>4, <1>5 DEF FaithInv

\* Whatever columns a record is given, its identifier and its time stay numbers.
LEMMA ForgedFields ==
  ASSUME NEW r \in trail, TrailInv, NEW x \in Forged(r)
  PROVE  DOMAIN x = Columns /\ x.id \in Int /\ x.timestamp \in Int
  <1>1. DOMAIN r = Columns /\ r.id \in Int /\ r.timestamp \in Int
    BY DEF TrailInv, Sortable
  <1>2. "id" \in Columns /\ "timestamp" \in Columns
    BY DEF Columns
  <1>3. ASSUME NEW y \in Changed(r) PROVE DOMAIN y = Columns /\ y.id \in Int /\ y.timestamp \in Int
    <2>1. OtherIds \subseteq Int /\ OtherTimes \subseteq Int
      BY LedgerAssumption
    <2>2. CASE y = [r EXCEPT !.note = "altered"]
      BY <1>1, <1>2, <2>2
    <2>3. ASSUME NEW o \in OtherIds, y = [r EXCEPT !.id = o]
          PROVE  DOMAIN y = Columns /\ y.id \in Int /\ y.timestamp \in Int
      BY <1>1, <1>2, <2>1, <2>3
    <2>4. ASSUME NEW o \in OtherTimes, y = [r EXCEPT !.timestamp = o]
          PROVE  DOMAIN y = Columns /\ y.id \in Int /\ y.timestamp \in Int
      BY <1>1, <1>2, <2>1, <2>4
    <2>5. ASSUME NEW o \in OtherContents, y = [r EXCEPT !.content = o]
          PROVE  DOMAIN y = Columns /\ y.id \in Int /\ y.timestamp \in Int
      BY <1>1, <1>2, <2>5
    <2>6. ASSUME NEW o \in OtherHashes, y = [r EXCEPT !.parent = o]
          PROVE  DOMAIN y = Columns /\ y.id \in Int /\ y.timestamp \in Int
      BY <1>1, <1>2, <2>6
    <2>7. QED BY <1>3, <2>2, <2>3, <2>4, <2>5, <2>6 DEF Changed
  <1>4. CASE x \in Changed(r)
    BY <1>3, <1>4
  <1>5. ASSUME NEW y \in Changed(r), x = Rehashed(y)
        PROVE  DOMAIN x = Columns /\ x.id \in Int /\ x.timestamp \in Int
    <2>1. x = [y EXCEPT !.hash = Hash(Canonical(y), y.parent)]
      BY <1>5 DEF Rehashed
    <2>2. DOMAIN y = Columns /\ y.id \in Int /\ y.timestamp \in Int
      BY <1>3
    <2>3. QED BY <1>2, <2>1, <2>2
  <1>6. ASSUME NEW o \in OtherHashes, x = [r EXCEPT !.hash = o]
        PROVE  DOMAIN x = Columns /\ x.id \in Int /\ x.timestamp \in Int
    BY <1>1, <1>2, <1>6
  <1>7. QED BY <1>4, <1>5, <1>6 DEF Forged

LEMMA FaithAlter ==
  ASSUME FaithInv, Alter
  PROVE  FaithInv'
  <1>0. HistoryInv /\ UnderWayInv /\ TrailInv
    BY DEF FaithInv
  <1>1. UNCHANGED <<history, record, writer, clock>>
    BY DEF Alter, sessions
  <1>2. HistoryInv' /\ UnderWayInv'
    BY <1>0, <1>1 DEF HistoryInv, UnderWayInv, Recorded, IsList, EndOf
  <1>3. PICK r \in trail :
          \/ trail' = trail \ {r}
          \/ \E kept \in { trail, trail \ {r} }, x \in Forged(r) :
               /\ \A s \in kept : s.id # x.id
               /\ trail' = kept \cup {x}
    BY DEF Alter
  <1>4. IsFiniteSet(trail) /\ IsFiniteSet(trail \ {r})
    BY <1>0, FS_RemoveElement DEF TrailInv, Sortable
  <1>5. CASE trail' = trail \ {r}
    <2>1. TrailInv'
      BY <1>0, <1>4, <1>5 DEF TrailInv, Sortable
    <2>2. QED BY <1>2, <2>1 DEF FaithInv
  <1>6. ASSUME NEW kept \in { trail, trail \ {r} }, NEW x \in Forged(r),
               \A s \in kept : s.id # x.id, trail' = kept \cup {x}
        PROVE  FaithInv'
    <2>1. DOMAIN x = Columns /\ x.id \in Int /\ x.timestamp \in Int
      BY <1>0, ForgedFields
    <2>2. IsFiniteSet(kept) /\ kept \subseteq trail
      BY <1>4, <1>6
    <2>3. IsFiniteSet(trail')
      BY <1>6, <2>2, FS_AddElement
    <2>4. \A p, q \in trail' : p.id = q.id => p = q
      BY <1>0, <1>6, <2>2 DEF TrailInv, Sortable
    <2>5. \A p \in trail' : p.id \in Int /\ p.timestamp \in Int /\ DOMAIN p = Columns
      BY <1>0, <1>6, <2>1, <2>2 DEF TrailInv, Sortable
    <2>6. TrailInv'
      BY <2>3, <2>4, <2>5 DEF TrailInv, Sortable
    <2>7. QED BY <1>2, <2>6 DEF FaithInv
  <1>7. QED BY <1>3, <1>5, <1>6

\* A step that leaves the trail alone and starts no commit but of a record it has.
LEMMA FaithQuiet ==
  ASSUME FaithInv, UNCHANGED <<trail, history>>,
         DOMAIN record' = Writers, clock' \in Int,
         \A w \in Writers : writer'[w].pc = "commit" =>
           \/ writer[w].pc = "commit" /\ record'[w] = record[w]
           \/ /\ record'[w].time \in Int
              /\ IsList(record'[w].before) /\ record'[w].parent = EndOf(record'[w].before)
  PROVE  FaithInv'
  <1>1. HistoryInv' /\ TrailInv'
    BY DEF FaithInv, HistoryInv, TrailInv, Sortable
  <1>2. \A w \in Writers : writer'[w].pc = "commit" =>
           /\ record'[w].time \in Int
           /\ IsList(record'[w].before) /\ record'[w].parent = EndOf(record'[w].before)
    BY DEF FaithInv, UnderWayInv
  <1>3. UnderWayInv'
    BY <1>2 DEF UnderWayInv, IsList, EndOf
  <1>4. QED BY <1>1, <1>3 DEF FaithInv

\* The parent that a writer looks up is that of the latest record in the order.
LEMMA ParentIsLast ==
  ASSUME NEW T, Sortable(T)
  PROVE  IsList(InOrder(T)) /\ ParentFor(T) = EndOf(InOrder(T))
  <1> DEFINE s == InOrder(T)
             n == Cardinality(T)
  <1>1. n \in Nat /\ DOMAIN s = 1..n /\ Len(s) = n /\ \A i \in 1..n : s[i] \in T
    BY InOrderSorts
  <1>2. IsList(s)
    BY <1>1 DEF IsList
  <1>3. CASE T = {}
    <2>1. n = 0
      BY <1>3, FS_EmptySet
    <2>2. QED BY <1>1, <1>2, <1>3, <2>1 DEF ParentFor, EndOf
  <1>4. CASE T # {}
    <2>1. n # 0 /\ n \in 1..n
      BY <1>1, <1>4, FS_EmptySet DEF Sortable
    <2>2. s[n] \in T /\ \A r \in T \ {s[n]} : Before(r, s[n])
      <3>1. ASSUME NEW r \in T \ {s[n]} PROVE Before(r, s[n])
        <4>1. PICK i \in 1..n : s[i] = r
          BY InOrderSorts
        <4>2. i < n
          BY <1>1, <4>1
        <4>3. QED BY <2>1, <4>1, <4>2, InOrderSorts
      <3>2. QED BY <1>1, <2>1, <3>1
    <2> HIDE DEF s, n
    <2>3. \A r, q \in T : Before(r, q) => ~Before(q, r) /\ r # q
      BY DEF Sortable, Before
    <2>4. \A q \in T : (\A r \in T \ {q} : Before(r, q)) => q = s[n]
      BY <2>2, <2>3
    <2>5. (CHOOSE q \in T : \A r \in T \ {q} : Before(r, q)) = s[n]
      BY <2>2, <2>4
    <2>6. ParentFor(T) = s[n].hash
      BY <1>4, <2>5 DEF ParentFor
    <2>7. QED BY <1>1, <1>2, <2>1, <2>6 DEF EndOf, s
  <1>5. QED BY <1>3, <1>4

\* The steps that have nothing to do with the trail.
Unrelated ==
  \/ \E c \in Callers : \/ Report(c) \/ CommitReport(c) \/ ReportRefused(c)
                        \/ PublishReport(c) \/ CrashCaller(c)
  \/ Orchestrate \/ Execute \/ Reserve \/ ReserveRefused \/ Pay
  \/ UNCHANGED vars

LEMMA UnrelatedQuiet ==
  ASSUME TypeInv, Unrelated
  PROVE  /\ UNCHANGED <<trail, history, overlapped, record, clock, alterations>>
         /\ \A w \in Writers : writer'[w].pc = "commit" => writer[w].pc = "commit"
  <1> USE DEF rows, audit, sessions, events, bounds, Unrelated
  <1>0. DOMAIN writer = Writers /\ writer \in [Writers -> Transaction]
    BY DEF TypeInv
  <1>1. UNCHANGED <<trail, history, overlapped, record, clock, alterations>>
    BY DEF Report, CommitReport, ReportRefused, PublishReport, CrashCaller, Orchestrate,
           Execute, Reserve, ReserveRefused, Pay, vars
  <1>2. ASSUME NEW w \in Writers, writer'[w].pc = "commit" PROVE writer[w].pc = "commit"
    <2>1. CASE Orchestrate
      BY <1>0, <1>2, <2>1 DEF Orchestrate
    <2>2. CASE Execute
      BY <1>0, <1>2, <2>2 DEF Execute
    <2>3. CASE Reserve \/ ReserveRefused
      BY <1>0, <1>2, <2>3 DEF Reserve, ReserveRefused, Finish, NoTx, Transaction
    <2>4. CASE Pay
      BY <1>0, <1>2, <2>4 DEF Pay, Transaction
    <2>5. CASE UNCHANGED writer
      BY <1>2, <2>5
    <2>6. QED
      BY <2>1, <2>2, <2>3, <2>4, <2>5
      DEF Report, CommitReport, ReportRefused, PublishReport, CrashCaller, vars
  <1>3. QED BY <1>1, <1>2

LEMMA FaithStep == TypeInv /\ FaithInv /\ [Next]_vars => FaithInv'
  <1> SUFFICES ASSUME TypeInv, FaithInv, [Next]_vars PROVE FaithInv'
    OBVIOUS
  <1> USE DEF rows, audit, sessions, events, bounds
  <1>0. /\ DOMAIN record = Writers /\ clock \in Int /\ DOMAIN writer = Writers
        /\ writer \in [Writers -> Transaction]
    BY DEF FaithInv, UnderWayInv, TypeInv
  <1>1. ASSUME NEW w \in Writers, writer[w].pc = "commit", CommitRecord(w), Finish(w),
               UNCHANGED clock
        PROVE  FaithInv'
    <2>1. writer'[w].pc # "commit" /\ \A v \in Writers \ {w} : writer'[v] = writer[v]
      BY <1>0, <1>1 DEF Finish, NoTx
    <2>2. QED BY <1>1, <2>1, FaithCommit
  <1>2. CASE CommitDecision \/ CommitDiscard \/ CommitOutcome
    BY <1>1, <1>2 DEF CommitDecision, CommitDiscard, CommitOutcome, Writers
  <1>3. CASE Alter
    BY <1>3, FaithAlter
  <1>4. ASSUME NEW w \in Writers, Append_(w) PROVE FaithInv'
    <2>1. PICK lag \in 0..MaxLag[w] :
            record' = [record EXCEPT ![w] =
              [time |-> clock - lag, parent |-> ParentFor(trail),
               before |-> InOrder(trail), after |-> Len(history)]]
      BY <1>4 DEF Append_
    <2>2. /\ record'[w].time \in Int
          /\ record'[w].before = InOrder(trail) /\ record'[w].parent = ParentFor(trail)
      BY <1>0, <2>1
    <2>3. IsList(record'[w].before) /\ record'[w].parent = EndOf(record'[w].before)
      BY <2>2, ParentIsLast DEF FaithInv, TrailInv
    <2>4. \A v \in Writers \ {w} : writer'[v] = writer[v] /\ record'[v] = record[v]
      BY <1>0, <1>4, <2>1 DEF Append_
    <2>5. DOMAIN record' = Writers /\ clock' \in Int /\ UNCHANGED <<trail, history>>
      BY <1>0, <1>4, <2>1 DEF Append_
    <2>6. QED BY <2>2, <2>3, <2>4, <2>5, FaithQuiet
  <1>5. ASSUME NEW w \in Writers, CrashWriter(w) PROVE FaithInv'
    <2>1. /\ record' = [record EXCEPT ![w] = NoRecord] /\ writer' = [writer EXCEPT ![w] = NoTx]
          /\ UNCHANGED <<trail, history, clock>>
      BY <1>5 DEF CrashWriter, Finish
    <2>2. writer'[w].pc # "commit"
      BY <1>0, <2>1 DEF NoTx
    <2>3. \A v \in Writers \ {w} : writer'[v] = writer[v] /\ record'[v] = record[v]
      BY <1>0, <2>1
    <2>4. DOMAIN record' = Writers /\ clock' \in Int
      BY <1>0, <2>1
    <2>5. QED BY <2>1, <2>2, <2>3, <2>4, FaithQuiet
  <1>6. CASE Unrelated
    BY <1>0, <1>6, UnrelatedQuiet, FaithQuiet
  <1>7. QED BY <1>2, <1>3, <1>4, <1>5, <1>6 DEF Next, Unrelated

-------------------------------------------------------------------------------
(* A trail that nobody changed *)

\* Each record is chained to the one before it in the order, and what was looked up
\* since the last commit is still the latest.
Chained ==
  /\ \A r \in trail : /\ r.hash = Hash(Canonical(r), r.parent)
                      /\ r.parent = ParentFor({ s \in trail : Before(s, r) })
  /\ \A w \in Writers : writer[w].pc = "commit" /\ record[w].after = Len(history) =>
       record[w].parent = ParentFor(trail)

SerialInv ==
  /\ alterations \in Nat
  /\ \A w \in Writers : writer[w].pc = "commit" =>
       record[w].after \in Int /\ record[w].after <= Len(history)
  /\ alterations = 0 /\ ~overlapped => Chained

LEMMA SerialCommit ==
  ASSUME FaithInv, SerialInv, NEW w \in Writers, writer[w].pc = "commit", CommitRecord(w),
         writer'[w].pc # "commit", \A v \in Writers \ {w} : writer'[v] = writer[v],
         UNCHANGED alterations
  PROVE  SerialInv'
  <1> DEFINE n == Len(history)
  <1>0. HistoryInv /\ UnderWayInv /\ TrailInv /\ n \in Nat /\ Sortable(trail)
    BY HistoryLength DEF FaithInv, TrailInv
  <1>1. PICK x :
           /\ x.id \in Int /\ x.timestamp = record[w].time /\ x.timestamp \in Int
           /\ x.parent = record[w].parent /\ x.hash = Hash(Canonical(x), x.parent)
           /\ trail' = trail \cup {x} /\ Len(history') = n + 1
    BY <1>0, Commits
  <1>2. /\ record' = [record EXCEPT ![w] = NoRecord]
        /\ overlapped' = (overlapped \/ record[w].after # n
                            \/ \E r \in trail : r.timestamp >= record[w].time)
    BY DEF CommitRecord
  <1> HIDE DEF n
  <1>3. ASSUME NEW v \in Writers, writer'[v].pc = "commit"
        PROVE  record'[v].after \in Int /\ record'[v].after <= n
    <2>1. v # w /\ writer[v].pc = "commit"
      BY <1>3
    <2>2. record'[v] = record[v]
      BY <1>0, <1>2, <2>1 DEF UnderWayInv
    <2>3. QED BY <2>1, <2>2 DEF SerialInv, n
  <1>4. ASSUME alterations = 0, ~overlapped' PROVE Chained'
    <2>1. ~overlapped /\ record[w].after = n /\ \A r \in trail : ~(r.timestamp >= record[w].time)
      BY <1>2, <1>4
    <2>2. Chained
      BY <1>4, <2>1 DEF SerialInv
    <2>3. \A r \in trail : Before(r, x) /\ ~Before(x, r)
      BY <1>0, <1>1, <2>1 DEF Before, Sortable
    <2>4. ~Before(x, x)
      BY <1>1 DEF Before
    <2>5. ASSUME NEW r \in trail'
          PROVE  /\ r.hash = Hash(Canonical(r), r.parent)
                 /\ r.parent = ParentFor({ s \in trail' : Before(s, r) })
      <3>1. CASE r \in trail
        <4>1. { s \in trail' : Before(s, r) } = { s \in trail : Before(s, r) }
          BY <1>1, <2>3, <3>1
        <4>2. QED BY <2>2, <3>1, <4>1 DEF Chained
      <3>2. CASE r = x
        <4>1. { s \in trail' : Before(s, r) } = trail
          BY <1>1, <2>3, <2>4, <3>2
        <4>2. x.parent = ParentFor(trail)
          BY <1>1, <2>1, <2>2 DEF Chained, n
        <4>3. QED BY <1>1, <3>2, <4>1, <4>2
      <3>3. QED BY <1>1, <3>1, <3>2
    <2>6. \A v \in Writers : writer'[v].pc = "commit" => record'[v].after # Len(history')
      BY <1>0, <1>1, <1>3
    <2>7. QED BY <2>5, <2>6 DEF Chained
  <1>5. \A v \in Writers : writer'[v].pc = "commit" =>
          record'[v].after \in Int /\ record'[v].after <= Len(history')
    BY <1>0, <1>1, <1>3
  <1>6. QED BY <1>4, <1>5 DEF SerialInv

\* A step that leaves trail and history alone and in which a commit begins only with a
\* parent just looked up.
LEMMA SerialQuiet ==
  ASSUME SerialInv, Len(history) \in Int,
         UNCHANGED <<trail, history, overlapped, alterations>>,
         \A w \in Writers : writer'[w].pc = "commit" =>
           \/ writer[w].pc = "commit" /\ record'[w] = record[w]
           \/ record'[w].after = Len(history) /\ record'[w].parent = ParentFor(trail)
  PROVE  SerialInv'
  <1>1. \A w \in Writers : writer'[w].pc = "commit" =>
          record'[w].after \in Int /\ record'[w].after <= Len(history)
    BY DEF SerialInv
  <1>2. ASSUME alterations = 0, ~overlapped PROVE Chained'
    <2>1. Chained
      BY <1>2 DEF SerialInv
    <2>2. \A w \in Writers : writer'[w].pc = "commit" /\ record'[w].after = Len(history) =>
            record'[w].parent = ParentFor(trail)
      BY <2>1 DEF Chained
    <2>3. QED BY <2>1, <2>2 DEF Chained
  <1>3. QED BY <1>1, <1>2 DEF SerialInv

LEMMA SerialStep == TypeInv /\ FaithInv /\ SerialInv /\ [Next]_vars => SerialInv'
  <1> SUFFICES ASSUME TypeInv, FaithInv, SerialInv, [Next]_vars PROVE SerialInv'
    OBVIOUS
  <1> USE DEF rows, audit, sessions, events, bounds
  <1>0. /\ DOMAIN record = Writers /\ DOMAIN writer = Writers /\ Len(history) \in Int
    BY HistoryLength DEF FaithInv, UnderWayInv, TypeInv
  <1>1. ASSUME NEW w \in Writers, writer[w].pc = "commit", CommitRecord(w), Finish(w),
               UNCHANGED alterations
        PROVE  SerialInv'
    <2>1. writer'[w].pc # "commit" /\ \A v \in Writers \ {w} : writer'[v] = writer[v]
      BY <1>0, <1>1 DEF Finish, NoTx
    <2>2. QED BY <1>1, <2>1, SerialCommit
  <1>2. CASE CommitDecision \/ CommitDiscard \/ CommitOutcome
    BY <1>1, <1>2 DEF CommitDecision, CommitDiscard, CommitOutcome, Writers
  <1>3. CASE Alter
    <2>1. alterations' = alterations + 1 /\ UNCHANGED <<history, writer, record>>
      BY <1>3 DEF Alter
    <2>2. alterations' \in Nat /\ alterations' # 0
      BY <2>1 DEF SerialInv
    <2>3. QED BY <2>1, <2>2 DEF SerialInv
  <1>4. ASSUME NEW w \in Writers, Append_(w) PROVE SerialInv'
    <2>1. record'[w].after = Len(history) /\ record'[w].parent = ParentFor(trail)
      BY <1>0, <1>4 DEF Append_
    <2>2. \A v \in Writers \ {w} : writer'[v] = writer[v] /\ record'[v] = record[v]
      BY <1>0, <1>4 DEF Append_
    <2>3. UNCHANGED <<trail, history, overlapped, alterations>>
      BY <1>4 DEF Append_
    <2>4. QED BY <1>0, <2>1, <2>2, <2>3, SerialQuiet
  <1>5. ASSUME NEW w \in Writers, CrashWriter(w) PROVE SerialInv'
    <2>1. /\ record' = [record EXCEPT ![w] = NoRecord] /\ writer' = [writer EXCEPT ![w] = NoTx]
          /\ UNCHANGED <<trail, history, overlapped, alterations>>
      BY <1>5 DEF CrashWriter, Finish
    <2>2. writer'[w].pc # "commit"
      BY <1>0, <2>1 DEF NoTx
    <2>3. \A v \in Writers \ {w} : writer'[v] = writer[v] /\ record'[v] = record[v]
      BY <1>0, <2>1
    <2>4. QED BY <1>0, <2>1, <2>2, <2>3, SerialQuiet
  <1>6. CASE Unrelated
    BY <1>0, <1>6, UnrelatedQuiet, SerialQuiet
  <1>7. QED BY <1>2, <1>3, <1>4, <1>5, <1>6 DEF Next, Unrelated

\* Of the records before the i-th in the order, the latest is the one just before it.
LEMMA ParentInOrder ==
  ASSUME NEW T, Sortable(T), NEW i \in 1..Cardinality(T)
  PROVE  LET s == InOrder(T)
         IN  ParentFor({ r \in T : Before(r, s[i]) }) = IF i = 1 THEN Genesis ELSE s[i - 1].hash
  <1> DEFINE s == InOrder(T)
             n == Cardinality(T)
             B == { r \in T : Before(r, s[i]) }
  <1>1. /\ n \in Nat /\ \A j \in 1..n : s[j] \in T
        /\ \A r \in T : \E j \in 1..n : s[j] = r
        /\ \A j, k \in 1..n : j < k => Before(s[j], s[k])
    BY InOrderSorts
  <1>2. \A r, q \in T : Before(r, q) => ~Before(q, r) /\ r # q
    BY DEF Sortable, Before
  <1> HIDE DEF s
  <1>3. \A r \in B : \E j \in 1..n : j < i /\ s[j] = r
    <2> TAKE r \in B
    <2>1. PICK j \in 1..n : s[j] = r
      BY <1>1
    <2>2. ~(i < j) /\ i # j
      BY <1>1, <1>2, <2>1
    <2>3. QED BY <1>1, <2>1, <2>2
  <1>4. CASE i = 1
    <2>1. B = {}
      BY <1>1, <1>3, <1>4
    <2>2. QED BY <1>4, <2>1 DEF ParentFor, s
  <1>5. CASE i # 1
    <2> DEFINE p == s[i - 1]
    <2>1. i - 1 \in 1..n /\ i - 1 < i /\ \A j \in 1..n : j < i /\ j # i - 1 => j < i - 1
      BY <1>1, <1>5
    <2>2. p \in B
      BY <1>1, <2>1
    <2>3. \A r \in B \ {p} : Before(r, p)
      <3> TAKE r \in B \ {p}
      <3>1. PICK j \in 1..n : j < i /\ s[j] = r
        BY <1>3
      <3>2. j < i - 1
        BY <2>1, <3>1
      <3>3. QED BY <1>1, <2>1, <3>1, <3>2
    <2>4. \A q \in B : (\A r \in B \ {q} : Before(r, q)) => q = p
      BY <1>2, <2>2, <2>3
    <2> HIDE DEF p, B
    <2>5. (CHOOSE q \in B : \A r \in B \ {q} : Before(r, q)) = p
      BY <2>2, <2>3, <2>4
    <2>6. ParentFor(B) = p.hash
      BY <2>2, <2>5 DEF ParentFor
    <2>7. QED BY <1>5, <2>6 DEF B, p, s
  <1>6. QED BY <1>4, <1>5

LEMMA ChainedVerifies == Sortable(trail) /\ Chained => Verified(InOrder(trail))
  <1> SUFFICES ASSUME Sortable(trail), Chained, NEW i \in DOMAIN InOrder(trail)
               PROVE  /\ Linked(InOrder(trail), i)
                      /\ InOrder(trail)[i].hash =
                           Hash(Canonical(InOrder(trail)[i]), InOrder(trail)[i].parent)
    BY DEF Verified
  <1>1. i \in 1..Cardinality(trail) /\ InOrder(trail)[i] \in trail
    BY InOrderSorts
  <1>2. InOrder(trail)[i].parent = ParentFor({ s \in trail : Before(s, InOrder(trail)[i]) })
    BY <1>1 DEF Chained
  <1>3. QED BY <1>1, <1>2, ParentInOrder DEF Chained, Linked

-------------------------------------------------------------------------------
(* The audit trail: the theorems *)

AuditInv == LedgerInv /\ FaithInv /\ SerialInv

LEMMA AuditStart == Init => FaithInv /\ SerialInv
  <1> SUFFICES ASSUME Init PROVE FaithInv /\ SerialInv
    OBVIOUS
  <1>1. trail = {} /\ history = << >> /\ Len(history) = 0 /\ history \in Seq({})
    BY DEF Init
  <1>2. IsFiniteSet(trail)
    BY <1>1, FS_EmptySet
  <1>3. \A w \in Writers : writer[w].pc # "commit"
    BY DEF Init, NoTx
  <1>4. HistoryInv
    BY <1>1 DEF HistoryInv
  <1>5. UnderWayInv
    BY <1>3 DEF Init, UnderWayInv
  <1>6. FaithInv
    BY <1>1, <1>2, <1>4, <1>5 DEF FaithInv, TrailInv, Sortable
  <1>7. SerialInv
    BY <1>1, <1>3 DEF Init, SerialInv, Chained
  <1>8. QED BY <1>6, <1>7

LEMMA AuditInvariant == Spec => []AuditInv
  <1>1. LedgerInv /\ Init => AuditInv
    BY AuditStart DEF AuditInv
  <1>2. AuditInv /\ LedgerInv' /\ [Next]_vars => AuditInv'
    BY FaithStep, SerialStep DEF AuditInv, LedgerInv
  <1>3. QED BY <1>1, <1>2, LedgerInvariant, PTL DEF Spec

\* In a chain that verifies, a record with the hash that an append gave it is what was
\* appended, and what was before it is what the append saw, if that verified
\* (app/audit/service.py:3-7): however many records were altered, removed or put in, with
\* whatever hashes, and however the writers overlapped.  No record is vouched for by
\* itself: the last ones, rewritten with hashes that fit, or removed, are not told.
THEOREM ChainTellsTampering == Spec => []VerifiedIsFaithful
  <1>1. AuditInv => VerifiedIsFaithful
    <2> DEFINE records == InOrder(trail)
    <2> SUFFICES ASSUME AuditInv, Verified(records),
                        NEW i \in DOMAIN records, NEW k \in DOMAIN history,
                        records[i].hash = history[k].row.hash
                 PROVE  /\ Agree(records[i], history[k].row)
                        /\ Verified(history[k].before) =>
                             /\ Len(history[k].before) = i - 1
                             /\ \A j \in 1..(i - 1) : Agree(records[j], history[k].before[j])
      BY DEF VerifiedIsFaithful
    <2>1. IsList(records)
      BY ParentIsLast DEF AuditInv, FaithInv, TrailInv
    <2>2. Recorded(history[k])
      BY HistoryLength DEF AuditInv, FaithInv, HistoryInv
    <2>3. i \in 1..Len(records)
      BY <2>1 DEF IsList
    <2> HIDE DEF records
    <2>4. QED BY <2>1, <2>2, <2>3, RecordVouches
  <1>2. QED BY <1>1, AuditInvariant, PTL

\* A trail that nobody changed verifies, when no two transactions appended to it at the
\* same time and the clocks of their hosts agree.
THEOREM SerialTrailIsWhole == Spec => []SerialTrailVerifies
  <1>1. AuditInv => SerialTrailVerifies
    <2> SUFFICES ASSUME AuditInv, alterations = 0, ~overlapped PROVE Verified(InOrder(trail))
      BY DEF SerialTrailVerifies
    <2>1. Sortable(trail) /\ Chained
      BY DEF AuditInv, FaithInv, TrailInv, SerialInv
    <2>2. QED BY <2>1, ChainedVerifies
  <1>2. QED BY <1>1, AuditInvariant, PTL

================================================================================
