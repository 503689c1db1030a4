----------------------------- MODULE PaymentLedger -----------------------------
(***************************************************************************)
(* The rows of one payment and everybody who writes them: the payment      *)
(* service that records failures (app/services/payment_service.py), the    *)
(* orchestrator that stores decisions and the executor that stores         *)
(* outcomes, both with a record of the audit trail in the same transaction *)
(* (app/audit/service.py).  They number the attempts of the payment        *)
(* independently and share no lock; what keeps the rows together is the    *)
(* unique constraint on (payment_id, attempt_number) and the order of the  *)
(* steps.  Planning and execution appear by their effects; their own       *)
(* modules have the rest.                                                  *)
(***************************************************************************)
EXTENDS AuditChain, RecoveryStates, FiniteSets

CONSTANTS
  Callers,        \* sessions in which the payment service is used
  MaxAttempt,     \* max_auto_retries, and the largest number of a report
  MaxRecords,     \* audit records in a behaviour
  MaxLag,         \* of each writer: how far the clock of its host may be behind
  MaxReports, MaxCrashes, MaxAlterations,
  OtherIds, OtherTimes, OtherContents, OtherHashes
                  \* what a column of the audit table may be overwritten with

Writers == { "orchestrator", "executor" }

ASSUME LedgerAssumption ==
  /\ Callers # {} /\ MaxAttempt \in Nat \ {0} /\ MaxRecords \in Nat /\ MaxLag \in [Writers -> Nat]
  /\ MaxReports \in Nat /\ MaxCrashes \in Nat /\ MaxAlterations \in Nat
  /\ OtherIds \subseteq Int /\ OtherTimes \subseteq Int

Numbers == 1..MaxAttempt

VARIABLES
  payment,    \* Payment.status, committed
  attempts,   \* rows of payment_attempts: [number, keyed, status]
  failures,   \* attempt numbers with a row in payment_failures
  open,       \* the recovery case is in a state from which it may be executed
  trail,      \* rows of immutable_audit_records
  call,       \* of each caller: [pc, number, seen]
  writer,     \* of each writer: [pc, number, result], its transaction
  record,     \* of each writer: the record it has appended, not committed
  reserved,   \* the attempt number whose row the executor has flushed, or 0
  debits,     \* attempt numbers with which the provider was debited
  failed,     \* attempt numbers published in payment.failed
  requested,  \* attempt numbers published in payment.retry_requested
  decided,    \* payment.failed events the orchestrator is done with
  clock,
  history,    \* of each committed append: the row, and the trail before it, in order
  overlapped, \* two writers appended at the same time, or their clocks disagreed
  reports, crashes, alterations

rows     == <<payment, attempts, failures, open>>
audit    == <<trail, history, overlapped>>
sessions == <<call, writer, record, reserved>>
events   == <<failed, requested, decided>>
bounds   == <<reports, crashes, alterations>>
vars     == <<rows, audit, sessions, events, debits, clock, bounds>>

NoCall   == [pc |-> "idle", number |-> 0, seen |-> "NONE"]
NoTx     == [pc |-> "idle", number |-> 0, result |-> "NONE"]
NoRecord == [record |-> "none"]

\* create_payment: committed and announced before anything is reported of it.
Init ==
  /\ payment = "CREATED" /\ attempts = {} /\ failures = {} /\ open = FALSE
  /\ trail = {} /\ history = <<>> /\ overlapped = FALSE
  /\ call = [c \in Callers |-> NoCall]
  /\ writer = [w \in Writers |-> NoTx]
  /\ record = [w \in Writers |-> NoRecord] /\ reserved = 0
  /\ debits = {} /\ failed = {} /\ requested = {} /\ decided = {}
  /\ clock = 1
  /\ reports = 0 /\ crashes = 0 /\ alterations = 0

\* Mutant: the constraint is on the idempotency key only, which the rows of the
\* payment service do not have.
Taken_KeyOnly(n) == \E a \in attempts : a.number = n /\ a.keyed

\* uq_payment_attempt_number
Taken(n) == \E a \in attempts : a.number = n

-------------------------------------------------------------------------------
(* The payment service *)

CallAt(c, from, to) == call[c].pc = from /\ call' = [call EXCEPT ![c].pc = to]

\* A caller loads the payment and reports the failure of an attempt.
Report(c) ==
  /\ call[c].pc = "idle" /\ reports < MaxReports
  /\ \E n \in Numbers : call' = [call EXCEPT ![c] = [pc |-> "commit", number |-> n, seen |-> payment]]
  /\ reports' = reports + 1
  /\ UNCHANGED <<rows, audit, writer, record, reserved, events, debits, clock, crashes, alterations>>

\* The commit writes status, attempt and failure, or nothing when the number is
\* taken; it waits for a transaction that has flushed the same number.  The ORM
\* updates the status only if it differs from the one that was loaded.
CommitReport(c) ==
  LET n == call[c].number IN
    /\ call[c].pc = "commit" /\ reserved # n /\ ~Taken(n)
    /\ CallAt(c, "commit", "publish")
    /\ payment' = IF call[c].seen # "FAILED" THEN "FAILED" ELSE payment
    /\ attempts' = attempts \cup {[number |-> n, keyed |-> FALSE, status |-> "FAILED"]}
    /\ failures' = failures \cup {n}
    /\ UNCHANGED <<open, audit, writer, record, reserved, events, debits, clock, bounds>>

\* Mutant: the error is logged and the event published.
ReportRefused_Announced(c) ==
  /\ call[c].pc = "commit" /\ reserved # call[c].number /\ Taken(call[c].number)
  /\ CallAt(c, "commit", "publish")
  /\ UNCHANGED <<rows, audit, writer, record, reserved, events, debits, clock, bounds>>

\* IntegrityError: the whole report is rolled back and raises to the caller.
ReportRefused(c) ==
  /\ call[c].pc = "commit" /\ reserved # call[c].number /\ Taken(call[c].number)
  /\ call' = [call EXCEPT ![c] = NoCall]
  /\ UNCHANGED <<rows, audit, writer, record, reserved, events, debits, clock, bounds>>

PublishReport(c) ==
  /\ call[c].pc = "publish"
  /\ failed' = failed \cup {call[c].number}
  /\ call' = [call EXCEPT ![c] = NoCall]
  /\ UNCHANGED <<rows, audit, writer, record, reserved, requested, decided, debits, clock, bounds>>

CrashCaller(c) ==
  /\ call[c].pc # "idle" /\ crashes < MaxCrashes
  /\ crashes' = crashes + 1
  /\ call' = [call EXCEPT ![c] = NoCall]
  /\ UNCHANGED <<rows, audit, writer, record, reserved, events, debits, clock, reports, alterations>>

-------------------------------------------------------------------------------
(* Audit records, appended in the transactions of the writers *)

Content(w) == <<w, writer[w].number, writer[w].result>>

\* append_record: the clock of the host is read, then the latest committed record
\* is looked up (before, after: what it was looked up in).
Append_(w) ==
  /\ writer[w].pc = "append" /\ clock <= MaxRecords
  /\ \E lag \in 0..MaxLag[w] :
       record' = [record EXCEPT ![w] =
         [time |-> clock - lag, parent |-> ParentFor(trail),
          before |-> InOrder(trail), after |-> Len(history)]]
  /\ clock' = clock + 1
  /\ writer' = [writer EXCEPT ![w].pc = "commit"]
  /\ UNCHANGED <<rows, audit, call, reserved, events, debits, bounds>>

\* A random identifier, which no record has or has had.
Fresh(id) == /\ \A r \in trail : r.id # id
             /\ \A i \in DOMAIN history : history[i].row.id # id

\* The commit makes the record visible.
CommitRecord(w) ==
  /\ \E id \in { n \in 1..MaxRecords : Fresh(n) } :
       LET appended == Appended(id, record[w].time, Content(w), record[w].parent)
       IN  /\ trail' = trail \cup {appended}
           /\ history' = Append(history, [row |-> appended, before |-> record[w].before])
  /\ overlapped' = (overlapped \/ record[w].after # Len(history)
                      \/ \E r \in trail : r.timestamp >= record[w].time)
  /\ record' = [record EXCEPT ![w] = NoRecord]

Finish(w) == writer' = [writer EXCEPT ![w] = NoTx]

-------------------------------------------------------------------------------
(* The orchestrator *)

\* It plans the recovery of a reported failure; a payment that is done, or the
\* last attempt, cannot be approved.
Orchestrate ==
  /\ writer["orchestrator"].pc = "idle"
  /\ \E n \in failed \ decided, result \in { "APPROVED", "STOPPED" } :
       /\ result = "APPROVED" => n < MaxAttempt /\ payment \notin TerminalPaymentState
       /\ writer' = [writer EXCEPT !["orchestrator"] =
            [pc |-> "append", number |-> n, result |-> result]]
  /\ UNCHANGED <<rows, audit, call, record, reserved, events, debits, clock, bounds>>

\* The executor has flushed its claim of the case, or its closure by the boundary.
ExecutorHoldsCase ==
  \/ reserved # 0
  \/ writer["executor"].pc = "commit" /\ writer["executor"].result = "HALTED"

CommitDecision ==
  /\ writer["orchestrator"].pc = "commit"
  /\ ~ExecutorHoldsCase
  /\ CommitRecord("orchestrator")
  /\ LET tx == writer["orchestrator"]
     IN  /\ open' = (tx.result = "APPROVED")
         /\ decided' = decided \cup {tx.number}
         /\ requested' = IF tx.result = "APPROVED" THEN requested \cup {tx.number + 1}
                         ELSE requested
  /\ Finish("orchestrator")
  /\ UNCHANGED <<payment, attempts, failures, call, reserved, debits, failed, clock, bounds>>

-------------------------------------------------------------------------------
(* The executor, one call at a time under the lock of the payment *)

Discards == payment \in { "SUCCESS", "RECOVERED" } \/ ~open

\* A payment that is paid, or a closed case: the request is discarded, on record.
\* Otherwise the policy of the execution boundary halts it, on record, or lets it pass.
Execute ==
  /\ writer["executor"].pc = "idle"
  /\ \E n \in requested, verdict \in { "DISCARDED", "HALTED", "NONE" } :
       /\ Discards <=> verdict = "DISCARDED"
       /\ writer' = [writer EXCEPT !["executor"] =
            [pc |-> IF verdict = "NONE" THEN "reserve" ELSE "append",
             number |-> n, result |-> verdict]]
  /\ UNCHANGED <<rows, audit, call, record, reserved, events, debits, clock, bounds>>

\* reserve_attempt: the row is flushed with the claim of the case.
Reserve ==
  /\ writer["executor"].pc = "reserve"
  /\ ~Taken(writer["executor"].number)
  /\ reserved' = writer["executor"].number
  /\ writer' = [writer EXCEPT !["executor"].pc = "pay"]
  /\ UNCHANGED <<rows, audit, call, record, events, debits, clock, bounds>>

\* A row of its own with the same key, or the row of somebody else: in both cases
\* the request counts as a duplicate, and the claim is rolled back.
ReserveRefused ==
  /\ writer["executor"].pc = "reserve"
  /\ Taken(writer["executor"].number)
  /\ Finish("executor")
  /\ UNCHANGED <<rows, audit, call, record, reserved, events, debits, clock, bounds>>

\* The provider answers, and the retry policy looks at a failure.
Pay ==
  /\ writer["executor"].pc = "pay"
  /\ \E result \in { "SUCCESS", "RETRY_SCHEDULED", "STOPPED" } :
       /\ result = "RETRY_SCHEDULED" => reserved < MaxAttempt
       /\ debits' = IF result = "SUCCESS" THEN debits \cup {reserved} ELSE debits
       /\ writer' = [writer EXCEPT !["executor"] = [@ EXCEPT !.pc = "append", !.result = result]]
  /\ UNCHANGED <<rows, audit, call, record, reserved, events, clock, bounds>>

\* The boundary stops or escalates the case; a discarded request leaves it alone.
CommitDiscard ==
  /\ writer["executor"].pc = "commit" /\ reserved = 0
  /\ CommitRecord("executor")
  /\ open' = (open /\ writer["executor"].result # "HALTED")
  /\ Finish("executor")
  /\ UNCHANGED <<payment, attempts, failures, call, reserved, events, debits, clock, bounds>>

CommitOutcome ==
  /\ writer["executor"].pc = "commit" /\ reserved # 0
  /\ CommitRecord("executor")
  /\ LET paid == writer["executor"].result = "SUCCESS" IN
       /\ attempts' = attempts \cup
            {[number |-> reserved, keyed |-> TRUE, status |-> IF paid THEN "SUCCESS" ELSE "FAILED"]}
       /\ payment' = IF paid THEN "RECOVERED" ELSE payment
       /\ failures' = IF paid THEN failures ELSE failures \cup {reserved}
       /\ open' = (writer["executor"].result = "RETRY_SCHEDULED")
       /\ requested' = IF writer["executor"].result = "RETRY_SCHEDULED"
                       THEN requested \cup {reserved + 1} ELSE requested
  /\ reserved' = 0
  /\ Finish("executor")
  /\ UNCHANGED <<call, failed, decided, debits, clock, bounds>>

\* A writer that dies loses its transaction: the attempt it has flushed and the
\* record it has appended.  (An executor that dies after the debit is the subject
\* of RecoveryExecution.)
CrashWriter(w) ==
  /\ writer[w].pc # "idle" /\ (w = "executor" /\ reserved # 0 => writer[w].pc = "pay")
  /\ crashes < MaxCrashes
  /\ crashes' = crashes + 1
  /\ record' = [record EXCEPT ![w] = NoRecord]
  /\ reserved' = IF w = "executor" THEN 0 ELSE reserved
  /\ Finish(w)
  /\ UNCHANGED <<rows, audit, call, events, debits, clock, reports, alterations>>

-------------------------------------------------------------------------------
(* The records changed behind the back of the ORM, whose listeners refuse it *)

\* A column of a record is overwritten.
Changed(r) ==
  { [r EXCEPT !.note = "altered"] }
    \cup { [r EXCEPT !.id = other] : other \in OtherIds }
    \cup { [r EXCEPT !.timestamp = other] : other \in OtherTimes }
    \cup { [r EXCEPT !.content = other] : other \in OtherContents }
    \cup { [r EXCEPT !.parent = other] : other \in OtherHashes }

\* So is its hash, on its own or with the one that fits what was overwritten.
Forged(r) ==
  Changed(r) \cup { Rehashed(x) : x \in Changed(r) }
             \cup { [r EXCEPT !.hash = other] : other \in OtherHashes }

\* A record is removed, replaced, or one is put in; the key of the table stays unique.
Alter ==
  /\ alterations < MaxAlterations
  /\ alterations' = alterations + 1
  /\ \E r \in trail :
       \/ trail' = trail \ {r}
       \/ \E kept \in { trail, trail \ {r} }, x \in Forged(r) :
            /\ \A s \in kept : s.id # x.id
            /\ trail' = kept \cup {x}
  /\ UNCHANGED <<history, overlapped>>
  /\ UNCHANGED <<rows, sessions, events, debits, clock, reports, crashes>>

Next ==
  \/ \E c \in Callers :
       Report(c) \/ CommitReport(c) \/ ReportRefused(c) \/ PublishReport(c) \/ CrashCaller(c)
  \/ \E w \in Writers : Append_(w) \/ CrashWriter(w)
  \/ Orchestrate \/ CommitDecision
  \/ Execute \/ Reserve \/ ReserveRefused \/ Pay \/ CommitDiscard \/ CommitOutcome
  \/ Alter

Spec == Init /\ [][Next]_vars

-------------------------------------------------------------------------------
(* Properties *)

TypeOK ==
  /\ payment \in PaymentState /\ open \in BOOLEAN
  /\ attempts \subseteq [number : Numbers, keyed : BOOLEAN, status : {"SUCCESS", "FAILED"}]
  /\ failures \subseteq Numbers /\ debits \subseteq Numbers
  /\ failed \subseteq Numbers /\ requested \subseteq Numbers /\ decided \subseteq failed
  /\ \A c \in Callers : call[c].pc \in { "idle", "commit", "publish" }
  /\ \A w \in Writers : writer[w].pc \in { "idle", "append", "reserve", "pay", "commit" }
  /\ reserved \in 0..MaxAttempt
  /\ overlapped \in BOOLEAN

\* Two writers that count the attempts of a payment on their own never share a
\* number: each number has one row, and none that the payment service has
\* reported as failed is debited by the executor (app/execution/idempotency.py:89).
NumbersAreShared ==
  /\ \A a, b \in attempts : a.number = b.number => a = b
  /\ \A a \in attempts : a.number \in debits => a.keyed /\ a.status = "SUCCESS"

\* What was announced is on record: a failure with attempt and diagnosis, a retry
\* with the failed attempt before it.
EventsReportRows ==
  /\ failed \subseteq failures
  /\ \A n \in requested : n - 1 \in failures
  /\ \A n \in failures : \E a \in attempts : a.number = n /\ a.status = "FAILED"

\* Equal but for the columns that the hash does not cover.
Agree(r, s) == /\ r.id = s.id /\ r.timestamp = s.timestamp /\ r.content = s.content
               /\ r.parent = s.parent /\ r.hash = s.hash

\* In a chain that verifies, a record that still has the hash it was appended with is
\* the one that was appended, and it vouches for all before it: if the trail verified
\* when it was appended, the records before it are those of then, none changed, moved,
\* removed or put in, whatever was altered, hashes included.  (Nothing vouches for the
\* last records: rewritten with hashes that fit, or removed, they leave a chain that
\* verifies, although app/audit/service.py:6 says "any alteration".)
VerifiedIsFaithful ==
  LET records == InOrder(trail)
  IN  Verified(records) =>
        \A i \in DOMAIN records, k \in DOMAIN history :
          records[i].hash = history[k].row.hash =>
            /\ Agree(records[i], history[k].row)
            /\ Verified(history[k].before) =>
                 /\ Len(history[k].before) = i - 1
                 /\ \A j \in 1..(i - 1) : Agree(records[j], history[k].before[j])

\* A trail that nobody changed verifies, when no two transactions appended to it
\* at the same time and the clocks of their hosts agree.
SerialTrailVerifies ==
  alterations = 0 /\ ~overlapped => Verified(InOrder(trail))

================================================================================
