------------------------------- MODULE AuditChain -------------------------------
(***************************************************************************)
(* The hash chain over the audit records of one payment                    *)
(* (app/audit/service.py): what an appended record is made of, which       *)
(* record becomes its parent, and what the verification of a trail         *)
(* recomputes and compares.  SHA-256 is an injective pairing of the        *)
(* canonical payload with the hash of the parent.                          *)
(***************************************************************************)
EXTENDS Integers, Sequences, Ranking

Genesis == << >>   \* parent_hash of the first record: none

Hash(payload, parent) == <<payload, parent>>

\* Mutant: the result of the action is left out of the canonical payload.
Canonical_NoResult(record) == [id |-> record.id, timestamp |-> record.timestamp]

\* What is hashed: every column but escalation_reason and evidence_snapshot
\* (here: note).
Canonical(record) ==
  [id |-> record.id, timestamp |-> record.timestamp, content |-> record.content]

\* ORDER BY timestamp, id.
Before(r, s) == \/ r.timestamp < s.timestamp
                \/ r.timestamp = s.timestamp /\ r.id < s.id

InOrder(trail) == Sorted(trail, Before)

\* Mutant: the oldest record is taken for the latest.
ParentFor_Oldest(trail) ==
  IF trail = {} THEN Genesis
  ELSE (CHOOSE r \in trail : \A s \in trail \ {r} : Before(r, s)).hash

\* The hash of the latest record of the payment that the transaction can see.
ParentFor(trail) ==
  IF trail = {} THEN Genesis
  ELSE (CHOOSE r \in trail : \A s \in trail \ {r} : Before(s, r)).hash

Appended(id, timestamp, content, parent) ==
  LET record == [id |-> id, timestamp |-> timestamp, content |-> content, note |-> "reason",
                 parent |-> parent, hash |-> Genesis]
  IN  [record EXCEPT !.hash = Hash(Canonical(record), parent)]

\* The hash needs no key: whoever can write the table can compute it.
Rehashed(record) == [record EXCEPT !.hash = Hash(Canonical(record), record.parent)]

Linked(records, i) ==
  records[i].parent = IF i = 1 THEN Genesis ELSE records[i - 1].hash

\* verify_chain_integrity: no broken link and no hash that differs.
Verified(records) ==
  \A i \in DOMAIN records :
    /\ Linked(records, i)
    /\ records[i].hash = Hash(Canonical(records[i]), records[i].parent)

================================================================================
