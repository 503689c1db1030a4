------------------------ MODULE MCRecoveryOrchestration ------------------------
(* Instances of RecoveryOrchestration for model checking: two failures of one   *)
(* payment, the first delivered twice, and an event of another type; or three   *)
(* failures, so that two members may plan with an existing case.                *)
EXTENDS RecoveryOrchestration, TLC

Failed(i, n) == [id |-> i, type |-> "payment.failed", attempt |-> n]
Other        == [id |-> "o", type |-> "recovery.started", attempt |-> 0]

FailedTwice  == << Failed("f1", 1), Other, Failed("f1", 1), Failed("f2", 2) >>
TwoFailures  == << Failed("f1", 1), Failed("f2", 2) >>
ThreeFailures == Append(TwoFailures, Failed("f3", 3))

Symmetry == Permutations(Consumers)
===============================================================================
