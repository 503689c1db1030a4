----------------------------- MODULE MCPaymentLedger -----------------------------
(* Two sessions of the payment service may report the same attempt, early or late. *)
EXTENDS PaymentLedger, TLC

ExecutorBehind == [orchestrator |-> 0, executor |-> 1]

AlteredContent == { <<"altered">> }
AlteredHash    == { <<"altered">> }

Symmetry == Permutations(Callers)
==================================================================================
