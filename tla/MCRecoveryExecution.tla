------------------------- MODULE MCRecoveryExecution -------------------------
(* Instances of RecoveryExecution for model checking. *)
EXTENDS RecoveryExecution, TLC

CONSTANTS w1, w2

TwoWorkers   == {w1, w2}
Permutable   == Permutations(Workers)

NoVerdict    == {}
AllVerdicts  == Verdict

\* Every await, and every await but the one between the provider's answer and
\* the commit.
AnyPoint       == PC \ {"idle"}
NotAfterAnswer == PC \ {"idle", "settle"}

\* Only before the outcome is committed.
BeforeCommit == NotAfterAnswer \ {"publish"}

\* What the planning of a further failure may commit: an approval or a halt (no
\* step tells one halt from the other), a halt only, nothing.
BothWays  == { "APPROVED", "STOPPED" }
AStop     == {"STOPPED"}
NoPlan    == {}

First     == {1}
FirstTwo  == {1, 2}
NoFault   == {}
AtSettle  == {"settle"}

===============================================================================
