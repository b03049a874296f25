---------------------------- MODULE SolverAnswers ----------------------------
(***************************************************************************)
(* What a call of `Solver::solve' may return (crates/oxdex-solver and      *)
(* crates/oxdex-types/src/solution.rs), as both sides of the trait see it. *)
(***************************************************************************)
EXTENDS Orders, Bags

CONSTANT Score    \* the scores a solution can have

Failed == [result |-> "error"]

\* An error, or a solution that trades orders of the batch, each at most once
\* and none without a counterparty; one that trades nothing scores nothing.
IsAnswer(r, b) ==
    r = Failed \/ /\ r.result = "solution"
                  /\ r.trades = SetToBag(BagToSet(r.trades))
                  /\ BagToSet(r.trades) \subseteq b
                  /\ Tradable(BagToSet(r.trades))
                  /\ r.score \in Score
                  /\ BagToSet(r.trades) = {} => r.score = 0
=============================================================================
