--------------------------- MODULE SolverContract ---------------------------
(***************************************************************************)
(* What the auctioneer is promised by `Solver::solve'                      *)
(* (crates/oxdex-solver/src/lib.rs): every solver it asks about a batch    *)
(* returns, once, with an error or with a solution that trades orders of   *)
(* that batch, each at most once and none without a counterparty.  Nothing *)
(* is said of threads, pairs or deadlines: ReferenceSolver implements it.  *)
(***************************************************************************)
EXTENDS SolverAnswers

CONSTANTS
    Solver,       \* the registered solvers
    Batches       \* the batches a round may seal

VARIABLES
    asked,        \* the batch of the round, {} between rounds
    outcome       \* what each solver's call has come to

NoReply == [result |-> "none"]

Init == /\ asked = {}
        /\ outcome = [s \in Solver |-> NoReply]

Ask(b) == /\ asked = {}
          /\ asked' = b
          /\ UNCHANGED outcome

Return(s) == /\ asked # {}
             /\ outcome[s] = NoReply
             /\ IsAnswer(outcome'[s], asked)
             /\ \A t \in Solver \ {s} : outcome'[t] = outcome[t]
             /\ UNCHANGED asked

Conclude == /\ asked # {}
            /\ \A s \in Solver : outcome[s] # NoReply
            /\ asked' = {}
            /\ outcome' = [s \in Solver |-> NoReply]

Next == \/ \E b \in Batches : Ask(b)
        \/ \E s \in Solver : Return(s)
        \/ Conclude

vars == <<asked, outcome>>

EveryCallReturns ==
    \A s \in Solver :
        asked # {} /\ outcome[s] = NoReply ~> outcome[s] # NoReply

Spec == Init /\ [][Next]_vars /\ EveryCallReturns
=============================================================================
