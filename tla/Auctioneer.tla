----------------------------- MODULE Auctioneer -----------------------------
(***************************************************************************)
(* The auctioneer task (crates/oxdex-auctioneer/src/lib.rs): one round per *)
(* tick of its interval, each store call of the round a step of its own,   *)
(* so that API handlers run in between.                                    *)
(*                                                                         *)
(*   idle -> expiring -> listing -> racing -> marking -> idle              *)
(*                                                                         *)
(* and stopped once the shutdown message has been taken.  The interval is  *)
(* not measured: a tick can come whenever the task is idle.                *)
(***************************************************************************)
EXTENDS Settlement, WallClock, FiniteSets

CONSTANTS
    Solver,       \* the registered solvers
    MinSolvers,   \* auction.min_solvers
    Score         \* the scores a solution can have

ASSUME SolverAssumption == IsFiniteSet(Solver) /\ MinSolvers \in Nat
ASSUME ScoreAssumption == Score \subseteq Nat

VARIABLES
    shutdown,     \* a message is in the shutdown channel
    phase,        \* where the task is
    now,          \* the clock as run_one_auction read it
    unvisited,    \* the entries expire_due or list_open has still to visit
    batch,        \* the orders listed as open, then the sealed batch
    pending,      \* solvers that have not returned
    best,         \* the best solution so far
    toMark,       \* trades of the winner not yet written to the store
    dueAtStart,   \* (history) orders that were due when the round began
    topScore,     \* (history) the highest score returned in this round
    lostMarks     \* (history) orders whose update_status failed, undone

auctioneerVars == <<shutdown, phase, now, unvisited, batch, pending, best, toMark,
                    dueAtStart, topScore, lostMarks>>

NoSolution == [score |-> -1, trades |-> NoTrades]

\* What `solve' may return on a batch (SolverContract says the same of it);
\* fills and scores are free.
Solutions(b) ==
    {[score |-> 0, trades |-> NoTrades]} \cup
    UNION {[score : Score, trades : [S -> Fill]] :
             S \in {T \in SUBSET b : T # {} /\ Tradable(T)}}

AuctioneerInit ==
    /\ shutdown = FALSE
    /\ phase = "idle"
    /\ now = 0
    /\ unvisited = {}
    /\ batch = {}
    /\ pending = {}
    /\ best = NoSolution
    /\ toMark = {}
    /\ dueAtStart = {}
    /\ topScore = -1
    /\ lostMarks = {}

-----------------------------------------------------------------------------
\* What no step of a round touches before its last.
outside == <<shutdown, faults, settlementVars>>

\* run_one_auction returns: its locals are gone.
EndRound ==
    /\ phase' = "idle"
    /\ now' = 0
    /\ unvisited' = {}
    /\ batch' = {}
    /\ pending' = {}
    /\ best' = NoSolution
    /\ toMark' = {}
    /\ dueAtStart' = {}
    /\ topScore' = -1

\* A tick, with enough solvers registered: read the clock and start the sweep.
StartRound ==
    /\ phase = "idle"
    /\ Cardinality(Solver) >= MinSolvers
    /\ phase' = "expiring"
    /\ now' = clock
    /\ unvisited' = OrderId
    /\ dueAtStart' = {o \in OrderId : Due(o, clock)}
    /\ UNCHANGED <<batch, pending, best, toMark, topScore, lostMarks, book,
                   outside>>

MutSweepStrict ==
    \E S \in Visit(unvisited) :
        /\ phase = "expiring"
        /\ unvisited # {}
        /\ ExpireDue(S, now - 1)
        /\ unvisited' = unvisited \ S
        /\ UNCHANGED <<phase, now, batch, pending, best, toMark, dueAtStart,
                       topScore, lostMarks, outside>>

\* expire_due, one atomic part of it.
Sweep ==
    \E S \in Visit(unvisited) :
        /\ phase = "expiring"
        /\ unvisited # {}
        /\ ExpireDue(S, now)
        /\ unvisited' = unvisited \ S
        /\ UNCHANGED <<phase, now, batch, pending, best, toMark, dueAtStart,
                       topScore, lostMarks, outside>>

\* expire_due has returned; call list_open.
StartListing ==
    /\ phase = "expiring"
    /\ unvisited = {}
    /\ phase' = "listing"
    /\ unvisited' = OrderId
    /\ UNCHANGED <<now, batch, pending, best, toMark, dueAtStart, topScore,
                   lostMarks, book, outside>>

MutListAll ==
    \E S \in Visit(unvisited) :
        /\ phase = "listing"
        /\ unvisited # {}
        /\ batch' = batch \cup {o \in S : Present(o)}
        /\ unvisited' = unvisited \ S
        /\ UNCHANGED <<phase, now, pending, best, toMark, dueAtStart, topScore,
                       lostMarks, book, outside>>

\* list_open, one atomic part of it.
List ==
    \E S \in Visit(unvisited) :
        /\ phase = "listing"
        /\ unvisited # {}
        /\ batch' = batch \cup {o \in S : Open(o)}
        /\ unvisited' = unvisited \ S
        /\ UNCHANGED <<phase, now, pending, best, toMark, dueAtStart, topScore,
                       lostMarks, book, outside>>

\* Either store call fails: `?' ends the round.  An expiry that fails may
\* have been committed.
RoundFails ==
    /\ phase \in {"expiring", "listing"}
    /\ unvisited # {}
    /\ CallFails
    /\ \/ phase = "expiring" /\ ExpireDue(unvisited, now)
       \/ UNCHANGED book
    /\ EndRound
    /\ UNCHANGED <<lostMarks, shutdown, settlementVars>>

\* list_open has returned orders: they are the batch; ask every solver.
SealBatch ==
    /\ phase = "listing"
    /\ unvisited = {}
    /\ batch # {}
    /\ phase' = "racing"
    /\ pending' = Solver
    /\ UNCHANGED <<now, unvisited, batch, best, toMark, dueAtStart, topScore,
                   lostMarks, book, outside>>

\* list_open has returned nothing.
NoOpenOrders ==
    /\ phase = "listing"
    /\ unvisited = {}
    /\ batch = {}
    /\ EndRound
    /\ UNCHANGED <<lostMarks, book, outside>>

MutLatestWins(s, sol) ==
    /\ phase = "racing"
    /\ s \in pending
    /\ pending' = pending \ {s}
    /\ best' = sol
    /\ topScore' = IF sol.score > topScore THEN sol.score ELSE topScore
    /\ UNCHANGED <<phase, now, unvisited, batch, toMark, dueAtStart, lostMarks,
                   book, outside>>

\* A solver returns a solution; only a strictly higher score replaces the best.
SolverAnswers(s, sol) ==
    /\ phase = "racing"
    /\ s \in pending
    /\ pending' = pending \ {s}
    /\ best' = IF best = NoSolution \/ sol.score > best.score
               THEN sol ELSE best
    /\ topScore' = IF sol.score > topScore THEN sol.score ELSE topScore
    /\ UNCHANGED <<phase, now, unvisited, batch, toMark, dueAtStart, lostMarks,
                   book, outside>>

\* A solver returns an error, a timeout among them.
SolverFails(s) ==
    /\ phase = "racing"
    /\ s \in pending
    /\ pending' = pending \ {s}
    /\ UNCHANGED <<phase, now, unvisited, batch, best, toMark, dueAtStart,
                   topScore, lostMarks, book, outside>>

\* Every solver has returned and one had a solution.
ChooseWinner ==
    /\ phase = "racing"
    /\ pending = {}
    /\ best # NoSolution
    /\ phase' = "marking"
    /\ toMark' = DOMAIN best.trades
    /\ UNCHANGED <<now, unvisited, batch, pending, best, dueAtStart, topScore,
                   lostMarks, book, outside>>

MutNoWinnerAsksAgain ==
    /\ phase = "racing"
    /\ pending = {}
    /\ best = NoSolution
    /\ pending' = Solver
    /\ UNCHANGED <<phase, now, unvisited, batch, best, toMark, dueAtStart,
                   topScore, lostMarks, book, outside>>

\* Every solver has returned and none had a solution.
NoWinner ==
    /\ phase = "racing"
    /\ pending = {}
    /\ best = NoSolution
    /\ EndRound
    /\ UNCHANGED <<lostMarks, book, outside>>

\* One turn of the marking loop.  Trades come out of hash maps: any order.
MarkAuctioned(o) ==
    /\ phase = "marking"
    /\ o \in toMark
    /\ UpdateStatus(o, "auctioned", best.trades[o])
    /\ toMark' = toMark \ {o}
    /\ UNCHANGED <<phase, now, unvisited, batch, pending, best, dueAtStart,
                   topScore, lostMarks, outside>>

\* The update fails; the loop warns and goes on.  It may have been committed.
MarkFails(o) ==
    /\ phase = "marking"
    /\ o \in toMark
    /\ CallFails
    /\ \/ UpdateStatus(o, "auctioned", best.trades[o]) /\ UNCHANGED lostMarks
       \/ UNCHANGED book /\ lostMarks' = lostMarks \cup {o}
    /\ toMark' = toMark \ {o}
    /\ UNCHANGED <<phase, now, unvisited, batch, pending, best, dueAtStart,
                   topScore, shutdown, settlementVars>>

MutDeliverEarly ==
    /\ phase = "marking"
    /\ DeliverBundle(best.trades)
    /\ EndRound
    /\ UNCHANGED <<lostMarks, shutdown, storeVars>>

\* The winner goes to the sink, traded orders or none; the round is over.
Deliver ==
    /\ phase = "marking"
    /\ toMark = {}
    /\ DeliverBundle(best.trades)
    /\ EndRound
    /\ UNCHANGED <<lostMarks, shutdown, storeVars>>

MutTakeShutdownMidRound ==
    /\ shutdown
    /\ phase # "stopped"
    /\ phase' = "stopped"
    /\ UNCHANGED <<now, unvisited, batch, pending, best, toMark, dueAtStart,
                   topScore, lostMarks, book, outside>>

\* select! takes the shutdown message; it is only looked at between rounds.
TakeShutdown ==
    /\ shutdown
    /\ phase = "idle"
    /\ phase' = "stopped"
    /\ UNCHANGED <<now, unvisited, batch, pending, best, toMark, dueAtStart,
                   topScore, lostMarks, book, outside>>

\* The steps of a round that has begun, but for the solvers' answers.
RoundStep ==
    \/ Sweep \/ StartListing \/ List \/ NoOpenOrders \/ SealBatch
    \/ ChooseWinner \/ NoWinner
    \/ \E o \in OrderId : MarkAuctioned(o)
    \/ Deliver

SolverReturns(s) ==
    \/ \E sol \in Solutions(batch) : SolverAnswers(s, sol)
    \/ SolverFails(s)

AuctioneerStep ==
    \/ StartRound
    \/ RoundStep
    \/ RoundFails
    \/ \E s \in Solver : SolverReturns(s)
    \/ \E o \in OrderId : MarkFails(o)
    \/ TakeShutdown
=============================================================================
