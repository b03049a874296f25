# A TLA+ development of OxDEX

OxDEX is a batch-auction DEX back end: an HTTP API takes signed limit orders
into a store, an auctioneer seals the open ones into a batch every few hundred
milliseconds, lets solvers compete for it, marks the winner's orders and hands
its solution to a settlement sink as one bundle. This directory models that
core in TLA+, checks it with TLC on small instances and proves its safety
properties with TLAPS for all instances. File names below are relative
to `src/crates/` unless they start with `README.md`.

## 1. Inventory

| Component | State | Operations | Correct when |
|---|---|---|---|
| Orders, prices (`oxdex-types`) | none | `validate`, `verify`, `id`, `limit_price`, `apply`, `cmp` | comparisons are exact, rounding is down |
| Order store (`oxdex-storage`) | one record per order id: status, signed order, fills | `insert`, `get`, `list_open`, `update_status`, `cancel`, `expire_due`, in a DashMap and in Postgres | records are never replaced; closed orders stay closed |
| HTTP API (`oxdex-intent-pool`) | requests in flight | `POST`, `GET`, `DELETE /v1/orders` | what a client was told is true of the store |
| Auctioneer (`oxdex-auctioneer`) | one round's locals | tick: sweep, list, race, mark, deliver; shutdown | no order is executed twice; rounds are whole; the best answer wins |
| Solver (`oxdex-solver`) | tasks on the blocking pool, some given up on | `solve` with a deadline | returns once, for its own batch, even when its task does not |
| Matcher (`oxdex-matching`) | none between calls | `match_batch`, `match_pair` | limits, all-or-nothing, amounts, priority; ends; pairs do not interfere |
| Settlement sink (`oxdex-node`, `oxdex-jito-client`) | bundles sent | `deliver`, `submit` | at most once per order |
| Node (`oxdex-node`) | which tasks run | boot, serve, shutdown | stops cleanly; loses nothing |
| Configuration, on-chain program, addresses, errors, deployment | - | - | settings are constants here; the on-chain program is a scaffold that returns `Ok(())` |

The store is the only thing the API and the auctioneer share; they talk through
nothing else. Every store call is an `await`, so handlers of several clients and
the steps of a round interleave at each of them. The auctioneer is one task:
rounds never overlap, and the shutdown message is looked at only between
rounds. Nothing but the database survives a restart, and a process that cannot
reach it starts on an empty in-memory store.

What is hard, and listed in `PROJECT.json` under `hazards` with its line:

* the round's batch is a snapshot, and the marks written a race later look at
  no status;
* the in-memory store's sweep and listing visit entries one at a time;
* a Postgres insert is two statements when the id is taken, any statement may
  fail after it has committed, and clients retry;
* marks that fail are logged and the solution is delivered regardless;
* shutdown and crashes in the middle of a round, and starts on another store;
* a solver's call that gives up leaves its task running beside those of later
  rounds;
* the matcher's all-or-nothing fills that are undone, integer rounding to zero,
  saturation, and a clearing price remembered from a fill that was undone.

## 2. Modules

| Module | Models |
|---|---|
| `Orders` | orders by id, `validate`, `verify` |
| `WallClock` | the host's clock in seconds |
| `OrderStore` | the repository trait and both backends |
| `IntentPool` | the HTTP handlers |
| `Settlement` | `JitoSink` and what becomes of a bundle |
| `Auctioneer` | `run` and `run_one_auction` |
| `Node` | the process: all of the above, shutdown, crashes and starts, fairness, and the properties |
| `SettlementLedger` | abstract: what the node promises about an order |
| `NodeLedger` | the refinement mapping from `Node` to it |
| `MCNode` | small instances of `Node` |
| `NodeProofs`, `BookProofs` | theorems about `Node`: types, book and sink; what becomes of a record, what clients were told |
| `RoundProofs` | theorems about `Node`: sweep, race, marks, and its refinement of `SettlementLedger` |
| `Price` | rational prices in saturating integers |
| `PairMatching` | `match_pair`, a turn of its loop a step |
| `PairProofs`, `PairLimits` | theorems about `PairMatching`: amounts; the walk, limits, balance and progress |
| `Sums` | induction over numbers and finite sets, folds and sums |
| `BatchMatching` | `match_batch` as operators: grouping by pair, merging; and what it should return |
| `ReferenceSolver` | `ReferenceSolver::solve`, the blocking pool and rayon's workers |
| `SolverAnswers` | what a call of `solve` may return |
| `SolverContract` | abstract: what the auctioneer is promised by a solver |
| `MCReferenceSolver` | small instances of `ReferenceSolver` |
| `BatchProofs` | theorems about `BatchMatching` |
| `SolverProofs` | theorems about `ReferenceSolver` |

Composition is by `EXTENDS`: `IntentPool` and `Auctioneer` both extend
`OrderStore` and share its variables, `Node` extends the two. A component's
actions constrain its own variables and the ones of the modules it extends;
`Node` adds the `UNCHANGED` of the others (`ApiStep`, `Background`).
`ReferenceSolver` extends `BatchMatching` and meets the auctioneer in
`SolverContract`: it implements the contract, and `Auctioneer!Solutions` are the
contract's answers, with any fills and scores (`RoundProofs!SolutionsAreTheAnswers`). `PairMatching` gives what
`BatchMatching` takes as constants: which orders of a pair trade (`Matched`, of
which it is assumed that each has an opposite among them) and with what surplus.

### Correspondence with the code

**Store.** `book[o]` is the record of the order with id `o`, status `"absent"`
when there is none. An id is the hash of the order, so it stands for the order;
a record adds the signature, a status and the fill. `Filled` and
`PartiallyFilled` are written by no code and are not statuses of the model.
`backend` is what the last start opened; `shelf` is the database's table while
the process does without it. `Visit` says what a call over all entries can do in
one atomic step: one entry in memory, all of them in Postgres. `CallFails` is a
Postgres error; every action that fails has a disjunct in which its effect was
committed and one in which it was not.

**API.** A submit is `SubmitOrder` (validate against the clock, verify), then
`InsertOrder` when the id is free, or `InsertConflicts` when it is taken, after
which Postgres needs `FetchExisting` to compare. A cancel is a single statement.
`acked`, `conflicted` and `cancelAcked` record what clients were told, by the
backend that told them. Requests refused before the store and the reading
endpoints change nothing and have no action; what each endpoint answers in a
state is an operator (`SubmitStatus`, `GetStatus`, `ListOrders`, `CancelStatus`),
and `AnswersStayTrue` is about those.

**Auctioneer.** `phase` is the `await` the round stands at: `expiring`
(`Sweep`), `listing` (`List`), `racing` (`SolverAnswers`, `SolverFails`),
`marking` (`MarkAuctioned`, `MarkFails`), then `Deliver`. `RoundFails` is the
`?` of the two store calls. A solution is any assignment of fills to orders of
the batch that all have an opposite there, which is all the auctioneer relies on
of a solver. `dueAtStart`, `topScore` and `lostMarks` are history variables that
properties use and no guard reads. `EndRound` resets the round's locals.

**Settlement.** `landed` is the fill each executed order was last executed with,
and an execution of 0 for 0, with the fill `Unfilled`, is one; `repeated` are the
orders executed more than once, `dropped` the orders whose last bundle was
lost. What makes a bundle land is outside this repository and is a choice. The
sink logs what the submitter answers and does nothing with it, so the answer is
no part of the state: a bundle may land and be answered with an error (the
client waits 5 s), or be accepted and never land.

**Node.** `ServerReturns` ends the API and drops the handlers where they wait;
`SendShutdown` and `TakeShutdown` are the rest of a graceful shutdown.
`Restart(b)` ends the process wherever it stands, which is a crash unless it had
stopped, and starts it on backend `b`: Postgres with what the database holds, or
an empty in-memory store, which loses what an in-memory store held before. A
start that connects but cannot migrate returns before it serves anything and has
no step. `forgotten` and `stranded` are histories: orders whose record changed
with the store, and orders the crash left marked but undelivered. A statement in
flight at a crash may still be committed: that is `SubmitFails`, `CancelFails`,
`MarkFails` or `RoundFails` followed by `Restart`, so it uses up one of the
allowed failures.

**Matching.** `aSide` and `bSide` are the sorted sides; indices start at 1. A
turn is one of `SkipDust`, `RollBackA`, `RollBackB` and `FillHeads`, which are
the loop's `continue`s and its end, or `EndMatching`. The lists of fills are
kept as sums per order, which is all that is read of them later. The integer
widths are the constants `MaxU64` and `MaxU128`. `PairMatching` starts from
every pair of sorted sides; that includes every order in which a stable sort can
leave orders of equal price. Both sides may be empty, where the code returns
early with nothing traded and the model ends at once.

**Solver.** `tasks` are the closures handed to `spawn_blocking`, `queue` those
without a thread yet. `Solve` is `solve` up to its await; then `ReturnSolution`
when the task is done first, or `TimeOut`, which forgets the task and leaves it
in the queue or running. The pairs of a batch come out of a hash map, so
`MergeOnePair` takes one after the other in any order, beside those of other
tasks, and adds its outcome to what the task has merged. rayon's workers run
`match_pair` of a pair at any time before; as it reads nothing but its group,
when they do makes no difference and is no step of its own. `FinishTask` is the
end of the loop and keeps the solution only if somebody waits for it. Hash maps
give trades and prices in no order (`oxdex-matching/src/lib.rs:89`, `:280`), so a
solution holds them as bags: solutions of one batch agree up to the order of
those vectors, which is less than the "byte-exact identical" of
README.md:222-223. What readers do with trades and score does not depend on that
order. `Solution::price_of` does: of two prices of a mint it returns the first,
and `one_price` shows a batch that has two.

## 3. Runs

### Passing

| Run | Instance | Question |
|---|---|---|
| `node_memory` | memory, 3 orders, 2 signatures of which one is forged, 2 solvers | are sweeps effective, winners best, closed orders closed, and is `SettlementLedger` implemented |
| `node_inserts` | both backends, 1 order, 2 signatures, 2 clients, 2 failures, 2 restarts | do answers stay true |
| `node_faults` | both backends, 2 orders, 2 fills of which one is 0 for 0, 2 failures, 1 restart, bundles may be lost | do book and chain agree, is nothing executed twice, are rounds whole |
| `node_liveness` | Postgres, 2 orders, 2 solvers, 1 failure, 1 restart, bundles may be lost | does the auctioneer stop, do due orders expire, do races end, and is `SettlementLedger` implemented |
| `pair_matching` | every book of at most 2 + 2 orders, amounts 1..3 | does the loop keep its promises, and end |
| `solver_pool` | 2 solvers, 2 batches of 5 and 3 orders in two markets, 3 tasks, 2 threads | are answers right, in whatever order pairs are merged, and is `SolverContract` implemented |

`node_memory` has a client that submits and cancels in every step of a round;
the forged signature shows that the check in `submit_order` is what keeps
unsigned orders from execution. One order falls due during the run, so sweeps
have something to find and something to leave.

`ImplementsLedger` maps the book and the batch to the ledger and includes its
fairness: what a round reserves is settled, failed or stranded in the end, all
of it at once. It is checked twice: entry by entry over three orders without
failures, and in `node_liveness` with a failing mark, a crash at any step and
lost bundles. What it needs is that every start opens the same database, as
`NodeLedger` says: a start on another store un-lists orders, which the ledger
forbids. What holds across such starts is `AnswersStayTrue`,
`BookAgreesWithSink` and `RedeliveryNeedsLostMark`, in which an order the store
forgot counts as one whose mark was lost.

`node_faults` executes orders, loses their marks, and trades them again with
another fill: this is how `repeated` can grow, and `RedeliveryNeedsLostMark` says
it grows only so. A round trades an order and its counterparty, and needs both to
be open again: the two failures are the two marks of one round, and a start on an
empty store forgets both at once.
`RoundsAreWhole` says a marked order was delivered once the round is over;
`stranded` is the one exception, and only a crash between marking and delivery
puts orders there.

`solver_pool` gives two solvers three tasks and two threads: a call can find
every thread busy with tasks of earlier rounds and time out before its own has
started. `AnswersMatchReference` compares an answer with the definition of a
matched batch that groups by unordered pair and adds up exactly
(`TradedIn`, `ScoreOf`); `AnswersAreOfTheRound` says that an answer is what
`match_batch` makes of this round's batch, and not of one a call has given up
on. One batch has two live markets whose surpluses pass
`MaxU128`, and an order its market leaves unmatched; the other has an order
whose only counterparty is missing. `ImplementsContract`
assumes nothing of the pool, not even that a task ever starts.

### Claims of the documentation the code does not keep

| Run | Claim | What happens |
|---|---|---|
| `cancel_race` | an order an auction picked up can no longer be cancelled (README.md:518, `oxdex-types/src/order.rs:45`) | cancel answered 204 during the race, then marked and executed |
| `lost_bundle` | the next tick re-seals orders of a failed bundle (README.md:644) | they stay auctioned, only open ones are listed, and none is ever in a batch again |
| `pair_payouts` | amounts are what is transferred from and delivered to users, and settlement asserts conservation (`oxdex-types/src/solution.rs:24`, `programs/oxdex-settlement/src/lib.rs:22`) | at the midpoint price one side is paid more than the other gives; the orders of the test `perfect_cow_match` pay out 114 A for 100 A |
| `one_price` | one clearing price per token (`oxdex-types/src/solution.rs:37`) | a mint traded in two pairs has two prices, and `price_of` returns the first |
| `pair_turns` | matching is O(n log n) (`oxdex-matching/src/lib.rs:27`) | for the same reason two orders can take a turn per unit |
| `pair_overflow` | prices do not overflow for a realistic book (`oxdex-types/src/price.rs:4`) | midpoint price times amount is cubic in the amounts; beyond about 2^42 units the executed amount is u64::MAX |

Six more differences need no run. `oxdex-storage/src/lib.rs:7` gives the in-memory
store "identical semantics", but cancelling an order that is not there is
answered 404 over it and 409 over Postgres (`memory.rs:110`, `postgres.rs:217`;
`CancelInMemory` and `CancelInPostgres` differ just there). README.md:690 has a solver that panics
dropped from the race; the release profile says `panic = "abort"`
(`Cargo.toml:64`), with which the process ends. README.md:255 has the race never
block on the slowest solver; it waits for all of them, and it is
`ReferenceSolver` that keeps the deadline. README.md:692 expects the
settlement program to reconcile orders of a failed bundle where README.md:644
expects the next tick to. `OrderKind` tells exact-in from exact-out orders
(`oxdex-types/src/order.rs:101`), and the matcher does not read it. And an order
whose every fill was rounded down to nothing still gets an execution, of 0 for
0 (`oxdex-matching/src/lib.rs:284`), with which it is marked and leaves the
open book; no document says what such an order is owed.

### Bounds

Every bound is a constant. `MaxTime`, `MaxFaults` and `MaxRestarts` bound the
clock, the failures and the starts. One failure and one restart can come at any
step of a round, which is where they matter. `node_inserts` has two of each, for
a retry that fails too and for a way back to the database; `node_faults` has two
failures, so that both marks of a round can be lost. Three orders are the fewest that let one be
traded against different partners; two solvers the fewest that race. One tick of
the clock makes an order due. In `solver_pool`, `TaskId` bounds the tasks that
are queued or running at once, where the runtime's queue has no bound and the
auctioneer never waits: `Ask` has the guard `RoomForRound`, and one place more
than there are solvers lets a task outlive its round beside a whole new one. The
backlog TLC sees is thus short. The theorems do not need it short: `TaskId` may
be infinite, and then `RoomForRound` holds in every state
(`SolverProofs!NoBound`). `MaxThreads` is less than the tasks,
so that some have to queue. The history counter
`turns` stops one past the bound `LinearTurns` states. In `pair_matching` amounts up to 3 give prices above, at and below 1,
rounding to zero and undone fills, whose two halves `AmountsBalance` follows on
each side and `FillsBalance` across them; two orders a side give rollback followed by
another fill. Its widths (3 and 255) make any amount that left u64 visible as a
type error, and no product overflows there, so that `LimitsRespected` is about
exact prices. `pair_overflow` takes widths in the proportion of the real ones
and amounts that pass the cube root of the larger. `TypeOK` in `pair_matching`
is the one check of saturation in `Undo`: with `MaxU64` at the largest amount,
adding a fill twice leaves u64.

### Deadlock

Runs switch deadlock checking off because the systems stop: the node after a
graceful shutdown, a match when it is done.

### Fairness

* The interval ticks and the runtime polls the round: weak fairness of
  `StartRound` and `RoundStep`. A store call returns, with a result or an error:
  a fault either is taken or leaves the step enabled.
* A solver in `Punctual` returns. `ReferenceSolver`, the only one registered,
  enforces the deadline itself: that is `ImplementsContract` of `solver_pool`,
  from nothing but the race polling its calls and their timers going off (weak
  fairness of `Solve`, `ReturnSolution` and `TimeOut` together). Threads and
  workers are under no fairness.
* `select!` polls its branches in random order. When rounds take longer than the
  interval a tick is always ready beside the shutdown message, so each time the
  task is idle it takes the message only with some probability: strong fairness
  of `TakeShutdown`.
* `main` goes on after the server, and the clock advances.
* No fairness for clients, cancels, failures, restarts or the server's return.

## 4. Proofs

`tlapm` checks every step from nothing. Sets of orders, clients and solvers,
the backend and all bounds are arbitrary; the assumptions are the named
`ASSUME`s of the modules (an order's fields have their types, a batch is finite,
an order that trades has an opposite and two different mints, and the like), which TLC evaluates on the instances.
Every safety invariant and every action property of the passing runs is a
theorem. Two of them have a hypothesis of their own, `SameStore` and
`PriceFits`, and each is needed; `SolutionsAreTheAnswers` assumes that some fill
and the score 0 exist.

### The node

* `NodeProofs!TypeCorrect`: `Spec => []TypeOK`. One lemma per store operation
  says it keeps the book well formed; then one step per action.
* `NodeProofs!SettlementSafe`: the invariant `SettlementInv` is the conjunction
  of `BookAgreesWithSink`, `RedeliveryNeedsLostMark` and `RoundConsistent`.
  Neither of the first two is inductive alone. That a delivery repeats no order
  needs that the orders of the batch were not executed when listed and have not
  been since; that the book agrees after it needs that every trade of the winner
  was marked with its fill, or its mark lost. Both are what `RoundConsistent`
  says of a running round. The proof rests on one observation about everything
  that may happen under a round: `BookKept`, records stay and auctioned records
  do not change. `BookAgreesWithSinkHolds`, `RedeliveryNeedsLostMarkHolds` and
  `RoundConsistentHolds` are corollaries. They hold with any number of failures,
  bundles lost, and starts on the database or on an empty store: a start changes
  the record only of orders it adds to `forgotten`, ends the round, and so keeps
  `SettlementInv` whichever store it opens.
* `BookProofs` begins with what one step can make of one record (`RecordMoves`:
  nothing, insert, cancel, expire; a mark is apart). Three invariants build on
  it. `SignedInv`: requests past `submit_order`, records of the book and records
  on the shelf are signed; the shelf has to be in it because a later start may
  bring it back (`OnlySignedOrdersExecuteHolds`). `BatchInv`: an order of the
  batch is open or cancelled until the round marks it, never expired and never
  auctioned by another round. The sweep cannot expire it because a round
  that sweeps holds nothing yet. From that every step is a `StaysClosed` step
  (`ClosedOrdersStayClosedHolds`). `AnswersInv`: what was told by a backend is
  true of the records that backend holds now or will hold when it is opened
  again, and a request that was found in conflict has a record to conflict with
  (`AnswersStayTrueHolds`).
* `RoundProofs`: `SweepInv`, an order due at the start of the round is open only
  while the sweep has still to visit it, because the ids the sweep collected
  include every record that was there and nothing reopens one
  (`SealedBatchIsSweptHolds`); `BestIsTop` (`WinnerHasTopScoreHolds`);
  `MarksInv`, an order marked in the book or on the shelf is executed, dropped,
  stranded or a trade of the round that is marking (`RoundsAreWholeHolds`).
* `RoundProofs!ImplementsLedgerSafely`: under `SameStore` every step of the node
  is a step of `SettlementLedger` under the mapping of `NodeLedger`, or changes
  nothing of it. `LedgerInv` says that no order is "leaked", so that each step
  has an abstract one: marks reserve one at a time, `Deliver` concludes all that
  is reserved, a crash strands it. `SameStore`: the database is reached at every
  start, or there is one start only. Without it an in-memory store forgets
  orders the ledger still lists.

* `RoundProofs!SolutionsAreTheAnswers`: the solutions a race of the model may
  get are the answers `SolverAnswers` allows, which are those of the contract
  `ReferenceSolver` is proved to keep. So what is proved of rounds holds of
  rounds with that solver; fills, which it does not model, are free in the race.

### Matching a pair

* `PairProofs`: `PairInv`, the conjunction of `TypeOK`, `AmountsBalance` and
  `AllOrNothing`, is inductive. The heart is that a fill never exceeds what its
  two orders have left, `TradeB <= bRemaining` in spite of two divisions, and
  that undoing a fill restores both sides exactly because nothing saturates:
  amounts fit u64 and the product of two fits u128 (`WidthAssumption`).
  `AmountsBalanceHolds`, `AllOrNothingHolds` and `PairTypeCorrect` follow.
  `BothSidesTradeHolds` says that orders of one side trade only if some of the
  other do: what `BatchMatching` assumes of the constant `Matched`, and
  `Auctioneer` of solutions, is a theorem about the loop.
* `PairLimits`: `HeadsInv`, orders before a head that allow partial fills are
  used up and orders behind it have not traded, gives `PricePriorityHolds`.
  `WalkInv`, the sides are sorted and a finished walk stopped at heads that do
  not cross, gives `NoTradeLeftOverHolds`: limits that cross far from the heads
  would cross at the heads, by transitivity along the sorted sides
  (`SortedPairwise`, from neighbours to any two). `FillsBalanceHolds` needs that
  adding to one summand adds to the sum (`Sums!TotalAdds`), twice.
* `WorkShrinksHolds`: every turn passes a head or takes something of A, so that
  what is left, the heads before the walk and the amounts of `aSide`, is a
  smaller natural number after it. The amounts of `bSide` cannot count: a fill
  may give none of them. With weak fairness this is why `Terminates` holds for
  every book, though that last inference is TLC's to check; it is also the bound
  on turns that does hold, where `LinearTurns` does not.
* `LimitsRespectedHolds`: `CrossInv`, the remembered limits are those of heads
  that crossed and nobody behind those heads has traded, even when the fill of
  those heads was undone. The midpoint lies between the two limits, hence beyond
  the limit of everybody who traded, and `apply` keeps the order although it
  rounds down. Its hypothesis `PriceFits` is that twice the product of two
  amounts fits a u128: the denominator of the price is such a product. The real
  widths leave it out of reach only where two amounts multiply to more than
  2^127; there the denominator saturates, the price is too high, and orders of
  the other side do get less than their limit gives.

### Matching a batch, and solvers

* `BatchProofs!AnswerIsReference`: the groups of `match_batch` are the markets
  of the batch, each once, because ranks of mints are unique (`GroupsAreMarkets`);
  `match_pair` of a market trades what the market trades or nothing
  (`PairOutcome`); and the merge of any part of the pairs holds the trades of
  those groups, once each, and the sum of their surpluses saturated once
  (`MergedRight`, by induction over the part that is merged). `MergeTurn` says
  the same of one more pair, whichever it is, and `MergedOnce` that what is
  merged right is merged to one solution: so the order of the pairs is no matter.
* `SolverProofs`: `SolverInv`, with any number of solvers, tasks and threads. A
  call waits for a task that holds the round's batch, and for one no other call
  waits for (`CallsOfTheRound`). This needs that a place taken for a new task is
  one nobody waits for, that a task has merged its pairs right so far
  (`TasksWellFormed`), that a queued task is in the queue once
  (`QueueWellFormed`), and that a call finds a place (`PlacesSuffice`, an
  argument by cardinalities: a round begins with one place per solver, and each
  call takes one). `NoBound` says the bound of the places is no restriction when
  `TaskId` is infinite: a step takes at most one, so finitely many are taken, and
  what is left has parts of every size (`Sums!FiniteParts`). `AnswersAreOfTheRoundHolds` follows, and with
  `AnswerIsReference` also `AnswersMatchReferenceHolds`. `SolverTypeCorrect`
  needs `NoTaskLost` besides: all that waits for a thread is in the queue, and
  whatever is done is waited for. `ContractKept` is the safety part of
  `ImplementsContract`; that what `match_batch` makes of a batch answers that
  batch is a lemma (`MatchBatchAnswers`).

### Induction

The library's induction theorems take an operator as a parameter, which the
installed provers cannot instantiate. `Sums` does without: a set of natural
numbers has a least element (`Least`), a set of subsets of a finite set has a
minimal one (`MinimalSubset`), both from the well-foundedness of `<`, and a
proof by induction is the refutation of a minimal counterexample. That a fold
over a finite set exists (`FoldExists`) is proved once, for a step given as a
function; the sums of `MapThenSumSet` and the merges of `match_batch` are such
folds.

### Model-checked only

Liveness (`StopsAfterShutdown`, `RacesEnd`, `DueOrdersLeaveTheBook`, `Terminates`)
and the fairness halves of `ImplementsLedger` and
`ImplementsContract`: fairness and `ENABLED` are out of the prover's reach.

## 5. Plan

Written, in this order: `Orders`, `OrderStore`, `IntentPool`, `Settlement`,
`Auctioneer`, `Node` with the runs above; `SettlementLedger`; `PairMatching`;
starts on either store, answers of every endpoint and stranded orders;
`BatchMatching`, `ReferenceSolver`, `SolverContract`; and the proofs of
section 4. Worth proving still:

1. that what `PairMatching` ends with can be given to `BatchMatching` as `Matched`
   and `Surplus`; its outcome would have to be a function of the orders, where
   now orders of equal limits may come in either order;
2. how far executed amounts can be from the fills they re-price, which bounds
   what `pair_payouts` shows.

## 6. Not modelled

Configuration loading, encodings, error codes, logging, metrics and deployment
keep no state the properties tell apart. The on-chain program is a scaffold.
Durations are not measured: an interval or a deadline is the step it enables.
`unix_secs` is assumed not to go back. The submitters' requests, replies and ids
reach nothing but the log. The database is reached at a start or it is not; that
it comes and goes while the process runs is what failing calls stand for.
Surplus per order, from which a pair's score is added up, is a constant of
`BatchMatching`. A query's isolation in Postgres is taken
to be what a single statement gives: it reads and writes one state of the table.
