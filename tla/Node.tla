-------------------------------- MODULE Node --------------------------------
(***************************************************************************)
(* The node process (crates/oxdex-node/src/main.rs): the HTTP API and the  *)
(* auctioneer over one order store and one settlement sink, its graceful   *)
(* shutdown, and starts of the process after a shutdown or a crash, on the *)
(* database or, when it cannot be reached, on an empty in-memory store.    *)
(***************************************************************************)
EXTENDS IntentPool, Auctioneer

CONSTANTS
    Punctual,     \* the solvers that always return (ReferenceSolver does)
    MaxRestarts   \* bound on starts of the process after the first

ASSUME PunctualAssumption == Punctual \subseteq Solver

VARIABLES
    server,       \* whether `build_app' is still serving
    restarts,     \* starts after the first so far
    forgotten,    \* (history) orders whose record changed with the store
    stranded      \* (history) orders a crash left marked but undelivered

restartVars == <<backend, shelf, restarts, forgotten, stranded>>

nodeVars == <<server, restartVars>>

vars == <<clock, storeVars, settlementVars, intentVars, auctioneerVars,
          nodeVars>>

NodeInit == /\ server = "serving"
            /\ restarts = 0
            /\ forgotten = {}
            /\ stranded = {}

Init == ClockInit /\ StoreInit /\ SettlementInit /\ IntentInit
        /\ AuctioneerInit /\ NodeInit

-----------------------------------------------------------------------------
\* The HTTP server returns (SIGINT, SIGTERM or an error); the handlers still
\* running are dropped where they wait.
ServerReturns ==
    /\ server = "serving"
    /\ server' = "returned"
    /\ request' = [c \in Client |-> NoRequest]
    /\ UNCHANGED <<clock, storeVars, settlementVars, acked, conflicted,
                   cancelAcked, auctioneerVars, restartVars>>

MutJoinBeforeSend ==
    /\ server = "returned"
    /\ phase = "stopped"
    /\ ~shutdown
    /\ shutdown' = TRUE
    /\ UNCHANGED <<clock, storeVars, settlementVars, intentVars, nodeVars,
                   phase, now, unvisited, batch, pending, best, toMark,
                   dueAtStart, topScore, lostMarks>>

\* main goes on after the server: `shutdown_tx.send', then it waits for the
\* auctioneer task.
SendShutdown ==
    /\ server = "returned"
    /\ ~shutdown
    /\ shutdown' = TRUE
    /\ UNCHANGED <<clock, storeVars, settlementVars, intentVars, nodeVars,
                   phase, now, unvisited, batch, pending, best, toMark,
                   dueAtStart, topScore, lostMarks>>

\* Orders of the winner that are marked and wait for delivery.
Reserved ==
    {o \in DOMAIN best.trades :
        phase = "marking" /\ book[o].status = "auctioned"}

\* What the clients of an in-memory store were told goes with it.
Durable(answers) == [answers EXCEPT !["memory"] = {}]

\* The process, running or stopped, is started again and opens store b.  A
\* start that fails to migrate the database returns before it serves anything.
Restart(b) ==
    /\ restarts < MaxRestarts
    /\ restarts' = restarts + 1
    /\ OpenStore(b)
    /\ forgotten' = forgotten \cup {o \in OrderId : book'[o] # book[o]}
    /\ stranded' = stranded \cup Reserved
    /\ server' = "serving"
    /\ shutdown' = FALSE
    /\ request' = [c \in Client |-> NoRequest]
    /\ acked' = Durable(acked)
    /\ conflicted' = Durable(conflicted)
    /\ cancelAcked' = Durable(cancelAcked)
    /\ EndRound
    /\ UNCHANGED <<clock, faults, settlementVars, lostMarks>>

ClockTicks ==
    /\ Tick
    /\ UNCHANGED <<storeVars, settlementVars, intentVars, auctioneerVars,
                   nodeVars>>

ApiStep ==
    /\ server = "serving"
    /\ IntentPoolStep
    /\ UNCHANGED <<clock, settlementVars, auctioneerVars, nodeVars>>

Background(step) == step /\ UNCHANGED <<clock, intentVars, nodeVars>>

BackgroundStep == Background(AuctioneerStep)

Next ==
    \/ ApiStep
    \/ BackgroundStep
    \/ ClockTicks
    \/ ServerReturns
    \/ SendShutdown
    \/ \E b \in Backends : Restart(b)

Spec == Init /\ [][Next]_vars

(***************************************************************************)
(* Fairness.  The ticker and the tokio runtime run the round; a punctual   *)
(* solver returns (ReferenceSolver by its own timeout).  `select!' polls   *)
(* its two branches in random order, so a message waiting in the shutdown  *)
(* channel is taken sooner or later although a tick may win any number of  *)
(* times: strong fairness.  Nothing makes clients, crashes or the server's *)
(* return happen.                                                          *)
(***************************************************************************)
Fairness ==
    /\ WF_vars(ClockTicks)
    /\ WF_vars(Background(StartRound))
    /\ WF_vars(Background(RoundStep))
    /\ \A s \in Punctual : WF_vars(Background(SolverReturns(s)))
    /\ SF_vars(Background(TakeShutdown))
    /\ WF_vars(SendShutdown)

FairSpec == Spec /\ Fairness

-----------------------------------------------------------------------------
(***************************************************************************)
(* Type invariant.                                                         *)
(***************************************************************************)
Trades == UNION {[S -> Fill] : S \in SUBSET OrderId}

Solution == [score : Score \cup {0, -1}, trades : Trades]

StoreTypeOK == /\ book \in [OrderId -> OrderRecord]
               /\ faults \in Nat

SettlementTypeOK == /\ landed \in Trades
                    /\ repeated \subseteq OrderId
                    /\ dropped \subseteq OrderId

IntentTypeOK == /\ request \in [Client -> Request]
                /\ acked \in [Backend -> SUBSET SignedOrder]
                /\ conflicted \in [Backend -> SUBSET SignedOrder]
                /\ cancelAcked \in [Backend -> SUBSET OrderId]

AuctioneerTypeOK ==
    /\ shutdown \in BOOLEAN
    /\ phase \in {"idle", "expiring", "listing", "racing", "marking",
                  "stopped"}
    /\ now \in Nat
    /\ unvisited \subseteq OrderId
    /\ batch \subseteq OrderId
    /\ pending \subseteq Solver
    /\ best \in Solution
    /\ toMark \subseteq DOMAIN best.trades
    /\ toMark # {} => phase = "marking"
    /\ dueAtStart \subseteq OrderId
    /\ topScore \in Score \cup {0, -1}
    /\ lostMarks \subseteq OrderId

\* Every variable holds a value the program can hold.
TypeOK == /\ clock \in Nat
          /\ StoreTypeOK
          /\ SettlementTypeOK
          /\ IntentTypeOK
          /\ AuctioneerTypeOK
          /\ backend \in Backend
          /\ shelf \in [OrderId -> OrderRecord]
          /\ server \in {"serving", "returned"}
          /\ restarts \in Nat
          /\ forgotten \subseteq OrderId
          /\ stranded \subseteq OrderId

-----------------------------------------------------------------------------
(***************************************************************************)
(* Safety.                                                                 *)
(***************************************************************************)
\* What a client was told stays true, of the database for good and of an
\* in-memory store until the process ends: an order answered 201 can be read,
\* submitted again and, while it is open, listed; one refused as a duplicate is
\* refused again; one whose cancel was answered 204 is not listed any more --
\* however inserts of one order, failed inserts and restarts interleave.
AnswersStayTrue ==
    /\ \A s \in acked[backend] :
          /\ GetStatus(s.id) = 200
          /\ SubmitStatus(s) # 409
          /\ Open(s.id) =>
                s.id \in ListOrders(Order[s.id].sellMint, Order[s.id].buyMint)
    /\ \A s \in conflicted[backend] : SubmitStatus(s) \in {400, 409}
    /\ \A o \in cancelAcked[backend] :
          o \notin ListOpen(Mint \X Mint)

\* Orders of which the store has lost what a round wrote: an update_status
\* failed, or the process was started on another store.
Lost == lostMarks \cup forgotten

\* An order is executed a second time only if the store lost the mark of its
\* first round: marking before delivery is what prevents double settlement,
\* whatever else interleaves with the round.
RedeliveryNeedsLostMark == repeated \subseteq Lost

\* The book agrees with the chain: an executed order whose mark was not lost
\* is auctioned, with exactly the fill that was executed -- even when it was
\* cancelled under the round.
BookAgreesWithSink ==
    \A o \in OrderId \ Lost :
        Executed(o) => /\ book[o].status = "auctioned"
                       /\ book[o].filled = landed[o]

\* What a running round may rely on although others write the book meanwhile:
\* the orders it holds are in the book and were never executed, unless a mark
\* was lost; the winner trades only orders of the batch; and a trade it is done
\* marking is in the book as it will be delivered, or the mark is lost.
RoundConsistent ==
    /\ \A o \in batch : Present(o) /\ (Executed(o) => o \in Lost)
    /\ DOMAIN best.trades \subseteq batch
    /\ phase = "marking" =>
          \A o \in DOMAIN best.trades \ (toMark \cup lostMarks) :
              /\ book[o].status = "auctioned"
              /\ book[o].filled = best.trades[o]

\* Between rounds, and once stopped, an order that is marked was handed to the
\* sink, and executed unless its bundle was lost: neither an error in a round
\* nor a graceful shutdown cuts a round between marking and delivery.  Only a
\* crash there strands the orders marked so far.
RoundsAreWhole ==
    phase \in {"idle", "stopped"} =>
        \A o \in OrderId :
            book[o].status = "auctioned" =>
                Executed(o) \/ o \in dropped \cup stranded

\* No order that was due when the round read its clock is in its batch,
\* although sweep and listing visit the book one entry at a time.
SealedBatchIsSwept == batch \cap dueAtStart = {}

\* The winner has the highest score any solver returned in the round.
WinnerHasTopScore == phase = "marking" => best.score = topScore

\* Only orders their owner signed, with two different mints, are executed.
OnlySignedOrdersExecute ==
    \A o \in OrderId :
        Executed(o) /\ Present(o) =>
                       /\ [id |-> o, sig |-> book[o].sig] \in Genuine
                       /\ Order[o].sellMint # Order[o].buyMint

\* A record is never replaced, and expired and auctioned are final.  So is
\* cancelled, except for the batch of a running round: once no round holds a
\* cancelled order none ever will.
StaysClosed(o) ==
    /\ Present(o) => book'[o].sig = book[o].sig
    /\ book[o].status \in {"expired", "auctioned"} => book'[o] = book[o]
    /\ book[o].status = "cancelled" /\ o \notin batch =>
          book'[o] = book[o] /\ o \notin batch'

\* This holds of every order but those whose record changed with the store.
ClosedOrdersStayClosed == [][\A o \in OrderId \ forgotten' : StaysClosed(o)]_vars

-----------------------------------------------------------------------------
(***************************************************************************)
(* Liveness.                                                               *)
(***************************************************************************)
\* Once the server has returned the auctioneer stops, in the middle of
\* whatever it was doing and however often ticks beat the shutdown message.
StopsAfterShutdown ==
    server = "returned" ~> phase = "stopped" \/ server = "serving"

\* A race ends although solvers fail, one answer or none: the round neither
\* waits for more answers than it asked for nor starts the race again.
RacesEnd == phase = "racing" ~> phase # "racing"

\* An open order whose time is up leaves the open book, unless the
\* auctioneer has stopped.
DueOrdersLeaveTheBook ==
    \A o \in OrderId : Due(o, clock) ~> ~Open(o) \/ phase = "stopped"

-----------------------------------------------------------------------------
(***************************************************************************)
(* What documents say and the code does not do.                            *)
(***************************************************************************)
\* A cancel answered 204 is final: one that comes after an auction has picked
\* the order up is answered 409, "already auctioned", and there is "no race".
CancelledIsNeverExecuted == \A o \in cancelAcked[backend] : ~Executed(o)

\* "The next tick will simply re-seal the still-Auctioned orders" of a bundle
\* that failed: unless the auctioneer stops, a later round has such an order in
\* its batch again.  (The round whose bundle it was is over: its batch is gone.)
LostBundlesAreResealed ==
    \A o \in OrderId : o \in dropped ~> o \in batch \/ phase = "stopped"
=============================================================================
