---------------------------- MODULE RoundProofs ----------------------------
(***************************************************************************)
(* What a round achieves whatever the API, the clock and the solvers do    *)
(* meanwhile: its batch is swept, its winner has the top score, it is      *)
(* never cut between marking and delivery but by a crash, and all that it  *)
(* does to the book and the sink is a step of SettlementLedger.            *)
(***************************************************************************)
EXTENDS NodeLedger, BookProofs

-----------------------------------------------------------------------------
(***************************************************************************)
(* The sweep.  An order that was due when the round began has a record; it *)
(* is open only until the sweep has visited it, and no step reopens it.    *)
(***************************************************************************)
SweepInv ==
    \A o \in dueAtStart :
        /\ o \notin batch
        /\ Present(o)
        /\ Open(o) => /\ phase = "expiring"
                      /\ o \in unvisited
                      /\ Order[o].validTo <= now

\* A step of the other actors, and of a round that neither sweeps nor lists.
LEMMA SweptStays ==
    ASSUME TypeOK, SweepInv, RecordsKept,
           UNCHANGED <<dueAtStart, phase, unvisited, now>>, batch' \subseteq batch
    PROVE  SweepInv'
<1>1. SUFFICES ASSUME NEW o \in dueAtStart
               PROVE  /\ o \notin batch'
                      /\ Present(o)'
                      /\ Open(o)' => /\ phase' = "expiring"
                                     /\ o \in unvisited'
                                     /\ Order[o].validTo <= now'
  BY DEF SweepInv
<1>2. /\ o \notin batch /\ Present(o)
      /\ Open(o) => /\ phase = "expiring"
                    /\ o \in unvisited
                    /\ Order[o].validTo <= now
  BY DEF SweepInv
<1>3. Present(o)' /\ (Open(o)' => Open(o))
  BY <1>2 DEF TypeOK, AuctioneerTypeOK, RecordsKept, RecordKept
<1> QED BY <1>2, <1>3

LEMMA SweepVisits ==
    ASSUME TypeOK, SweepInv, Sweep
    PROVE  SweepInv'
<1>1. PICK S \in Visit(unvisited) :
          /\ phase = "expiring"
          /\ ExpireDue(S, now)
          /\ unvisited' = unvisited \ S
          /\ UNCHANGED <<phase, now, batch, dueAtStart>>
  BY DEF Sweep
<1>2. SUFFICES ASSUME NEW o \in dueAtStart
               PROVE  /\ Present(o)'
                      /\ Open(o)' => Open(o) /\ o \in unvisited'
  BY <1>1 DEF SweepInv
<1>3. /\ o \in OrderId /\ book[o] \in OrderRecord /\ Present(o)
      /\ Open(o) => o \in unvisited /\ Due(o, now)
  BY DEF TypeOK, StoreTypeOK, AuctioneerTypeOK, SweepInv, Due
<1>4. book'[o] = IF o \in S /\ Due(o, now)
                 THEN [book[o] EXCEPT !.status = "expired"] ELSE book[o]
  BY <1>1, <1>3 DEF ExpireDue
<1>5. CASE o \in S /\ Due(o, now)
  BY <1>3, <1>4, <1>5 DEF OrderRecord, Present, Open
<1>6. CASE ~(o \in S /\ Due(o, now))
  <2>1. book'[o] = book[o]
    BY <1>4, <1>6
  <2> QED BY <1>1, <1>3, <1>6, <2>1 DEF Present, Open
<1> QED BY <1>5, <1>6

LEMMA SweepBackground ==
    ASSUME TypeOK, BatchInv, SweepInv, RecordsKept, BackgroundStep
    PROVE  SweepInv'
<1>0. AuctioneerStep
  BY DEF BackgroundStep, Background
<1>1. CASE StartRound
  <2>1. batch' = {} /\ book' = book /\ phase' = "expiring" /\ now' = clock
        /\ unvisited' = OrderId /\ dueAtStart' = {o \in OrderId : Due(o, clock)}
    BY <1>1 DEF StartRound, BatchInv
  <2> QED BY <2>1 DEF SweepInv, Due, Open, Present
<1>2. CASE StartListing \/ SealBatch \/ ChooseWinner \/ TakeShutdown
  BY <1>2 DEF StartListing, SealBatch, ChooseWinner, TakeShutdown, SweepInv,
              Open, Present
<1>3. CASE List
  BY <1>3 DEF List, SweepInv, Open, Present
<1>4. CASE RoundFails \/ NoOpenOrders \/ NoWinner \/ Deliver
  BY <1>4 DEF RoundFails, NoOpenOrders, NoWinner, Deliver, EndRound, SweepInv
<1>5. ASSUME NEW s \in Solver, SolverReturns(s)
      PROVE  SweepInv'
  BY <1>5, SweptStays DEF SolverReturns, SolverAnswers, SolverFails
<1>6. ASSUME NEW o \in OrderId, MarkAuctioned(o) \/ MarkFails(o)
      PROVE  SweepInv'
  BY <1>6, SweptStays DEF MarkAuctioned, MarkFails
<1> QED BY <1>0, <1>1, <1>2, <1>3, <1>4, <1>5, <1>6, SweepVisits
        DEF AuctioneerStep, RoundStep

LEMMA SweepNext ==
    ASSUME TypeOK, BookInv, SweepInv, [Next]_vars
    PROVE  SweepInv'
<1>1. CASE \E b \in Backends : Restart(b)
  BY <1>1 DEF Restart, EndRound, SweepInv
<1>2. CASE ~ \E b \in Backends : Restart(b)
  <2>1. RecordsKept
    BY <1>2, RecordsAreKept DEF BookInv, SignedInv
  <2>2. CASE BackgroundStep
    BY <2>1, <2>2, SweepBackground DEF BookInv
  <2>3. CASE ApiStep \/ ClockTicks \/ ServerReturns \/ SendShutdown
             \/ UNCHANGED vars
    BY <2>1, <2>3, SweptStays
       DEF ApiStep, ClockTicks, ServerReturns, SendShutdown, vars,
           auctioneerVars
  <2> QED BY <1>2, <2>2, <2>3 DEF Next
<1> QED BY <1>1, <1>2

\* No order that was due when the round read its clock is in its batch,
\* although sweep and listing visit the book one entry at a time while clients
\* insert and cancel.
THEOREM SealedBatchIsSweptHolds == Spec => []SealedBatchIsSwept
<1>1. Init => SweepInv
  BY DEF Init, AuctioneerInit, SweepInv
<1>2. TypeOK /\ BookInv /\ SweepInv /\ [Next]_vars => SweepInv'
  BY SweepNext
<1>3. SweepInv => SealedBatchIsSwept
  BY DEF SweepInv, SealedBatchIsSwept
<1> QED BY <1>1, <1>2, <1>3, TypeCorrect, BookInvHolds, PTL DEF Spec

-----------------------------------------------------------------------------
(***************************************************************************)
(* The race.                                                               *)
(***************************************************************************)
BestIsTop == best.score = topScore

LEMMA AnswerKeepsTop ==
    ASSUME TypeOK, BestIsTop, NEW s \in Solver, NEW sol \in Solutions(batch),
           SolverAnswers(s, sol)
    PROVE  BestIsTop'
<1>1. /\ sol.score \in Nat
      /\ topScore \in Int
  <2>1. batch \in SUBSET OrderId /\ topScore \in Score \cup {0, -1}
    BY DEF TypeOK, AuctioneerTypeOK
  <2>2. sol.score \in Score \cup {0}
    BY <2>1, SolutionsType
  <2>3. Score \cup {0} \subseteq Nat /\ Score \cup {0, -1} \subseteq Int
    BY ScoreAssumption
  <2> QED BY <2>1, <2>2, <2>3
<1>2. best = NoSolution => topScore = -1
  BY DEF BestIsTop, NoSolution
<1> QED BY <1>1, <1>2 DEF SolverAnswers, BestIsTop

LEMMA TopNext ==
    ASSUME TypeOK, BestIsTop, [Next]_vars
    PROVE  BestIsTop'
<1>1. CASE BackgroundStep
  <2>1. AuctioneerStep
    BY <1>1 DEF BackgroundStep, Background
  <2>2. \/ UNCHANGED <<best, topScore>>
        \/ EndRound
        \/ \E s \in Solver, sol \in Solutions(batch) : SolverAnswers(s, sol)
    BY <2>1 DEF AuctioneerStep, RoundStep, StartRound, Sweep, StartListing,
                List, NoOpenOrders, SealBatch, ChooseWinner, NoWinner,
                MarkAuctioned, Deliver, RoundFails, SolverReturns, SolverFails,
                MarkFails, TakeShutdown
  <2> QED BY <2>2, AnswerKeepsTop DEF BestIsTop, EndRound, NoSolution
<1>2. CASE ~BackgroundStep
  <2>1. UNCHANGED <<best, topScore>> \/ EndRound
    BY <1>2 DEF Next, ApiStep, ClockTicks, ServerReturns, SendShutdown,
                Restart, vars, auctioneerVars
  <2> QED BY <2>1 DEF BestIsTop, EndRound, NoSolution
<1> QED BY <1>1, <1>2

\* In whatever order the solvers return, the winner has the highest score any
\* of them returned in the round.
THEOREM WinnerHasTopScoreHolds == Spec => []WinnerHasTopScore
<1>1. Init => BestIsTop
  BY DEF Init, AuctioneerInit, BestIsTop, NoSolution
<1>2. TypeOK /\ BestIsTop /\ [Next]_vars => BestIsTop'
  BY TopNext
<1>3. BestIsTop => WinnerHasTopScore
  BY DEF BestIsTop, WinnerHasTopScore
<1> QED BY <1>1, <1>2, <1>3, TypeCorrect, PTL DEF Spec

-----------------------------------------------------------------------------
(***************************************************************************)
(* Marks.  An order that is marked was handed to the sink or stranded by a *)
(* crash, or it is a trade of the winner a running round is marking.       *)
(***************************************************************************)
Resolved(o) == Executed(o) \/ o \in dropped \cup stranded

MarksInv ==
    \A o \in OrderId :
        /\ book[o].status = "auctioned" =>
              Resolved(o) \/ (phase = "marking" /\ o \in DOMAIN best.trades)
        /\ shelf[o].status = "auctioned" => Resolved(o)

\* Nobody but a round marks, and closed orders are not changed by anyone else.
LEMMA NoNewMarks ==
    ASSUME TypeOK, RequestsVerified, [Next]_vars,
           ~ \E b \in Backends : Restart(b), ~RoundMarks, NEW o \in OrderId,
           book'[o].status = "auctioned"
    PROVE  book[o].status = "auctioned"
<1>1. book[o] \in OrderRecord /\ RecordMoves(o)
  BY RunningRecords DEF BookMoves, TypeOK, StoreTypeOK
<1> QED BY <1>1 DEF RecordMoves, RecordAdded, RecordClosed, OrderRecord

\* What has been resolved stays so.
LEMMA ResolvedStays ==
    ASSUME TypeOK, [Next]_vars, NEW o \in OrderId, Resolved(o)
    PROVE  Resolved(o)'
<1>0. stranded \subseteq stranded'
  BY DEF Next, ApiStep, BackgroundStep, Background, ClockTicks, ServerReturns,
         SendShutdown, Restart, nodeVars, restartVars, vars
<1>1. CASE Deliver
  <2>1. CASE Lands(best.trades)
    BY <1>0, <2>1 DEF Lands, Resolved, Executed
  <2>2. CASE Loses(best.trades)
    BY <1>0, <2>2 DEF Loses, Resolved, Executed
  <2> QED BY <1>1, <2>1, <2>2 DEF Deliver, DeliverBundle
<1>2. CASE ~Deliver
  <2>1. UNCHANGED settlementVars
    BY <1>2 DEF Next, ApiStep, BackgroundStep, Background, ClockTicks,
                ServerReturns, SendShutdown, Restart, vars, AuctioneerStep,
                RoundStep, StartRound, Sweep, StartListing, List, NoOpenOrders,
                SealBatch, ChooseWinner, NoWinner, MarkAuctioned, RoundFails,
                SolverReturns, SolverAnswers, SolverFails, MarkFails,
                TakeShutdown, outside
  <2> QED BY <1>0, <2>1 DEF Resolved, Executed, settlementVars
<1> QED BY <1>1, <1>2

LEMMA DeliveredIsResolved ==
    ASSUME TypeOK, Deliver, stranded \subseteq stranded',
           NEW o \in DOMAIN best.trades
    PROVE  Resolved(o)'
BY LandsIs DEF Deliver, DeliverBundle, Loses, Resolved, Executed

LEMMA MarksRestart ==
    ASSUME TypeOK, MarksInv, [Next]_vars, NEW b \in Backends, Restart(b)
    PROVE  MarksInv'
<1>1. SUFFICES ASSUME NEW o \in OrderId,
                      book'[o].status = "auctioned"
                      \/ shelf'[o].status = "auctioned"
               PROVE  Resolved(o)'
  BY DEF MarksInv
<1>2. book[o].status = "auctioned" \/ shelf[o].status = "auctioned"
  BY <1>1 DEF Restart, OpenStore, Database, EmptyBook, Vacant
<1>3. CASE Resolved(o)
  BY <1>3, ResolvedStays
<1>4. CASE o \in Reserved
  BY <1>4 DEF Restart, Resolved
<1> QED BY <1>2, <1>3, <1>4 DEF MarksInv, Reserved

LEMMA MarksNext ==
    ASSUME TypeOK, BookInv, MarksInv, [Next]_vars
    PROVE  MarksInv'
<1>1. CASE \E b \in Backends : Restart(b)
  BY <1>1, MarksRestart
<1>2. CASE ~ \E b \in Backends : Restart(b)
  <2>1. SUFFICES ASSUME NEW o \in OrderId
                 PROVE  /\ book'[o].status = "auctioned" =>
                             \/ Resolved(o)'
                             \/ phase' = "marking" /\ o \in DOMAIN best'.trades
                        /\ shelf'[o].status = "auctioned" => Resolved(o)'
    BY DEF MarksInv
  <2>2. shelf' = shelf /\ stranded' = stranded
    BY <1>2 DEF Next, ApiStep, BackgroundStep, Background, ClockTicks,
                ServerReturns, SendShutdown, vars, nodeVars, restartVars
  <2>3. shelf'[o].status = "auctioned" => Resolved(o)'
    BY <2>2, ResolvedStays DEF MarksInv
  <2>4. ASSUME book'[o].status = "auctioned"
        PROVE  \/ Resolved(o)'
               \/ phase' = "marking" /\ o \in DOMAIN best'.trades
    <3>1. CASE RoundMarks
      <4>1. PICK p \in OrderId : MarkAuctioned(p) \/ MarkFails(p)
        BY <3>1 DEF RoundMarks
      <4>2. phase' = "marking" /\ best' = best /\ p \in DOMAIN best.trades
        BY <4>1 DEF MarkAuctioned, MarkFails, TypeOK, AuctioneerTypeOK
      <4>3. o # p => book'[o] = book[o]
        BY <4>1, UpdateRecord
      <4> QED BY <2>4, <4>2, <4>3, ResolvedStays DEF MarksInv
    <3>2. CASE ~RoundMarks
      <4>1. book[o].status = "auctioned"
        BY <1>2, <2>4, <3>2, NoNewMarks DEF BookInv, SignedInv
      <4>2. CASE Resolved(o)
        BY <4>2, ResolvedStays
      <4>3. CASE phase = "marking" /\ o \in DOMAIN best.trades
        <5>1. UNCHANGED <<phase, best>> \/ Deliver
          BY <1>2, <3>2, <4>3
             DEF Next, ApiStep, BackgroundStep, Background, ClockTicks,
                 ServerReturns, SendShutdown, vars, auctioneerVars,
                 AuctioneerStep, RoundStep, StartRound, Sweep, StartListing,
                 List, NoOpenOrders, SealBatch, ChooseWinner, NoWinner,
                 RoundFails, SolverReturns, SolverAnswers, SolverFails,
                 TakeShutdown, RoundMarks
        <5> QED BY <2>2, <4>3, <5>1, DeliveredIsResolved
      <4> QED BY <4>1, <4>2, <4>3 DEF MarksInv
    <3> QED BY <3>1, <3>2
  <2> QED BY <2>3, <2>4
<1> QED BY <1>1, <1>2

THEOREM MarksInvHolds == Spec => []MarksInv
<1>1. Init => MarksInv
  <2>1. \A o \in OrderId : EmptyBook[o].status = "absent"
    BY DEF EmptyBook, Vacant
  <2> QED BY <2>1 DEF Init, StoreInit, MarksInv
<1>2. TypeOK /\ BookInv /\ MarksInv /\ [Next]_vars => MarksInv'
  BY MarksNext
<1> QED BY <1>1, <1>2, TypeCorrect, BookInvHolds, PTL DEF Spec

\* Between rounds, and once stopped, an order that is marked was executed, was
\* lost with its bundle or was stranded by a crash: neither an error in a round
\* nor a graceful shutdown cuts a round between marking and delivery.
THEOREM RoundsAreWholeHolds == Spec => []RoundsAreWhole
<1>1. MarksInv => RoundsAreWhole
  BY DEF MarksInv, RoundsAreWhole, Resolved
<1> QED BY <1>1, MarksInvHolds, PTL

-----------------------------------------------------------------------------
(***************************************************************************)
(* Node implements the safety part of SettlementLedger, for every set of   *)
(* orders and solvers, as long as every start opens the same store.        *)
(***************************************************************************)
\* The database is always reached, or the process is never started again.
SameStore == Backends = {"postgres"} \/ MaxRestarts = 0

NothingForgotten == /\ forgotten = {}
                    /\ backend = "postgres" \/ MaxRestarts = 0

LEMMA ForgottenNext ==
    ASSUME SameStore, TypeOK, NothingForgotten, [Next]_vars
    PROVE  NothingForgotten'
<1>1. CASE \E b \in Backends : Restart(b)
  <2>1. restarts < MaxRestarts /\ restarts \in Nat
    BY <1>1 DEF Restart, TypeOK
  <2>2. /\ MaxRestarts # 0
        /\ Backends = {"postgres"} /\ backend = "postgres"
    BY <2>1 DEF SameStore, NothingForgotten
  <2>3. Restart("postgres")
    BY <1>1, <2>2
  <2>4. book' = book /\ backend' = "postgres"
    BY <2>2, <2>3 DEF Restart, OpenStore, Database
  <2> QED BY <2>3, <2>4 DEF Restart, NothingForgotten
<1>2. CASE ~ \E b \in Backends : Restart(b)
  BY <1>2 DEF Next, ApiStep, BackgroundStep, Background, ClockTicks,
              ServerReturns, SendShutdown, vars, nodeVars, restartVars,
              NothingForgotten
<1> QED BY <1>1, <1>2

\* What a crash strands is marked for good, and no round holds it again.
StrandedInv == \A o \in stranded : book[o].status = "auctioned" /\ o \notin batch

LEMMA StrandedNext ==
    ASSUME TypeOK, BookInv, StrandedInv, forgotten' = {}, [Next]_vars
    PROVE  StrandedInv'
<1>1. SUFFICES ASSUME NEW o \in stranded'
               PROVE  book'[o].status = "auctioned" /\ o \notin batch'
  BY DEF StrandedInv
<1>2. CASE o \in stranded
  <2>1. /\ o \in OrderId /\ book[o].status = "auctioned" /\ o \notin batch
    BY <1>2 DEF TypeOK, StrandedInv
  <2>2. book'[o] = book[o]
    BY <2>1, ClosedStaysClosed DEF StaysClosed
  <2> QED BY <2>1, <2>2, BatchGrowsByOpen DEF Open
<1>3. CASE o \notin stranded
  <2>1. PICK b \in Backends : Restart(b)
    BY <1>3 DEF Next, ApiStep, BackgroundStep, Background, ClockTicks,
                ServerReturns, SendShutdown, vars, nodeVars, restartVars
  <2>2. o \in Reserved /\ o \in OrderId
    BY <1>3, <2>1, TradesType DEF Restart, Reserved, TypeOK, AuctioneerTypeOK
  <2>3. book'[o] = book[o] /\ batch' = {}
    BY <2>1, <2>2 DEF Restart, EndRound
  <2> QED BY <2>2, <2>3 DEF Reserved
<1> QED BY <1>2, <1>3

-----------------------------------------------------------------------------
(***************************************************************************)
(* The state of an order, in reachable states: nothing leaks.              *)
(***************************************************************************)
LedgerInv == /\ TypeOK
             /\ BookInv
             /\ MarksInv
             /\ StrandedInv
             /\ forgotten = {}

StateOfStatus(status) == IF status = "absent" THEN "unknown"
                         ELSE IF status = "open" THEN "listed"
                         ELSE IF status = "cancelled" THEN "withdrawn"
                         ELSE "lapsed"

Reserves(o) == phase = "marking" /\ o \in DOMAIN best.trades

StateOf(o) == IF book[o].status = "auctioned"
              THEN IF Reserves(o) THEN "reserved"
                   ELSE IF o \in stranded THEN "stranded"
                   ELSE IF o \in dropped THEN "failed"
                   ELSE "settled"
              ELSE StateOfStatus(book[o].status)

LEMMA StateIs ==
    ASSUME LedgerInv, NEW o \in OrderId
    PROVE  LedgerStateOf(o) = StateOf(o)
<1>1. book[o].status \in {"absent", "open", "auctioned", "cancelled", "expired"}
  BY DEF LedgerInv, TypeOK, StoreTypeOK, OrderRecord, Status
<1>2. o \in Reserved <=> Reserves(o) /\ book[o].status = "auctioned"
  BY DEF Reserved, Reserves
<1>3. book[o].status = "auctioned" /\ o \notin Reserved /\ o \notin stranded
      /\ o \notin dropped => Executed(o)
  BY <1>2 DEF LedgerInv, MarksInv, Resolved, Reserves
<1>4. book[o].status # "auctioned" => ~(Executed(o) /\ o \notin lostMarks)
  BY DEF LedgerInv, BookInv, SettlementInv, BookAgreesWithSink, Lost
<1>5. CASE book[o].status = "auctioned"
  BY <1>2, <1>3, <1>5 DEF LedgerStateOf, StateOf
<1>6. CASE book[o].status = "absent"
  BY <1>2, <1>6 DEF LedgerStateOf, StateOf, StateOfStatus
<1>7. CASE book[o].status = "open"
  BY <1>2, <1>4, <1>7 DEF LedgerStateOf, StateOf, StateOfStatus
<1>8. CASE book[o].status = "cancelled"
  BY <1>2, <1>4, <1>8 DEF LedgerStateOf, StateOf, StateOfStatus
<1>9. CASE book[o].status = "expired"
  BY <1>2, <1>4, <1>9 DEF LedgerStateOf, StateOf, StateOfStatus
<1> QED BY <1>1, <1>5, <1>6, <1>7, <1>8, <1>9

StatesAre == \A o \in OrderId : LedgerStateOf(o) = StateOf(o)

LEMMA StatesKnown == LedgerInv => StatesAre
BY StateIs DEF StatesAre

LEMMA StatesKnownNext == LedgerInv' => StatesAre'
BY StatesKnown, PTL

-----------------------------------------------------------------------------
(***************************************************************************)
(* Steps of the ledger, seen through the mapping.                          *)
(***************************************************************************)
MovesTo(S, st) == \A o \in OrderId : StateOf(o)' = IF o \in S THEN st
                                                  ELSE StateOf(o)

LEMMA MoveMaps ==
    ASSUME StatesAre, StatesAre', NEW S, NEW st, MovesTo(S, st)
    PROVE  Ledger!Move(S, st)
BY DEF StatesAre, MovesTo, Ledger!Move

LEMMA OrdersMap ==
    ASSUME StatesAre, NEW st
    PROVE  Ledger!Orders(st) = {o \in OrderId : StateOf(o) = st}
BY DEF StatesAre, Ledger!Orders

LEMMA StutterMaps ==
    ASSUME StatesAre, StatesAre', MovesTo({}, "unknown"), UNCHANGED batch
    PROVE  UNCHANGED Ledger!ledgerVars
BY DEF StatesAre, MovesTo, Ledger!ledgerVars

\* The round ends and reserved orders, if any, move to st.
LEMMA EndMaps ==
    ASSUME StatesAre, StatesAre', batch' = {},
           NEW st \in {"settled", "failed", "stranded"},
           MovesTo({o \in OrderId : StateOf(o) = "reserved"}, st)
    PROVE  Ledger!Next
<1>1. Ledger!Orders("reserved") = {o \in OrderId : StateOf(o) = "reserved"}
  BY OrdersMap
<1>2. CASE Ledger!Orders("reserved") # {}
  <2>1. Ledger!Move(Ledger!Orders("reserved"), st)
    BY <1>1, MoveMaps
  <2> QED BY <1>2, <2>1 DEF Ledger!Next, Ledger!ConcludeSomehow,
                            Ledger!Conclude
<1>3. CASE Ledger!Orders("reserved") = {}
  <2>1. \A o \in OrderId : LedgerStateOf(o)' = LedgerStateOf(o)
    BY <1>1, <1>3 DEF StatesAre, MovesTo
  <2> QED BY <1>3, <2>1 DEF Ledger!Next, Ledger!Release
<1> QED BY <1>2, <1>3

-----------------------------------------------------------------------------
(***************************************************************************)
(* The API's steps: an insert lists, a cancel withdraws.                   *)
(***************************************************************************)
RoundSame == UNCHANGED <<phase, best, batch, stranded, dropped>>

\* A record that is kept keeps its order's state while the round stands still.
LEMMA SameState ==
    ASSUME RoundSame, NEW o, book'[o] = book[o]
    PROVE  StateOf(o)' = StateOf(o)
BY DEF RoundSame, StateOf, Reserves

LEMMA InsertMaps ==
    ASSUME LedgerInv, StatesAre, StatesAre', RoundSame, NEW s \in SignedOrder,
           Insert(s)
    PROVE  [Ledger!Next]_Ledger!ledgerVars
<1>1. s.id \in OrderId /\ book \in [OrderId -> OrderRecord]
  BY DEF SignedOrder, LedgerInv, TypeOK, StoreTypeOK
<1>2. CASE Present(s.id)
  <2>1. MovesTo({}, "unknown")
    BY <1>2, SameState DEF Insert, MovesTo
  <2> QED BY <2>1, StutterMaps DEF RoundSame
<1>3. CASE ~Present(s.id)
  <2>1. /\ book'[s.id].status = "open"
        /\ \A o \in OrderId \ {s.id} : book'[o] = book[o]
    BY <1>1, <1>3 DEF Insert
  <2>2. StateOf(s.id) = "unknown" /\ StateOf(s.id)' = "listed"
    BY <1>3, <2>1 DEF Present, StateOf, StateOfStatus
  <2>3. MovesTo({s.id}, "listed")
    BY <2>1, <2>2, SameState DEF MovesTo
  <2>4. Ledger!List(s.id)
    BY <1>1, <2>2, <2>3, MoveMaps DEF StatesAre, Ledger!List, RoundSame
  <2> QED BY <1>1, <2>4 DEF Ledger!Next
<1> QED BY <1>2, <1>3

LEMMA CancelMaps ==
    ASSUME LedgerInv, StatesAre, StatesAre', RoundSame, NEW o \in OrderId,
           Open(o), Cancel(o)
    PROVE  [Ledger!Next]_Ledger!ledgerVars
<1>1. book \in [OrderId -> OrderRecord]
  BY DEF LedgerInv, TypeOK, StoreTypeOK
<1>2. /\ book'[o].status = "cancelled"
      /\ \A p \in OrderId \ {o} : book'[p] = book[p]
  BY <1>1 DEF Cancel, OrderRecord
<1>3. StateOf(o) = "listed" /\ StateOf(o)' = "withdrawn"
  BY <1>2 DEF Open, StateOf, StateOfStatus
<1>4. MovesTo({o}, "withdrawn")
  BY <1>2, <1>3, SameState DEF MovesTo
<1>5. Ledger!Withdraw(o)
  BY <1>3, <1>4, MoveMaps DEF StatesAre, Ledger!Withdraw, RoundSame
<1> QED BY <1>5 DEF Ledger!Next

LEMMA BookSameMaps ==
    ASSUME StatesAre, StatesAre', RoundSame, UNCHANGED book
    PROVE  [Ledger!Next]_Ledger!ledgerVars
<1>1. MovesTo({}, "unknown")
  BY SameState DEF MovesTo
<1> QED BY <1>1, StutterMaps DEF RoundSame

LEMMA ApiMaps ==
    ASSUME LedgerInv, StatesAre, StatesAre', ApiStep
    PROVE  [Ledger!Next]_Ledger!ledgerVars
<1>0. RoundSame
  BY DEF ApiStep, settlementVars, auctioneerVars, nodeVars, restartVars,
         RoundSame
<1>1. ASSUME NEW c \in Client, InsertOrder(c) \/ SubmitFails(c)
      PROVE  [Ledger!Next]_Ledger!ledgerVars
  <2>1. PICK s \in SignedOrder : s = request[c].signed
    BY <1>1, SignedType DEF InsertOrder, SubmitFails, LedgerInv, TypeOK,
                            NoRequest
  <2>2. Insert(s) \/ UNCHANGED book
    BY <1>1, <2>1 DEF InsertOrder, SubmitFails
  <2> QED BY <1>0, <2>2, InsertMaps, BookSameMaps
<1>2. ASSUME NEW o \in OrderId, NEW w \in Address,
             CancelOrder(o, w) \/ CancelFails(o, w)
      PROVE  [Ledger!Next]_Ledger!ledgerVars
  <2>1. Open(o) /\ Cancel(o)
    BY <1>2, CancelledWasOpen DEF CancelOrder, CancelFails, Cancellable
  <2> QED BY <1>0, <2>1, CancelMaps
<1>3. ASSUME NEW c \in Client,
             (\E s \in SignedOrder : SubmitOrder(c, s))
             \/ InsertConflicts(c) \/ FetchExisting(c)
      PROVE  [Ledger!Next]_Ledger!ledgerVars
  BY <1>0, <1>3, BookSameMaps DEF SubmitOrder, InsertConflicts, FetchExisting,
                                  storeVars
<1> QED BY <1>1, <1>2, <1>3 DEF ApiStep, IntentPoolStep

-----------------------------------------------------------------------------
(***************************************************************************)
(* The round's steps.                                                      *)
(***************************************************************************)
\* A sweep lapses orders while no round holds any, in the middle of a round or
\* as it fails.
LEMMA ExpireMaps ==
    ASSUME LedgerInv, StatesAre, StatesAre', NEW S, NEW t, ExpireDue(S, t),
           phase = "expiring", phase' # "marking", batch' = {},
           UNCHANGED <<stranded, dropped>>
    PROVE  [Ledger!Next]_Ledger!ledgerVars
<1> DEFINE due == {o \in OrderId : o \in S /\ Due(o, t)}
<1>1. batch = {} /\ book \in [OrderId -> OrderRecord]
  BY DEF LedgerInv, BookInv, BatchInv, TypeOK, StoreTypeOK
<1>2. ASSUME NEW o \in OrderId
      PROVE  /\ o \in due => StateOf(o) = "listed" /\ StateOf(o)' = "lapsed"
             /\ o \notin due => StateOf(o)' = StateOf(o)
  <2>1. CASE o \in due
    <3>1. book[o].status = "open" /\ book'[o].status = "expired"
      BY <1>1, <2>1 DEF ExpireDue, Due, Open, OrderRecord
    <3> QED BY <2>1, <3>1 DEF StateOf, StateOfStatus
  <2>2. CASE o \notin due
    <3>1. book'[o] = book[o]
      BY <1>1, <2>2 DEF ExpireDue
    <3> QED BY <2>2, <3>1 DEF StateOf, Reserves
  <2> QED BY <2>1, <2>2
<1>3. MovesTo(due, "lapsed")
  BY <1>2 DEF MovesTo
<1>4. due \subseteq Ledger!Orders("listed") \ batch
  BY <1>1, <1>2, OrdersMap
<1>5. Ledger!Lapse(due)
  BY <1>1, <1>3, <1>4, MoveMaps DEF Ledger!Lapse
<1> QED BY <1>5 DEF Ledger!Next

LEMMA ListMaps ==
    ASSUME LedgerInv, StatesAre, StatesAre', List, UNCHANGED stranded
    PROVE  [Ledger!Next]_Ledger!ledgerVars
<1>1. PICK S \in Visit(unvisited) : batch' = batch \cup {o \in S : Open(o)}
  BY DEF List
<1>2. S \subseteq OrderId
  BY VisitType DEF LedgerInv, TypeOK, AuctioneerTypeOK
<1> DEFINE open == {o \in S : Open(o)}
<1>3. open \subseteq Ledger!Orders("listed")
  BY <1>2, OrdersMap DEF Open, StateOf, StateOfStatus
<1>4. \A o \in OrderId : StateOf(o)' = StateOf(o)
  BY DEF List, StateOf, Reserves, outside, settlementVars
<1>5. \A o \in OrderId : LedgerStateOf(o)' = LedgerStateOf(o)
  BY <1>4 DEF StatesAre
<1>6. Ledger!Hold(open)
  BY <1>1, <1>3, <1>5 DEF Ledger!Hold
<1>7. open \in SUBSET OrderId
  BY <1>2
<1> QED BY <1>6, <1>7 DEF Ledger!Next

\* No order of the batch is marked before the winner is chosen.
LEMMA ChooseMaps ==
    ASSUME LedgerInv, StatesAre, StatesAre', ChooseWinner, UNCHANGED stranded
    PROVE  [Ledger!Next]_Ledger!ledgerVars
<1>1. \A o \in DOMAIN best.trades : book[o].status # "auctioned"
  BY DEF LedgerInv, BookInv, SettlementInv, RoundConsistent, BatchInv,
         Markable, ChooseWinner
<1>2. MovesTo({}, "unknown")
  BY <1>1 DEF MovesTo, StateOf, Reserves, ChooseWinner, outside, settlementVars
<1> QED BY <1>2, StutterMaps DEF ChooseWinner

LEMMA MarkMaps ==
    ASSUME LedgerInv, StatesAre, StatesAre', NEW o \in OrderId,
           MarkAuctioned(o) \/ MarkFails(o), UNCHANGED stranded
    PROVE  [Ledger!Next]_Ledger!ledgerVars
<1>1. /\ TypeOK /\ o \in toMark /\ phase = "marking"
      /\ RoundSame
      /\ \A p \in OrderId \ {o} : book'[p] = book[p]
      /\ book'[o] = book[o] \/ RecordMarked(o)
  BY UpdateRecord DEF LedgerInv, MarkAuctioned, MarkFails, RoundSame, outside,
                      settlementVars
<1>2. CASE book'[o] = book[o]
  <2>1. MovesTo({}, "unknown")
    BY <1>1, <1>2, SameState DEF MovesTo
  <2> QED BY <1>1, <2>1, StutterMaps DEF RoundSame
<1>3. CASE RecordMarked(o)
  <2>1. o \in DOMAIN best.trades /\ o \in batch /\ Markable(o)
    BY <1>1 DEF LedgerInv, BookInv, SettlementInv, RoundConsistent, BatchInv,
                TypeOK, AuctioneerTypeOK
  <2>2. StateOf(o) \in {"listed", "withdrawn"}
    BY <1>1, <2>1 DEF Markable, StateOf, StateOfStatus
  <2>3. StateOf(o)' = "reserved"
    BY <1>1, <1>3, <2>1 DEF RecordMarked, RoundSame, StateOf, Reserves
  <2>4. MovesTo({o}, "reserved")
    BY <1>1, <2>3, SameState DEF MovesTo
  <2>5. Ledger!Reserve(o)
    BY <1>1, <2>1, <2>2, <2>4, MoveMaps DEF StatesAre, Ledger!Reserve, RoundSame
  <2> QED BY <2>5 DEF Ledger!Next
<1> QED BY <1>1, <1>2, <1>3

LEMMA DeliverMaps ==
    ASSUME LedgerInv, StatesAre, StatesAre', Deliver, UNCHANGED stranded
    PROVE  [Ledger!Next]_Ledger!ledgerVars
<1>1. /\ phase = "marking" /\ phase' = "idle" /\ batch' = {} /\ book' = book
  BY DEF Deliver, EndRound, storeVars
<1>2. \A o \in OrderId : StateOf(o) = "reserved" <=>
          o \in DOMAIN best.trades /\ book[o].status = "auctioned"
  BY <1>1 DEF StateOf, StateOfStatus, Reserves
<1>3. \A o \in DOMAIN best.trades : o \notin stranded
  BY DEF LedgerInv, StrandedInv, BookInv, SettlementInv, RoundConsistent
<1>4. CASE Lands(best.trades)
  <2>1. MovesTo({o \in OrderId : StateOf(o) = "reserved"}, "settled")
    BY <1>1, <1>2, <1>3, <1>4 DEF MovesTo, StateOf, Reserves, Lands
  <2> QED BY <1>1, <2>1, EndMaps
<1>5. CASE Loses(best.trades)
  <2>1. MovesTo({o \in OrderId : StateOf(o) = "reserved"}, "failed")
    BY <1>1, <1>2, <1>3, <1>5 DEF MovesTo, StateOf, Reserves, Loses
  <2> QED BY <1>1, <2>1, EndMaps
<1> QED BY <1>4, <1>5 DEF Deliver, DeliverBundle

\* Between delivery and the next winner nothing is reserved, so a round that
\* ends early only releases what it held.
LEMMA EndsEarlyMaps ==
    ASSUME LedgerInv, StatesAre, StatesAre', EndRound, phase # "marking",
           UNCHANGED <<book, stranded, dropped>>
    PROVE  [Ledger!Next]_Ledger!ledgerVars
<1>1. MovesTo({o \in OrderId : StateOf(o) = "reserved"}, "settled")
  BY DEF EndRound, MovesTo, StateOf, StateOfStatus, Reserves
<1> QED BY <1>1, EndMaps DEF EndRound

LEMMA BackgroundMaps ==
    ASSUME LedgerInv, StatesAre, StatesAre', BackgroundStep
    PROVE  [Ledger!Next]_Ledger!ledgerVars
<1>0. AuctioneerStep /\ UNCHANGED stranded
  BY DEF BackgroundStep, Background, nodeVars, restartVars
<1>1. CASE StartRound \/ StartListing \/ SealBatch \/ TakeShutdown
  <2>1. /\ MovesTo({}, "unknown")
        /\ UNCHANGED batch
    BY <1>0, <1>1 DEF StartRound, StartListing, SealBatch, TakeShutdown, MovesTo,
                StateOf, Reserves, outside, settlementVars
  <2> QED BY <2>1, StutterMaps
<1>2. ASSUME NEW s \in Solver, SolverReturns(s)
      PROVE  [Ledger!Next]_Ledger!ledgerVars
  <2>1. /\ MovesTo({}, "unknown")
        /\ UNCHANGED batch
    BY <1>0, <1>2 DEF SolverReturns, SolverAnswers, SolverFails, MovesTo,
                StateOf, Reserves, outside, settlementVars
  <2> QED BY <2>1, StutterMaps
<1>3. CASE Sweep
  BY <1>0, <1>3, ExpireMaps DEF Sweep, outside, settlementVars, LedgerInv,
                                BookInv, BatchInv
<1>4. CASE RoundFails
  <2>1. CASE phase = "expiring" /\ ExpireDue(unvisited, now)
    BY <1>0, <1>4, <2>1, ExpireMaps DEF RoundFails, EndRound, settlementVars
  <2>2. CASE UNCHANGED book
    BY <1>0, <1>4, <2>2, EndsEarlyMaps DEF RoundFails, settlementVars
  <2> QED BY <1>4, <2>1, <2>2 DEF RoundFails
<1>5. CASE NoOpenOrders \/ NoWinner
  BY <1>0, <1>5, EndsEarlyMaps DEF NoOpenOrders, NoWinner, outside,
                                   settlementVars
<1> QED BY <1>0, <1>1, <1>2, <1>3, <1>4, <1>5, ListMaps, ChooseMaps, MarkMaps,
           DeliverMaps DEF AuctioneerStep, RoundStep

-----------------------------------------------------------------------------
\* A crash strands what is reserved.
LEMMA RestartMaps ==
    ASSUME LedgerInv, LedgerInv', StatesAre, StatesAre', NEW b \in Backends,
           Restart(b)
    PROVE  [Ledger!Next]_Ledger!ledgerVars
<1>1. /\ stranded' = stranded \cup Reserved
      /\ UNCHANGED dropped
      /\ phase' = "idle" /\ batch' = {}
  BY DEF Restart, EndRound, settlementVars
<1>2. \A o \in OrderId : book'[o] = book[o]
  BY DEF Restart, LedgerInv
<1>3. \A o \in OrderId : o \in Reserved <=> StateOf(o) = "reserved"
  BY DEF Reserved, StateOf, StateOfStatus, Reserves
<1>4. MovesTo({o \in OrderId : StateOf(o) = "reserved"}, "stranded")
  BY <1>1, <1>2, <1>3 DEF MovesTo, StateOf, Reserves, Reserved
<1> QED BY <1>1, <1>4, EndMaps

LEMMA LedgerStep ==
    ASSUME LedgerInv, LedgerInv', [Next]_vars
    PROVE  [Ledger!Next]_Ledger!ledgerVars
<1>0. StatesAre /\ StatesAre'
  BY StatesKnown, StatesKnownNext
<1>1. CASE ClockTicks \/ ServerReturns \/ SendShutdown \/ UNCHANGED vars
  BY <1>0, <1>1, BookSameMaps
     DEF ClockTicks, ServerReturns, SendShutdown, vars, storeVars,
         settlementVars, auctioneerVars, nodeVars, restartVars, RoundSame
<1> QED BY <1>0, <1>1, ApiMaps, BackgroundMaps, RestartMaps DEF Next

LEMMA LedgerInitMaps ==
    ASSUME Init, StatesAre
    PROVE  Ledger!Init
<1>1. \A o \in OrderId : StateOf(o) = "unknown"
  BY DEF Init, StoreInit, EmptyBook, Vacant, StateOf, StateOfStatus
<1> QED BY <1>1 DEF StatesAre, Ledger!Init, Init, AuctioneerInit

THEOREM LedgerInvHolds == SameStore => (Spec => []LedgerInv)
<1> SUFFICES ASSUME SameStore PROVE Spec => []LedgerInv
  OBVIOUS
<1>1. Init => NothingForgotten /\ StrandedInv
  BY DEF Init, StoreInit, NodeInit, SameStore, NothingForgotten, StrandedInv
<1>2. TypeOK /\ NothingForgotten /\ [Next]_vars => NothingForgotten'
  BY ForgottenNext
<1>3. TypeOK /\ BookInv /\ NothingForgotten' /\ StrandedInv /\ [Next]_vars
      => StrandedInv'
  BY StrandedNext DEF NothingForgotten
<1>4. TypeOK /\ BookInv /\ MarksInv /\ StrandedInv /\ NothingForgotten
      => LedgerInv
  BY DEF LedgerInv, NothingForgotten
<1> QED BY <1>1, <1>2, <1>3, <1>4, TypeCorrect, BookInvHolds, MarksInvHolds,
           PTL DEF Spec

\* As long as every start opens the same store, every step of the node, with
\* failing calls, crashes and lost bundles among them, is a step of the ledger
\* or none: a round's trades are settled, lost or stranded all at once, and
\* what is closed stays closed.
THEOREM ImplementsLedgerSafely == SameStore => (Spec => Ledger!SafeSpec)
<1> SUFFICES ASSUME SameStore PROVE Spec => Ledger!SafeSpec
  OBVIOUS
<1>1. LedgerInv /\ Init => Ledger!Init
  BY StatesKnown, LedgerInitMaps
<1>2. LedgerInv /\ LedgerInv' /\ [Next]_vars
      => [Ledger!Next]_Ledger!ledgerVars
  BY LedgerStep
<1> QED BY <1>1, <1>2, LedgerInvHolds, PTL DEF Spec, Ledger!SafeSpec

-----------------------------------------------------------------------------
(***************************************************************************)
(* The solvers.  What the race may get from one is exactly what a solver   *)
(* may answer; ReferenceSolver implements the contract made of the same    *)
(* answers.                                                                *)
(***************************************************************************)
Promised == INSTANCE SolverAnswers

AnswerOf(sol) == [result |-> "solution",
                  trades |-> Promised!SetToBag(DOMAIN sol.trades),
                  score  |-> sol.score]

SomeAnswers(b) == [result : {"solution"},
                   trades : {Promised!SetToBag(S) : S \in SUBSET b},
                   score  : Score]

LEMMA BagOfSet ==
    ASSUME NEW S
    PROVE  Promised!BagToSet(Promised!SetToBag(S)) = S
BY DEF Promised!BagToSet, Promised!SetToBag

LEMMA TradableAlike ==
    ASSUME NEW S
    PROVE  Promised!Tradable(S) <=> Tradable(S)
BY DEF Promised!Tradable, Tradable, Promised!Opposite, Opposite

\* On every batch, the solutions the auctioneer is modelled to receive are those
\* a solver may answer with, no more and no fewer, their fills being free.
THEOREM SolutionsAreTheAnswers ==
    ASSUME NEW b, NEW fill \in Fill, 0 \in Score
    PROVE  {AnswerOf(sol) : sol \in Solutions(b)}
               = {r \in SomeAnswers(b) : Promised!IsAnswer(r, b)}
<1>1. ASSUME NEW sol \in Solutions(b)
      PROVE  AnswerOf(sol) \in SomeAnswers(b) /\ Promised!IsAnswer(AnswerOf(sol), b)
  <2>1. /\ DOMAIN sol.trades \subseteq b /\ Tradable(DOMAIN sol.trades)
        /\ sol.score \in Score
        /\ DOMAIN sol.trades = {} => sol.score = 0
    <3>1. CASE sol = [score |-> 0, trades |-> NoTrades]
      BY <3>1 DEF NoTrades, Tradable
    <3>2. ASSUME NEW S \in SUBSET b, S # {}, Tradable(S),
                 sol \in [score : Score, trades : [S -> Fill]]
          PROVE  /\ DOMAIN sol.trades = S /\ sol.score \in Score
      BY <3>2
    <3> QED BY <3>1, <3>2 DEF Solutions
  <2> DEFINE S == DOMAIN sol.trades
             r == AnswerOf(sol)
  <2>2. /\ r.result = "solution" /\ r.trades = Promised!SetToBag(S)
        /\ r.score = sol.score /\ r \in SomeAnswers(b)
    BY <2>1 DEF AnswerOf, SomeAnswers
  <2>3. Promised!BagToSet(r.trades) = S /\ Promised!Tradable(S)
    BY <2>1, <2>2, BagOfSet, TradableAlike
  <2> HIDE DEF r, S
  <2>4. Promised!IsAnswer(r, b)
    BY <2>1, <2>2, <2>3 DEF Promised!IsAnswer, S
  <2> QED BY <2>2, <2>4 DEF r
<1>2. ASSUME NEW r \in SomeAnswers(b), Promised!IsAnswer(r, b)
      PROVE  \E sol \in Solutions(b) : r = AnswerOf(sol)
  <2>1. PICK S \in SUBSET b : r.trades = Promised!SetToBag(S)
    BY <1>2 DEF SomeAnswers
  <2>2. r.result = "solution" /\ r # Promised!Failed
    BY <1>2 DEF SomeAnswers, Promised!Failed
  <2>3. Promised!BagToSet(r.trades) = S
    BY <2>1, BagOfSet
  <2>4. r.score \in Score /\ Tradable(S) /\ (S = {} => r.score = 0)
    BY <1>2, <2>2, <2>3, TradableAlike DEF Promised!IsAnswer
  <2> DEFINE t == [o \in S |-> fill]
             sol == [score |-> r.score, trades |-> t]
  <2>5. sol \in Solutions(b)
    <3>1. CASE S = {}
      <4>1. t = NoTrades
        BY <3>1 DEF NoTrades
      <4> QED BY <2>4, <3>1, <4>1 DEF Solutions
    <3>2. CASE S # {}
      BY <2>4, <3>2 DEF Solutions
    <3> QED BY <3>1, <3>2
  <2>6. r = AnswerOf(sol)
    <3>1. DOMAIN sol.trades = S /\ sol.score = r.score
      OBVIOUS
    <3>2. r = [result |-> "solution", trades |-> Promised!SetToBag(S),
               score |-> r.score]
      BY <1>2, <2>1 DEF SomeAnswers
    <3> HIDE DEF sol
    <3> QED BY <3>1, <3>2 DEF AnswerOf
  <2> QED BY <2>5, <2>6
<1> QED BY <1>1, <1>2
=============================================================================
