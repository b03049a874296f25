----------------------------- MODULE NodeProofs -----------------------------
(***************************************************************************)
(* Theorems about Node, for every set of orders, clients and solvers, both *)
(* backends and any number of faults and restarts.                         *)
(***************************************************************************)
EXTENDS Node, TLAPS

(***************************************************************************)
(* The store's operations keep the book well formed.                       *)
(***************************************************************************)
LEMMA InsertType ==
    ASSUME book \in [OrderId -> OrderRecord], NEW s \in SignedOrder, Insert(s)
    PROVE  book' \in [OrderId -> OrderRecord]
BY DEF Insert, SignedOrder, OrderRecord, Status, Present

LEMMA UpdateType ==
    ASSUME book \in [OrderId -> OrderRecord], NEW o \in OrderId, NEW f \in Fill,
           UpdateStatus(o, "auctioned", f)
    PROVE  book' \in [OrderId -> OrderRecord]
BY DEF UpdateStatus, OrderRecord, Status, Present

LEMMA CancelType ==
    ASSUME book \in [OrderId -> OrderRecord], NEW o \in OrderId, Cancel(o)
    PROVE  book' \in [OrderId -> OrderRecord]
BY DEF Cancel, OrderRecord, Status

LEMMA ExpireType ==
    ASSUME book \in [OrderId -> OrderRecord], NEW S, NEW t, ExpireDue(S, t)
    PROVE  book' \in [OrderId -> OrderRecord]
BY DEF ExpireDue, OrderRecord, Status

LEMMA VisitType ==
    ASSUME NEW S \in SUBSET OrderId, NEW T \in Visit(S)
    PROVE  T \subseteq OrderId /\ T \subseteq S
BY DEF Visit

LEMMA NoSolutionType == NoTrades \in Trades /\ NoSolution \in Solution
<1>1. NoTrades \in [{} -> Fill]
  BY DEF NoTrades
<1>2. NoTrades \in Trades
  BY <1>1 DEF Trades
<1> QED BY <1>2 DEF Solution, NoSolution

LEMMA EndRoundType ==
    ASSUME EndRound
    PROVE  /\ phase' = "idle" /\ now' \in Nat /\ unvisited' \subseteq OrderId
           /\ batch' \subseteq OrderId /\ pending' \subseteq Solver
           /\ best' \in Solution /\ toMark' = {}
           /\ dueAtStart' \subseteq OrderId
           /\ topScore' \in Score \cup {0, -1}
BY NoSolutionType DEF EndRound, NoSolution

LEMMA SolutionsType ==
    ASSUME NEW b \in SUBSET OrderId, NEW sol \in Solutions(b)
    PROVE  /\ sol \in Solution
           /\ sol.score \in Score \cup {0}
           /\ DOMAIN sol.trades \subseteq b
<1>1. CASE sol = [score |-> 0, trades |-> NoTrades]
  BY <1>1, NoSolutionType DEF Solution, NoTrades
<1>2. CASE \E S \in SUBSET b : sol \in [score : Score, trades : [S -> Fill]]
  <2>1. PICK S \in SUBSET b : sol \in [score : Score, trades : [S -> Fill]]
    BY <1>2
  <2>2. sol.trades \in Trades /\ DOMAIN sol.trades = S
    BY <2>1 DEF Trades
  <2> QED BY <2>1, <2>2 DEF Solution
<1> QED BY <1>1, <1>2 DEF Solutions

LEMMA TradesType ==
    ASSUME NEW sol \in Solution
    PROVE  /\ DOMAIN sol.trades \subseteq OrderId
           /\ \A o \in DOMAIN sol.trades : sol.trades[o] \in Fill
           /\ sol.score \in Score \cup {0, -1}
BY DEF Solution, Trades

\* What landed last is what an order was executed with.
LEMMA LandsIs ==
    ASSUME NEW trades, Lands(trades)
    PROVE  /\ DOMAIN landed' = DOMAIN trades \cup DOMAIN landed
           /\ \A o \in DOMAIN landed' :
                 landed'[o] = IF o \in DOMAIN trades THEN trades[o] ELSE landed[o]
           /\ repeated' = repeated \cup (DOMAIN trades \cap DOMAIN landed)
           /\ landed \in Trades /\ trades \in Trades => landed' \in Trades
<1>1. /\ DOMAIN landed' = DOMAIN trades \cup DOMAIN landed
      /\ \A o \in DOMAIN landed' :
            landed'[o] = IF o \in DOMAIN trades THEN trades[o] ELSE landed[o]
      /\ landed' = [o \in DOMAIN landed' |-> landed'[o]]
  BY DEF Lands
<1>2. ASSUME landed \in Trades, trades \in Trades PROVE landed' \in Trades
  <2>1. /\ DOMAIN landed' \in SUBSET OrderId
        /\ \A o \in DOMAIN landed' : landed'[o] \in Fill
    BY <1>1, <1>2 DEF Trades
  <2> QED BY <1>1, <2>1 DEF Trades
<1>3. repeated' = repeated \cup (DOMAIN trades \cap DOMAIN landed)
  BY DEF Lands, Executed
<1> QED BY <1>1, <1>2, <1>3

LEMMA DeliverType ==
    ASSUME SettlementTypeOK, NEW sol \in Solution, DeliverBundle(sol.trades)
    PROVE  SettlementTypeOK'
<1>1. sol.trades \in Trades /\ DOMAIN sol.trades \subseteq OrderId
  BY TradesType DEF Solution
<1>2. CASE Lands(sol.trades)
  <2>1. landed' \in Trades /\ repeated' \subseteq OrderId
    <3> DEFINE trades == sol.trades
    <3>1. trades \in Trades /\ DOMAIN trades \subseteq OrderId /\ Lands(trades)
      BY <1>1, <1>2
    <3> HIDE DEF trades
    <3>2. landed \in Trades /\ repeated \subseteq OrderId
      BY DEF SettlementTypeOK
    <3> QED BY <3>1, <3>2, LandsIs
  <2>2. dropped' \subseteq OrderId
    BY <1>2 DEF SettlementTypeOK, Lands
  <2> QED BY <2>1, <2>2 DEF SettlementTypeOK
<1>3. CASE Loses(sol.trades)
  BY <1>1, <1>3 DEF SettlementTypeOK, Loses
<1> QED BY <1>2, <1>3 DEF DeliverBundle

-----------------------------------------------------------------------------
(***************************************************************************)
(* Type correctness.                                                       *)
(***************************************************************************)
LEMMA TypeInit == Init => TypeOK
<1> SUFFICES ASSUME Init PROVE TypeOK
  OBVIOUS
<1>1. StoreTypeOK
  BY DEF Init, StoreInit, StoreTypeOK, OrderRecord, EmptyBook, Vacant
<1>2. SettlementTypeOK
  BY NoSolutionType DEF Init, SettlementInit, SettlementTypeOK
<1>3. IntentTypeOK
  BY DEF Init, IntentInit, IntentTypeOK, Request
<1>4. AuctioneerTypeOK
  BY NoSolutionType DEF Init, AuctioneerInit, AuctioneerTypeOK
<1>5. backend \in Backend /\ shelf \in [OrderId -> OrderRecord]
  BY BackendsAssumption DEF Init, StoreInit, EmptyBook, OrderRecord, Vacant
<1> QED BY <1>1, <1>2, <1>3, <1>4, <1>5 DEF Init, ClockInit, NodeInit, TypeOK

LEMMA AddType ==
    ASSUME NEW S, NEW answers \in [Backend -> SUBSET S], NEW x \in S
    PROVE  [answers EXCEPT ![backend] = @ \cup {x}] \in [Backend -> SUBSET S]
OBVIOUS

LEMMA ReplyType ==
    ASSUME IntentTypeOK, NEW s \in SignedOrder, Reply(s)
    PROVE  /\ acked' \in [Backend -> SUBSET SignedOrder]
           /\ conflicted' \in [Backend -> SUBSET SignedOrder]
BY AddType DEF IntentTypeOK, Reply, With

LEMMA FinishType ==
    ASSUME IntentTypeOK, NEW c \in Client, Finish(c)
    PROVE  request' \in [Client -> Request]
BY DEF IntentTypeOK, Finish, Request

\* The signed order of a request in flight.
LEMMA SignedType ==
    ASSUME IntentTypeOK, NEW c \in Client, request[c] # NoRequest
    PROVE  request[c].signed \in SignedOrder
BY DEF IntentTypeOK, Request

LEMMA TypeApi ==
    ASSUME TypeOK, ApiStep
    PROVE  TypeOK'
<1>1. StoreTypeOK /\ IntentTypeOK /\ book \in [OrderId -> OrderRecord]
      /\ faults \in Nat
  BY DEF TypeOK, StoreTypeOK
<1>2. SUFFICES StoreTypeOK' /\ IntentTypeOK'
  BY DEF TypeOK, ApiStep, auctioneerVars, settlementVars, nodeVars,
         restartVars, AuctioneerTypeOK, SettlementTypeOK
<1>3. ASSUME NEW c \in Client, NEW s \in SignedOrder, SubmitOrder(c, s)
      PROVE  StoreTypeOK' /\ IntentTypeOK'
  <2>1. request' \in [Client -> Request]
    BY <1>1, <1>3 DEF SubmitOrder, IntentTypeOK, Request
  <2> QED BY <1>1, <1>3, <2>1 DEF SubmitOrder, IntentTypeOK, StoreTypeOK,
                                storeVars
<1>4. ASSUME NEW c \in Client, InsertOrder(c)
      PROVE  StoreTypeOK' /\ IntentTypeOK'
  <2>1. request[c].signed \in SignedOrder
    BY <1>1, <1>4, SignedType DEF InsertOrder, NoRequest
  <2>2. book' \in [OrderId -> OrderRecord]
    BY <1>1, <1>4, <2>1, InsertType DEF InsertOrder
  <2>3. request' \in [Client -> Request]
    BY <1>1, <1>4, FinishType DEF InsertOrder
  <2>4. acked' \in [Backend -> SUBSET SignedOrder]
    BY <1>1, <1>4, <2>1, AddType DEF InsertOrder, With, IntentTypeOK
  <2> QED BY <1>1, <1>4, <2>2, <2>3, <2>4
          DEF InsertOrder, IntentTypeOK, StoreTypeOK
<1>5. ASSUME NEW c \in Client, InsertConflicts(c)
      PROVE  StoreTypeOK' /\ IntentTypeOK'
  <2>1. request[c].signed \in SignedOrder
    BY <1>1, <1>5, SignedType DEF InsertConflicts, NoRequest
  <2>2. CASE backend = "memory"
    <3>1. /\ Reply(request[c].signed) /\ Finish(c)
          /\ UNCHANGED <<cancelAcked, storeVars>>
      BY <1>5, <2>2 DEF InsertConflicts
    <3>2. /\ acked' \in [Backend -> SUBSET SignedOrder]
          /\ conflicted' \in [Backend -> SUBSET SignedOrder]
      <4>1. PICK s \in SignedOrder : s = request[c].signed
        BY <2>1
      <4>2. Reply(s)
        BY <3>1, <4>1 DEF Reply, SameSigned
      <4> QED BY <1>1, <4>2, ReplyType
    <3>3. request' \in [Client -> Request]
      BY <1>1, <3>1, FinishType
    <3> QED BY <1>1, <3>1, <3>2, <3>3 DEF IntentTypeOK, StoreTypeOK, storeVars
  <2>3. CASE backend # "memory"
    <3>1. request[c] \in [pc : {"checked", "conflict"}, signed : SignedOrder]
      BY <1>1, <1>5 DEF InsertConflicts, IntentTypeOK, Request, NoRequest
    <3>2. request' \in [Client -> Request]
      BY <1>1, <1>5, <2>3, <3>1 DEF InsertConflicts, IntentTypeOK, Request
    <3> QED BY <1>1, <1>5, <2>3, <3>2
            DEF InsertConflicts, IntentTypeOK, StoreTypeOK, storeVars
  <2> QED BY <2>2, <2>3
<1>6. ASSUME NEW c \in Client, FetchExisting(c)
      PROVE  StoreTypeOK' /\ IntentTypeOK'
  <2>1. request[c].signed \in SignedOrder
    BY <1>1, <1>6, SignedType DEF FetchExisting, NoRequest
  <2>2. /\ Reply(request[c].signed) /\ Finish(c)
        /\ UNCHANGED <<cancelAcked, storeVars>>
    BY <1>6 DEF FetchExisting
  <2>3. /\ acked' \in [Backend -> SUBSET SignedOrder]
        /\ conflicted' \in [Backend -> SUBSET SignedOrder]
    <3>1. PICK s \in SignedOrder : s = request[c].signed
      BY <2>1
    <3>2. Reply(s)
      BY <2>2, <3>1 DEF Reply, SameSigned
    <3> QED BY <1>1, <3>2, ReplyType
  <2>4. request' \in [Client -> Request]
    BY <1>1, <2>2, FinishType
  <2> QED BY <1>1, <2>2, <2>3, <2>4 DEF IntentTypeOK, StoreTypeOK, storeVars
<1>7. ASSUME NEW c \in Client, SubmitFails(c)
      PROVE  StoreTypeOK' /\ IntentTypeOK'
  <2>1. request[c].signed \in SignedOrder
    BY <1>1, <1>7, SignedType DEF SubmitFails
  <2>2. book' \in [OrderId -> OrderRecord]
    BY <1>1, <1>7, <2>1, InsertType DEF SubmitFails
  <2>3. request' \in [Client -> Request]
    BY <1>1, <1>7, FinishType DEF SubmitFails
  <2> QED BY <1>1, <1>7, <2>2, <2>3
          DEF SubmitFails, CallFails, IntentTypeOK, StoreTypeOK
<1>8. ASSUME NEW o \in OrderId, NEW w \in Address, CancelOrder(o, w)
      PROVE  StoreTypeOK' /\ IntentTypeOK'
  <2>1. cancelAcked' \in [Backend -> SUBSET OrderId]
    BY <1>1, <1>8, AddType DEF CancelOrder, With, IntentTypeOK
  <2> QED BY <1>1, <1>8, <2>1, CancelType
          DEF CancelOrder, IntentTypeOK, StoreTypeOK
<1>9. ASSUME NEW o \in OrderId, NEW w \in Address, CancelFails(o, w)
      PROVE  StoreTypeOK' /\ IntentTypeOK'
  BY <1>1, <1>9, CancelType
     DEF CancelFails, CallFails, IntentTypeOK, StoreTypeOK, intentVars
<1> QED BY <1>3, <1>4, <1>5, <1>6, <1>7, <1>8, <1>9 DEF ApiStep, IntentPoolStep

-----------------------------------------------------------------------------
LEMMA TypeBackground ==
    ASSUME TypeOK, BackgroundStep
    PROVE  TypeOK'
<1>1. /\ clock \in Nat /\ StoreTypeOK /\ SettlementTypeOK /\ AuctioneerTypeOK
      /\ book \in [OrderId -> OrderRecord] /\ faults \in Nat
  BY DEF TypeOK, StoreTypeOK
<1>2. SUFFICES StoreTypeOK' /\ SettlementTypeOK' /\ AuctioneerTypeOK'
  BY DEF TypeOK, BackgroundStep, Background, intentVars, nodeVars,
         restartVars, IntentTypeOK
<1> DEFINE Goal == StoreTypeOK /\ SettlementTypeOK /\ AuctioneerTypeOK
<1> USE <1>1 DEF StoreTypeOK, SettlementTypeOK, AuctioneerTypeOK, outside,
                 settlementVars
<1>3. StartRound => Goal'
  BY DEF StartRound
<1>4. Sweep => Goal'
  BY ExpireType DEF Sweep
<1>5. StartListing => Goal'
  BY DEF StartListing
<1>6. List => Goal'
  BY VisitType DEF List
<1>7. RoundFails => Goal'
  BY ExpireType, EndRoundType DEF RoundFails, CallFails
<1>8. SealBatch => Goal'
  BY DEF SealBatch
<1>9. NoOpenOrders => Goal'
  BY EndRoundType DEF NoOpenOrders
<1>10. ASSUME NEW s \in Solver, NEW sol \in Solutions(batch),
              SolverAnswers(s, sol)
       PROVE  Goal'
  BY <1>10, SolutionsType DEF SolverAnswers
<1>11. ASSUME NEW s \in Solver, SolverFails(s)
       PROVE  Goal'
  BY <1>11 DEF SolverFails
<1>12. ChooseWinner => Goal'
  BY TradesType DEF ChooseWinner
<1>13. NoWinner => Goal'
  BY EndRoundType DEF NoWinner
<1>14. ASSUME NEW o \in OrderId, MarkAuctioned(o)
       PROVE  Goal'
  <2>1. best.trades[o] \in Fill
    BY <1>14, TradesType DEF MarkAuctioned
  <2> QED BY <1>14, <2>1, UpdateType DEF MarkAuctioned
<1>15. ASSUME NEW o \in OrderId, MarkFails(o)
       PROVE  Goal'
  <2>1. best.trades[o] \in Fill
    BY <1>15, TradesType DEF MarkFails
  <2>2. book' \in [OrderId -> OrderRecord]
    BY <1>15, <2>1, UpdateType DEF MarkFails
  <2> QED BY <1>15, <2>2 DEF MarkFails, CallFails
<1>16. Deliver => Goal'
  BY DeliverType, EndRoundType DEF Deliver, storeVars
<1>17. TakeShutdown => Goal'
  BY DEF TakeShutdown
<1> QED
  BY <1>3, <1>4, <1>5, <1>6, <1>7, <1>8, <1>9, <1>10, <1>11, <1>12, <1>13,
     <1>14, <1>15, <1>16, <1>17
     DEF BackgroundStep, Background, AuctioneerStep, RoundStep, SolverReturns

-----------------------------------------------------------------------------
LEMMA TypeOther ==
    ASSUME TypeOK, ServerReturns \/ SendShutdown \/ ClockTicks
           \/ UNCHANGED vars
    PROVE  TypeOK'
<1> USE DEF TypeOK, storeVars, settlementVars, intentVars, auctioneerVars,
            nodeVars, restartVars, StoreTypeOK, SettlementTypeOK,
            IntentTypeOK, AuctioneerTypeOK
<1>1. CASE ServerReturns
  <2>1. request' \in [Client -> Request]
    BY <1>1 DEF ServerReturns, Request
  <2> QED BY <1>1, <2>1 DEF ServerReturns
<1>3. CASE SendShutdown
  BY <1>3 DEF SendShutdown
<1>4. CASE ClockTicks
  BY <1>4 DEF ClockTicks, Tick
<1>5. CASE UNCHANGED vars
  BY <1>5 DEF vars
<1> QED BY <1>1, <1>3, <1>4, <1>5

\* A start writes the book and the shelf with each other's content or nothing.
LEMMA OpenStoreType ==
    ASSUME TypeOK, NEW b \in Backends, OpenStore(b)
    PROVE  /\ backend' \in Backend
           /\ book' \in [OrderId -> OrderRecord]
           /\ shelf' \in [OrderId -> OrderRecord]
<1>1. Database \in [OrderId -> OrderRecord]
  BY DEF TypeOK, StoreTypeOK, Database
<1>2. EmptyBook \in [OrderId -> OrderRecord]
  BY DEF EmptyBook, OrderRecord, Vacant
<1> QED BY <1>1, <1>2, BackendsAssumption DEF OpenStore

LEMMA TypeRestart ==
    ASSUME TypeOK, NEW b \in Backends, Restart(b)
    PROVE  TypeOK'
<1> USE DEF TypeOK, Restart
<1>1. AuctioneerTypeOK'
  BY EndRoundType DEF AuctioneerTypeOK
<1>2. IntentTypeOK'
  BY DEF IntentTypeOK, Request, Durable
<1>3. StoreTypeOK' /\ backend' \in Backend /\ shelf' \in [OrderId -> OrderRecord]
  BY OpenStoreType DEF StoreTypeOK
<1>4. SettlementTypeOK'
  BY DEF SettlementTypeOK, settlementVars
<1>5. Reserved \subseteq OrderId
  BY TradesType DEF Reserved, AuctioneerTypeOK
<1> QED BY <1>1, <1>2, <1>3, <1>4, <1>5

\* Every variable always holds a value of its type: no step writes a record,
\* a request, a solution or a fill that the program could not hold.
THEOREM TypeCorrect == Spec => []TypeOK
<1>1. TypeOK /\ [Next]_vars => TypeOK'
  BY TypeApi, TypeBackground, TypeOther, TypeRestart DEF Next
<1> QED BY TypeInit, <1>1, PTL DEF Spec

-----------------------------------------------------------------------------
(***************************************************************************)
(* The book and the sink agree, and nothing is executed twice unless the   *)
(* store lost a mark.  The two facts are inductive together with what a    *)
(* running round may rely on (RoundConsistent): a delivery is harmless     *)
(* because every order of the batch was open, hence not executed, when it  *)
(* was listed, and because every trade has been marked before delivery.    *)
(***************************************************************************)
SettlementInv == /\ BookAgreesWithSink
                 /\ RedeliveryNeedsLostMark
                 /\ RoundConsistent

\* What the API and the sweep may do to the book: records stay, and auctioned
\* records stay as they are.
BookKept == \A o \in OrderId :
                /\ Present(o) => Present(o)'
                /\ book[o].status = "auctioned" => book'[o] = book[o]

LEMMA InsertKeeps ==
    ASSUME TypeOK, NEW s \in SignedOrder, Insert(s)
    PROVE  BookKept
BY DEF TypeOK, StoreTypeOK, SignedOrder, Insert, Present, BookKept

LEMMA CancelKeeps ==
    ASSUME TypeOK, NEW o \in OrderId, NEW w \in Address, Cancellable(o, w),
           Cancel(o)
    PROVE  BookKept
BY DEF TypeOK, StoreTypeOK, OrderRecord, Cancellable, Open, Cancel, Present,
       BookKept

LEMMA ExpireKeeps ==
    ASSUME TypeOK, NEW S, NEW t, ExpireDue(S, t)
    PROVE  BookKept
BY DEF TypeOK, StoreTypeOK, OrderRecord, ExpireDue, Due, Open, Present,
       BookKept

LEMMA UnchangedKeeps ==
    ASSUME UNCHANGED book
    PROVE  BookKept
BY DEF BookKept, Present

\* A step that keeps the book and leaves the round and the sink alone.
LEMMA RoundUntouched ==
    ASSUME SettlementInv, BookKept,
           UNCHANGED <<settlementVars, best, batch, toMark, lostMarks,
                       forgotten>>,
           phase' = "marking" => phase = "marking", TypeOK
    PROVE  SettlementInv'
<1> USE DEF SettlementInv, settlementVars, Lost
<1>1. BookAgreesWithSink'
  BY DEF BookAgreesWithSink, BookKept, Executed
<1>2. RedeliveryNeedsLostMark'
  BY DEF RedeliveryNeedsLostMark
<1>3. RoundConsistent'
  BY TradesType DEF RoundConsistent, BookKept, Executed, TypeOK,
                    AuctioneerTypeOK, Present
<1> QED BY <1>1, <1>2, <1>3

\* A step that ends the round without a delivery and keeps auctioned records,
\* but for those it forgets.
LEMMA RoundEndsQuietly ==
    ASSUME SettlementInv, EndRound, UNCHANGED <<settlementVars, lostMarks>>,
           forgotten \subseteq forgotten',
           \A o \in OrderId \ forgotten' :
               book[o].status = "auctioned" => book'[o] = book[o]
    PROVE  SettlementInv'
<1> USE DEF SettlementInv, settlementVars, Lost
<1>1. BookAgreesWithSink'
  BY DEF BookAgreesWithSink, BookKept, Executed
<1>2. RedeliveryNeedsLostMark'
  BY DEF RedeliveryNeedsLostMark
<1>3. RoundConsistent'
  BY DEF RoundConsistent, EndRound, NoSolution, NoTrades
<1> QED BY <1>1, <1>2, <1>3

-----------------------------------------------------------------------------
LEMMA SettlementInit0 == Init => SettlementInv
BY DEF Init, StoreInit, EmptyBook, SettlementInit, AuctioneerInit,
       SettlementInv, BookAgreesWithSink, RedeliveryNeedsLostMark,
       RoundConsistent, Executed, NoSolution, NoTrades

LEMMA ApiKeeps ==
    ASSUME TypeOK, ApiStep
    PROVE  BookKept
<1> USE DEF TypeOK
<1>1. ASSUME NEW c \in Client, InsertOrder(c) \/ SubmitFails(c)
      PROVE  BookKept
  <2>1. request[c].signed \in SignedOrder
    BY <1>1, SignedType DEF InsertOrder, SubmitFails, NoRequest
  <2> QED BY <1>1, <2>1, InsertKeeps, UnchangedKeeps
          DEF InsertOrder, SubmitFails
<1>2. ASSUME NEW o \in OrderId, NEW w \in Address,
             CancelOrder(o, w) \/ CancelFails(o, w)
      PROVE  BookKept
  <2>1. CASE CancelOrder(o, w)
    <3>1. Cancellable(o, w)
      BY <2>1 DEF CancelOrder, CancelStatus, CancelInMemory, CancelInPostgres,
                  Cancellable, StatusCode
    <3> QED BY <2>1, <3>1, CancelKeeps DEF CancelOrder
  <2>2. CASE CancelFails(o, w)
    BY <2>2, CancelKeeps DEF CancelFails
  <2> QED BY <1>2, <2>1, <2>2
<1>3. ASSUME NEW c \in Client,
             (\E s \in SignedOrder : SubmitOrder(c, s))
             \/ InsertConflicts(c) \/ FetchExisting(c)
      PROVE  BookKept
  BY <1>3, UnchangedKeeps DEF SubmitOrder, InsertConflicts, FetchExisting,
                              storeVars
<1> QED BY <1>1, <1>2, <1>3 DEF ApiStep, IntentPoolStep

\* Listing adds open orders to the batch, and open orders were not executed.
LEMMA ListSafe ==
    ASSUME TypeOK, SettlementInv, List, UNCHANGED forgotten
    PROVE  SettlementInv'
<1> USE DEF SettlementInv, List, outside, settlementVars, Lost
<1>1. BookAgreesWithSink' /\ RedeliveryNeedsLostMark'
  BY DEF BookAgreesWithSink, RedeliveryNeedsLostMark, Executed
<1>2. ASSUME NEW o \in batch'
      PROVE  Present(o)' /\ (Executed(o)' => o \in Lost')
  <2>1. CASE o \in batch
    BY <2>1 DEF RoundConsistent, Present, Executed
  <2>2. CASE o \notin batch
    <3>1. o \in OrderId /\ Open(o)
      BY <1>2, <2>2, VisitType DEF TypeOK, AuctioneerTypeOK
    <3> QED BY <3>1 DEF BookAgreesWithSink, Open, Present, Executed
  <2> QED BY <2>1, <2>2
<1>3. RoundConsistent'
  BY <1>2 DEF RoundConsistent, Executed
<1> QED BY <1>1, <1>3

\* A better answer replaces the best: it too trades only orders of the batch.
LEMMA AnswerSafe ==
    ASSUME TypeOK, SettlementInv, NEW s \in Solver, NEW sol \in Solutions(batch),
           SolverAnswers(s, sol), UNCHANGED forgotten
    PROVE  SettlementInv'
<1> USE DEF SettlementInv, SolverAnswers, outside, settlementVars, Lost
<1>1. BookAgreesWithSink' /\ RedeliveryNeedsLostMark'
  BY DEF BookAgreesWithSink, RedeliveryNeedsLostMark, Executed
<1>2. DOMAIN best'.trades \subseteq batch'
  BY SolutionsType DEF RoundConsistent, TypeOK, AuctioneerTypeOK
<1>3. RoundConsistent'
  BY <1>2 DEF RoundConsistent, Executed, Present
<1> QED BY <1>1, <1>3

LEMMA ChooseSafe ==
    ASSUME SettlementInv, ChooseWinner, UNCHANGED forgotten
    PROVE  SettlementInv'
BY DEF SettlementInv, ChooseWinner, outside, settlementVars, Lost,
       BookAgreesWithSink, RedeliveryNeedsLostMark, RoundConsistent, Executed,
       Present

\* A mark that is written: the order was not executed, unless a mark of it was
\* lost, so the fill it gets need not agree with an earlier one.
LEMMA MarkSafe ==
    ASSUME TypeOK, SettlementInv, NEW o \in OrderId,
           phase = "marking", o \in toMark,
           UpdateStatus(o, "auctioned", best.trades[o]),
           toMark' = toMark \ {o},
           UNCHANGED <<settlementVars, best, batch, phase, lostMarks, forgotten>>
    PROVE  SettlementInv'
<1> USE DEF SettlementInv, settlementVars, Lost
<1>1. o \in batch /\ Present(o) /\ (Executed(o) => o \in Lost)
  BY DEF RoundConsistent, TypeOK, AuctioneerTypeOK
<1>2. /\ book' = [book EXCEPT ![o].status = "auctioned",
                              ![o].filled = best.trades[o]]
      /\ book \in [OrderId -> OrderRecord]
  BY <1>1 DEF UpdateStatus, TypeOK, StoreTypeOK
<1>3. /\ book'[o].status = "auctioned" /\ book'[o].filled = best.trades[o]
      /\ \A p \in OrderId \ {o} : book'[p] = book[p]
  BY <1>2 DEF OrderRecord
<1>4. BookAgreesWithSink' /\ RedeliveryNeedsLostMark'
  BY <1>1, <1>3 DEF BookAgreesWithSink, RedeliveryNeedsLostMark, Executed
<1>5. RoundConsistent'
  <2>1. batch \subseteq OrderId /\ DOMAIN best.trades \subseteq OrderId
    BY DEF RoundConsistent, TypeOK, AuctioneerTypeOK
  <2>2. \A p \in batch' : Present(p)' /\ (Executed(p)' => p \in Lost')
    BY <1>3, <2>1 DEF RoundConsistent, Present, Executed
  <2>3. \A p \in DOMAIN best.trades \ ((toMark \ {o}) \cup lostMarks) :
            book'[p].status = "auctioned" /\ book'[p].filled = best.trades[p]
    BY <1>3, <2>1 DEF RoundConsistent
  <2> QED BY <2>2, <2>3 DEF RoundConsistent
<1> QED BY <1>4, <1>5

\* A mark that is lost.
LEMMA LostMarkSafe ==
    ASSUME TypeOK, SettlementInv, NEW o \in OrderId,
           toMark' = toMark \ {o}, lostMarks' = lostMarks \cup {o},
           UNCHANGED <<book, settlementVars, best, batch, phase, forgotten>>
    PROVE  SettlementInv'
BY DEF SettlementInv, settlementVars, Lost, BookAgreesWithSink,
       RedeliveryNeedsLostMark, RoundConsistent, Executed, Present

\* Delivery: all trades are marked, and none was executed before.
LEMMA DeliverSafe ==
    ASSUME TypeOK, SettlementInv, Deliver, UNCHANGED forgotten
    PROVE  SettlementInv'
<1> USE DEF SettlementInv, Deliver, storeVars, Lost
<1>1. /\ DOMAIN best.trades \subseteq OrderId
      /\ \A o \in DOMAIN best.trades : Executed(o) => o \in Lost
      /\ \A o \in DOMAIN best.trades \ lostMarks :
            book[o].status = "auctioned" /\ book[o].filled = best.trades[o]
  BY DEF RoundConsistent, TypeOK, AuctioneerTypeOK
<1>2. RoundConsistent'
  BY DEF RoundConsistent, EndRound, NoSolution, NoTrades
<1>3. CASE Lands(best.trades)
  <2> DEFINE trades == best.trades
  <2>0. /\ Lands(trades) /\ UNCHANGED <<book, lostMarks, forgotten>>
        /\ \A o \in DOMAIN trades : Executed(o) => o \in Lost
        /\ \A o \in DOMAIN trades \ lostMarks :
              book[o].status = "auctioned" /\ book[o].filled = trades[o]
    BY <1>1, <1>3
  <2> HIDE DEF trades
  <2>1. BookAgreesWithSink'
    <3>1. ASSUME NEW o \in OrderId, o \notin Lost', o \in DOMAIN landed'
          PROVE  book[o].status = "auctioned" /\ book[o].filled = landed'[o]
      <4>1. o \notin Lost
        BY <2>0, <3>1
      <4>2. CASE o \in DOMAIN trades
        BY <2>0, <3>1, <4>1, <4>2, LandsIs
      <4>3. CASE o \notin DOMAIN trades
        BY <2>0, <3>1, <4>1, <4>3, LandsIs DEF BookAgreesWithSink, Executed
      <4> QED BY <4>2, <4>3
    <3> QED BY <2>0, <3>1 DEF BookAgreesWithSink, Executed
  <2>2. RedeliveryNeedsLostMark'
    BY <2>0, LandsIs DEF RedeliveryNeedsLostMark, Executed
  <2> QED BY <1>2, <2>1, <2>2
<1>4. CASE Loses(best.trades)
  BY <1>2, <1>4 DEF Loses, BookAgreesWithSink, RedeliveryNeedsLostMark,
                    Executed
<1> QED BY <1>3, <1>4 DEF DeliverBundle

LEMMA BackgroundSafe ==
    ASSUME TypeOK, SettlementInv, BackgroundStep
    PROVE  SettlementInv'
<1>0. AuctioneerStep /\ UNCHANGED forgotten
  BY DEF BackgroundStep, Background, nodeVars, restartVars
<1>1. CASE StartRound \/ StartListing \/ SealBatch \/ TakeShutdown
           \/ \E s \in Solver : SolverFails(s)
  <2>1. /\ BookKept
        /\ UNCHANGED <<settlementVars, best, batch, toMark, lostMarks>>
        /\ phase' = "marking" => phase = "marking"
    BY <1>1, UnchangedKeeps
       DEF StartRound, StartListing, SealBatch, TakeShutdown, SolverFails,
           outside, settlementVars
  <2> QED BY <1>0, <2>1, RoundUntouched
<1>2. CASE Sweep
  BY <1>0, <1>2, ExpireKeeps, RoundUntouched DEF Sweep, outside
<1>3. CASE RoundFails
  BY <1>0, <1>3, ExpireKeeps, UnchangedKeeps, RoundEndsQuietly
     DEF RoundFails, BookKept
<1>4. CASE NoOpenOrders \/ NoWinner
  BY <1>0, <1>4, RoundEndsQuietly
     DEF NoOpenOrders, NoWinner, outside
<1>5. ASSUME NEW o \in OrderId, MarkAuctioned(o) \/ MarkFails(o)
      PROVE  SettlementInv'
  BY <1>0, <1>5, MarkSafe, LostMarkSafe DEF MarkAuctioned, MarkFails, outside
<1> QED
  BY <1>0, <1>1, <1>2, <1>3, <1>4, <1>5, ListSafe, AnswerSafe, ChooseSafe,
     DeliverSafe
     DEF AuctioneerStep, RoundStep, SolverReturns

LEMMA SettlementNext ==
    ASSUME TypeOK, SettlementInv, [Next]_vars
    PROVE  SettlementInv'
<1>1. CASE ApiStep
  <2>1. UNCHANGED <<settlementVars, best, batch, toMark, lostMarks, phase,
                    forgotten>>
    BY <1>1 DEF ApiStep, auctioneerVars, nodeVars, restartVars
  <2> QED BY <1>1, <2>1, ApiKeeps, RoundUntouched
<1>2. CASE BackgroundStep
  BY <1>2, BackgroundSafe
<1>3. CASE ClockTicks \/ ServerReturns \/ SendShutdown \/ UNCHANGED vars
  <2>1. /\ BookKept
        /\ UNCHANGED <<settlementVars, best, batch, toMark, lostMarks, phase,
                       forgotten>>
    BY <1>3, UnchangedKeeps
       DEF ClockTicks, ServerReturns, SendShutdown, vars, storeVars,
           auctioneerVars, nodeVars, restartVars
  <2> QED BY <2>1, RoundUntouched
<1>4. ASSUME NEW b \in Backends, Restart(b)
      PROVE  SettlementInv'
  <2>1. \A o \in OrderId \ forgotten' : book'[o] = book[o]
    BY <1>4 DEF Restart
  <2>2. /\ EndRound /\ UNCHANGED <<settlementVars, lostMarks>>
        /\ forgotten \subseteq forgotten'
    BY <1>4 DEF Restart
  <2> QED BY <2>1, <2>2, RoundEndsQuietly
<1> QED BY <1>1, <1>2, <1>3, <1>4 DEF Next

THEOREM SettlementSafe == Spec => []SettlementInv
<1>1. TypeOK /\ SettlementInv /\ [Next]_vars => SettlementInv'
  BY SettlementNext
<1> QED BY SettlementInit0, TypeCorrect, <1>1, PTL DEF Spec

\* Whatever interleaves, fails or crashes, an executed order whose mark was not
\* lost is auctioned in the book with exactly the fill that was executed.
THEOREM BookAgreesWithSinkHolds == Spec => []BookAgreesWithSink
<1>1. SettlementInv => BookAgreesWithSink
  BY DEF SettlementInv
<1> QED BY <1>1, SettlementSafe, PTL

\* No order is executed twice unless the store lost its mark.
THEOREM RedeliveryNeedsLostMarkHolds == Spec => []RedeliveryNeedsLostMark
<1>1. SettlementInv => RedeliveryNeedsLostMark
  BY DEF SettlementInv
<1> QED BY <1>1, SettlementSafe, PTL
=============================================================================
