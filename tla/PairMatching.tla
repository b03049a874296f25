---------------------------- MODULE PairMatching ----------------------------
(***************************************************************************)
(* match_pair (crates/oxdex-matching/src/lib.rs): the greedy matching of   *)
(* the orders of one token pair, one action per way a turn of its loop can *)
(* go, and the uniform price its fills are settled at.                     *)
(*                                                                         *)
(* aSide sells A for B, bSide sells B for A; both are sorted by limit      *)
(* price, the most willing order first.  Indices start at 1 here.  The     *)
(* vectors of fills are kept as what they add up to per order.             *)
(***************************************************************************)
EXTENDS Price, Sequences, FiniteSetsExt

CONSTANTS
    Amount,       \* the amounts orders may name
    MaxOrders     \* bound on the orders of a side

\* `validate' has refused zero amounts before an order is stored.
ASSUME AmountAssumption == Amount \subseteq U64 \ {0}
ASSUME MaxOrdersAssumption == MaxOrders \in Nat

PairOrder == [sell : Amount, buy : Amount, partial : BOOLEAN]

VARIABLES
    aSide, bSide,         \* the two sides of the book
    i, j,                 \* the heads
    aRemaining, bRemaining,   \* what each order has left to sell
    aSold, bSold,         \* what each order has sold in fills kept so far
    bBought,              \* what each order of bSide has bought in them
    lastCross,            \* limit prices of the last heads found to cross
    turns,                \* (history) turns so far, up to one past TurnBound
    pc                    \* "matching" or "done"

book == <<aSide, bSide>>
vars == <<aSide, bSide, i, j, aRemaining, bRemaining, aSold, bSold, bBought,
          lastCross, turns, pc>>

None == [crossed |-> FALSE]

Sorted(side) == \A k \in 1..Len(side) - 1 :
                    PriceLeq(LimitPrice(side[k]), LimitPrice(side[k + 1]))

Sides == {s \in UNION {[1..n -> PairOrder] : n \in 0..MaxOrders} : Sorted(s)}

Init ==
    /\ aSide \in Sides
    /\ bSide \in Sides
    /\ i = 1
    /\ j = 1
    /\ aRemaining = [k \in 1..Len(aSide) |-> aSide[k].sell]
    /\ bRemaining = [k \in 1..Len(bSide) |-> bSide[k].sell]
    /\ aSold = [k \in 1..Len(aSide) |-> 0]
    /\ bSold = [k \in 1..Len(bSide) |-> 0]
    /\ bBought = [k \in 1..Len(bSide) |-> 0]
    /\ lastCross = None
    /\ turns = 0
    /\ pc = "matching"

-----------------------------------------------------------------------------
\* The limits of an order of each side leave room for a common price.
Crosses(oa, ob) ==
    SatMul(LimitPrice(oa).num, LimitPrice(ob).num)
        <= SatMul(LimitPrice(oa).den, LimitPrice(ob).den)

\* How much A an order of bSide with `left' still to sell can take, and what
\* it gives for an amount of A, both at its own limit.
Capacity(ob, left) == SatMul(left, ob.buy) \div Greater(ob.sell, 1)
Given(ob, amount) == SatMul(amount, ob.sell) \div Greater(ob.buy, 1)

HeadsLeft == i <= Len(aSide) /\ j <= Len(bSide)

\* The fill of the two heads.
TradeA == Lesser(aRemaining[i], Capacity(bSide[j], bRemaining[j]))
TradeB == Given(bSide[j], TradeA)

aAfter == SatSub(aRemaining[i], TradeA)
bAfter == SatSub(bRemaining[j], TradeB)

\* The turns a loop linear in the number of orders may take.
TurnBound == 2 * (Len(aSide) + Len(bSide))

\* The loop is entered, the heads cross, and they are remembered as the last
\* crossing pair whether or not a fill comes of it.
Turn ==
    /\ pc = "matching"
    /\ HeadsLeft
    /\ Crosses(aSide[i], bSide[j])
    /\ lastCross' = [crossed |-> TRUE,
                     ab |-> LimitPrice(aSide[i]), ba |-> LimitPrice(bSide[j])]
    /\ turns' = IF turns > TurnBound THEN turns ELSE turns + 1
    /\ UNCHANGED <<book, pc>>

MutSkipDustStays ==
    /\ Turn
    /\ TradeA = 0
    /\ i' = IF aRemaining[i] = 0 THEN i + 1 ELSE i
    /\ j' = IF bRemaining[j] = 0 THEN j + 1 ELSE j
    /\ UNCHANGED <<aRemaining, bRemaining, aSold, bSold, bBought>>

\* Nothing can move between the heads: skip the exhausted one.
SkipDust ==
    /\ Turn
    /\ TradeA = 0
    /\ IF aRemaining[i] = 0
       THEN i' = i + 1 /\ UNCHANGED j
       ELSE j' = j + 1 /\ UNCHANGED i
    /\ UNCHANGED <<aRemaining, bRemaining, aSold, bSold, bBought>>

AllOrNothingA == ~aSide[i].partial /\ aAfter # 0
AllOrNothingB == ~bSide[j].partial /\ bAfter # 0

MutUndoTwice ==
    /\ aRemaining' = [aRemaining EXCEPT ![i] = SatAdd(@, TradeA)]
    /\ bRemaining' = [bRemaining EXCEPT ![j] = SatAdd(@, TradeB)]
    /\ UNCHANGED <<aSold, bSold, bBought>>

\* Subtract the fill and add it back.
Undo ==
    /\ aRemaining' = [aRemaining EXCEPT ![i] = SatAdd(aAfter, TradeA)]
    /\ bRemaining' = [bRemaining EXCEPT ![j] = SatAdd(bAfter, TradeB)]
    /\ UNCHANGED <<aSold, bSold, bBought>>

MutRollBackAForgets ==
    /\ Turn
    /\ TradeA # 0
    /\ AllOrNothingA
    /\ aRemaining' = [aRemaining EXCEPT ![i] = aAfter]
    /\ bRemaining' = [bRemaining EXCEPT ![j] = bAfter]
    /\ i' = i + 1
    /\ UNCHANGED <<aSold, bSold, bBought, j>>

MutRollBackASkipsB ==
    /\ Turn
    /\ TradeA # 0
    /\ AllOrNothingA
    /\ Undo
    /\ j' = j + 1
    /\ UNCHANGED i

MutRollBackAStays ==
    /\ Turn
    /\ TradeA # 0
    /\ AllOrNothingA
    /\ Undo
    /\ UNCHANGED <<i, j>>

\* The head of aSide takes all or nothing and would be left with something.
RollBackA ==
    /\ Turn
    /\ TradeA # 0
    /\ AllOrNothingA
    /\ Undo
    /\ i' = i + 1
    /\ UNCHANGED j

MutRollBackBKeepsFill ==
    /\ Turn
    /\ TradeA # 0
    /\ ~AllOrNothingA
    /\ AllOrNothingB
    /\ aRemaining' = [aRemaining EXCEPT ![i] = aAfter]
    /\ bRemaining' = [bRemaining EXCEPT ![j] = SatAdd(bAfter, TradeB)]
    /\ aSold' = [aSold EXCEPT ![i] = @ + TradeA]
    /\ j' = j + 1
    /\ UNCHANGED <<i, bSold, bBought>>

\* The same for the head of bSide.
RollBackB ==
    /\ Turn
    /\ TradeA # 0
    /\ ~AllOrNothingA
    /\ AllOrNothingB
    /\ Undo
    /\ j' = j + 1
    /\ UNCHANGED i

MutFillPassesA ==
    /\ Turn
    /\ TradeA # 0
    /\ ~AllOrNothingA
    /\ ~AllOrNothingB
    /\ aRemaining' = [aRemaining EXCEPT ![i] = aAfter]
    /\ bRemaining' = [bRemaining EXCEPT ![j] = bAfter]
    /\ aSold' = [aSold EXCEPT ![i] = @ + TradeA]
    /\ bSold' = [bSold EXCEPT ![j] = @ + TradeB]
    /\ bBought' = [bBought EXCEPT ![j] = @ + TradeA]
    /\ i' = i + 1
    /\ j' = IF bAfter = 0 THEN j + 1 ELSE j

MutFillIgnoresB ==
    /\ Turn
    /\ TradeA # 0
    /\ ~AllOrNothingA
    /\ aRemaining' = [aRemaining EXCEPT ![i] = aAfter]
    /\ bRemaining' = [bRemaining EXCEPT ![j] = bAfter]
    /\ aSold' = [aSold EXCEPT ![i] = @ + TradeA]
    /\ bSold' = [bSold EXCEPT ![j] = @ + TradeB]
    /\ bBought' = [bBought EXCEPT ![j] = @ + TradeA]
    /\ i' = IF aAfter = 0 THEN i + 1 ELSE i
    /\ j' = IF bAfter = 0 THEN j + 1 ELSE j

\* The fill is kept, and exhausted heads are passed.
FillHeads ==
    /\ Turn
    /\ TradeA # 0
    /\ ~AllOrNothingA
    /\ ~AllOrNothingB
    /\ aRemaining' = [aRemaining EXCEPT ![i] = aAfter]
    /\ bRemaining' = [bRemaining EXCEPT ![j] = bAfter]
    /\ aSold' = [aSold EXCEPT ![i] = @ + TradeA]
    /\ bSold' = [bSold EXCEPT ![j] = @ + TradeB]
    /\ bBought' = [bBought EXCEPT ![j] = @ + TradeA]
    /\ i' = IF aAfter = 0 THEN i + 1 ELSE i
    /\ j' = IF bAfter = 0 THEN j + 1 ELSE j

\* A side is used up, or the heads do not cross: the loop ends.
EndMatching ==
    /\ pc = "matching"
    /\ HeadsLeft => ~Crosses(aSide[i], bSide[j])
    /\ pc' = "done"
    /\ UNCHANGED <<book, i, j, aRemaining, bRemaining, aSold, bSold, bBought,
                   lastCross, turns>>

Next == SkipDust \/ RollBackA \/ RollBackB \/ FillHeads \/ EndMatching

Spec == Init /\ [][Next]_vars

\* The loop runs until it ends.
FairSpec == Spec /\ WF_vars(Next)

-----------------------------------------------------------------------------
(***************************************************************************)
(* The solution for the pair, once matching is done and something traded.  *)
(***************************************************************************)
Traded == {k \in DOMAIN aSold : aSold[k] > 0}
TradedB == {k \in DOMAIN bBought : bBought[k] > 0}

MutMediantPrice ==
    [num |-> SatAdd(lastCross.ab.num, lastCross.ba.num),
     den |-> SatAdd(lastCross.ab.den, lastCross.ba.den)]

\* B per A: the midpoint of the last crossing limits.
ClearingPrice ==
    LET p == lastCross.ab
        q == lastCross.ba
    IN  [num |-> Greater(1, SatAdd(SatMul(p.num, q.num), SatMul(p.den, q.den))),
         den |-> Greater(1, SatMul(SatMul(p.den, q.num), 2))]

Reciprocal(p) == [num |-> p.den, den |-> Greater(p.num, 1)]

\* executed_sell and executed_buy of the orders of each side.
ExecutedA(k) == [sell |-> ClampU64(aSold[k]),
                 buy  |-> ClampU64(Apply(ClearingPrice, aSold[k]))]
ExecutedB(k) == [sell |-> ClampU64(bSold[k]),
                 buy  |-> ClampU64(Apply(Reciprocal(ClearingPrice), bSold[k]))]

-----------------------------------------------------------------------------
(***************************************************************************)
(* Properties.                                                             *)
(***************************************************************************)
\* Every variable holds a value the loop can hold; no amount leaves u64.
TypeOK ==
    /\ aSide \in Seq(PairOrder) /\ bSide \in Seq(PairOrder)
    /\ i \in Nat \ {0} /\ j \in Nat \ {0}
    /\ aRemaining \in [1..Len(aSide) -> U64]
    /\ bRemaining \in [1..Len(bSide) -> U64]
    /\ aSold \in [1..Len(aSide) -> U64]
    /\ bSold \in [1..Len(bSide) -> U64]
    /\ bBought \in [1..Len(bSide) -> Nat]
    /\ lastCross \in {None} \cup [crossed : {TRUE}, ab : Prices, ba : Prices]
    /\ turns \in Nat
    /\ pc \in {"matching", "done"}

\* What an order sold and what it has left add up to what it offered, through
\* every fill, roundings and undone fills included: no order oversells.
AmountsBalance ==
    /\ \A k \in 1..Len(aSide) : aSold[k] + aRemaining[k] = aSide[k].sell
    /\ \A k \in 1..Len(bSide) : bSold[k] + bRemaining[k] = bSide[k].sell

\* The fills of the two sides are the two halves of the same trades: what aSide
\* has sold bSide has bought, however many fills of either were undone.
FillsBalance ==
    MapThenSumSet(LAMBDA k : aSold[k], DOMAIN aSold)
        = MapThenSumSet(LAMBDA k : bBought[k], DOMAIN bBought)

\* An order that forbids partial fills has sold all of its amount or nothing,
\* at every turn.
AllOrNothing ==
    /\ \A k \in 1..Len(aSide) :
          aSide[k].partial \/ aSold[k] \in {0, aSide[k].sell}
    /\ \A k \in 1..Len(bSide) :
          bSide[k].partial \/ bSold[k] \in {0, bSide[k].sell}

\* Nobody trades beyond their limit: at the one price of the pair every order
\* that traded gets at least what its own limit gives for what it sold, even
\* when the last crossing pair's fill was undone.
LimitsRespected ==
    pc = "done" =>
        /\ \A k \in Traded :
              ExecutedA(k).buy >= Apply(LimitPrice(aSide[k]), aSold[k])
        /\ \A k \in TradedB :
              ExecutedB(k).buy >= Apply(LimitPrice(bSide[k]), bSold[k])

\* The greedy walk leaves no trade on the table: two orders that allow partial
\* fills and whose limits cross are not both left with something to trade.
NoTradeLeftOver ==
    pc = "done" =>
        \A k \in 1..Len(aSide), l \in 1..Len(bSide) :
            /\ aSide[k].partial
            /\ bSide[l].partial
            /\ Crosses(aSide[k], bSide[l])
            => aRemaining[k] = 0 \/ Capacity(bSide[l], bRemaining[l]) = 0

\* An order trades only when every more willing order of its side that allows
\* partial fills is used up, down to what is too little to trade.
PricePriority ==
    /\ \A k, l \in 1..Len(aSide) :
          k < l /\ aSide[k].partial /\ aSold[l] > 0 => aRemaining[k] = 0
    /\ \A k, l \in 1..Len(bSide) :
          k < l /\ bSide[k].partial /\ bBought[l] > 0 =>
              Capacity(bSide[k], bRemaining[k]) = 0

\* What the walk still has before it: the heads of both sides, and the amounts
\* of aSide.  Those of bSide do not count, a fill may take none of it.
WorkLeft ==
    (Len(aSide) + 1 - i) + (Len(bSide) + 1 - j)
        + MapThenSumSet(LAMBDA k : aRemaining[k], DOMAIN aRemaining)

\* Every turn gets on, one that skips dust, undoes its fill, or fills for
\* nothing included: what is left shrinks, and the heads never run past the
\* ends.  So a match takes no more turns than there are orders and units of A.
WorkShrinks == [][pc' = "matching" => WorkLeft' \in 0..WorkLeft - 1]_vars

\* The loop ends.
Terminates == <>(pc = "done")

-----------------------------------------------------------------------------
(***************************************************************************)
(* What documents and comments say and the code does not do.               *)
(***************************************************************************)
\* What is "actually delivered" to users was "actually transferred" from users
\* first: of neither mint do the trades of the pair pay out more than they take
\* in, which is what settlement has to assert of them.
PayoutsAreCovered ==
    pc = "done" =>
        LET Sum(f(_), S) == MapThenSumSet(f, S)
        IN  /\ Sum(LAMBDA k : ExecutedB(k).buy, TradedB)
                   <= Sum(LAMBDA k : ExecutedA(k).sell, Traded)
            /\ Sum(LAMBDA k : ExecutedA(k).buy, Traded)
                   <= Sum(LAMBDA k : ExecutedB(k).sell, TradedB)

\* Prices combine "without overflow for any realistic order book": an executed
\* amount is the exact quotient, never what stands in for an overflow.
ExactExecutions ==
    pc = "done" =>
        \A k \in Traded :
            ExecutedA(k).buy =
                (aSold[k] * ClearingPrice.num) \div ClearingPrice.den

\* "Total work O(n log n)", of which the sort is the logarithm: the turns of the
\* loop are bounded by the number of orders, not by their amounts.
LinearTurns == turns <= TurnBound
=============================================================================
