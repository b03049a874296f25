----------------------------- MODULE PairProofs -----------------------------
(***************************************************************************)
(* Theorems about PairMatching, for all amounts, books and integer widths  *)
(* in which the product of two u64 fits a u128.                            *)
(***************************************************************************)
EXTENDS PairMatching, TLAPS

(***************************************************************************)
(* Arithmetic.                                                             *)
(***************************************************************************)
LEMMA WidthFacts == /\ MaxU64 \in Nat /\ MaxU64 > 0 /\ MaxU128 \in Nat
                    /\ MaxU64 <= MaxU128
<1>1. MaxU64 \in Nat /\ MaxU64 > 0 /\ MaxU128 \in Nat
      /\ MaxU64 * MaxU64 <= MaxU128
  BY WidthAssumption
<1>2. MaxU64 <= MaxU64 * MaxU64
  BY <1>1
<1> QED BY <1>1, <1>2

\* The product of two u64 does not saturate.
LEMMA ProductExact ==
    ASSUME NEW x \in U64, NEW y \in U64
    PROVE  SatMul(x, y) = x * y /\ x * y \in Nat
<1>1. x * y <= MaxU64 * MaxU64
  <2>1. x * y <= x * MaxU64
    BY WidthFacts DEF U64
  <2>2. x * MaxU64 <= MaxU64 * MaxU64
    BY WidthFacts DEF U64
  <2> QED BY <2>1, <2>2, WidthFacts DEF U64
<1>2. x * y \in Nat
  BY WidthFacts DEF U64
<1> QED BY <1>1, <1>2, WidthAssumption, WidthFacts DEF SatMul, Lesser

\* Rounding down is a lower bound, and the largest one.
LEMMA FloorBound ==
    ASSUME NEW n \in Nat, NEW d \in Nat \ {0}
    PROVE  n \div d \in Nat /\ (n \div d) * d <= n /\ n < (n \div d + 1) * d
OBVIOUS

LEMMA FloorLeq ==
    ASSUME NEW n \in Nat, NEW d \in Nat \ {0}, NEW m \in Nat, n <= m * d
    PROVE  n \div d <= m
<1>1. n \div d \in Nat /\ (n \div d) * d <= n
  BY FloorBound
<1>2. SUFFICES ASSUME n \div d > m PROVE FALSE
  BY <1>1
<1> DEFINE q == n \div d
<1>3. q \in Nat /\ q >= m + 1 /\ q * d <= m * d
  BY <1>1, <1>2
<1> HIDE DEF q
<1>4. (m + 1) * d <= q * d
  BY <1>3
<1>5. (m + 1) * d = m * d + d
  OBVIOUS
<1> QED BY <1>3, <1>4, <1>5

LEMMA MulMono ==
    ASSUME NEW x \in Nat, NEW y \in Nat, NEW z \in Nat, x <= y
    PROVE  x * z <= y * z
OBVIOUS

\* What an order gives for an amount within its capacity is within what it has
\* left: undoing a fill restores both sides exactly.
LEMMA GivenWithinLeft ==
    ASSUME NEW ob \in PairOrder, NEW left \in U64, NEW x \in U64,
           x <= Capacity(ob, left)
    PROVE  Given(ob, x) \in Nat /\ Given(ob, x) <= left
<1>1. ob.sell \in U64 \ {0} /\ ob.buy \in U64 \ {0}
  BY AmountAssumption DEF PairOrder
<1>2. /\ Greater(ob.sell, 1) = ob.sell /\ Greater(ob.buy, 1) = ob.buy
      /\ ob.sell \in Nat \ {0} /\ ob.buy \in Nat \ {0}
      /\ left \in Nat /\ x \in Nat
  BY <1>1, WidthFacts DEF Greater, U64
<1>3. /\ Capacity(ob, left) = (left * ob.buy) \div ob.sell
      /\ Given(ob, x) = (x * ob.sell) \div ob.buy
      /\ left * ob.buy \in Nat /\ x * ob.sell \in Nat
  BY <1>1, <1>2, ProductExact DEF Capacity, Given
<1> DEFINE c == (left * ob.buy) \div ob.sell
<1>4. c \in Nat /\ c * ob.sell <= left * ob.buy /\ x <= c
  BY <1>2, <1>3, FloorBound
<1> HIDE DEF c
<1>5. x * ob.sell <= c * ob.sell
  BY <1>2, <1>4, MulMono
<1>6. x * ob.sell <= left * ob.buy
  BY <1>2, <1>3, <1>4, <1>5
<1> QED BY <1>2, <1>3, <1>6, FloorLeq, FloorBound

LEMMA UndoExact ==
    ASSUME NEW r \in U64, NEW t \in Nat, t <= r
    PROVE  SatSub(r, t) = r - t /\ SatAdd(SatSub(r, t), t) = r
BY WidthFacts DEF SatSub, SatAdd, Lesser, U64

-----------------------------------------------------------------------------
(***************************************************************************)
(* The inductive invariant: types, amounts that balance, all or nothing.   *)
(***************************************************************************)
PairInv == TypeOK /\ AmountsBalance /\ AllOrNothing

LEMMA OrderFacts ==
    ASSUME NEW o \in PairOrder
    PROVE  /\ o.sell \in U64 /\ o.buy \in U64
           /\ o.sell \in Nat \ {0} /\ o.buy \in Nat \ {0}
           /\ Greater(o.sell, 1) = o.sell
<1>1. o.sell \in U64 \ {0} /\ o.buy \in U64 \ {0}
  BY AmountAssumption DEF PairOrder
<1> QED BY <1>1, WidthFacts DEF Greater, U64

LEMMA SideFacts ==
    ASSUME NEW s \in Seq(PairOrder), NEW k \in 1..Len(s)
    PROVE  /\ s[k] \in PairOrder
           /\ s[k].sell \in U64 /\ s[k].sell \in Nat
<1>1. s[k] \in PairOrder
  OBVIOUS
<1> QED BY <1>1, OrderFacts

LEMMA LimitPriceType ==
    ASSUME NEW o \in PairOrder
    PROVE  LimitPrice(o) \in Prices
<1>1. o.sell \in U64 \ {0} /\ o.buy \in U64 \ {0}
  BY AmountAssumption DEF PairOrder
<1> QED BY <1>1, WidthFacts DEF LimitPrice, Prices, Greater, U64, U128

LEMMA PairInit == Init => PairInv
<1> SUFFICES ASSUME Init PROVE PairInv
  OBVIOUS
<1>1. aSide \in Seq(PairOrder) /\ bSide \in Seq(PairOrder)
  <2>1. ASSUME NEW s \in Sides
        PROVE  s \in Seq(PairOrder)
    <3>1. PICK n \in 0..MaxOrders : s \in [1..n -> PairOrder]
      BY <2>1 DEF Sides
    <3>2. n \in Nat
      BY <3>1, MaxOrdersAssumption
    <3> QED BY <3>1, <3>2
  <2> QED BY <2>1 DEF Init
<1>2. /\ \A k \in 1..Len(aSide) : aSide[k].sell \in U64
      /\ \A k \in 1..Len(bSide) : bSide[k].sell \in U64
  BY <1>1, SideFacts
<1>3. TypeOK
  BY <1>1, <1>2, WidthFacts DEF Init, TypeOK, U64
<1>4. AmountsBalance
  BY <1>2, WidthFacts DEF Init, AmountsBalance, U64
<1>5. AllOrNothing
  BY DEF Init, AllOrNothing
<1> QED BY <1>3, <1>4, <1>5 DEF PairInv

\* The heads, while the loop turns, and what they would trade.
LEMMA HeadFacts ==
    ASSUME PairInv, HeadsLeft
    PROVE  /\ i \in 1..Len(aSide) /\ j \in 1..Len(bSide)
           /\ aSide[i] \in PairOrder /\ bSide[j] \in PairOrder
           /\ aRemaining[i] \in U64 /\ bRemaining[j] \in U64
           /\ TradeA \in Nat /\ TradeA <= aRemaining[i]
           /\ TradeB \in Nat /\ TradeB <= bRemaining[j]
           /\ aAfter = aRemaining[i] - TradeA
           /\ bAfter = bRemaining[j] - TradeB
           /\ SatAdd(aAfter, TradeA) = aRemaining[i]
           /\ SatAdd(bAfter, TradeB) = bRemaining[j]
<1>1. /\ i \in 1..Len(aSide) /\ j \in 1..Len(bSide)
      /\ aSide[i] \in PairOrder /\ bSide[j] \in PairOrder
      /\ aRemaining[i] \in U64 /\ bRemaining[j] \in U64
  BY DEF PairInv, TypeOK, HeadsLeft
<1>2. /\ bSide[j].sell \in U64 /\ bSide[j].buy \in U64
      /\ bSide[j].sell \in Nat \ {0}
      /\ Greater(bSide[j].sell, 1) = bSide[j].sell
  BY <1>1, OrderFacts
<1>3. Capacity(bSide[j], bRemaining[j]) \in Nat
  <2>1. SatMul(bRemaining[j], bSide[j].buy) \in Nat
    BY <1>1, <1>2, ProductExact
  <2> QED BY <1>2, <2>1, FloorBound DEF Capacity
<1>4. /\ TradeA \in Nat /\ TradeA <= aRemaining[i] /\ TradeA \in U64
      /\ TradeA <= Capacity(bSide[j], bRemaining[j])
  BY <1>1, <1>3, WidthFacts DEF TradeA, Lesser, U64
<1>5. TradeB \in Nat /\ TradeB <= bRemaining[j]
  BY <1>1, <1>4, GivenWithinLeft DEF TradeB
<1> QED BY <1>1, <1>4, <1>5, UndoExact DEF aAfter, bAfter

\* What every turn of the loop leaves well typed.
LEMMA TurnType ==
    ASSUME PairInv, Turn
    PROVE  /\ HeadsLeft
           /\ aSide' = aSide /\ bSide' = bSide /\ pc' = pc
           /\ turns' \in Nat
           /\ lastCross' \in [crossed : {TRUE}, ab : Prices, ba : Prices]
<1>1. HeadsLeft /\ aSide' = aSide /\ bSide' = bSide /\ pc' = pc
  BY DEF Turn, book
<1>2. aSide[i] \in PairOrder /\ bSide[j] \in PairOrder
  BY <1>1, HeadFacts
<1>3. turns' \in Nat
  BY DEF Turn, PairInv, TypeOK
<1>4. LimitPrice(aSide[i]) \in Prices /\ LimitPrice(bSide[j]) \in Prices
  BY <1>2, LimitPriceType
<1>5. lastCross' \in [crossed : {TRUE}, ab : Prices, ba : Prices]
  BY <1>4 DEF Turn
<1> QED BY <1>1, <1>3, <1>5

\* A turn that moves nothing.
LEMMA BookStays ==
    ASSUME PairInv, aSide' = aSide, bSide' = bSide, pc' = pc, turns' \in Nat,
           lastCross' \in [crossed : {TRUE}, ab : Prices, ba : Prices],
           UNCHANGED <<aRemaining, bRemaining, aSold, bSold, bBought>>,
           i' \in Nat \ {0}, j' \in Nat \ {0}
    PROVE  PairInv'
<1>1. TypeOK'
  BY DEF PairInv, TypeOK
<1>2. AmountsBalance' /\ AllOrNothing'
  BY DEF PairInv, AmountsBalance, AllOrNothing
<1> QED BY <1>1, <1>2 DEF PairInv

LEMMA SkipKeeps ==
    ASSUME PairInv, SkipDust
    PROVE  PairInv'
<1>1. /\ aSide' = aSide /\ bSide' = bSide /\ pc' = pc /\ turns' \in Nat
      /\ lastCross' \in [crossed : {TRUE}, ab : Prices, ba : Prices]
  BY TurnType DEF SkipDust
<1>2. /\ UNCHANGED <<aRemaining, bRemaining, aSold, bSold, bBought>>
      /\ i' \in Nat \ {0} /\ j' \in Nat \ {0}
  BY DEF SkipDust, PairInv, TypeOK
<1> QED BY <1>1, <1>2, BookStays

\* An undone fill leaves both sides as they were.
LEMMA UndoKeeps ==
    ASSUME PairInv, HeadsLeft, Undo
    PROVE  UNCHANGED <<aRemaining, bRemaining, aSold, bSold, bBought>>
BY HeadFacts DEF Undo, PairInv, TypeOK

LEMMA RollBackKeeps ==
    ASSUME PairInv, RollBackA \/ RollBackB
    PROVE  PairInv'
<1>1. /\ Turn /\ Undo
      /\ i' \in {i, i + 1} /\ j' \in {j, j + 1}
  BY DEF RollBackA, RollBackB
<1>2. UNCHANGED <<aRemaining, bRemaining, aSold, bSold, bBought>>
  BY <1>1, TurnType, UndoKeeps
<1>3. i' \in Nat \ {0} /\ j' \in Nat \ {0}
  BY <1>1 DEF PairInv, TypeOK
<1> QED BY <1>1, <1>2, <1>3, TurnType, BookStays

\* A fill moves an amount from what is left of an order to what it has sold.
LEMMA MovedAmount ==
    ASSUME NEW sold \in U64, NEW left \in U64, NEW total \in U64,
           NEW moved \in Nat, NEW rest,
           sold + left = total, moved <= left, rest = left - moved
    PROVE  /\ sold + moved + rest = total
           /\ sold + moved \in U64 /\ rest \in U64
           /\ rest = 0 => sold + moved = total
BY WidthFacts DEF U64

LEMMA FillKeeps ==
    ASSUME PairInv, FillHeads
    PROVE  PairInv'
<1>1. Turn /\ HeadsLeft
  BY TurnType DEF FillHeads
<1>2. /\ aSold \in [1..Len(aSide) -> U64] /\ bSold \in [1..Len(bSide) -> U64]
      /\ \A k \in 1..Len(aSide) : aSide[k].sell \in U64
      /\ \A k \in 1..Len(bSide) : bSide[k].sell \in U64
      /\ aSide \in Seq(PairOrder) /\ bSide \in Seq(PairOrder)
  BY SideFacts DEF PairInv, TypeOK
<1>h. /\ i \in 1..Len(aSide) /\ j \in 1..Len(bSide)
      /\ aRemaining[i] \in U64 /\ bRemaining[j] \in U64
      /\ TradeA \in Nat /\ TradeA <= aRemaining[i]
      /\ TradeB \in Nat /\ TradeB <= bRemaining[j]
      /\ aAfter = aRemaining[i] - TradeA
      /\ bAfter = bRemaining[j] - TradeB
  BY <1>1, HeadFacts
<1>b. /\ aSold[i] \in U64 /\ aSold[i] + aRemaining[i] = aSide[i].sell
      /\ bSold[j] \in U64 /\ bSold[j] + bRemaining[j] = bSide[j].sell
      /\ aSide[i].sell \in U64 /\ bSide[j].sell \in U64
  BY <1>2, <1>h DEF PairInv, AmountsBalance
<1>3. /\ aSold[i] + TradeA + aAfter = aSide[i].sell
      /\ bSold[j] + TradeB + bAfter = bSide[j].sell
      /\ aSold[i] + TradeA \in U64 /\ aAfter \in U64
      /\ bSold[j] + TradeB \in U64 /\ bAfter \in U64
      /\ aAfter = 0 => aSold[i] + TradeA = aSide[i].sell
      /\ bAfter = 0 => bSold[j] + TradeB = bSide[j].sell
  BY <1>h, <1>b, MovedAmount
<1>4. /\ aRemaining' = [aRemaining EXCEPT ![i] = aAfter]
      /\ bRemaining' = [bRemaining EXCEPT ![j] = bAfter]
      /\ aSold' = [aSold EXCEPT ![i] = @ + TradeA]
      /\ bSold' = [bSold EXCEPT ![j] = @ + TradeB]
      /\ bBought' = [bBought EXCEPT ![j] = @ + TradeA]
      /\ i' \in Nat \ {0} /\ j' \in Nat \ {0}
  BY DEF FillHeads, PairInv, TypeOK
<1>5. TypeOK'
  <2>1. /\ aRemaining' \in [1..Len(aSide) -> U64]
        /\ bRemaining' \in [1..Len(bSide) -> U64]
        /\ aSold' \in [1..Len(aSide) -> U64]
        /\ bSold' \in [1..Len(bSide) -> U64]
    BY <1>2, <1>h, <1>3, <1>4 DEF PairInv, TypeOK
  <2>2. bBought' \in [1..Len(bSide) -> Nat]
    BY <1>h, <1>4 DEF PairInv, TypeOK
  <2> QED BY <1>1, <1>4, <2>1, <2>2, TurnType DEF PairInv, TypeOK
<1>6. AmountsBalance'
  BY <1>1, <1>2, <1>h, <1>3, <1>4, TurnType DEF PairInv, TypeOK, AmountsBalance
<1>7. AllOrNothing'
  <2>1. /\ aSide[i].partial \/ aSold[i] + TradeA = aSide[i].sell
        /\ bSide[j].partial \/ bSold[j] + TradeB = bSide[j].sell
    <3>1. /\ aSide[i].partial \/ aAfter = 0
          /\ bSide[j].partial \/ bAfter = 0
      BY DEF FillHeads, AllOrNothingA, AllOrNothingB
    <3> QED BY <1>3, <3>1
  <2> QED BY <1>1, <1>2, <1>h, <1>4, <2>1, TurnType
          DEF PairInv, TypeOK, AllOrNothing
<1> QED BY <1>5, <1>6, <1>7 DEF PairInv

THEOREM PairInvHolds == Spec => []PairInv
<1>1. ASSUME PairInv, [Next]_vars PROVE PairInv'
  <2>1. CASE EndMatching \/ UNCHANGED vars
    BY <1>1, <2>1 DEF EndMatching, vars, book, PairInv, TypeOK,
                      AmountsBalance, AllOrNothing
  <2> QED BY <1>1, <2>1, SkipKeeps, RollBackKeeps, FillKeeps DEF Next
<1> QED BY PairInit, <1>1, PTL DEF Spec

\* For every book and width, the loop keeps its indices, amounts and prices in
\* range: a fill never takes an amount out of u64.
THEOREM PairTypeCorrect == Spec => []TypeOK
<1>1. PairInv => TypeOK
  BY DEF PairInv
<1> QED BY <1>1, PairInvHolds, PTL

\* For every book and width, what an order has sold and has left add up to what
\* it offered: saturation, rounding and undone fills never lose or make any.
THEOREM AmountsBalanceHolds == Spec => []AmountsBalance
<1>1. PairInv => AmountsBalance
  BY DEF PairInv
<1> QED BY <1>1, PairInvHolds, PTL

\* For every book and width, an order that forbids partial fills has sold all
\* or nothing.
THEOREM AllOrNothingHolds == Spec => []AllOrNothing
<1>1. PairInv => AllOrNothing
  BY DEF PairInv
<1> QED BY <1>1, PairInvHolds, PTL

-----------------------------------------------------------------------------
(***************************************************************************)
(* Counterparties.                                                         *)
(***************************************************************************)
BothSidesTrade == Traded # {} <=> TradedB # {}

LEMMA FillsOnBothSides ==
    ASSUME PairInv, BothSidesTrade, [Next]_vars
    PROVE  BothSidesTrade'
<1>1. CASE FillHeads
  <2>1. Turn /\ HeadsLeft
    BY <1>1, TurnType DEF FillHeads
  <2>2. /\ i \in 1..Len(aSide) /\ j \in 1..Len(bSide)
        /\ TradeA \in Nat /\ TradeA > 0
    BY <1>1, <2>1, HeadFacts DEF FillHeads
  <2>3. /\ aSold' = [aSold EXCEPT ![i] = @ + TradeA]
        /\ bBought' = [bBought EXCEPT ![j] = @ + TradeA]
    BY <1>1 DEF FillHeads
  <2>4. aSold'[i] = aSold[i] + TradeA /\ bBought'[j] = bBought[j] + TradeA
    BY <2>2, <2>3 DEF PairInv, TypeOK
  <2>5. aSold'[i] > 0 /\ bBought'[j] > 0
    <3>1. /\ aSold \in [1..Len(aSide) -> U64]
          /\ bBought \in [1..Len(bSide) -> Nat]
      BY DEF PairInv, TypeOK
    <3>2. aSold[i] \in U64 /\ bBought[j] \in Nat
      BY <2>2, <3>1
    <3> HIDE DEF TradeA
    <3> QED BY <2>2, <2>4, <3>2, WidthFacts DEF U64
  <2> QED BY <2>2, <2>3, <2>5 DEF BothSidesTrade, Traded, TradedB, PairInv, TypeOK
<1>2. CASE ~FillHeads
  <2>1. UNCHANGED <<aSold, bBought>>
    BY <1>2, TurnType, UndoKeeps
       DEF Next, SkipDust, RollBackA, RollBackB, EndMatching, vars
  <2> QED BY <2>1 DEF BothSidesTrade, Traded, TradedB
<1> QED BY <1>1, <1>2

\* For every book and width, an order of one side trades only if one of the
\* other side does: what BatchMatching assumes of the orders it finds matched.
THEOREM BothSidesTradeHolds == Spec => []BothSidesTrade
<1>1. Init => BothSidesTrade
  BY DEF Init, BothSidesTrade, Traded, TradedB
<1> QED BY <1>1, FillsOnBothSides, PairInvHolds, PTL DEF Spec
=============================================================================
