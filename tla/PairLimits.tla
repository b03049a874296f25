----------------------------- MODULE PairLimits -----------------------------
(***************************************************************************)
(* What the greedy walk of PairMatching achieves, for all books: the more  *)
(* willing order trades first, no trade is left over, and nobody trades    *)
(* beyond their limit.                                                     *)
(***************************************************************************)
EXTENDS PairProofs, Sums

(***************************************************************************)
(* Where the heads are.  Orders before a head are used up, or forbid       *)
(* partial fills; orders behind it have not traded.                        *)
(***************************************************************************)
UsedUpA(k) == aSide[k].partial => aRemaining[k] = 0
UsedUpB(k) == bSide[k].partial => Capacity(bSide[k], bRemaining[k]) = 0

HeadsInv ==
    /\ \A k \in 1..Len(aSide) : /\ k < i => UsedUpA(k)
                                /\ k > i => aSold[k] = 0
    /\ \A k \in 1..Len(bSide) : /\ k < j => UsedUpB(k)
                                /\ k > j => bBought[k] = 0 /\ bSold[k] = 0

LEMMA NoCapacity ==
    ASSUME NEW o \in PairOrder
    PROVE  Capacity(o, 0) = 0
<1>1. /\ o.sell \in Nat \ {0} /\ o.buy \in U64 /\ 0 \in U64
      /\ Greater(o.sell, 1) = o.sell
  BY OrderFacts, WidthFacts DEF U64
<1>2. SatMul(0, o.buy) = 0
  BY <1>1, ProductExact, WidthFacts DEF U64
<1> QED BY <1>1, <1>2 DEF Capacity

\* A turn that keeps no fill passes at most one head, which is used up or
\* forbids partial fills.
LEMMA HeadPassed ==
    ASSUME PairInv, HeadsInv,
           UNCHANGED <<aSide, bSide, aRemaining, bRemaining, aSold, bSold,
                       bBought>>,
           \/ UNCHANGED <<i, j>>
           \/ i' = i + 1 /\ j' = j /\ (i \in 1..Len(aSide) => UsedUpA(i))
           \/ j' = j + 1 /\ i' = i /\ (j \in 1..Len(bSide) => UsedUpB(j))
    PROVE  HeadsInv'
BY DEF PairInv, TypeOK, HeadsInv, UsedUpA, UsedUpB

LEMMA HeadsNext ==
    ASSUME PairInv, HeadsInv, [Next]_vars
    PROVE  HeadsInv'
<1>1. CASE SkipDust
  <2>1. Turn /\ HeadsLeft /\ TradeA = 0
    BY <1>1, TurnType DEF SkipDust
  <2>2. UNCHANGED <<aSide, bSide, aRemaining, bRemaining, aSold, bSold, bBought>>
    BY <1>1, <2>1, TurnType DEF SkipDust
  <2>3. aRemaining[i] # 0 => Capacity(bSide[j], bRemaining[j]) = 0
    BY <2>1 DEF TradeA, Lesser
  <2> QED BY <1>1, <2>2, <2>3, HeadPassed DEF SkipDust, UsedUpA, UsedUpB
<1>2. CASE RollBackA \/ RollBackB
  <2>1. Turn /\ HeadsLeft /\ Undo
    BY <1>2, TurnType DEF RollBackA, RollBackB
  <2>2. UNCHANGED <<aSide, bSide, aRemaining, bRemaining, aSold, bSold, bBought>>
    BY <2>1, TurnType, UndoKeeps
  <2> QED BY <1>2, <2>2, HeadPassed
          DEF RollBackA, RollBackB, AllOrNothingA, AllOrNothingB, UsedUpA,
              UsedUpB
<1>3. CASE FillHeads
  <2>1. Turn /\ HeadsLeft /\ aSide' = aSide /\ bSide' = bSide
    BY <1>3, TurnType DEF FillHeads
  <2>2. /\ i \in 1..Len(aSide) /\ j \in 1..Len(bSide) /\ bSide[j] \in PairOrder
    BY <2>1, HeadFacts
  <2>3. /\ aRemaining' = [aRemaining EXCEPT ![i] = aAfter]
        /\ bRemaining' = [bRemaining EXCEPT ![j] = bAfter]
        /\ aSold' = [aSold EXCEPT ![i] = @ + TradeA]
        /\ bSold' = [bSold EXCEPT ![j] = @ + TradeB]
        /\ bBought' = [bBought EXCEPT ![j] = @ + TradeA]
        /\ i' = IF aAfter = 0 THEN i + 1 ELSE i
        /\ j' = IF bAfter = 0 THEN j + 1 ELSE j
    BY <1>3 DEF FillHeads
  <2>4. ASSUME NEW k \in 1..Len(aSide)
        PROVE  /\ k < i' => UsedUpA(k)'
               /\ k > i' => aSold'[k] = 0
    <3>1. CASE k = i
      BY <2>1, <2>2, <2>3, <2>4, <3>1 DEF PairInv, TypeOK, UsedUpA
    <3>2. CASE k # i
      <4>1. aRemaining'[k] = aRemaining[k] /\ aSold'[k] = aSold[k]
        BY <2>3, <3>2 DEF PairInv, TypeOK
      <4>2. (k < i' => k < i) /\ (k > i' => k > i)
        BY <2>2, <2>3, <3>2
      <4> QED BY <2>1, <4>1, <4>2 DEF HeadsInv, UsedUpA
    <3> QED BY <3>1, <3>2
  <2>5. ASSUME NEW k \in 1..Len(bSide)
        PROVE  /\ k < j' => UsedUpB(k)'
               /\ k > j' => bBought'[k] = 0 /\ bSold'[k] = 0
    <3>1. CASE k = j
      <4>1. bRemaining'[j] = bAfter
        BY <2>2, <2>3 DEF PairInv, TypeOK
      <4>2. k < j' => bAfter = 0
        BY <2>2, <2>3, <3>1
      <4>3. ~(k > j')
        BY <2>2, <2>3, <3>1
      <4> QED BY <2>1, <2>2, <3>1, <4>1, <4>2, <4>3, NoCapacity DEF UsedUpB
    <3>2. CASE k # j
      <4>1. /\ bRemaining'[k] = bRemaining[k] /\ bBought'[k] = bBought[k]
            /\ bSold'[k] = bSold[k]
        BY <2>3, <3>2 DEF PairInv, TypeOK
      <4>2. (k < j' => k < j) /\ (k > j' => k > j)
        BY <2>2, <2>3, <3>2
      <4> QED BY <2>1, <4>1, <4>2 DEF HeadsInv, UsedUpB
    <3> QED BY <3>1, <3>2
  <2> QED BY <2>1, <2>4, <2>5 DEF HeadsInv
<1>4. CASE EndMatching \/ UNCHANGED vars
  BY <1>4, HeadPassed DEF EndMatching, vars, book
<1> QED BY <1>1, <1>2, <1>3, <1>4 DEF Next

THEOREM HeadsInvHolds == Spec => []HeadsInv
<1>1. ASSUME Init PROVE HeadsInv
  BY <1>1 DEF Init, HeadsInv
<1> QED BY <1>1, HeadsNext, PairInvHolds, PTL DEF Spec

\* For every book and width, an order trades only when every more willing order
\* of its side that allows partial fills is used up.
THEOREM PricePriorityHolds == Spec => []PricePriority
<1>1. ASSUME PairInv, HeadsInv PROVE PricePriority
  <2>1. ASSUME NEW k \in 1..Len(aSide), NEW l \in 1..Len(aSide),
               k < l, aSide[k].partial, aSold[l] > 0
        PROVE  aRemaining[k] = 0
    <3>1. ~(l > i)
      BY <1>1, <2>1 DEF HeadsInv
    <3> QED BY <1>1, <2>1, <3>1 DEF HeadsInv, UsedUpA, PairInv, TypeOK
  <2>2. ASSUME NEW k \in 1..Len(bSide), NEW l \in 1..Len(bSide),
               k < l, bSide[k].partial, bBought[l] > 0
        PROVE  Capacity(bSide[k], bRemaining[k]) = 0
    <3>1. ~(l > j)
      BY <1>1, <2>2 DEF HeadsInv
    <3> QED BY <1>1, <2>2, <3>1 DEF HeadsInv, UsedUpB, PairInv, TypeOK
  <2> QED BY <2>1, <2>2 DEF PricePriority
<1> QED BY <1>1, HeadsInvHolds, PairInvHolds, PTL

-----------------------------------------------------------------------------
(***************************************************************************)
(* Limit prices as fractions.                                              *)
(***************************************************************************)
\* p is at most q, as fractions of natural numbers.
FracLeq(p, q) == p.num * q.den <= q.num * p.den

Fractions == [num : Nat, den : Nat \ {0}]

LEMMA Cancels ==
    ASSUME NEW x \in Nat, NEW y \in Nat, NEW z \in Nat \ {0}, x * z <= y * z
    PROVE  x <= y
<1>1. SUFFICES ASSUME y + 1 <= x PROVE FALSE
  OBVIOUS
<1>2. (y + 1) * z <= x * z
  BY <1>1, MulMono
<1>3. (y + 1) * z = y * z + z
  OBVIOUS
<1> QED BY <1>2, <1>3

LEMMA FracTrans ==
    ASSUME NEW p \in Fractions, NEW q \in Fractions, NEW r \in Fractions,
           FracLeq(p, q), FracLeq(q, r)
    PROVE  FracLeq(p, r)
<1> DEFINE a == p.num  b == p.den  c == q.num  d == q.den  e == r.num  f == r.den
<1>1. /\ a \in Nat /\ c \in Nat /\ e \in Nat
      /\ b \in Nat \ {0} /\ d \in Nat \ {0} /\ f \in Nat \ {0}
      /\ a * d <= c * b /\ c * f <= e * d
  BY DEF Fractions, FracLeq
<1>2. SUFFICES a * f <= e * b
  BY DEF FracLeq
<1> HIDE DEF a, b, c, d, e, f
<1>3. (a * d) * f <= (c * b) * f
  BY <1>1, MulMono
<1>4. (c * f) * b <= (e * d) * b
  BY <1>1, MulMono
<1>5. /\ (a * d) * f = (a * f) * d
      /\ (c * b) * f = (c * f) * b
      /\ (e * d) * b = (e * b) * d
  BY <1>1
<1>6. (a * f) * d <= (e * b) * d
  BY <1>1, <1>3, <1>4, <1>5
<1> QED BY <1>1, <1>6, Cancels

LEMMA LimitFacts ==
    ASSUME NEW o \in PairOrder
    PROVE  /\ LimitPrice(o) = [num |-> o.buy, den |-> o.sell]
           /\ LimitPrice(o) \in Fractions
           /\ LimitPrice(o).num \in U64 \ {0}
           /\ LimitPrice(o).den \in U64 \ {0}
<1>1. /\ o.sell \in U64 /\ o.buy \in U64
      /\ o.sell \in Nat \ {0} /\ o.buy \in Nat \ {0}
      /\ Greater(o.sell, 1) = o.sell
  BY OrderFacts
<1> QED BY <1>1 DEF LimitPrice, Fractions

\* Between limit prices no product saturates.
LEMMA LimitLeq ==
    ASSUME NEW o \in PairOrder, NEW p \in PairOrder
    PROVE  PriceLeq(LimitPrice(o), LimitPrice(p))
               <=> FracLeq(LimitPrice(o), LimitPrice(p))
BY LimitFacts, ProductExact DEF PriceLeq, FracLeq

-----------------------------------------------------------------------------
(***************************************************************************)
(* Sorted sides: from neighbours to any two orders, by the least index at  *)
(* which it would fail.                                                    *)
(***************************************************************************)
LEMMA SortedPairwise ==
    ASSUME NEW s \in Seq(PairOrder), Sorted(s),
           NEW k \in 1..Len(s), NEW l \in 1..Len(s), k <= l
    PROVE  FracLeq(LimitPrice(s[k]), LimitPrice(s[l]))
<1> DEFINE lim(n) == LimitPrice(s[n])
           T == {n \in k..Len(s) : ~FracLeq(lim(k), lim(n))}
<1>1. \A n \in 1..Len(s) : s[n] \in PairOrder /\ lim(n) \in Fractions
  BY LimitFacts
<1>2. ASSUME NEW n \in 1..Len(s) - 1
      PROVE  FracLeq(lim(n), lim(n + 1))
  BY <1>1, <1>2, LimitLeq DEF Sorted
<1>3. FracLeq(lim(k), lim(k))
  BY <1>1 DEF FracLeq, Fractions
<1>4. SUFFICES ASSUME T # {} PROVE FALSE
  OBVIOUS
<1>5. PICK m \in T : \A n \in T : m <= n
  <2>1. T \in SUBSET Nat
    OBVIOUS
  <2> QED BY <1>4, <2>1, Least
<1>6. m # k /\ m \in k..Len(s)
  BY <1>3, <1>5
<1>7. m - 1 \in k..Len(s) /\ m - 1 \in 1..Len(s) - 1 /\ m \in 1..Len(s)
  BY <1>6
<1>8. FracLeq(lim(k), lim(m - 1))
  BY <1>5, <1>7
<1>9. FracLeq(lim(m - 1), lim(m))
  BY <1>2, <1>7
<1>10. FracLeq(lim(k), lim(m))
  <2>1. lim(k) \in Fractions /\ lim(m - 1) \in Fractions /\ lim(m) \in Fractions
    BY <1>1, <1>7
  <2> HIDE DEF lim
  <2> QED BY <1>8, <1>9, <2>1, FracTrans
<1> QED BY <1>5, <1>10

-----------------------------------------------------------------------------
(***************************************************************************)
(* No trade is left over.                                                  *)
(***************************************************************************)
Flip(p) == [num |-> p.den, den |-> p.num]

LEMMA FlipFacts ==
    ASSUME NEW o \in PairOrder, NEW p \in PairOrder
    PROVE  /\ Flip(LimitPrice(o)) \in Fractions
           /\ FracLeq(LimitPrice(o), LimitPrice(p)) =>
                 FracLeq(Flip(LimitPrice(p)), Flip(LimitPrice(o)))
<1>1. /\ LimitPrice(o) = [num |-> o.buy, den |-> o.sell]
      /\ LimitPrice(p) = [num |-> p.buy, den |-> p.sell]
      /\ o.sell \in Nat \ {0} /\ o.buy \in Nat \ {0}
      /\ p.sell \in Nat \ {0} /\ p.buy \in Nat \ {0}
  BY LimitFacts, OrderFacts
<1>2. /\ o.buy * p.sell = p.sell * o.buy
      /\ p.buy * o.sell = o.sell * p.buy
  BY <1>1
<1> QED BY <1>1, <1>2 DEF Flip, Fractions, FracLeq

\* Two orders cross when the one's limit is at most the other's, turned over.
LEMMA CrossLeq ==
    ASSUME NEW oa \in PairOrder, NEW ob \in PairOrder
    PROVE  Crosses(oa, ob) <=> FracLeq(LimitPrice(oa), Flip(LimitPrice(ob)))
<1>1. /\ LimitPrice(oa) = [num |-> oa.buy, den |-> oa.sell]
      /\ LimitPrice(ob) = [num |-> ob.buy, den |-> ob.sell]
      /\ oa.sell \in Nat \ {0} /\ oa.buy \in Nat \ {0}
      /\ ob.sell \in Nat \ {0} /\ ob.buy \in Nat \ {0}
      /\ oa.sell \in U64 /\ oa.buy \in U64 /\ ob.sell \in U64 /\ ob.buy \in U64
  BY LimitFacts, OrderFacts
<1>2. /\ SatMul(oa.buy, ob.buy) = oa.buy * ob.buy
      /\ SatMul(oa.sell, ob.sell) = oa.sell * ob.sell
      /\ oa.sell * ob.sell = ob.sell * oa.sell
  BY <1>1, ProductExact
<1> QED BY <1>1, <1>2 DEF Crosses, Flip, FracLeq

\* If two orders cross, any two that are more willing do.
LEMMA CrossDown ==
    ASSUME NEW a1 \in PairOrder, NEW a2 \in PairOrder,
           NEW b1 \in PairOrder, NEW b2 \in PairOrder,
           FracLeq(LimitPrice(a1), LimitPrice(a2)),
           FracLeq(LimitPrice(b1), LimitPrice(b2)),
           Crosses(a2, b2)
    PROVE  Crosses(a1, b1)
<1>1. FracLeq(LimitPrice(a2), Flip(LimitPrice(b2)))
  BY CrossLeq
<1>2. FracLeq(Flip(LimitPrice(b2)), Flip(LimitPrice(b1)))
  BY FlipFacts
<1>3. /\ LimitPrice(a1) \in Fractions /\ LimitPrice(a2) \in Fractions
      /\ Flip(LimitPrice(b1)) \in Fractions /\ Flip(LimitPrice(b2)) \in Fractions
  BY LimitFacts, FlipFacts
<1>4. FracLeq(LimitPrice(a1), Flip(LimitPrice(b2)))
  BY <1>1, <1>3, FracTrans
<1>5. FracLeq(LimitPrice(a1), Flip(LimitPrice(b1)))
  BY <1>2, <1>3, <1>4, FracTrans
<1> QED BY <1>5, CrossLeq

WalkInv == /\ Sorted(aSide) /\ Sorted(bSide)
           /\ pc = "done" /\ HeadsLeft => ~Crosses(aSide[i], bSide[j])

LEMMA WalkNext ==
    ASSUME PairInv, WalkInv, [Next]_vars
    PROVE  WalkInv'
<1>1. CASE Turn
  BY <1>1, TurnType DEF Turn, WalkInv
<1>2. CASE EndMatching \/ UNCHANGED vars
  BY <1>2 DEF EndMatching, vars, book, WalkInv, HeadsLeft
<1> QED BY <1>1, <1>2 DEF Next, SkipDust, RollBackA, RollBackB, FillHeads

THEOREM WalkInvHolds == Spec => []WalkInv
<1>1. Init => WalkInv
  BY DEF Init, Sides, WalkInv
<1> QED BY <1>1, WalkNext, PairInvHolds, PTL DEF Spec

\* For every book and width, two orders that allow partial fills and whose
\* limits cross are not both left with something to trade.
THEOREM NoTradeLeftOverHolds == Spec => []NoTradeLeftOver
<1>1. ASSUME PairInv, HeadsInv, WalkInv PROVE NoTradeLeftOver
  <2>1. SUFFICES ASSUME pc = "done",
                        NEW k \in 1..Len(aSide), NEW l \in 1..Len(bSide),
                        aSide[k].partial, bSide[l].partial,
                        Crosses(aSide[k], bSide[l])
                 PROVE  aRemaining[k] = 0
                        \/ Capacity(bSide[l], bRemaining[l]) = 0
    BY DEF NoTradeLeftOver
  <2>2. i \in Nat \ {0} /\ j \in Nat \ {0}
        /\ aSide \in Seq(PairOrder) /\ bSide \in Seq(PairOrder)
    BY <1>1 DEF PairInv, TypeOK
  <2>3. CASE k < i \/ l < j
    BY <1>1, <2>1, <2>3 DEF HeadsInv, UsedUpA, UsedUpB
  <2>4. CASE i <= k /\ j <= l
    <3>1. i \in 1..Len(aSide) /\ j \in 1..Len(bSide) /\ HeadsLeft
      BY <2>2, <2>4 DEF HeadsLeft
    <3>2. /\ FracLeq(LimitPrice(aSide[i]), LimitPrice(aSide[k]))
          /\ FracLeq(LimitPrice(bSide[j]), LimitPrice(bSide[l]))
      BY <1>1, <2>2, <2>4, <3>1, SortedPairwise DEF WalkInv
    <3>3. /\ aSide[i] \in PairOrder /\ aSide[k] \in PairOrder
          /\ bSide[j] \in PairOrder /\ bSide[l] \in PairOrder
      BY <2>2, <3>1
    <3>4. Crosses(aSide[i], bSide[j])
      BY <2>1, <3>2, <3>3, CrossDown
    <3> QED BY <1>1, <2>1, <3>1, <3>4 DEF WalkInv
  <2> QED BY <2>2, <2>3, <2>4
<1> QED BY <1>1, PairInvHolds, HeadsInvHolds, WalkInvHolds, PTL

-----------------------------------------------------------------------------
(***************************************************************************)
(* The price.  It lies between the limits of the last pair of heads that   *)
(* crossed, which lie beyond the limits of everyone who traded -- provided *)
(* its own numerator and denominator do not saturate, and saturate they    *)
(* can: twice the product of two amounts has to fit a u128.                *)
(***************************************************************************)
PriceFits == \A x, y \in Amount : 2 * (x * y) <= MaxU128

LEMMA ApplyMono ==
    ASSUME NEW p \in Fractions, NEW q \in Fractions, FracLeq(p, q), NEW x \in Nat,
           x * p.num <= MaxU128
    PROVE  Apply(p, x) <= Apply(q, x)
<1> DEFINE a == p.num  b == p.den  c == q.num  d == q.den
           f == (x * a) \div b
           g == (x * c) \div d
<1>1. /\ a \in Nat /\ c \in Nat /\ b \in Nat \ {0} /\ d \in Nat \ {0}
      /\ a * d <= c * b
  BY DEF Fractions, FracLeq
<1>2. x * a \in Nat /\ x * c \in Nat
  BY <1>1
<1>3. /\ f \in Nat /\ f * b <= x * a
      /\ g \in Nat /\ x * c < (g + 1) * d
  BY <1>1, <1>2, FloorBound
<1>4. f <= MaxU128
  <2>1. f <= f * b
    BY <1>1, <1>3
  <2>2. f * b \in Nat /\ f * b <= MaxU128
    BY <1>1, <1>2, <1>3, WidthFacts
  <2> HIDE DEF f
  <2> QED BY <1>3, <2>1, <2>2, WidthFacts
<1>5. f <= g
  <2> HIDE DEF a, b, c, d, f, g
  <2>1. (f * b) * d <= (x * a) * d
    BY <1>1, <1>2, <1>3, MulMono
  <2>2. (a * d) * x <= (c * b) * x
    BY <1>1, MulMono
  <2>3. /\ (x * a) * d = (a * d) * x
        /\ (c * b) * x = (x * c) * b
        /\ (f * b) * d = (f * d) * b
    BY <1>1, <1>3
  <2>4. (f * d) * b <= (x * c) * b
    BY <1>1, <1>2, <1>3, <2>1, <2>2, <2>3
  <2>5. f * d <= x * c
    BY <1>1, <1>2, <1>3, <2>4, Cancels
  <2>6. f * d < (g + 1) * d
    BY <1>1, <1>2, <1>3, <2>5
  <2>7. SUFFICES ASSUME g + 1 <= f PROVE FALSE
    BY <1>3
  <2>8. (g + 1) * d <= f * d
    BY <1>1, <1>3, <2>7, MulMono
  <2> QED BY <1>1, <1>3, <2>6, <2>8
<1> HIDE DEF a, b, c, d
<1> QED BY <1>4, <1>5 DEF Apply, a, b, c, d

\* The last heads found to cross; only orders up to them have traded.
LastCrossed(m, n) ==
    /\ lastCross = [crossed |-> TRUE, ab |-> LimitPrice(aSide[m]),
                                      ba |-> LimitPrice(bSide[n])]
    /\ Crosses(aSide[m], bSide[n])
    /\ \A k \in 1..Len(aSide) : k > m => aSold[k] = 0
    /\ \A k \in 1..Len(bSide) : k > n => bBought[k] = 0

NobodyTraded == /\ \A k \in 1..Len(aSide) : aSold[k] = 0
                /\ \A k \in 1..Len(bSide) : bBought[k] = 0

CrossInv == \/ NobodyTraded
            \/ \E m \in 1..Len(aSide), n \in 1..Len(bSide) : LastCrossed(m, n)

LEMMA CrossNext ==
    ASSUME PairInv, HeadsInv, CrossInv, [Next]_vars
    PROVE  CrossInv'
<1>1. CASE Turn
  <2>1. /\ HeadsLeft /\ aSide' = aSide /\ bSide' = bSide
        /\ Crosses(aSide[i], bSide[j])
        /\ lastCross' = [crossed |-> TRUE, ab |-> LimitPrice(aSide[i]),
                                           ba |-> LimitPrice(bSide[j])]
    BY <1>1, TurnType DEF Turn
  <2>2. i \in 1..Len(aSide) /\ j \in 1..Len(bSide)
    BY <2>1, HeadFacts
  <2>3. /\ \A k \in 1..Len(aSide) : k > i => aSold'[k] = aSold[k]
        /\ \A k \in 1..Len(bSide) : k > j => bBought'[k] = bBought[k]
    <3>1. CASE FillHeads
      <4>1. /\ aSold' = [aSold EXCEPT ![i] = @ + TradeA]
            /\ bBought' = [bBought EXCEPT ![j] = @ + TradeA]
        BY <3>1 DEF FillHeads
      <4> QED BY <2>2, <4>1 DEF PairInv, TypeOK
    <3>2. CASE ~FillHeads
      BY <1>1, <2>1, <3>2, UndoKeeps
         DEF Next, SkipDust, RollBackA, RollBackB, EndMatching, vars
    <3> QED BY <3>1, <3>2
  <2>4. PICK m \in 1..Len(aSide'), n \in 1..Len(bSide') : m = i /\ n = j
    BY <2>1, <2>2
  <2>5. LastCrossed(m, n)'
    BY <2>1, <2>2, <2>3, <2>4 DEF HeadsInv, LastCrossed
  <2> QED BY <2>4, <2>5 DEF CrossInv
<1>2. CASE EndMatching \/ UNCHANGED vars
  BY <1>2 DEF EndMatching, vars, book, CrossInv, NobodyTraded, LastCrossed
<1> QED BY <1>1, <1>2 DEF Next, SkipDust, RollBackA, RollBackB, FillHeads

THEOREM CrossInvHolds == Spec => []CrossInv
<1>1. ASSUME Init PROVE CrossInv
  BY <1>1 DEF Init, CrossInv, NobodyTraded
<1> QED BY <1>1, CrossNext, PairInvHolds, HeadsInvHolds, PTL DEF Spec

\* The midpoint of p and q turned over lies between them.
Midpoint(p, q) == [num |-> p.num * q.num + p.den * q.den,
                   den |-> (p.den * q.num) * 2]

LEMMA MidpointBetween ==
    ASSUME NEW p \in Fractions, NEW q \in Fractions, p.num > 0, q.num > 0,
           FracLeq(p, Flip(q))
    PROVE  /\ Midpoint(p, q) \in Fractions /\ Midpoint(p, q).num > 0
           /\ FracLeq(p, Midpoint(p, q))
           /\ FracLeq(q, Flip(Midpoint(p, q)))
<1> DEFINE a == p.num  b == p.den  c == q.num  d == q.den
<1>1. /\ a \in Nat \ {0} /\ b \in Nat \ {0} /\ c \in Nat \ {0}
      /\ d \in Nat \ {0} /\ a * c <= d * b
  BY DEF Fractions, FracLeq, Flip
<1>2. SUFFICES /\ a * c + b * d \in Nat \ {0} /\ (b * c) * 2 \in Nat \ {0}
               /\ a * ((b * c) * 2) <= (a * c + b * d) * b
               /\ c * (a * c + b * d) <= ((b * c) * 2) * d
  BY DEF Midpoint, Flip, Fractions, FracLeq
<1> HIDE DEF a, b, c, d
<1>3. /\ a * c \in Nat \ {0} /\ b * d \in Nat \ {0} /\ b * c \in Nat \ {0}
      /\ a * c <= b * d
  BY <1>1
<1>4. a * ((b * c) * 2) <= (a * c + b * d) * b
  <2>1. (a * c) * b <= (b * d) * b
    BY <1>1, <1>3, MulMono
  <2>2. /\ a * ((b * c) * 2) = (a * c) * b + (a * c) * b
        /\ (a * c + b * d) * b = (a * c) * b + (b * d) * b
    BY <1>1
  <2> QED BY <1>1, <1>3, <2>1, <2>2
<1>5. c * (a * c + b * d) <= ((b * c) * 2) * d
  <2>1. (a * c) * c <= (b * d) * c
    BY <1>1, <1>3, MulMono
  <2>2. /\ c * (a * c + b * d) = (a * c) * c + (b * d) * c
        /\ ((b * c) * 2) * d = (b * d) * c + (b * d) * c
    BY <1>1
  <2> QED BY <1>1, <1>3, <2>1, <2>2
<1> QED BY <1>3, <1>4, <1>5

\* What the code computes is the midpoint, if it fits.
LEMMA PriceIsMidpoint ==
    ASSUME PriceFits, NEW oa \in PairOrder, NEW ob \in PairOrder,
           lastCross = [crossed |-> TRUE, ab |-> LimitPrice(oa),
                                          ba |-> LimitPrice(ob)]
    PROVE  ClearingPrice = Midpoint(LimitPrice(oa), LimitPrice(ob))
<1> DEFINE a == oa.buy  b == oa.sell  c == ob.buy  d == ob.sell
<1>1. /\ a \in Amount /\ b \in Amount /\ c \in Amount /\ d \in Amount
      /\ a \in U64 /\ b \in U64 /\ c \in U64 /\ d \in U64
      /\ a \in Nat \ {0} /\ b \in Nat \ {0} /\ c \in Nat \ {0}
      /\ d \in Nat \ {0}
  BY OrderFacts DEF PairOrder
<1>2. /\ lastCross.ab = [num |-> a, den |-> b]
      /\ lastCross.ba = [num |-> c, den |-> d]
      /\ LimitPrice(oa) = [num |-> a, den |-> b]
      /\ LimitPrice(ob) = [num |-> c, den |-> d]
  BY LimitFacts
<1> HIDE DEF a, b, c, d
<1>3. /\ SatMul(a, c) = a * c /\ SatMul(b, d) = b * d /\ SatMul(b, c) = b * c
      /\ a * c \in Nat \ {0} /\ b * d \in Nat \ {0} /\ b * c \in Nat \ {0}
  BY <1>1, ProductExact
<1>4. /\ 2 * (a * c) <= MaxU128 /\ 2 * (b * d) <= MaxU128
      /\ 2 * (b * c) <= MaxU128
  BY <1>1 DEF PriceFits
<1>5. /\ SatAdd(a * c, b * d) = a * c + b * d
      /\ SatMul(b * c, 2) = (b * c) * 2
  BY <1>3, <1>4, WidthFacts DEF SatAdd, SatMul, Lesser
<1>6. /\ Greater(1, a * c + b * d) = a * c + b * d
      /\ Greater(1, (b * c) * 2) = (b * c) * 2
  BY <1>3 DEF Greater
<1> QED BY <1>2, <1>3, <1>5, <1>6 DEF ClearingPrice, Midpoint

\* An execution at a price beyond the limit is worth at least the limit, whether
\* or not the product or the amount is cut off.
LEMMA WorthAtLeast ==
    ASSUME NEW o \in PairOrder, NEW x \in Nat, x <= o.sell,
           NEW p \in Fractions, FracLeq(LimitPrice(o), p)
    PROVE  ClampU64(Apply(p, x)) >= Apply(LimitPrice(o), x)
<1>1. /\ LimitPrice(o) = [num |-> o.buy, den |-> o.sell]
      /\ LimitPrice(o) \in Fractions
      /\ o.sell \in U64 /\ o.buy \in U64
      /\ o.sell \in Nat \ {0} /\ o.buy \in Nat
  BY LimitFacts, OrderFacts
<1>2. x \in U64
  BY <1>1, WidthFacts DEF U64
<1>3. x * o.buy \in Nat /\ x * o.buy <= MaxU128
  BY <1>1, <1>2, ProductExact, WidthFacts DEF SatMul, Lesser
<1>4. Apply(LimitPrice(o), x) <= Apply(p, x)
  BY <1>1, <1>3, ApplyMono
<1>5. /\ Apply(LimitPrice(o), x) = (x * o.buy) \div o.sell
  BY <1>1, <1>3 DEF Apply
<1>6. (x * o.buy) \div o.sell \in Nat /\ (x * o.buy) \div o.sell <= o.buy
  <2>1. x * o.buy <= o.sell * o.buy /\ o.sell * o.buy = o.buy * o.sell
    BY <1>1, MulMono
  <2> QED BY <1>1, <1>3, <2>1, FloorLeq, FloorBound
<1>7. Apply(p, x) \in Nat
  <2>1. x * p.num \in Nat /\ p.den \in Nat \ {0}
    BY DEF Fractions
  <2> QED BY <2>1, FloorBound, WidthFacts DEF Apply
<1>8. Apply(LimitPrice(o), x) <= MaxU64
  BY <1>1, <1>5, <1>6, WidthFacts DEF U64
<1>9. Apply(LimitPrice(o), x) \in Nat
  BY <1>5, <1>6
<1> HIDE DEF Apply
<1> QED BY <1>4, <1>7, <1>8, <1>9, WidthFacts DEF ClampU64, Lesser

\* For every book and width in which twice the product of two amounts fits a
\* u128, every order that traded gets at least what its own limit gives for what
\* it sold.
THEOREM LimitsRespectedHolds == PriceFits => (Spec => []LimitsRespected)
<1> SUFFICES ASSUME PriceFits PROVE Spec => []LimitsRespected
  OBVIOUS
<1>1. ASSUME PairInv, WalkInv, CrossInv PROVE LimitsRespected
  <2>1. CASE NobodyTraded
    BY <1>1, <2>1 DEF NobodyTraded, LimitsRespected, Traded, TradedB, PairInv,
                      TypeOK
  <2>2. ASSUME NEW m \in 1..Len(aSide), NEW n \in 1..Len(bSide),
               LastCrossed(m, n)
        PROVE  LimitsRespected
    <3> DEFINE p == LimitPrice(aSide[m])
               q == LimitPrice(bSide[n])
    <3>1. /\ aSide \in Seq(PairOrder) /\ bSide \in Seq(PairOrder)
          /\ aSide[m] \in PairOrder /\ bSide[n] \in PairOrder
      BY <1>1 DEF PairInv, TypeOK
    <3>2. /\ p \in Fractions /\ q \in Fractions /\ p.num > 0 /\ q.num > 0
          /\ FracLeq(p, Flip(q))
      <4>1. p.num \in U64 \ {0} /\ q.num \in U64 \ {0}
        BY <3>1, LimitFacts
      <4>2. p.num > 0 /\ q.num > 0
        BY <4>1, WidthFacts DEF U64
      <4> QED BY <2>2, <3>1, <4>2, LimitFacts, CrossLeq DEF LastCrossed
    <3>3. ClearingPrice = Midpoint(p, q)
      BY <2>2, <3>1, PriceIsMidpoint DEF LastCrossed
    <3>4. /\ ClearingPrice \in Fractions /\ ClearingPrice.num > 0
          /\ FracLeq(p, ClearingPrice) /\ FracLeq(q, Flip(ClearingPrice))
      BY <3>2, <3>3, MidpointBetween
    <3>5. /\ Reciprocal(ClearingPrice) = Flip(ClearingPrice)
          /\ Flip(ClearingPrice) \in Fractions
      BY <3>4 DEF Reciprocal, Flip, Greater, Fractions
    <3> HIDE DEF p, q
    <3>6. ASSUME NEW k \in Traded
          PROVE  ExecutedA(k).buy >= Apply(LimitPrice(aSide[k]), aSold[k])
      <4>1. /\ k \in 1..Len(aSide) /\ k <= m
            /\ aSide[k] \in PairOrder
            /\ aSold[k] \in Nat /\ aSold[k] <= aSide[k].sell
        <5>1. k \in 1..Len(aSide) /\ aSold[k] > 0
          BY <1>1, <3>6 DEF Traded, PairInv, TypeOK
        <5>2. /\ aSold[k] + aRemaining[k] = aSide[k].sell
              /\ aSold[k] \in U64 /\ aRemaining[k] \in U64
          BY <1>1, <5>1 DEF PairInv, TypeOK, AmountsBalance
        <5> QED BY <2>2, <3>1, <5>1, <5>2, WidthFacts DEF LastCrossed, U64
      <4>2. FracLeq(LimitPrice(aSide[k]), p)
        BY <1>1, <3>1, <4>1, SortedPairwise DEF WalkInv, p
      <4>3. FracLeq(LimitPrice(aSide[k]), ClearingPrice)
        BY <3>2, <3>4, <4>1, <4>2, LimitFacts, FracTrans
      <4> QED BY <3>4, <4>1, <4>3, WorthAtLeast DEF ExecutedA
    <3>7. ASSUME NEW k \in TradedB
          PROVE  ExecutedB(k).buy >= Apply(LimitPrice(bSide[k]), bSold[k])
      <4>1. /\ k \in 1..Len(bSide) /\ k <= n
            /\ bSide[k] \in PairOrder
            /\ bSold[k] \in Nat /\ bSold[k] <= bSide[k].sell
        <5>1. k \in 1..Len(bSide) /\ bBought[k] > 0
          BY <1>1, <3>7 DEF TradedB, PairInv, TypeOK
        <5>2. /\ bSold[k] + bRemaining[k] = bSide[k].sell
              /\ bSold[k] \in U64 /\ bRemaining[k] \in U64
          BY <1>1, <5>1 DEF PairInv, TypeOK, AmountsBalance
        <5> QED BY <2>2, <3>1, <5>1, <5>2, WidthFacts DEF LastCrossed, U64
      <4>2. FracLeq(LimitPrice(bSide[k]), q)
        BY <1>1, <3>1, <4>1, SortedPairwise DEF WalkInv, q
      <4>3. FracLeq(LimitPrice(bSide[k]), Flip(ClearingPrice))
        BY <3>2, <3>4, <3>5, <4>1, <4>2, LimitFacts, FracTrans
      <4> QED BY <3>5, <4>1, <4>3, WorthAtLeast DEF ExecutedB
    <3> QED BY <3>6, <3>7 DEF LimitsRespected
  <2> QED BY <1>1, <2>1, <2>2 DEF CrossInv
<1> QED BY <1>1, PairInvHolds, WalkInvHolds, CrossInvHolds, PTL
-----------------------------------------------------------------------------
(***************************************************************************)
(* The two sides trade the same amounts of A.                              *)
(***************************************************************************)
Balanced == Total(aSold) = Total(bBought)

LEMMA BalancedIsBalance == Balanced => FillsBalance
BY DEF Balanced, FillsBalance, Total, Sum

LEMMA BalanceInit ==
    ASSUME Init
    PROVE  Balanced
<1>1. /\ Len(aSide) \in Nat /\ Len(bSide) \in Nat
      /\ aSold = [k \in 1..Len(aSide) |-> 0]
      /\ bBought = [k \in 1..Len(bSide) |-> 0]
  BY PairInit DEF PairInv, TypeOK, Init
<1>2. IsFiniteSet(1..Len(aSide)) /\ IsFiniteSet(1..Len(bSide))
  BY <1>1, FS_Interval
<1>3. Total(aSold) = 0
  <2>1. DOMAIN aSold = 1..Len(aSide) /\ \A k \in DOMAIN aSold : aSold[k] = 0
    BY <1>1
  <2>2. IsFiniteSet(DOMAIN aSold)
    BY <1>2, <2>1
  <2> QED BY <2>1, <2>2, TotalZero
<1>4. Total(bBought) = 0
  <2>1. DOMAIN bBought = 1..Len(bSide) /\ \A k \in DOMAIN bBought : bBought[k] = 0
    BY <1>1
  <2>2. IsFiniteSet(DOMAIN bBought)
    BY <1>2, <2>1
  <2> QED BY <2>1, <2>2, TotalZero
<1> QED BY <1>3, <1>4 DEF Balanced

LEMMA BalanceNext ==
    ASSUME PairInv, Balanced, [Next]_vars
    PROVE  Balanced'
<1>1. CASE FillHeads
  <2>1. /\ Turn /\ HeadsLeft
        /\ aSold' = [aSold EXCEPT ![i] = @ + TradeA]
        /\ bBought' = [bBought EXCEPT ![j] = @ + TradeA]
    BY <1>1, TurnType DEF FillHeads
  <2>2. /\ i \in 1..Len(aSide) /\ j \in 1..Len(bSide) /\ TradeA \in Nat
    BY <2>1, HeadFacts
  <2>3. /\ aSold \in [1..Len(aSide) -> Nat] /\ bBought \in [1..Len(bSide) -> Nat]
        /\ Len(aSide) \in Nat /\ Len(bSide) \in Nat
    BY WidthFacts DEF PairInv, TypeOK, U64
  <2>4. IsFiniteSet(1..Len(aSide)) /\ IsFiniteSet(1..Len(bSide))
    BY <2>3, FS_Interval
  <2>5. Total([aSold EXCEPT ![i] = @ + TradeA]) = Total(aSold) + TradeA
    <3>1. /\ i \in 1..Len(aSide) /\ aSold \in [1..Len(aSide) -> Nat]
          /\ IsFiniteSet(1..Len(aSide)) /\ TradeA \in Nat
      BY <2>2, <2>3, <2>4
    <3> QED BY ONLY <3>1, TotalAdds
  <2>6. Total([bBought EXCEPT ![j] = @ + TradeA]) = Total(bBought) + TradeA
    <3>1. /\ j \in 1..Len(bSide) /\ bBought \in [1..Len(bSide) -> Nat]
          /\ IsFiniteSet(1..Len(bSide)) /\ TradeA \in Nat
      BY <2>2, <2>3, <2>4
    <3> QED BY ONLY <3>1, TotalAdds
  <2> QED BY <2>1, <2>5, <2>6 DEF Balanced
<1>2. CASE SkipDust \/ RollBackA \/ RollBackB \/ EndMatching \/ UNCHANGED vars
  <2>1. aSold' = aSold /\ bBought' = bBought
    BY <1>2 DEF SkipDust, RollBackA, RollBackB, Undo, EndMatching, vars
  <2> QED BY <2>1 DEF Balanced
<1> QED BY <1>1, <1>2 DEF Next

\* For every book and width, what the fills take from one side they give to the
\* other, whatever was rounded or undone on the way.
THEOREM FillsBalanceHolds == Spec => []FillsBalance
BY BalanceInit, BalanceNext, BalancedIsBalance, PairInvHolds, PTL DEF Spec

-----------------------------------------------------------------------------
(***************************************************************************)
(* Progress.                                                               *)
(***************************************************************************)
HeadsWithin == i <= Len(aSide) + 1 /\ j <= Len(bSide) + 1

LEMMA HeadsWithinInit == Init => HeadsWithin
<1> SUFFICES ASSUME Init PROVE HeadsWithin
  OBVIOUS
<1>1. Len(aSide) \in Nat /\ Len(bSide) \in Nat
  BY PairInit DEF PairInv, TypeOK
<1> QED BY <1>1 DEF Init, HeadsWithin

\* A turn moves each head by one at most, and only while there are heads.
LEMMA TurnMoves ==
    ASSUME PairInv, SkipDust \/ RollBackA \/ RollBackB \/ FillHeads
    PROVE  /\ HeadsLeft /\ aSide' = aSide /\ bSide' = bSide
           /\ i' \in {i, i + 1} /\ j' \in {j, j + 1}
BY TurnType DEF SkipDust, RollBackA, RollBackB, FillHeads

LEMMA HeadsWithinNext ==
    ASSUME PairInv, HeadsWithin, [Next]_vars
    PROVE  HeadsWithin'
<1>1. CASE SkipDust \/ RollBackA \/ RollBackB \/ FillHeads
  <2>1. /\ i <= Len(aSide) /\ j <= Len(bSide)
        /\ aSide' = aSide /\ bSide' = bSide
        /\ i' \in {i, i + 1} /\ j' \in {j, j + 1}
    BY <1>1, TurnMoves DEF HeadsLeft
  <2>2. /\ Len(aSide) \in Nat /\ Len(bSide) \in Nat /\ i \in Nat /\ j \in Nat
    BY DEF PairInv, TypeOK
  <2>3. i' <= Len(aSide) + 1 /\ j' <= Len(bSide) + 1
    BY <2>1, <2>2
  <2> QED BY <2>1, <2>3 DEF HeadsWithin
<1>2. CASE EndMatching \/ UNCHANGED vars
  BY <1>2 DEF EndMatching, vars, book, HeadsWithin
<1> QED BY <1>1, <1>2 DEF Next

LEMMA WorkIs ==
    WorkLeft = (Len(aSide) + 1 - i) + (Len(bSide) + 1 - j) + Total(aRemaining)
BY DEF WorkLeft, Total, Sum

LEMMA TotalType ==
    ASSUME NEW D, IsFiniteSet(D), NEW f \in [D -> Nat]
    PROVE  Total(f) \in Nat
<1>1. Summable(f, D) /\ DOMAIN f = D
  BY DEF Summable
<1> QED BY <1>1, SumSteps DEF Total

LEMMA TurnShrinks ==
    ASSUME PairInv, HeadsWithin, HeadsWithin',
           SkipDust \/ RollBackA \/ RollBackB \/ FillHeads
    PROVE  WorkLeft' \in 0..WorkLeft - 1
<1>1. /\ HeadsLeft /\ aSide' = aSide /\ bSide' = bSide
      /\ i' \in {i, i + 1} /\ j' \in {j, j + 1}
  BY TurnMoves
<1>2. /\ Len(aSide) \in Nat /\ Len(bSide) \in Nat /\ i \in Nat /\ j \in Nat
      /\ aRemaining \in [1..Len(aSide) -> Nat]
  BY WidthFacts DEF PairInv, TypeOK, U64
<1>h. /\ i \in 1..Len(aSide) /\ j \in 1..Len(bSide)
      /\ TradeA \in Nat /\ TradeA <= aRemaining[i]
      /\ aAfter = aRemaining[i] - TradeA
  BY <1>1, HeadFacts
<1>3. /\ Total(aRemaining) \in Nat /\ Total(aRemaining') \in Nat
      /\ \/ aRemaining' = aRemaining /\ (i' > i \/ j' > j)
         \/ Total(aRemaining') < Total(aRemaining)
  <2>1. Total(aRemaining) \in Nat
    <3>1. IsFiniteSet(1..Len(aSide))
      BY <1>2, FS_Interval
    <3> QED BY <1>2, <3>1, TotalType
  <2>2. CASE SkipDust
    <3>1. aRemaining' = aRemaining /\ (i' > i \/ j' > j)
      BY <1>2, <2>2 DEF SkipDust
    <3> QED BY <2>1, <3>1
  <2>3. CASE RollBackA \/ RollBackB
    <3>1. aRemaining' = aRemaining
      BY <1>1, <2>3, UndoKeeps DEF RollBackA, RollBackB
    <3>2. i' > i \/ j' > j
      BY <1>2, <2>3 DEF RollBackA, RollBackB
    <3> QED BY <2>1, <3>1, <3>2
  <2>4. CASE FillHeads
    <3>1. /\ TradeA # 0
          /\ aRemaining' = [aRemaining EXCEPT ![i] = aAfter]
      BY <2>4 DEF FillHeads
    <3> HIDE DEF TradeA, aAfter
    <3>2. /\ aAfter \in Nat /\ aRemaining[i] = aAfter + TradeA
          /\ aRemaining' \in [1..Len(aSide) -> Nat]
      BY <1>2, <1>h, <3>1
    <3>3. aRemaining = [aRemaining' EXCEPT ![i] = @ + TradeA]
      BY <1>2, <1>h, <3>1, <3>2
    <3>4. IsFiniteSet(1..Len(aSide))
      BY <1>2, FS_Interval
    <3>5. /\ Total(aRemaining') \in Nat
          /\ Total(aRemaining) = Total(aRemaining') + TradeA
      <4> DEFINE e == aRemaining'
      <4>1. /\ i \in 1..Len(aSide) /\ e \in [1..Len(aSide) -> Nat]
            /\ IsFiniteSet(1..Len(aSide)) /\ TradeA \in Nat
        BY <1>h, <3>2, <3>4
      <4>2. aRemaining = [e EXCEPT ![i] = @ + TradeA]
        BY <3>3
      <4> HIDE DEF e
      <4>3. Total([e EXCEPT ![i] = @ + TradeA]) = Total(e) + TradeA
        BY ONLY <4>1, TotalAdds
      <4>4. Total(aRemaining) = Total(e) + TradeA
        BY <4>2, <4>3
      <4>5. Total(e) \in Nat
        BY <4>1, TotalType
      <4> QED BY <4>4, <4>5 DEF e
    <3> QED BY <1>h, <2>1, <3>1, <3>5
  <2> QED BY <2>2, <2>3, <2>4
<1>4. WorkLeft = (Len(aSide) + 1 - i) + (Len(bSide) + 1 - j)
                    + Total(aRemaining)
  BY WorkIs
<1>5. WorkLeft' = (Len(aSide) + 1 - i') + (Len(bSide) + 1 - j')
                     + Total(aRemaining')
  <2>1. (WorkLeft = (Len(aSide) + 1 - i) + (Len(bSide) + 1 - j)
                       + Total(aRemaining))'
    BY WorkIs, PTL
  <2> QED BY <1>1, <2>1
<1>6. i' <= Len(aSide) + 1 /\ j' <= Len(bSide) + 1
  BY <1>1 DEF HeadsWithin
<1>7. WorkLeft \in Nat
  BY <1>2, <1>3, <1>4, <1>h
<1>8. WorkLeft' \in Nat
  BY <1>1, <1>2, <1>3, <1>5, <1>6
<1> DEFINE heads == (Len(aSide) + 1 - i) + (Len(bSide) + 1 - j)
           next == (Len(aSide) + 1 - i') + (Len(bSide) + 1 - j')
<1>9. /\ heads \in Int /\ next \in Int /\ next <= heads
      /\ (i' > i \/ j' > j) => next < heads
  <2>1. i' \in Nat /\ j' \in Nat /\ i <= i' /\ j <= j'
    BY <1>1, <1>2
  <2>2. heads \in Int /\ next \in Int
    BY <1>2, <2>1
  <2>3. next <= heads
    BY <1>2, <2>1
  <2>4. ASSUME i' > i PROVE next < heads
    BY <1>2, <2>1, <2>4
  <2>5. ASSUME j' > j PROVE next < heads
    BY <1>2, <2>1, <2>5
  <2> QED BY <2>2, <2>3, <2>4, <2>5
<1>10. WorkLeft = heads + Total(aRemaining) /\ WorkLeft' = next + Total(aRemaining')
  BY <1>4, <1>5
<1>11. \/ Total(aRemaining') = Total(aRemaining) /\ next < heads
       \/ Total(aRemaining') < Total(aRemaining)
  BY <1>3, <1>9
<1> HIDE DEF heads, next
<1>12. WorkLeft' < WorkLeft
  BY <1>3, <1>9, <1>10, <1>11
<1> QED BY <1>7, <1>8, <1>12

\* For every book and width, every turn gets on, so that the loop ends.
THEOREM WorkShrinksHolds == Spec => WorkShrinks
<1>1. ASSUME PairInv, HeadsWithin, HeadsWithin', [Next]_vars
      PROVE  [pc' = "matching" => WorkLeft' \in 0..WorkLeft - 1]_vars
  BY <1>1, TurnShrinks DEF Next, EndMatching
<1>2. Spec => []HeadsWithin
  BY HeadsWithinInit, HeadsWithinNext, PairInvHolds, PTL DEF Spec
<1> QED BY <1>1, <1>2, PairInvHolds, PTL DEF Spec, WorkShrinks
=============================================================================
