------------------------------- MODULE Price -------------------------------
(***************************************************************************)
(* Rational prices in saturating integers (crates/oxdex-types/src/price.rs)*)
(* with the widths of the integers as parameters: the code has MaxU64 =    *)
(* 2^64-1 and MaxU128 = 2^128-1, and what it relies on is that a product   *)
(* of two u64 fits a u128.                                                 *)
(***************************************************************************)
EXTENDS Integers

CONSTANTS MaxU64, MaxU128

ASSUME WidthAssumption == /\ MaxU64 \in Nat \ {0}
                          /\ MaxU128 \in Nat
                          /\ MaxU64 * MaxU64 <= MaxU128

U64 == 0..MaxU64
U128 == 0..MaxU128

Lesser(x, y) == IF x <= y THEN x ELSE y
Greater(x, y) == IF x >= y THEN x ELSE y

SatMul(x, y) == Lesser(x * y, MaxU128)
SatAdd(x, y) == Lesser(x + y, MaxU128)
SatSub(x, y) == IF x >= y THEN x - y ELSE 0

ClampU64(x) == Lesser(x, MaxU64)

Prices == [num : U128, den : U128 \ {0}]

\* The amount bought for x at price p, rounded down; the largest u128 when
\* the product overflows.
Apply(p, x) == IF x * p.num <= MaxU128 THEN (x * p.num) \div p.den ELSE MaxU128

\* `Ord for Price'.
PriceLeq(p, q) == SatMul(p.num, q.den) <= SatMul(q.num, p.den)

\* Price of an order: what it wants per unit it sells.
LimitPrice(o) == [num |-> o.buy, den |-> Greater(o.sell, 1)]
=============================================================================
