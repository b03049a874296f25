--------------------------- MODULE BatchMatching ---------------------------
(***************************************************************************)
(* match_batch (crates/oxdex-matching/src/lib.rs): the orders of a batch   *)
(* are grouped by pair of mints, match_pair is run on every group, and the *)
(* outcomes are merged.  PairMatching models match_pair; here it is what   *)
(* it returns for the orders of a group.  The groups, and the trades in an *)
(* outcome, come out of hash maps: no order is kept, only how often each   *)
(* trade and each price occurs.                                            *)
(***************************************************************************)
EXTENDS Orders, Price, Bags, FiniteSetsExt

CONSTANTS
    Rank,         \* the byte order of mint addresses
    Matched,      \* the orders match_pair trades, of the orders of a pair
    Surplus       \* the surplus it reports for them

ASSUME RankAssumption ==
    /\ Rank \in [Mint -> Nat]
    /\ \A m, n \in Mint : Rank[m] = Rank[n] => m = n

ASSUME MatchedAssumption ==
    /\ Matched \in [SUBSET OrderId -> SUBSET OrderId]
    /\ \A S \in SUBSET OrderId :
          /\ Matched[S] \subseteq S
          /\ Tradable(Matched[S])
          /\ \A o \in Matched[S] : Order[o].sellMint # Order[o].buyMint

ASSUME SurplusAssumption == Surplus \in [SUBSET OrderId -> U128]

-----------------------------------------------------------------------------
MutDirectedPair(a, b) == <<a, b>>

\* canonical_pair: the key of both directions of a market.
CanonicalPair(a, b) == IF Rank[a] <= Rank[b] THEN <<a, b>> ELSE <<b, a>>

PairOf(o) == CanonicalPair(Order[o].sellMint, Order[o].buyMint)

Pairs(batch) == {PairOf(o) : o \in batch}

Group(pair, batch) == {o \in batch : PairOf(o) = pair}

\* An outcome of match_pair, and a solution: PairOutcome and Solution.
Nothing == [prices |-> EmptyBag, trades |-> EmptyBag, score |-> 0]

Selling(sell, buy, orders) ==
    {o \in orders : Order[o].sellMint = sell /\ Order[o].buyMint = buy}

\* match_pair: nothing without orders of both directions or without a fill;
\* else a trade per order that has fills and a price for each mint of the pair.
\* An order goes to the first side it fits (the only one, when its mints differ).
MatchPair(pair, orders) ==
    LET aToB == Selling(pair[1], pair[2], orders)
        bToA == Selling(pair[2], pair[1], orders) \ aToB
        traded == Matched[aToB \cup bToA]
    IN  IF aToB = {} \/ bToA = {} \/ traded = {} THEN Nothing
        ELSE [prices |-> SetToBag({pair[1], pair[2]}),
              trades |-> SetToBag(traded),
              score  |-> Surplus[aToB \cup bToA]]

Add(x, y) == [prices |-> x.prices (+) y.prices,
              trades |-> x.trades (+) y.trades,
              score  |-> SatAdd(x.score, y.score)]

\* The outcomes of these pairs, merged in one order (ReferenceSolver merges
\* them in any).
Merge(pairs, batch) ==
    MapThenFoldSet(Add, Nothing, LAMBDA p : MatchPair(p, Group(p, batch)),
                   LAMBDA ps : CHOOSE p \in ps : TRUE, pairs)

-----------------------------------------------------------------------------
(***************************************************************************)
(* The reference definition: a market is the orders that trade two mints,  *)
(* in either direction.                                                    *)
(***************************************************************************)
MintsOf(o) == {Order[o].sellMint, Order[o].buyMint}

Markets(batch) == {{p \in batch : MintsOf(p) = MintsOf(o)} : o \in batch}

TradedIn(batch) == UNION {Matched[m] : m \in Markets(batch)}

ScoreOf(batch) ==
    LET live == {m \in Markets(batch) : Matched[m] # {}}
    IN  Lesser(MapThenSumSet(LAMBDA m : Surplus[m], live), MaxU128)
=============================================================================
