----------------------------- MODULE BatchProofs -----------------------------
(***************************************************************************)
(* What match_batch makes of a batch, for all batches.  Its groups are the *)
(* markets; the partial merges, over any part of the pairs, hold what      *)
(* those groups trade and the sum of their surpluses, saturated once.      *)
(***************************************************************************)
EXTENDS BatchMatching, Sums

Answer(b) == Merge(Pairs(b), b)

LEMMA TwoMints ==
    ASSUME NEW a, NEW b, NEW c, NEW d
    PROVE  {a, b} = {c, d} <=> (a = c /\ b = d) \/ (a = d /\ b = c)
<1>1. ASSUME {a, b} = {c, d} PROVE (a = c /\ b = d) \/ (a = d /\ b = c)
  <2>1. a \in {c, d} /\ b \in {c, d} /\ c \in {a, b} /\ d \in {a, b}
    BY <1>1
  <2> QED BY <2>1
<1> QED BY <1>1

LEMMA PairFacts ==
    ASSUME NEW o \in OrderId
    PROVE  /\ Order[o].sellMint \in Mint /\ Order[o].buyMint \in Mint
           /\ PairOf(o) \in Mint \X Mint
           /\ \/ PairOf(o) = <<Order[o].sellMint, Order[o].buyMint>>
              \/ PairOf(o) = <<Order[o].buyMint, Order[o].sellMint>>
           /\ Rank[PairOf(o)[1]] <= Rank[PairOf(o)[2]]
<1>1. Order[o].sellMint \in Mint /\ Order[o].buyMint \in Mint
  BY OrderAssumption
<1>2. Rank[Order[o].sellMint] \in Nat /\ Rank[Order[o].buyMint] \in Nat
  BY <1>1, RankAssumption
<1> QED BY <1>1, <1>2 DEF PairOf, CanonicalPair

\* Orders have the same pair when they trade the same two mints.
LEMMA SamePair ==
    ASSUME NEW o \in OrderId, NEW q \in OrderId
    PROVE  PairOf(o) = PairOf(q) <=> MintsOf(o) = MintsOf(q)
<1> DEFINE s == Order[o].sellMint  b == Order[o].buyMint
           t == Order[q].sellMint  c == Order[q].buyMint
<1>1. /\ s \in Mint /\ b \in Mint /\ t \in Mint /\ c \in Mint
  BY PairFacts
<1>2. /\ Rank[s] \in Nat /\ Rank[b] \in Nat /\ Rank[t] \in Nat /\ Rank[c] \in Nat
      /\ \A m, n \in Mint : Rank[m] = Rank[n] => m = n
  BY <1>1, RankAssumption
<1>3. /\ PairOf(o) = IF Rank[s] <= Rank[b] THEN <<s, b>> ELSE <<b, s>>
      /\ PairOf(q) = IF Rank[t] <= Rank[c] THEN <<t, c>> ELSE <<c, t>>
  BY DEF PairOf, CanonicalPair
<1>4. MintsOf(o) = MintsOf(q) <=> (s = t /\ b = c) \/ (s = c /\ b = t)
  BY TwoMints DEF MintsOf
<1> HIDE DEF s, b, t, c
<1>5. ASSUME PairOf(o) = PairOf(q) PROVE (s = t /\ b = c) \/ (s = c /\ b = t)
  BY <1>3, <1>5
<1>6. ASSUME (s = t /\ b = c) \/ (s = c /\ b = t) PROVE PairOf(o) = PairOf(q)
  BY <1>1, <1>2, <1>3, <1>6
<1> QED BY <1>4, <1>5, <1>6

\* The groups of match_batch are the markets of the batch, each once.
LEMMA GroupsAreMarkets ==
    ASSUME NEW b \in SUBSET OrderId
    PROVE  Markets(b) = {Group(p, b) : p \in Pairs(b)}
<1>1. ASSUME NEW o \in b
      PROVE  {q \in b : MintsOf(q) = MintsOf(o)} = Group(PairOf(o), b)
  BY SamePair DEF Group
<1>2. Markets(b) = {Group(PairOf(o), b) : o \in b}
  BY <1>1 DEF Markets
<1>3. {Group(PairOf(o), b) : o \in b} = {Group(p, b) : p \in Pairs(b)}
  BY DEF Pairs
<1> QED BY <1>2, <1>3

LEMMA GroupsDisjoint ==
    ASSUME NEW b \in SUBSET OrderId, NEW p \in Pairs(b), NEW q \in Pairs(b), p # q
    PROVE  /\ Group(p, b) \cap Group(q, b) = {}
           /\ Group(p, b) # Group(q, b)
<1>1. Group(p, b) # {}
  BY DEF Pairs, Group
<1>2. Group(p, b) \cap Group(q, b) = {}
  BY DEF Group
<1> QED BY <1>1, <1>2

\* match_pair of a market: nothing when it trades nothing, for want of a second
\* direction or of a fill.
LEMMA PairOutcome ==
    ASSUME NEW b \in SUBSET OrderId, NEW p \in Pairs(b)
    PROVE  MatchPair(p, Group(p, b)) =
              IF Matched[Group(p, b)] = {} THEN Nothing
              ELSE [prices |-> SetToBag({p[1], p[2]}),
                    trades |-> SetToBag(Matched[Group(p, b)]),
                    score  |-> Surplus[Group(p, b)]]
<1> DEFINE m == Group(p, b)
           aToB == Selling(p[1], p[2], m)
           bToA == Selling(p[2], p[1], m) \ aToB
<1>1. m \in SUBSET OrderId
  BY DEF Group
<1>2. aToB \cup bToA = m
  <2>1. ASSUME NEW o \in m PROVE o \in aToB \/ o \in bToA
    <3>1. o \in OrderId /\ PairOf(o) = p
      BY <1>1, <2>1 DEF Group
    <3> QED BY <3>1, PairFacts DEF Selling
  <2> QED BY <2>1 DEF Selling
<1>3. ASSUME aToB = {} \/ bToA = {} PROVE Matched[m] = {}
  <2>1. SUFFICES ASSUME NEW o \in Matched[m] PROVE FALSE
    OBVIOUS
  <2>2. /\ Matched[m] \subseteq m /\ Tradable(Matched[m])
        /\ Order[o].sellMint # Order[o].buyMint
    BY <1>1, MatchedAssumption
  <2>3. PICK q \in Matched[m] : Opposite(o, q)
    BY <2>2 DEF Tradable
  <2>4. o \in aToB \cup bToA /\ q \in m /\ o \in m
    BY <1>2, <2>2
  <2>5. (o \in aToB => q \in bToA) /\ (o \in bToA => q \in aToB)
    BY <2>2, <2>3, <2>4 DEF Opposite, Selling
  <2> QED BY <1>3, <2>3, <2>4, <2>5, <1>2
<1> QED BY <1>2, <1>3 DEF MatchPair

-----------------------------------------------------------------------------
\* The bags of elements of S, and what may be merged.
BagsOf(S) == UNION {[R -> Nat \ {0}] : R \in SUBSET S}

Outcome == [prices : BagsOf(Mint), trades : BagsOf(OrderId), score : U128]

LEMMA BagFacts ==
    ASSUME NEW S
    PROVE  /\ \A x \in BagsOf(S) : IsABag(x) /\ DOMAIN x \subseteq S
           /\ \A R \in SUBSET S : SetToBag(R) \in BagsOf(S)
           /\ \A x, y \in BagsOf(S) : x (+) y \in BagsOf(S)
<1>1. ASSUME NEW x \in BagsOf(S) PROVE IsABag(x) /\ DOMAIN x \subseteq S
  BY DEF BagsOf, IsABag
<1>2. ASSUME NEW R \in SUBSET S PROVE SetToBag(R) \in BagsOf(S)
  <2>1. SetToBag(R) \in [R -> Nat \ {0}]
    BY DEF SetToBag
  <2> QED BY <2>1 DEF BagsOf
<1>3. ASSUME NEW x \in BagsOf(S), NEW y \in BagsOf(S) PROVE x (+) y \in BagsOf(S)
  <2>1. /\ x \in [DOMAIN x -> Nat \ {0}] /\ DOMAIN x \in SUBSET S
        /\ y \in [DOMAIN y -> Nat \ {0}] /\ DOMAIN y \in SUBSET S
    BY DEF BagsOf
  <2>2. x (+) y \in [DOMAIN x \cup DOMAIN y -> Nat \ {0}]
    BY <2>1 DEF (+)
  <2>3. DOMAIN x \cup DOMAIN y \in SUBSET S
    BY <2>1
  <2> QED BY <2>2, <2>3 DEF BagsOf
<1> QED BY <1>1, <1>2, <1>3

\* The trades of disjoint groups are traded once each.
LEMMA DisjointBags ==
    ASSUME NEW R, NEW S, R \cap S = {}
    PROVE  SetToBag(R) (+) SetToBag(S) = SetToBag(R \cup S)
BY DEF SetToBag, (+)

LEMMA OutcomeType ==
    /\ Nothing \in Outcome
    /\ \A b \in SUBSET OrderId : \A p \in Pairs(b) :
          MatchPair(p, Group(p, b)) \in Outcome
    /\ \A x, y \in Outcome : Add(x, y) \in Outcome
<1>0. 0 \in U128 /\ \A x, y \in U128 : SatAdd(x, y) \in U128
  BY WidthAssumption DEF U128, SatAdd, Lesser
<1>1. Nothing \in Outcome
  <2>1. EmptyBag \in BagsOf(Mint) /\ EmptyBag \in BagsOf(OrderId)
    BY BagFacts DEF EmptyBag
  <2> QED BY <1>0, <2>1 DEF Nothing, Outcome
<1>2. ASSUME NEW b \in SUBSET OrderId, NEW p \in Pairs(b),
             Matched[Group(p, b)] # {}
      PROVE  MatchPair(p, Group(p, b)) \in Outcome
  <2>1. Group(p, b) \in SUBSET OrderId
    BY DEF Group
  <2>2. Matched[Group(p, b)] \in SUBSET OrderId /\ Surplus[Group(p, b)] \in U128
    BY <2>1, MatchedAssumption, SurplusAssumption
  <2>3. {p[1], p[2]} \in SUBSET Mint
    BY PairFacts DEF Pairs
  <2>4. /\ SetToBag({p[1], p[2]}) \in BagsOf(Mint)
        /\ SetToBag(Matched[Group(p, b)]) \in BagsOf(OrderId)
    BY <2>2, <2>3, BagFacts
  <2> QED BY <1>2, <2>2, <2>4, PairOutcome DEF Outcome
<1>3. ASSUME NEW b \in SUBSET OrderId, NEW p \in Pairs(b)
      PROVE  MatchPair(p, Group(p, b)) \in Outcome
  BY <1>1, <1>2, PairOutcome
<1>4. ASSUME NEW x \in Outcome, NEW y \in Outcome PROVE Add(x, y) \in Outcome
  BY <1>0, BagFacts DEF Outcome, Add
<1> QED BY <1>1, <1>3, <1>4

-----------------------------------------------------------------------------
\* The partial merges of the pairs of a batch.
NextMerge(g, b, s) ==
    IF s = {} THEN Nothing
    ELSE Add(MatchPair(Pick(s), Group(Pick(s), b)), g[s \ {Pick(s)}])

IsMerges(g, b) == g = [s \in SUBSET Pairs(b) |-> NextMerge(g, b, s)]

LEMMA MergeIs ==
    ASSUME NEW b
    PROVE  Answer(b) = (CHOOSE g : IsMerges(g, b))[Pairs(b)]
BY DEF Answer, Merge, MapThenFoldSet, IsMerges, NextMerge, Pick

LEMMA PairsFinite ==
    ASSUME NEW b, IsFiniteSet(b)
    PROVE  IsFiniteSet(Pairs(b))
<1> DEFINE f == [o \in b |-> PairOf(o)]
<1>1. f \in Surjection(b, Pairs(b))
  BY DEF Surjection, Pairs
<1> QED BY <1>1, FS_Surjection

LEMMA MergesExist ==
    ASSUME NEW b \in SUBSET OrderId, IsFiniteSet(b)
    PROVE  \E g : IsMerges(g, b) /\ Answer(b) = g[Pairs(b)]
<1> DEFINE D == Pairs(b)
           h == [xv \in D \X Outcome |-> Add(MatchPair(xv[1], Group(xv[1], b)), xv[2])]
<1>1. \A p \in D, v \in Outcome :
         /\ h[<<p, v>>] = Add(MatchPair(p, Group(p, b)), v)
         /\ h[<<p, v>>] \in Outcome
  BY OutcomeType
<1> HIDE DEF h
<1>2. PICK g : IsFold(g, h, Nothing, D)
  BY PairsFinite, FoldExists
<1>3. \A s \in SUBSET D : g[s] \in Outcome
  BY <1>1, <1>2, PairsFinite, OutcomeType, FoldType
<1>4. ASSUME NEW s \in SUBSET D
      PROVE  NextFold(g, h, Nothing, s) = NextMerge(g, b, s)
  <2>1. CASE s = {}
    BY <2>1 DEF NextFold, NextMerge
  <2>2. CASE s # {}
    <3>1. Pick(s) \in s /\ Pick(s) \in D
      BY <2>2 DEF Pick
    <3>2. h[<<Pick(s), g[s \ {Pick(s)}]>>]
              = Add(MatchPair(Pick(s), Group(Pick(s), b)), g[s \ {Pick(s)}])
      BY <1>1, <1>3, <3>1
    <3> QED BY <2>2, <3>2 DEF NextFold, NextMerge
  <2> QED BY <2>1, <2>2
<1>5. IsMerges(g, b)
  <2>1. [s \in SUBSET D |-> NextFold(g, h, Nothing, s)]
            = [s \in SUBSET D |-> NextMerge(g, b, s)]
    BY <1>4
  <2> QED BY <1>2, <2>1 DEF IsFold, IsMerges
<1> QED BY <1>5, MergeIs

\* What is traded in the groups of these pairs, and the groups that trade.
TradedOf(b, s) == UNION {Matched[Group(p, b)] : p \in s}
LiveGroups(b, s) == {Group(p, b) : p \in {q \in s : Matched[Group(q, b)] # {}}}

LEMMA GroupMatched ==
    ASSUME NEW b \in SUBSET OrderId, NEW p \in Pairs(b)
    PROVE  /\ Group(p, b) \in SUBSET OrderId
           /\ Matched[Group(p, b)] \subseteq Group(p, b)
           /\ Tradable(Matched[Group(p, b)])
           /\ Surplus[Group(p, b)] \in Nat
<1>1. Group(p, b) \in SUBSET OrderId
  BY DEF Group
<1> QED BY <1>1, MatchedAssumption, SurplusAssumption, WidthAssumption DEF U128

\* Adding the group of one more pair.
LEMMA OneMorePair ==
    ASSUME NEW b \in SUBSET OrderId, NEW s \in SUBSET Pairs(b), NEW p \in s
    PROVE  /\ Matched[Group(p, b)] \cap TradedOf(b, s \ {p}) = {}
           /\ Group(p, b) \notin LiveGroups(b, s \ {p})
           /\ LiveGroups(b, s) = LiveGroups(b, s \ {p})
                 \cup (IF Matched[Group(p, b)] = {} THEN {} ELSE {Group(p, b)})
<1>2. ASSUME NEW q \in s \ {p}
      PROVE  /\ Matched[Group(p, b)] \cap Matched[Group(q, b)] = {}
             /\ Group(q, b) # Group(p, b)
  BY GroupsDisjoint, GroupMatched
<1>3. Matched[Group(p, b)] \cap TradedOf(b, s \ {p}) = {}
  BY <1>2 DEF TradedOf
<1>4. Group(p, b) \notin LiveGroups(b, s \ {p})
  BY <1>2 DEF LiveGroups
<1>5. LiveGroups(b, s) = LiveGroups(b, s \ {p})
                 \cup (IF Matched[Group(p, b)] = {} THEN {} ELSE {Group(p, b)})
  BY DEF LiveGroups
<1> QED BY <1>3, <1>4, <1>5

LEMMA LiveSummable ==
    ASSUME NEW b \in SUBSET OrderId, IsFiniteSet(b), NEW s \in SUBSET Pairs(b)
    PROVE  Summable(Surplus, LiveGroups(b, s))
<1> DEFINE live == {q \in s : Matched[Group(q, b)] # {}}
           f == [q \in live |-> Group(q, b)]
<1>1. IsFiniteSet(live)
  <2>1. live \in SUBSET Pairs(b)
    OBVIOUS
  <2> HIDE DEF live
  <2> QED BY <2>1, PairsFinite, FS_Subset
<1>2. f \in Surjection(live, LiveGroups(b, s))
  BY DEF Surjection, LiveGroups
<1>3. IsFiniteSet(LiveGroups(b, s))
  <2> HIDE DEF live, f
  <2> QED BY <1>1, <1>2, FS_Surjection
<1>4. \A m \in LiveGroups(b, s) : Surplus[m] \in Nat
  BY GroupMatched DEF LiveGroups
<1> QED BY <1>3, <1>4 DEF Summable

\* The prices these pairs bring for a mint.
QuotedIn(b, s, m) ==
    {p \in s : Matched[Group(p, b)] # {} /\ m \in {p[1], p[2]}}

PricesOf(b, s) == [m \in {n \in Mint : QuotedIn(b, s, n) # {}} |->
                     Cardinality(QuotedIn(b, s, m))]

\* One more pair brings one more price for each of its mints, if it trades.
LEMMA OneMorePrice ==
    ASSUME NEW b \in SUBSET OrderId, IsFiniteSet(b), NEW s \in SUBSET Pairs(b),
           NEW p \in s
    PROVE  PricesOf(b, s) =
              (IF Matched[Group(p, b)] = {} THEN EmptyBag
               ELSE SetToBag({p[1], p[2]})) (+) PricesOf(b, s \ {p})
<1> DEFINE r == s \ {p}
           quoted == IF Matched[Group(p, b)] = {} THEN {} ELSE {p[1], p[2]}
           all == SetToBag(quoted) (+) PricesOf(b, r)
<1>1. ASSUME NEW m
      PROVE  /\ QuotedIn(b, s, m) = IF m \in quoted THEN QuotedIn(b, r, m) \cup {p}
                                                 ELSE QuotedIn(b, r, m)
             /\ p \notin QuotedIn(b, r, m)
             /\ IsFiniteSet(QuotedIn(b, r, m))
  <2>1. QuotedIn(b, r, m) \in SUBSET Pairs(b)
    BY DEF QuotedIn
  <2>2. IsFiniteSet(QuotedIn(b, r, m))
    BY <2>1, PairsFinite, FS_Subset
  <2> QED BY <2>2 DEF QuotedIn
<1>2. ASSUME NEW m
      PROVE  /\ Cardinality(QuotedIn(b, r, m)) \in Nat
             /\ QuotedIn(b, r, m) = {} => Cardinality(QuotedIn(b, r, m)) = 0
             /\ m \in quoted => Cardinality(QuotedIn(b, s, m))
                                   = 1 + Cardinality(QuotedIn(b, r, m))
  <2> DEFINE q == QuotedIn(b, r, m)
  <2>1. IsFiniteSet(q) /\ p \notin q
    BY <1>1
  <2>2. m \in quoted => QuotedIn(b, s, m) = q \cup {p}
    BY <1>1
  <2> HIDE DEF q, quoted
  <2>3. /\ Cardinality(q) \in Nat
        /\ q = {} => Cardinality(q) = 0
        /\ Cardinality(q \cup {p}) = Cardinality(q) + 1
    BY <2>1, FS_CardinalityType, FS_EmptySet, FS_AddElement
  <2>4. m \in quoted => Cardinality(QuotedIn(b, s, m)) = 1 + Cardinality(q)
    <3>1. m \in quoted => Cardinality(QuotedIn(b, s, m)) = Cardinality(q \cup {p})
      BY <2>2, Zenon
    <3> QED BY <2>3, <3>1
  <2> QED BY <2>3, <2>4 DEF q
<1>3. quoted \subseteq Mint
  <2>1. p \in Mint \X Mint
    BY PairFacts DEF Pairs
  <2> QED BY <2>1
<1> HIDE DEF r, quoted
<1>4. DOMAIN PricesOf(b, s) = quoted \cup DOMAIN PricesOf(b, r)
  BY <1>1, <1>3 DEF PricesOf
<1>5. DOMAIN SetToBag(quoted) = quoted /\ \A m \in quoted : SetToBag(quoted)[m] = 1
  BY DEF SetToBag
<1>6. ASSUME NEW m \in DOMAIN PricesOf(b, s)
      PROVE  PricesOf(b, s)[m]
               = (IF m \in quoted THEN 1 ELSE 0)
                 + (IF m \in DOMAIN PricesOf(b, r) THEN PricesOf(b, r)[m] ELSE 0)
  BY <1>1, <1>2, <1>3 DEF PricesOf
<1>7. PricesOf(b, s) = SetToBag(quoted) (+) PricesOf(b, r)
  <2>1. PricesOf(b, s) = [m \in DOMAIN PricesOf(b, s) |-> PricesOf(b, s)[m]]
    BY DEF PricesOf
  <2>2. SetToBag(quoted) (+) PricesOf(b, r)
          = [m \in quoted \cup DOMAIN PricesOf(b, r) |->
               (IF m \in quoted THEN 1 ELSE 0)
               + (IF m \in DOMAIN PricesOf(b, r) THEN PricesOf(b, r)[m] ELSE 0)]
    BY <1>5 DEF (+)
  <2> QED BY <1>4, <1>6, <2>1, <2>2
<1> QED BY <1>7 DEF quoted, r, EmptyBag

\* Adding up does not wrap: the sum saturates once, whatever the order.
LEMMA SaturatesOnce ==
    ASSUME NEW x \in Nat, NEW y \in Nat
    PROVE  SatAdd(x, Lesser(y, MaxU128)) = Lesser(x + y, MaxU128)
BY WidthAssumption DEF SatAdd, Lesser

MergedRight(v, b, s) ==
    /\ v \in Outcome
    /\ v.prices = PricesOf(b, s)
    /\ v.trades = SetToBag(TradedOf(b, s))
    /\ v.score = Lesser(Sum(Surplus, LiveGroups(b, s)), MaxU128)

LEMMA MergeNothing ==
    ASSUME NEW b \in SUBSET OrderId, IsFiniteSet(b)
    PROVE  MergedRight(Nothing, b, {})
<1>1. TradedOf(b, {}) = {} /\ LiveGroups(b, {}) = {}
  BY DEF TradedOf, LiveGroups
<1>2. Summable(Surplus, {})
  BY FS_EmptySet DEF Summable
<1>3. Sum(Surplus, {}) = 0
  BY <1>2, SumSteps
<1>4. Lesser(0, MaxU128) = 0
  BY WidthAssumption DEF Lesser
<1>5. PricesOf(b, {}) = EmptyBag
  BY DEF PricesOf, QuotedIn, EmptyBag, SetToBag
<1> QED BY <1>1, <1>3, <1>4, <1>5, OutcomeType DEF MergedRight, Nothing, EmptyBag

LEMMA MergeOne ==
    ASSUME NEW b \in SUBSET OrderId, IsFiniteSet(b), NEW s \in SUBSET Pairs(b),
           NEW p \in s, NEW v, MergedRight(v, b, s \ {p})
    PROVE  MergedRight(Add(MatchPair(p, Group(p, b)), v), b, s)
<1> DEFINE m == Group(p, b)
           o == MatchPair(p, m)
           w == Add(o, v)
           r == s \ {p}
<1>1. w \in Outcome
  BY OutcomeType DEF MergedRight
<1>2. /\ w.prices = o.prices (+) v.prices
      /\ w.trades = o.trades (+) v.trades
      /\ w.score = SatAdd(o.score, v.score)
  BY DEF Add
<1>a. p \in Pairs(b)
  OBVIOUS
<1>b. o = IF Matched[m] = {} THEN Nothing
          ELSE [prices |-> SetToBag({p[1], p[2]}),
                trades |-> SetToBag(Matched[m]), score |-> Surplus[m]]
  BY <1>a, PairOutcome
<1>3. o.trades = SetToBag(Matched[m])
  <2> HIDE DEF o, m
  <2> QED BY <1>b DEF Nothing, EmptyBag
<1>4. o.score = IF Matched[m] = {} THEN 0 ELSE Surplus[m]
  <2> HIDE DEF o, m
  <2> QED BY <1>b DEF Nothing
<1>8. o.prices = IF Matched[m] = {} THEN EmptyBag ELSE SetToBag({p[1], p[2]})
  <2> HIDE DEF o, m
  <2> QED BY <1>b DEF Nothing
<1>9. w.prices = PricesOf(b, s)
  <2> HIDE DEF o, w
  <2> QED BY <1>2, <1>8, OneMorePrice DEF MergedRight
<1>5. Surplus[m] \in Nat
  BY GroupMatched
<1> HIDE DEF m, o, w
<1>6. w.trades = SetToBag(TradedOf(b, s))
  <2>1. /\ TradedOf(b, s) = Matched[m] \cup TradedOf(b, r)
        /\ Matched[m] \cap TradedOf(b, r) = {}
    <3>1. TradedOf(b, s) = Matched[m] \cup TradedOf(b, r)
      BY ONLY p \in s DEF TradedOf, m, r
    <3>2. Matched[m] \cap TradedOf(b, r) = {}
      BY OneMorePair DEF m
    <3> QED BY <3>1, <3>2
  <2>2. v.trades = SetToBag(TradedOf(b, r))
    BY DEF MergedRight
  <2> HIDE DEF r
  <2> QED BY <1>2, <1>3, <2>1, <2>2, DisjointBags
<1>7. w.score = Lesser(Sum(Surplus, LiveGroups(b, s)), MaxU128)
  <2>1. r \in SUBSET Pairs(b)
    OBVIOUS
  <2>2. Summable(Surplus, LiveGroups(b, r)) /\ Summable(Surplus, LiveGroups(b, s))
    <3> HIDE DEF r
    <3> QED BY <2>1, LiveSummable
  <2>3. Sum(Surplus, LiveGroups(b, r)) \in Nat
    BY <2>2, SumSteps
  <2>4. v.score = Lesser(Sum(Surplus, LiveGroups(b, r)), MaxU128)
    BY DEF MergedRight
  <2>5. CASE Matched[m] = {}
    <3>1. LiveGroups(b, s) = LiveGroups(b, r)
      <4>1. LiveGroups(b, s) = LiveGroups(b, r)
                \cup (IF Matched[m] = {} THEN {} ELSE {m})
        BY OneMorePair DEF m
      <4> QED BY <2>5, <4>1
    <3>2. w.score = Lesser(0 + Sum(Surplus, LiveGroups(b, r)), MaxU128)
      BY <1>2, <1>4, <2>3, <2>4, <2>5, SaturatesOnce
    <3> QED BY <2>3, <3>1, <3>2
  <2>6. CASE Matched[m] # {}
    <3>1. /\ LiveGroups(b, s) = LiveGroups(b, r) \cup {m}
          /\ m \notin LiveGroups(b, r)
      BY <2>6, OneMorePair DEF m
    <3>2. LiveGroups(b, s) \ {m} = LiveGroups(b, r) /\ m \in LiveGroups(b, s)
      BY <3>1
    <3>3. Sum(Surplus, LiveGroups(b, s))
              = Surplus[m] + Sum(Surplus, LiveGroups(b, r))
      BY <2>2, <3>2, SumRemove
    <3>4. w.score = Lesser(Surplus[m] + Sum(Surplus, LiveGroups(b, r)), MaxU128)
      BY <1>2, <1>4, <1>5, <2>3, <2>4, <2>6, SaturatesOnce
    <3> QED BY <3>3, <3>4
  <2> QED BY <2>5, <2>6
<1> QED BY <1>1, <1>6, <1>7, <1>9 DEF MergedRight, w, o, m

\* A merge in any order: what it holds depends on the pairs merged alone.
LEMMA MergeTurn ==
    ASSUME NEW b \in SUBSET OrderId, IsFiniteSet(b), NEW s \in SUBSET Pairs(b),
           NEW p \in Pairs(b) \ s, NEW v, MergedRight(v, b, s)
    PROVE  MergedRight(Add(v, MatchPair(p, Group(p, b))), b, s \cup {p})
<1> DEFINE o == MatchPair(p, Group(p, b))
<1>1. o \in Outcome /\ v \in Outcome
  BY OutcomeType DEF MergedRight
<1>2. s \cup {p} \in SUBSET Pairs(b) /\ (s \cup {p}) \ {p} = s /\ p \in s \cup {p}
  OBVIOUS
<1>3. MergedRight(Add(o, v), b, s \cup {p})
  BY <1>2, MergeOne
<1> HIDE DEF o
<1>4. Add(v, o) = Add(o, v)
  <2>1. \A S : \A x, y \in BagsOf(S) : x (+) y = y (+) x
    <3>1. SUFFICES ASSUME NEW S, NEW x \in BagsOf(S), NEW y \in BagsOf(S)
                   PROVE  x (+) y = y (+) x
      OBVIOUS
    <3>2. /\ \A e \in DOMAIN x : x[e] \in Nat
          /\ \A e \in DOMAIN y : y[e] \in Nat
      BY DEF BagsOf
    <3> QED BY <3>2 DEF (+)
  <2>2. SatAdd(v.score, o.score) = SatAdd(o.score, v.score)
    BY <1>1, WidthAssumption DEF Outcome, U128, SatAdd
  <2> QED BY <1>1, <2>1, <2>2 DEF Add, Outcome
<1> QED BY <1>3, <1>4 DEF o

LEMMA MergedOnce ==
    ASSUME NEW b, NEW s, NEW v, NEW w, MergedRight(v, b, s), MergedRight(w, b, s)
    PROVE  v = w
BY DEF MergedRight, Outcome

\* What match_batch makes of a batch.
LEMMA MergeRight ==
    ASSUME NEW b \in SUBSET OrderId, IsFiniteSet(b)
    PROVE  MergedRight(Answer(b), b, Pairs(b))
<1>1. PICK g : IsMerges(g, b) /\ Answer(b) = g[Pairs(b)]
  BY MergesExist
<1> DEFINE T == {s \in SUBSET Pairs(b) : ~MergedRight(g[s], b, s)}
<1>2. SUFFICES ASSUME T # {} PROVE FALSE
  BY <1>1
<1>3. PICK m \in T : \A x \in m : m \ {x} \notin T
  <2>1. T \in SUBSET (SUBSET Pairs(b))
    OBVIOUS
  <2> HIDE DEF T
  <2> QED BY <1>2, <2>1, PairsFinite, MinimalSubset
<1>4. m \in SUBSET Pairs(b) /\ g[m] = NextMerge(g, b, m) /\ ~MergedRight(g[m], b, m)
  BY <1>1, <1>3 DEF IsMerges
<1>5. m # {}
  BY <1>4, MergeNothing DEF NextMerge
<1> DEFINE p == Pick(m)
<1>6. p \in m /\ g[m] = Add(MatchPair(p, Group(p, b)), g[m \ {p}])
  BY <1>4, <1>5 DEF NextMerge, Pick
<1> HIDE DEF p
<1>7. MergedRight(g[m \ {p}], b, m \ {p})
  BY <1>3, <1>4, <1>6
<1> QED BY <1>4, <1>6, <1>7, MergeOne

\* The merge of all pairs is the reference definition of a matched batch: every
\* market of it is matched, both directions together, every traded order is
\* traded once, and the surpluses are added up with saturation, whatever the
\* order in which pairs are grouped, matched and merged.
THEOREM AnswerIsReference ==
    ASSUME NEW b \in SUBSET OrderId, IsFiniteSet(b)
    PROVE  /\ Answer(b) \in Outcome
           /\ Answer(b).trades = SetToBag(TradedIn(b))
           /\ Answer(b).score = ScoreOf(b)
<1>2. Markets(b) = {Group(p, b) : p \in Pairs(b)}
  BY GroupsAreMarkets
<1>3. TradedOf(b, Pairs(b)) = TradedIn(b)
  BY <1>2 DEF TradedOf, TradedIn
<1>4. LiveGroups(b, Pairs(b)) = {m \in Markets(b) : Matched[m] # {}}
  BY <1>2 DEF LiveGroups
<1>5. ScoreOf(b) = Lesser(Sum(Surplus, LiveGroups(b, Pairs(b))), MaxU128)
  BY <1>4 DEF ScoreOf, Sum
<1> QED BY <1>3, <1>5, MergeRight DEF MergedRight
=============================================================================
