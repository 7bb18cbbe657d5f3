--------------------------- MODULE RankingEngine ---------------------------
(***************************************************************************)
(* RankingEngine.rank_products in whole numbers: a score is counted in     *)
(* hundredths of a point, where the code rounds to two decimals.  (The     *)
(* code rounds binary fractions; a score exactly between two hundredths    *)
(* may fall on the other side there.)                                      *)
(***************************************************************************)
EXTENDS ConstraintEngine

Weigh(price, specification, delivery, rating) ==
    [price |-> price, specification |-> specification, delivery |-> delivery,
     rating |-> rating, discount |-> 5, inventory |-> 5]

\* A mutant of Weights: a cheap product loses under LOWEST_PRICE.
WeightsAgainstPrice(objective) ==
    IF objective = "LOWEST_PRICE" THEN Weigh(-55, 15, 10, 10) ELSE Weigh(30, 25, 20, 15)

Weights(objective) ==
    CASE objective = "MAX_PERFORMANCE"  -> Weigh(15, 50, 10, 15)
      [] objective = "LOWEST_PRICE"     -> Weigh(55, 15, 10, 10)
      [] objective = "FASTEST_DELIVERY" -> Weigh(20, 15, 45, 10)
      [] objective = "HIGHEST_RATED"    -> Weigh(20, 15, 10, 45)
      [] objective = "BEST_VALUE"       -> Weigh(35, 30, 15, 10)
      [] objective = "BALANCED"         -> Weigh(30, 25, 20, 15)

Capped(score) == IF score > 10000 THEN 10000 ELSE score

PriceScore(c, i, low, high) ==
    IF high > low THEN 5000 + Rounded(5000 * (high - c.price), high - low)
    ELSE IF i.budgetMax # None /\ i.budgetMax > 0 /\ c.price <= i.budgetMax
         THEN Capped(8000 + Rounded(2000 * (i.budgetMax - c.price), i.budgetMax))
         ELSE 10000

ChipBonus(chip) ==
    CASE {"M3", "MAX"} \subseteq chip \/ {"M4", "MAX"} \subseteq chip -> 19
      [] OTHER -> IF {"M3", "PRO"} \subseteq chip \/ "M4" \in chip THEN 12 ELSE 0

GpuBonus(specs) ==
    LET number == IF "gpu" \in DOMAIN specs THEN specs["gpu"].number ELSE 0
        chip   == IF "chip" \in DOMAIN specs THEN specs["chip"] ELSE {}
    IN CASE number = 4090 -> 20 [] number = 4080 -> 16 [] number = 4070 -> 12
         [] number = 4060 -> 8 [] number \in {4050, 3060, 3050} -> 4
         [] OTHER -> ChipBonus(chip)

\* A missing number counts as the default; the code's int() raises on Garbled.
Number(specs, key, default) ==
    IF key \notin DOMAIN specs \/ specs[key] = 0 THEN default ELSE specs[key]

RamBonus(ram) == IF ram >= 64 THEN 10 ELSE IF ram >= 32 THEN 6 ELSE IF ram >= 24 THEN 3 ELSE 0
SsdBonus(ssd) == IF ssd >= 2048 THEN 6 ELSE IF ssd >= 1024 THEN 4 ELSE 0

SpecificationScore(c, i) ==
    Capped(100 * (60 + GpuBonus(c.specs)
                     + RamBonus(Number(c.specs, "ram_gb", 16))
                     + SsdBonus(Number(c.specs, "ssd_gb", 512))
                     + (IF c.brand \in i.brands THEN 5 ELSE 0)
                     + (IF c.merchant \in i.merchants THEN 5 ELSE 0)))

DeliveryScore(days) ==
    CASE days <= 0 -> 2000 [] days = 1 -> 10000 [] days = 2 -> 7000
      [] days = 3 -> 4500 [] days = 4 -> 2500 [] OTHER -> 1000

ReviewBonus(n) ==
    CASE n >= 1000 -> 1000 [] n \in 500 .. 999 -> 700 [] n \in 100 .. 499 -> 400
      [] n \in 10 .. 99 -> 200 [] OTHER -> 0

RatingScore(c) == Capped(180 * c.rating + ReviewBonus(c.reviews))

\* 2.5 points for each percent; a summary's discount is computed from prices.
DiscountScore(c) ==
    CASE c.discount > 0 -> Capped(25 * c.discount)
      [] OTHER -> IF Reduced(c) THEN Capped(Rounded(25000 * (c.base - c.price), c.base))
                  ELSE 1000

InventoryScore(c) ==
    CASE ~c.inStock \/ c.quantity = 0 -> 0
      [] c.inStock /\ c.quantity >= 10 -> 10000
      [] c.inStock /\ c.quantity \in 3 .. 9 -> 8000
      [] OTHER -> 5000

Composite(s, w) ==
    Capped(Rounded(s.price * w.price, 100)
           + Rounded(s.specification * w.specification, 100)
           + Rounded(s.delivery * w.delivery, 100) + Rounded(s.rating * w.rating, 100)
           + Rounded(s.discount * w.discount, 100) + Rounded(s.inventory * w.inventory, 100))

\* _score_candidate within the prices of the pool.
Scored(c, i, low, high) ==
    LET s == [price |-> PriceScore(c, i, low, high),
              specification |-> SpecificationScore(c, i),
              delivery |-> DeliveryScore(c.days), rating |-> RatingScore(c),
              discount |-> DiscountScore(c), inventory |-> InventoryScore(c)]
    IN [candidate |-> c, score |-> s, overall |-> Composite(s, Weights(i.objective)),
        value |-> Rounded(35 * s.specification + 45 * s.price
                          + 10 * s.rating + 10 * s.discount, 100)]

-----------------------------------------------------------------------------
(* The order.                                                              *)

KnownDays(c) == IF c.days > 0 THEN c.days ELSE 999

OverallKey(x) ==
    <<-x.overall, -x.score.specification, -x.score.rating, KnownDays(x.candidate),
      x.candidate.price, x.candidate.id>>

ValueKey(x) == <<-x.value, x.candidate.price, -x.score.specification, x.candidate.id>>
DeliveryKey(x) == <<x.candidate.days, -x.overall, x.candidate.price, x.candidate.id>>

Less(a, b) ==
    \E n \in DOMAIN a : a[n] < b[n] /\ \A m \in 1 .. n - 1 : a[m] = b[m]

Sorted(S, Key(_)) ==
    [n \in 1 .. Cardinality(S) |->
        CHOOSE x \in S : Cardinality({y \in S : Less(Key(y), Key(x))}) = n - 1]

FirstBy(S, Key(_)) == CHOOSE x \in S : \A y \in S \ {x} : Less(Key(x), Key(y))

\* One product whose memory or storage is no number fails the whole ranking;
\* so does a storage of numerals in quotes, which int() takes, but which the
\* reasons for the rank compare with 1024 as it is.
Unrankable(candidates) ==
    \E c \in candidates :
        \/ "ssd_quoted" \in DOMAIN c.specs
        \/ \E key \in {"ram_gb", "ssd_gb"} :
              key \in DOMAIN c.specs /\ c.specs[key] = Garbled

\* _validate_candidates_for_ranking, then the scores in the range of prices.
ScoredAll(candidates, i) ==
    LET valid  == {c \in candidates : c.price >= 0 /\ c.rating \in 0 .. 50}
        prices == {c.price : c \in valid}
        low    == Least(prices)
        high   == CHOOSE p \in prices : \A q \in prices : q <= p
    IN {Scored(c, i, low, high) : c \in valid}

rank_products(candidates, i) == Sorted(ScoredAll(candidates, i), OverallKey)

Elements(s) == {s[n] : n \in DOMAIN s}

\* None when no delivery time is known.
FastestDelivery(ranked) ==
    LET known == {x \in Elements(ranked) : x.candidate.days > 0} IN
    IF known = {} THEN None ELSE FirstBy(known, DeliveryKey)

BestValue(ranked) == FirstBy(Elements(ranked), ValueKey)
=============================================================================
