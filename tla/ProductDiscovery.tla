-------------------------- MODULE ProductDiscovery --------------------------
(***************************************************************************)
(* What the agent reads of the catalogue: CatalogService's search and      *)
(* detail, and the candidates ProductNormalizer makes of their rows.  A    *)
(* title, description and brand are the set of words that rules look for;  *)
(* a specification is a number, a record, a set of words, or Garbled.      *)
(* Ratings are in tenths, discounts in tenths of a percent.                *)
(***************************************************************************)
EXTENDS IntentParser, FiniteSets

CONSTANTS
    Products,      \* numbers, in the order of the candidates' ids
    Merchants,     \* SUPPORTED_MERCHANTS
    Listing,       \* Listing[p]: the columns of a product that do not change
    Options,       \* Options[m]: estimated_days of the active shipping options
    PageSize,      \* page_size: 20 for the graph, 50 for the runner
    Garbled        \* a specification that int() refuses

\* Memory and storage may be any text; the name of a GPU always is one.
Specifications(specs) ==
    /\ \A key \in {"ram_gb", "ssd_gb"} \intersect DOMAIN specs : specs[key] \in Int \union {Garbled}
    /\ "gpu" \in DOMAIN specs => specs["gpu"].number \in Nat /\ specs["gpu"] # Garbled

\* The state that every write of an inventory row computes.
compute_state(quantity) ==
    CASE quantity <= 0 -> "OUT_OF_STOCK" [] quantity \in 1 .. 5 -> "LOW_STOCK" [] OTHER -> "IN_STOCK"

ASSUME DiscoveryAssumption ==
    /\ Products \subseteq Nat /\ IsFiniteSet(Products)
    /\ \A p \in Products :
        /\ Listing[p].merchant \in Merchants
        /\ Listing[p].base \in Int /\ Listing[p].rating \in Int /\ Listing[p].reviews \in Int
        /\ Specifications(Listing[p].specs)
    /\ \A m \in Merchants : Options[m] \subseteq Int /\ IsFiniteSet(Options[m])
    /\ PageSize \in Nat \ {0}

\* A row is the listing with the columns that change: price, stock and
\* active.  stock is None without a row of inventory.
Row(p, s) ==
    LET r == Listing[p] IN
    [id |-> p, merchant |-> r.merchant, base |-> r.base, rating |-> r.rating,
     reviews |-> r.reviews, specs |-> r.specs, brand |-> r.brand, words |-> r.words,
     price |-> s.price, stock |-> s.stock, active |-> s.active]

Quantity(r) == IF r.stock = None THEN 0 ELSE r.stock.quantity
State(r)    == IF r.stock = None THEN "IN_STOCK" ELSE r.stock.state

\* The rows that a search with the intent's bounds returns.
Matching(rows, i) ==
    {r \in rows :
        /\ r.active
        /\ i.budgetMin # None => r.price >= i.budgetMin
        /\ i.budgetMax # None => r.price <= i.budgetMax
        /\ i.requireStock => Quantity(r) > 0}

\* The runner's search has no bounds.
Unbounded == [NoWishes EXCEPT !.requireStock = FALSE]

Before(r, s) == r.rating > s.rating \/ (r.rating = s.rating /\ r.price < s.price)

\* What LIMIT may return: between equal rows the database chooses.
Pages(rows, i) ==
    LET all == Matching(rows, i) IN
    {page \in SUBSET all :
        /\ Cardinality(page) = IF Cardinality(all) < PageSize THEN Cardinality(all)
                                                              ELSE PageSize
        /\ \A r \in page, s \in all \ page : ~Before(s, r)}

-----------------------------------------------------------------------------
(* ProductNormalizer.                                                      *)

\* A base price of zero is taken for none.
BasePrice(r) == IF r.base = 0 THEN r.price ELSE r.base

\* What normalize_candidate refuses.
Malformed(r) == r.price < 0 \/ BasePrice(r) < 0

DefaultDays(m) ==
    CASE m \in {"AMAZON", "CROMA"} -> 1 [] m = "FLIPKART" -> 2 [] OTHER -> 3

Least(S) == CHOOSE x \in S : \A y \in S : x <= y

InStock(r) ==
    State(r) # "OUT_OF_STOCK" /\ (Quantity(r) > 0 \/ State(r) = "IN_STOCK")

\* Within 0.0 .. 5.0, 4.5 without a rating.
Rating(r) ==
    CASE r.rating = 0 -> 45 [] r.rating < 0 -> 0 [] r.rating > 50 -> 50 [] OTHER -> r.rating

Rounded(a, b) == (2 * a + b) \div (2 * b)
Reduced(r) == 0 < r.price /\ r.price < r.base

\* options and discount come with a detail, not with a summary.
Candidate(r, options, discount) ==
    [id |-> r.id, merchant |-> r.merchant, price |-> r.price, base |-> BasePrice(r),
     discount |-> discount, state |-> State(r), quantity |-> Quantity(r),
     inStock |-> InStock(r),
     days |-> IF options = {} THEN DefaultDays(r.merchant) ELSE Least(options),
     rating |-> Rating(r),
     reviews |-> IF r.reviews < 0 THEN 0 ELSE r.reviews, specs |-> r.specs, brand |-> r.brand, words |-> r.words]

OfSummary(r) == Candidate(r, {}, 0)
OfDetail(r) ==
    Candidate(r, Options[r.merchant],
              IF Reduced(r) THEN Rounded(1000 * (r.base - r.price), r.base) ELSE 0)

\* normalize_candidate over the items of a search: a malformed one is skipped.
Normalized(page) == {OfSummary(r) : r \in {s \in page : ~Malformed(s)}}

\* _resolve_target_merchants without merchants named in the call: a hard
\* constraint on a supported one, else all of them.
Targets(i) ==
    IF "merchant" \in DOMAIN i.specs /\ i.specs["merchant"].hard
       /\ i.specs["merchant"].target \in Merchants
    THEN {i.specs["merchant"].target}
    ELSE Merchants
=============================================================================
