-------------------------- MODULE ConstraintEngine --------------------------
(***************************************************************************)
(* ConstraintEngine.evaluate_candidate and filter_products.  Only the      *)
(* reason codes of violations are kept: a soft constraint and an unmet     *)
(* preference never produce one.  Every amount is in INR.                  *)
(***************************************************************************)
EXTENDS ProductDiscovery

Flag(condition, code) == IF condition THEN {code} ELSE {}

Availability(c, i) ==
    CASE ~i.requireStock -> {}
      [] i.requireStock /\ (~c.inStock \/ c.state = "OUT_OF_STOCK") -> {"OUT_OF_STOCK"}
      [] OTHER -> Flag(i.quantity > 1 /\ c.quantity < i.quantity, "INSUFFICIENT_STOCK")

Budget(c, i) ==
    Flag(i.budgetMax # None /\ c.price > i.budgetMax, "PRICE_ABOVE_MAX")
    \union Flag(i.budgetMin # None /\ c.price < i.budgetMin, "PRICE_BELOW_MIN")

\* A mutant of AtLeast: exactly the number asked for is not enough.
MoreThan(c, key, target, code) ==
    IF key \notin DOMAIN c.specs THEN {"UNKNOWN_REQUIRED_ATTRIBUTE"}
    ELSE Flag(c.specs[key] = Garbled \/ c.specs[key] <= target, code)

\* _eval_ram_constraint and _eval_storage_constraint.
AtLeast(c, key, target, code) ==
    CASE key \notin DOMAIN c.specs -> {"UNKNOWN_REQUIRED_ATTRIBUTE"}
      [] OTHER -> IF c.specs[key] = Garbled THEN {"MALFORMED_SPECIFICATION"}
                  ELSE Flag(c.specs[key] < target, code)

\* A bare number ("4070") is looked for in the text; "rtx 4070" is a minimum.
GpuSatisfies(gpu, target) ==
    CASE target.family = "rtx" -> gpu.family = "rtx" /\ gpu.number >= target.number
      [] target.family = "gtx" -> gpu.family \in {"gtx", "rtx"}
      [] target.family \in {"apple", "radeon"} -> gpu.family = target.family
      [] OTHER -> gpu.number = target.number

Gpu(c, target) ==
    IF "gpu" \notin DOMAIN c.specs THEN {"UNKNOWN_REQUIRED_ATTRIBUTE"}
    ELSE Flag(~GpuSatisfies(c.specs["gpu"], target), "GPU_REQUIREMENT_NOT_MET")

\* _check_operator; an operator it does not know is never satisfied.
Holds(value, x) ==
    /\ value # Garbled
    /\ CASE x.operator = "GTE"      -> value >= x.target
         [] x.operator = "LTE"      -> value <= x.target
         [] x.operator = "EQ"       -> value = x.target
         [] x.operator = "CONTAINS" -> x.target \in value
         [] x.operator = "IN"       -> value \in x.target
         [] OTHER                   -> FALSE

Generic(c, key, x) ==
    IF key \notin DOMAIN c.specs THEN {"UNKNOWN_REQUIRED_ATTRIBUTE"}
    ELSE Flag(~Holds(c.specs[key], x), "SPECIFICATION_MISMATCH")

Specification(c, key, x) ==
    CASE ~x.hard            -> {}
      [] key = "merchant"   -> Flag(c.merchant # x.target, "MERCHANT_NOT_ALLOWED")
      [] key = "ram_gb"     -> AtLeast(c, key, x.target, "RAM_BELOW_MIN")
      [] key = "ssd_gb"     -> AtLeast(c, key, x.target, "STORAGE_BELOW_MIN")
      [] key = "gpu"        -> Gpu(c, x.target)
      [] key = "brand"      -> Flag(c.brand # x.target, "BRAND_NOT_ALLOWED")
      [] key = "rating"     -> Flag(c.rating < x.target, "RATING_BELOW_MIN")
      [] OTHER              -> Generic(c, key, x)

Words(c, i) ==
    Flag(~(i.keywords \subseteq c.words), "MISSING_REQUIRED_KEYWORD")
    \union Flag(i.exclusions \intersect c.words # {}, "EXCLUDED")

\* A mutant of evaluate_candidate: the price is not looked at again.
WithoutBudget(c, i) ==
    Availability(c, i) \union Words(c, i)
    \union (UNION {Specification(c, key, i.specs[key]) : key \in DOMAIN i.specs})

evaluate_candidate(c, i) ==
    Flag(c.price < 0, "INVALID_PRODUCT_DATA")
    \union Availability(c, i) \union Budget(c, i)
    \union (UNION {Specification(c, key, i.specs[key]) : key \in DOMAIN i.specs})
    \union Words(c, i)

filter_products(candidates, i) == {c \in candidates : evaluate_candidate(c, i) = {}}
=============================================================================
