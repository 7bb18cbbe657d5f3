--------------------------- MODULE PurchasePolicy ---------------------------
(***************************************************************************)
(* PolicyEngine.evaluate_quote_against_policy over the quotes of           *)
(* CartsAndQuotes.  An evaluation reads the quote with its cart and        *)
(* merchant, and later the products and their stock, without locks; the    *)
(* cart, the catalogue and the clock go on meanwhile.                      *)
(***************************************************************************)
EXTENDS CartsAndQuotes

CONSTANTS
    Judges,       \* threads that evaluate
    Policies,     \* the rows of purchase_policies
    Categories,
    CategoryOf    \* CategoryOf[p]: ProductModel.category, None if unknown

PolicyRows ==
    [active : BOOLEAN, ceiling : Nat \union {None}, autoLimit : Nat \union {None},
     allowedMerchants : SUBSET Merchants, blockedMerchants : SUBSET Merchants,
     allowedCategories : SUBSET Categories, blockedCategories : SUBSET Categories,
     blockedProducts : SUBSET Products, perProduct : Nat, inTotal : Nat,
     shippingLimit : Nat \union {None},
     allowedShipping : SUBSET Codes, blockedShipping : SUBSET Codes]

ASSUME PoliciesAssumption ==
    /\ Policies \subseteq PolicyRows
    /\ CategoryOf \in [Products -> Categories \union {None}]

Decisions == {"ALLOW", "REQUIRE_AUTHORIZATION", "DENY"}

VARIABLES
    late,        \* late[q]: the clock has passed expires_at
    judging,     \* judging[j]: what an evaluation has read so far
    verdict      \* verdict[q]: its latest row of policy_evaluation_records

policyVars == <<cartVars, late, judging, verdict>>

Verdicts == [policy : Policies, decision : Decisions, total : Nat]
FirstReads ==
    [quote : QuoteIds, policy : Policies, late : BOOLEAN, stale : BOOLEAN, open : BOOLEAN]

PolicyTypeOK ==
    /\ CartTypeOK
    /\ late \in [QuoteIds -> BOOLEAN]
    /\ judging \in [Judges -> FirstReads \union {None}]
    /\ verdict \in [QuoteIds -> Verdicts \union {None}]

PolicyInit ==
    /\ CartInit
    /\ late = [q \in QuoteIds |-> FALSE]
    /\ judging = [j \in Judges |-> None]
    /\ verdict = [q \in QuoteIds |-> None]

-----------------------------------------------------------------------------
(* The rules.  x is a quote, y a policy, f what was read first.            *)

Flag(condition, reason) == IF condition THEN {reason} ELSE {}

Goods(x) == Range(x.items)

QuoteReasons(x, f) ==
    Flag(f.late, "EXPIRED_QUOTE")
    \union Flag(f.stale, "STALE_CART")
    \union Flag(~f.open, "INACTIVE_MERCHANT")

\* The other checks of an item are skipped when its product is inactive.
ItemReasons(i) ==
    IF ~active[i.product] THEN {"INACTIVE_PRODUCT"}
    ELSE Flag(price[i.product] # i.price, "PRICE_CHANGED")
         \union Flag(onHand[i.product] < i.quantity,
                     IF onHand[i.product] = 0 THEN "OUT_OF_STOCK"
                     ELSE "INSUFFICIENT_INVENTORY")

\* A list of what is allowed counts only if it is not empty.
Permission(v, allowed, blocked, ifBlocked, ifMissing) ==
    IF v \in blocked THEN {ifBlocked}
    ELSE Flag(allowed # {} /\ v \notin allowed, ifMissing)

MerchantReasons(x, y) ==
    Permission(x.merchant, y.allowedMerchants, y.blockedMerchants,
               "BLOCKED_MERCHANT", "UNAUTHORIZED_MERCHANT")

\* An unknown category fails closed.
CategoryReasons(i, y) ==
    IF CategoryOf[i.product] = None THEN {"UNKNOWN_CATEGORY_FAIL_CLOSED"}
    ELSE Permission(CategoryOf[i.product], y.allowedCategories, y.blockedCategories,
                    "BLOCKED_CATEGORY", "UNAUTHORIZED_CATEGORY")

GoodsReasons(x, y) ==
    UNION {ItemReasons(i) \union CategoryReasons(i, y)
             \union Flag(i.product \in y.blockedProducts, "BLOCKED_PRODUCT_ID")
           : i \in Goods(x)}

Units(x) == FoldFunction(LAMBDA i, sum : i.quantity + sum, 0, x.items)

\* A mutant of QuantityReasons: a limit of zero forbids everything.
ZeroForbidsAll(x, y) ==
    Flag(\E i \in Goods(x) : i.quantity > y.perProduct, "EXCEEDS_MAX_PRODUCT_QUANTITY")
    \union Flag(Units(x) > y.inTotal, "EXCEEDS_MAX_TOTAL_QUANTITY")

\* A limit of zero is no limit.
QuantityReasons(x, y) ==
    Flag(y.perProduct # 0 /\ \E i \in Goods(x) : i.quantity > y.perProduct,
         "EXCEEDS_MAX_PRODUCT_QUANTITY")
    \union Flag(y.inTotal # 0 /\ Units(x) > y.inTotal, "EXCEEDS_MAX_TOTAL_QUANTITY")

ShippingReasons(x, y) ==
    Flag(y.shippingLimit # None /\ x.shipping > y.shippingLimit, "EXCEEDS_MAX_SHIPPING_COST")
    \union UNION {Permission(o.code, y.allowedShipping, y.blockedShipping,
                             "BLOCKED_SHIPPING_TYPE", "UNAUTHORIZED_SHIPPING_TYPE")
                  : o \in {o \in Options : o.id = x.option}}

\* A mutant of SpendingReasons: the goods are compared, not the total.
SpendingOnGoods(x, y) ==
    IF y.ceiling # None /\ x.subtotal > y.ceiling THEN {"EXCEEDS_MAX_PURCHASE_AMOUNT"}
    ELSE Flag(y.autoLimit # None /\ x.subtotal > y.autoLimit, "ABOVE_AUTO_APPROVAL_THRESHOLD")

SpendingReasons(x, y) ==
    IF y.ceiling # None /\ x.total > y.ceiling THEN {"EXCEEDS_MAX_PURCHASE_AMOUNT"}
    ELSE Flag(y.autoLimit # None /\ x.total > y.autoLimit, "ABOVE_AUTO_APPROVAL_THRESHOLD")

\* The rules about quote and policy, without what is read live.
StandingReasons(x, y) ==
    Flag(~y.active, "POLICY_INACTIVE") \union MerchantReasons(x, y)
    \union QuantityReasons(x, y) \union ShippingReasons(x, y) \union SpendingReasons(x, y)

Reasons(x, y, f) == QuoteReasons(x, f) \union GoodsReasons(x, y) \union StandingReasons(x, y)

\* A mutant of Decision: the need for an authorization hides the refusals.
AuthorizationFirst(reasons) ==
    IF "ABOVE_AUTO_APPROVAL_THRESHOLD" \in reasons THEN "REQUIRE_AUTHORIZATION"
    ELSE IF reasons # {} THEN "DENY" ELSE "ALLOW"

\* Every reason but the threshold is one of DENY_REASON_CODES.
Decision(reasons) ==
    IF reasons \ {"ABOVE_AUTO_APPROVAL_THRESHOLD"} # {} THEN "DENY"
    ELSE IF reasons # {} THEN "REQUIRE_AUTHORIZATION" ELSE "ALLOW"

-----------------------------------------------------------------------------
\* The query for the quote, its cart and its merchant.
StartEvaluation(j) ==
    /\ judging[j] = None
    /\ \E q \in QuoteIds, y \in Policies, caller \in Clients \union {None} :
         /\ quote[q] # None
         /\ ~Foreign(caller, quote[q].session)
         /\ judging' = [judging EXCEPT ![j] =
                [quote |-> q, policy |-> y, late |-> late[q],
                 stale |-> touched[q], open |-> open[quote[q].merchant]]]
    /\ UNCHANGED <<cartVars, late, verdict>>

\* The queries for the products, the rules, and the record.
FinishEvaluation(j) ==
    LET f == judging[j]
        x == quote[f.quote]
    IN  /\ f # None
        /\ verdict' = [verdict EXCEPT ![f.quote] =
               [policy |-> f.policy, total |-> x.total,
                decision |-> Decision(Reasons(x, f.policy, f))]]
        /\ judging' = [judging EXCEPT ![j] = None]
        /\ UNCHANGED <<cartVars, late>>

\* The clock passes a quote's expires_at.
QuoteExpires ==
    /\ \E q \in QuoteIds : quote[q] # None /\ late' = [late EXCEPT ![q] = TRUE]
    /\ UNCHANGED <<cartVars, judging, verdict>>

PolicyNext ==
    \/ CartNext /\ UNCHANGED <<late, judging, verdict>>
    \/ \E j \in Judges : StartEvaluation(j) \/ FinishEvaluation(j)
    \/ QuoteExpires

PolicySpec == PolicyInit /\ [][PolicyNext]_policyVars

-----------------------------------------------------------------------------
(* Properties                                                              *)

Within(n, limit) == limit = None \/ n <= limit

\* What was allowed without a person is within the policy: the amount that
\* the customer pays, shipping and tax included, the number of units over all
\* the lines, and goods of which each is known to be permitted.
AllowRespectsPolicy ==
    \A q \in QuoteIds : verdict[q] # None /\ verdict[q].decision = "ALLOW" =>
        LET x == quote[q]
            y == verdict[q].policy
        IN  /\ x.subtotal - x.discount + x.shipping + x.tax <=
                   IF y.autoLimit = None THEN x.total ELSE y.autoLimit
            /\ Within(x.total, y.ceiling)
            /\ y.inTotal # 0 => Units(x) <= y.inTotal
            /\ \A i \in Goods(x) : /\ CategoryOf[i.product] \notin {None} \union y.blockedCategories
                                   /\ i.product \notin y.blockedProducts

\* No policy asks for an authorization of what it forbids: a quote above the
\* ceiling, or with forbidden goods, is refused and no human can be asked.
ForbiddenIsNeverAsked ==
    \A q \in QuoteIds :
        verdict[q] # None /\ verdict[q].decision = "REQUIRE_AUTHORIZATION" =>
        LET x == quote[q]
            y == verdict[q].policy
        IN  /\ y.active /\ Within(x.total, y.ceiling)
            /\ x.merchant \notin y.blockedMerchants
            /\ \A i \in Goods(x) : CategoryOf[i.product] \notin {None} \union y.blockedCategories

\* No limit, or one as high.
AsHigh(limit, other, none) == limit = none \/ (other # none /\ other <= limit)
\* An empty list of what is allowed allows everything.
AsWide(list, other) == list = {} \/ (other # {} /\ other \subseteq list)

\* y is at least as generous as z in each of its limits and lists.
Looser(y, z) ==
    /\ z.active => y.active
    /\ AsHigh(y.perProduct, z.perProduct, 0) /\ AsHigh(y.inTotal, z.inTotal, 0)
    /\ AsHigh(y.ceiling, z.ceiling, None) /\ AsHigh(y.autoLimit, z.autoLimit, None)
    /\ AsHigh(y.shippingLimit, z.shippingLimit, None)
    /\ AsWide(y.allowedMerchants, z.allowedMerchants)
    /\ AsWide(y.allowedCategories, z.allowedCategories)
    /\ AsWide(y.allowedShipping, z.allowedShipping)
    /\ y.blockedMerchants \subseteq z.blockedMerchants
    /\ y.blockedCategories \subseteq z.blockedCategories
    /\ y.blockedProducts \subseteq z.blockedProducts
    /\ y.blockedShipping \subseteq z.blockedShipping

LooserPairs ==
    {pair \in Policies \X Policies : pair[1] # pair[2] /\ Looser(pair[1], pair[2])}

RuleReasons(x, y) == StandingReasons(x, y) \union GoodsReasons(x, y)

\* Loosening a policy never makes its answer stricter, in any of its limits
\* and lists, where zero, null and the empty list each mean no limit, and
\* although the threshold is looked at only below the ceiling.
LooserIsNeverStricter ==
    \A q \in QuoteIds, pair \in LooserPairs :
        quote[q] # None =>
            LET loose  == Decision(RuleReasons(quote[q], pair[1]))
                strict == Decision(RuleReasons(quote[q], pair[2]))
            IN  (loose = "DENY" => strict = "DENY") /\ (strict = "ALLOW" => loose = "ALLOW")
=============================================================================
