\* A client of two merchants, one cart of the engine, one session, and two
\* categories of which one has no rule to begin with.  No handler checks a
\* quantity: negative ones are among those that are sent.
CONSTANTS
    c1 = c1  c2 = c2  s1 = s1
    None = None
    Shops = {"merchant-b", "merchant-c"}
    Sizes <- SentSizes
    Codes = {"SUMMER_TECH_10", "unknown"}
    Policies <- TwoPolicies
    DefaultPolicy <- Open
    CartIds = {c1}
    SessionIds = {s1}
    Wanted = {"legion", "macbook"}
    Budgets = {None, 200000}
    Quantities <- OneBack
    Amounts = {9000, 70000, 160000}
    Categories = {"laptop", "toys"}
    NewRules <- Contradictory
    Tools = {"authorize_payment", "charge_cart"}
    WordsOf <- CartCharge
    MaxRequests <- Bounds
SPECIFICATION CommerceSpec
CHECK_DEADLOCK FALSE
INVARIANTS EveryCartAddsUp ChargesAreExplained OrdersAndLedgerAgree
PROPERTIES SettledOrdersStay PolicyBeforePurchase MandatesKeepToTheRules
