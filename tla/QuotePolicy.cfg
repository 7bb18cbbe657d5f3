\* Every operation on a cart and its quotes by one thread, while a judge
\* evaluates the quotes against five policies.
CONSTANTS
    m1 = m1  m2 = m2  p1 = p1  p2 = p2  c1 = c1  c2 = c2  c3 = c3
    q1 = q1  q2 = q2  q3 = q3  k1 = k1  u1 = u1  u2 = u2  w1 = w1  w2 = w2
    None = None
    Merchants = {m1}
    Codes <- AllCodes
    Clients = {u1, u2}
    Workers = {w1}
    CartIds = {c1, c2}
    QuoteIds = {q1}
    Keys = {}
    MaxLines = 2
    Products = {p1, p2}
    MerchantOf <- OneMerchant
    Prices = {14995}
    StockLevels = {1, 2}
    Options <- TwoOptions
    Promos <- TwoPromos
    FirstCarts <- OneCart
    Requests <- PolicyRequests
    Events = {"stock", "merchant"}
    Judges = {j1}
    Policies <- SomePolicies
    Categories = {"LAPTOPS", "PHONES", "WEAPONS"}
    CategoryOf <- KnownAndNot
    j1 = j1
SPECIFICATION PolicySpec
INVARIANTS AllowRespectsPolicy ForbiddenIsNeverAsked LooserIsNeverStricter FreshQuoteShowsTheCart
