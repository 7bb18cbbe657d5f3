\* Two threads on one cart of a merchant, additions and quotes with one key,
\* by its owner and by another session, which gets carts of its own.
CONSTANTS
    m1 = m1  m2 = m2  p1 = p1  p2 = p2  c1 = c1  c2 = c2  c3 = c3
    q1 = q1  q2 = q2  q3 = q3  k1 = k1  u1 = u1  u2 = u2  w1 = w1  w2 = w2
    None = None
    Merchants = {m1, m2}
    Codes <- AllCodes
    Clients = {u1, u2}
    Workers = {w1, w2}
    CartIds = {c1, c2, c3}
    QuoteIds = {q1, q2}
    Keys = {k1}
    MaxLines = 2
    Products = {p1}
    MerchantOf <- OwnMerchant
    Prices = {14995, 150000}
    StockLevels = {2}
    Options <- TwoOptions
    Promos <- TwoPromos
    FirstCarts <- OneCart
    Requests <- QuoteRequests
    Events = {"price", "day", "active", "stock"}
SYMMETRY Symmetric
SPECIFICATION CartSpec
INVARIANTS NothingFromNowhere OneMerchantPerCart QuoteAddsUp RepeatMakesNoQuote
