SPECIFICATION FairSpec
CONSTANTS
    s1 = s1  s2 = s2
    p1 = p1  p2 = p2  px = px
    o1 = o1  o2 = o2  o3 = o3  o4 = o4  w1 = w1  w2 = w2
    None = None
    Sessions = {s1, s2}
    Products = {p1, p2}
    Catalogue = {p1, p2, px}
    ItemsOf <- CrossedItems
    Stock <- ScarceStock
    OrderIds = {o1, o2, o3, o4}
    Workers = {w1, w2}
    Quantities = {1, 2}
    Targets = {}
INVARIANTS
    TypeOK
    StockConserved
    FlushedFitsTheRow
    SoldWasOrdered
PROPERTIES
    EveryRequestEnds
