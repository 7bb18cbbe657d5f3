SPECIFICATION Spec
CONSTANTS
    s1 = s1  s2 = s2
    p1 = p1  p2 = p2  px = px
    o1 = o1  o2 = o2  o3 = o3  o4 = o4  w1 = w1  w2 = w2
    None = None
    Sessions = {s1}
    Products = {p1}
    Catalogue = {p1, p2, px}
    ItemsOf <- OneItem
    Stock <- SingleStock
    OrderIds = {o1, o2}
    Workers = {w1, w2}
    Quantities = {}
    Targets <- AllTargets
INVARIANTS
    DeliveryPassesEveryStage
