\* Two orders for one quote at the same time.
CONSTANTS
    s1 = s1  s2 = s2  c1 = c1  u1 = u1  u2 = u2  w1 = w1  w2 = w2  k1 = k1
    None = None
    Sessions = {s1}
    Carts = {c1}
    CartOf <- OneCartOf
    Users = {}
    Owner <- Unowned
    Workers = {w1, w2}
    Keys = {}
    StaleRecords <- NoStaleRecords
    Offered <- TwoActions
    Bodies = {None}
    Ops = {"order"}
    Events = {}
SPECIFICATION Spec
INVARIANT OneOrderPerSession
