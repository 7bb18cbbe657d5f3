\* Liveness: every request ends, with a key of yesterday among them.
CONSTANTS
    s1 = s1  s2 = s2  c1 = c1  u1 = u1  u2 = u2  w1 = w1  w2 = w2  k1 = k1
    None = None
    Sessions = {s1}
    Carts = {c1}
    CartOf <- OneCartOf
    Users = {}
    Owner <- Unowned
    Workers = {w1, w2}
    Keys = {k1}
    StaleRecords <- YesterdaysCancel
    Offered <- TwoActions
    Bodies = {None}
    Ops = {"transition", "get", "order"}
    Events = {"elapse"}
SPECIFICATION FairSpec
INVARIANT LockProtectsTheRow
PROPERTY EveryRequestIsAnswered
