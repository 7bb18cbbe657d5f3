\* Every action of the table, two threads, one quote, no keys: the whole
\* lifecycle under concurrent transitions, gets, orders and crashes.
CONSTANTS
    s1 = s1  s2 = s2  c1 = c1  u1 = u1  u2 = u2  w1 = w1  w2 = w2  k1 = k1
    None = None
    Sessions = {s1}
    Carts = {c1}
    CartOf <- OneCartOf
    Users = {}
    Owner <- Unowned
    Workers = {w1, w2}
    Keys = {}
    StaleRecords <- NoStaleRecords
    Offered <- Actions
    Bodies = {None}
    Ops = {"transition", "get", "order"}
    Events = {"elapse", "drift"}
SPECIFICATION Spec
INVARIANTS TypeOK PaymentFollowsAuthorization
PROPERTY ImplementsLifecycle
