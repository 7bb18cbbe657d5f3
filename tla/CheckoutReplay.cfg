\* One key used for the quotes of two users, by two threads that may crash.
CONSTANTS
    s1 = s1  s2 = s2  c1 = c1  u1 = u1  u2 = u2  w1 = w1  w2 = w2  k1 = k1
    None = None
    Sessions = {s1, s2}
    Carts = {c1}
    CartOf <- TwoCartOf
    Users = {u1, u2}
    Owner <- RivalOwners
    Workers = {w1, w2}
    Keys = {k1}
    StaleRecords <- NoStaleRecords
    Offered <- ValidateOnly
    Bodies = {None, s1}
    Ops = {"transition"}
    Events = {}
SPECIFICATION Spec
INVARIANTS ReplaysTellTheTruth VersionCountsTransitions
PROPERTY ReplayStaysWithOwner
