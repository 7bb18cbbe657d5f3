\* One session id the caller makes up and one that is generated; two tasks.
SPECIFICATION SessionSpec
CONSTANTS
    u1 = u1
    s1 = s1
    s2 = s2
    None = None
    Loop = loop
    Users = {u1}
    Given = {s2}
    Fresh = {s1}
    Pool = {p1}
    MaxTasks = 2
    Statuses = {"COMPLETED"}
    Outcomes = {"COMPLETED"}
    Requests <- EveryRequest
INVARIANTS
    CacheTrailsDatabase
    SerialRequestsAgree
PROPERTIES
    DeletedStateFades
