\* Three writers, so that a third one reads what two others left; five events.
SPECIFICATION LedgerSpec
CONSTANTS
    w1 = w1
    w2 = w2
    w3 = w3
    None = None
    Writers = {w1, w2, w3}
    MaxEvents = 5
INVARIANTS
    ParentsAreRecorded
PROPERTIES
    TableKeepsItsPromise
    ListKeepsItsPromise
CHECK_DEADLOCK FALSE
