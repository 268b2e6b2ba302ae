CONSTANTS
    MaxEntries = 2
    l1 = l1
    l2 = l2
    Layers = {l1, l2}
    Experts = {e1, e2}
    Payloads = {p1, p2, p3, p4}
    NoPayload = NoPayload
    NoKey = NoKey
    Budget = 3
    Alignment = 1
    Sizes = {1}
    Targets = {0, 2}
    MinBaseBytes <- ByteFloors
    MinBaseEntries <- EntryFloors
    Policy = "LRU"
    MaxClock = 3
SPECIFICATION FairSpec
CHECK_DEADLOCK FALSE
PROPERTIES RefusalChangesNothing CallsReturn
