CONSTANTS
    MaxEntries = 3
    l1 = l1
    l2 = l2
    Layers = {l1, l2}
    Experts = {e1, e2}
    Payloads = {p1, p2, p3, p4}
    NoPayload = NoPayload
    NoKey = NoKey
    Budget = 6
    Alignment = 2
    Sizes = {1, 3}
    Targets = {0, 3}
    MinBaseBytes <- ByteFloors
    MinBaseEntries <- EntryFloors
    Policy = "2Q"
    MaxClock = 4
SPECIFICATION Spec
SYMMETRY Symmetry
CHECK_DEADLOCK FALSE
INVARIANTS Accounting WithinBudget HandlesOwnedOnce RoomPromiseKept LeavesInOrder
PROPERTIES FloorsKept OnlyNewestMoves RefusalChangesNothing
