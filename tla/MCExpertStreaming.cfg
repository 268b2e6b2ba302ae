CONSTANTS
    MaxEntries = 2
    Layers = {l1}
    Experts = {1, 2, 3, 4}
    Payloads = {1, 2, 3, 4}
    NoPayload = NoPayload
    NoKey = NoKey
    Budget = 8
    Alignment = 1
    Sizes = {3, 5}
    Targets = {0, 1, 2, 3, 4, 5, 6, 7, 8}
    MinBaseBytes <- NoFloors
    MinBaseEntries <- EntryFloors
    Policy = "LRU"
    MaxClock = 3
    Batch = 2
    Routings <- SomeRoutings
    PoolCap = 1
    Slabs = {1, 2, 3, 4, 5, 6}
    NoSlab = 0
    SlotBytes = 1
    ExpertSize <- SizesOnDisk
    None = None
    Spare = Spare
    Nowhere = Nowhere
SPECIFICATION StreamSpec
INVARIANTS BuffersOwnedOnce CacheHoldsItsExperts ComputesWithRouted
PROPERTIES CallsReturn
