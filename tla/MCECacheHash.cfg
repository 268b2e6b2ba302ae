CONSTANTS
    Keys = {k1, k2, k3, k4, k5}
    NoKey = NoKey
    MaxEntries = 2
    BucketCount = 4
    Homes = {0, 1, 2, 3}
    Empty = Empty
    Tombstone = Tombstone
SPECIFICATION Spec
SYMMETRY Symmetry
INVARIANTS LookupAgrees AnEmptyBucket
