CONSTANTS
    Key = {k1, k2}
    Value = {1}
    Tombstone = Tombstone
    Absent = Absent
    Reader = {r1, r2}
    KEY_SIZE = 1
    SIZE_RANGE = 16
    FlushThreshold = 2
    COMPACTION_THRESHOLD = 4
    MaxWrites = 3
SPECIFICATION Spec
SYMMETRY Symmetry
INVARIANT ScansComplete
