CONSTANTS
    Key = {k1}
    Value = {1, 2}
    Tombstone = Tombstone
    Absent = Absent
    Reader = {r1, r2}
    KEY_SIZE = 1
    SIZE_RANGE = 16
    FlushThreshold = 3
    COMPACTION_THRESHOLD = 2
    MaxWrites = 4
SPECIFICATION Spec
SYMMETRY Symmetry
INVARIANTS TypeOK GetsAtomic ScansRegular NothingHidden SizeExact
