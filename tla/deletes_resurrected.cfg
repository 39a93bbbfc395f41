CONSTANTS
    Key = {k1, k2}
    Value = {v1, v2}
    Tombstone = Tombstone
    Absent = Absent
    Torn = Torn
    Placeholder = Placeholder
    NoOp = NoOp
    FlushThreshold = 2
    COMPACTION_THRESHOLD = 4
    Faults = {}
    CrashPoints = {"cleanup"}
    MaxFaults = 2
    MaxWal = 3
    MaxSeq = 6
SPECIFICATION Spec
SYMMETRY Symmetry
PROPERTY DeletedKeysStayDeleted
