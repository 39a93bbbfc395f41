CONSTANTS
    Key = {k1, k2}
    Value = {v1, v2}
    Tombstone = Tombstone
    Absent = Absent
    Torn = Torn
    Placeholder = Placeholder
    NoOp = NoOp
    FlushThreshold = 2
    COMPACTION_THRESHOLD = 2
    Faults = {"build_error", "clear_error"}
    CrashPoints = {"idle", "append", "apply", "flush", "install", "truncate", "compact", "swap"}
    MaxFaults = 2
    MaxWal = 2
    MaxSeq = 4
SPECIFICATION Spec
SYMMETRY Symmetry
INVARIANT NoPlaceholder
PROPERTY RefinesKVStore
