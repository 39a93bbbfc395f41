CONSTANTS
    Key = {k1, k2}
    Value = {v1, v2}
    Tombstone = Tombstone
    Absent = Absent
    Torn = Torn
    Placeholder = Placeholder
    NoOp = NoOp
    FlushThreshold = 3
    COMPACTION_THRESHOLD = 2
    Faults = {"torn", "append_error", "build_error", "disk_full", "open_error",
              "clear_error", "unlink_error", "validate_error"}
    CrashPoints = {"idle", "append", "apply", "flush", "install", "truncate", "compact", "swap", "cleanup"}
    MaxFaults = 2
    MaxWal = 2
    MaxSeq = 4
SPECIFICATION Spec
SYMMETRY Symmetry
INVARIANTS TypeOK DurabilityInv PutsDurable DeletesDurable ReadYourWrites SSTablesOrdered
PROPERTIES OpenTablesImmutable RestartKeepsPromises
