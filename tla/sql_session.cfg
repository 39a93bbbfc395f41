CONSTANTS
    Session = {s1}
    Table = {t1}
    Pk = {1, 2}
    Val = {v1}
    Null = Null
    None = None
    Hidden = {2}
    Nothing = Nothing
    Statements = {"create", "drop", "insert", "select", "update", "delete"}
    MaxFaults = 3
SPECIFICATION Spec
SYMMETRY Symmetry
INVARIANTS TypeOK NoOrphanRows CacheCoherent InsertedRowsConform
PROPERTIES InsertNeverOverwrites UpdateNeverCreates
