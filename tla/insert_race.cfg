CONSTANTS
    Session = {s1, s2}
    Table = {t1}
    Pk = {1}
    Val = {v1, v2}
    Null = Null
    None = None
    Hidden = {}
    Nothing = Nothing
    Statements = {"create", "insert"}
    MaxFaults = 0
SPECIFICATION Spec
SYMMETRY Symmetry
PROPERTY InsertNeverOverwrites
