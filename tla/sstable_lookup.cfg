CONSTANTS
    MCMaxKey = 12
    v = v
    t = t
    Key <- MCKey
    Val <- MCVal
    Tables <- MCTables
    Interval = 2
    NumHashes = 2
    BitsPerKey = 1
    MinBits = 5
    Word = 16
    H1 <- MCH1
    H2 <- MCH2
SPECIFICATION Spec
INVARIANTS TypeOK NoFalseNegatives SearchInBounds LookupExact
PROPERTY LookupTerminates
