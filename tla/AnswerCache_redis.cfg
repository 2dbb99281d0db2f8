SPECIFICATION Spec
INVARIANTS TypeOK ExactFresh  SemanticFresh
SYMMETRY Symmetry
CONSTANTS
    Docs = {d1}
    Queries = {q}
    Askers = {r1, r2}
    Mutators = {m1}
    Redis = TRUE
    MaxAsks = 2
    MaxChanges = 2
    MaxFaults = 1
    Null = Null
    NoEntry = NoEntry
    NoScope = NoScope
CHECK_DEADLOCK FALSE
