SPECIFICATION Spec
CONSTANTS
    View = {w1, w2}
    Good = {g1, g2}
    Partial = {p1}
    Unusable = {u1}
    Sourceless = g1
    File <- SomeFiles
    Null = Null
    Thread = {t1, t2}
    MaxInputs = 5
SYMMETRY Symmetry
CHECK_DEADLOCK FALSE
INVARIANTS
    TypeOK
    
    
PROPERTIES
    EditionsConsistent
    EditionsAreKept
    
