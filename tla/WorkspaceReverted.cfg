SPECIFICATION Spec
CONSTANTS
    View = {w1}
    Good = {g1, g2}
    Partial = {}
    Unusable = {}
    Sourceless = g1
    File <- SomeFiles
    Null = Null
    Thread = {t1}
    MaxInputs = 4
CHECK_DEADLOCK FALSE
PROPERTY RevertsToOld
