SPECIFICATION FairSpec
CONSTANTS
    Conn = {k1, k2}
    Name = {n1, n2}
    Null = Null
    SyndesisName <- SameName
    Socket = {s1}
    MaxVersion = 2
    MaxFaults = 1
    MaxBreaks = 1
    MaxRestarts = 1
    MaxTrouble = 1
    MaxChanges = 3
CONSTRAINT FewTroubles
INVARIANTS
    TypeOK
    
PROPERTIES
    SchemaKept
    
    Converges
\* Nothing is left to do once every bound is reached and the periodic task died.
CHECK_DEADLOCK FALSE
