SPECIFICATION FairSpec
CONSTANTS
    Conn = {k1}
    Name = {n1, n2}
    Null = Null
    SyndesisName <- SameName
    Socket = {s1}
    MaxVersion = 2
    MaxChanges = 3
    MaxFaults = 0
    MaxBreaks = 0
    MaxRestarts = 0
    MaxTrouble = 0
CONSTRAINT FewTroubles
PROPERTY DeletedIsRemoved
\* Nothing is left to do once every bound is reached and the periodic task died.
CHECK_DEADLOCK FALSE
