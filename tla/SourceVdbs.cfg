SPECIFICATION FairSpec
CONSTANTS
    Conn = {k1, k2}
    Name = {n1}
    TeiidName <- OneName
    Executor = executor
    Rest = {r1}
    Load = {l1, l2}
    Dv = {v1}
    Null = Null
    MaxMetadata = 1
    MaxInputs = 3
    MaxFaults = 1
    MaxRestarts = 1
    MaxTrouble = 3
CONSTRAINT FewTroubles
INVARIANTS
    TypeOK
    MasterIsDeployed
    MasterCatchesUp
    PreviewsAtMostOneBehind
    DeletedSourceServesNothing
PROPERTIES
    OnlyExecutorUndeploys
    
    OwnMetadata
    
    
    VdbsConverge
