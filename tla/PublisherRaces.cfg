SPECIFICATION Spec
CONSTANTS
    Vdb = {v1}
    Client = {c1}
    Worker = {w1, w2}
    MaxJobs = 2
    MaxFaults = 1
    MaxDeletes = 2
    Droppable = {}
    MaxCrashes = 0
    MaxEvents = 3
SYMMETRY Symmetry
CONSTRAINT FewEvents
INVARIANTS
    TypeOK
    
    PendingIsMonitored
    OneBuildPerJob
\* Every thread waits once the bounded requests are served.
CHECK_DEADLOCK FALSE
