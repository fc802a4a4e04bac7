SPECIFICATION FairSpec
CONSTANTS
    Vdb = {v1}
    Client = {c1, c2}
    Worker = {w1, w2}
    MaxJobs = 2
    MaxFaults = 1
    MaxDeletes = 0
    Droppable = {v1}
    MaxCrashes = 1
    MaxEvents = 3
INVARIANT OneRunnerPerJob
PROPERTIES
    
    PublishesInOrder
\* Every thread waits once the bounded requests are served.
CHECK_DEADLOCK FALSE
