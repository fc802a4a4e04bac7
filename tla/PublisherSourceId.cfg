SPECIFICATION Spec
CONSTANTS
    Vdb = {v1}
    Client = {c1}
    Worker = {w1}
    MaxJobs = 1
    MaxFaults = 0
    MaxDeletes = 1
    Droppable = {}
    MaxCrashes = 0
    MaxEvents = 3
INVARIANT SourceIdExists
\* Every thread waits once the bounded requests are served.
CHECK_DEADLOCK FALSE
