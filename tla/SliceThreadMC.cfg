SPECIFICATION FairSpec
CONSTANTS
    NThreads = 4
    MaxJobs = 5
INVARIANTS
    TypeOK
    NoWorkerLeftBehind
PROPERTIES
    CallsEnd
    ImplementsParallelFor
