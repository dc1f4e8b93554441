\* Three workers, batches of up to five jobs, threads that cannot be created.
SPECIFICATION FairSpec
CONSTANTS
    ThreadCount = 3
    MaxJobs = 5
    CreateMayFail = TRUE
INVARIANTS
    TypeOK
    EachJobOnce
    ThreadNumbersDiffer
PROPERTIES
    ImplementsExecutor
    FreeReturns
CHECK_DEADLOCK FALSE
