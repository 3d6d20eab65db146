SPECIFICATION FairSpec
CONSTANTS
    Job = {1}
    File = {"movie"}
    FileOf <- OneFile
    Library = {"films"}
    LibOf <- OneLibrary
    PriorityOf <- SamePriority
    Worker = {"A", "B"}
    NoWorker = NoWorker
    SkipLocked = FALSE
    Runner = {"a1", "b1"}
    WorkerOf <- TwoWorkers
    NoJob = NoJob
    MaxConcurrent = 1
    LibraryCap <- NoLibraryCap
    Enabled = {"films"}
    HardwareDecode = TRUE
    Maintainer = "A"
    Env = {"add", "cancel", "crash", "stop", "stall", "reclaim_fails"}
PROPERTY StuckJobsAreResolved
PROPERTY CancelTakesEffect
PROPERTY JobsSettle
