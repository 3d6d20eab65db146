SPECIFICATION Spec
SYMMETRY RowIds
CONSTANTS
    j1 = j1
    j2 = j2
    Job = {j1, j2}
    File = {"movie"}
    FileOf <- OneFile
    Library = {"films"}
    LibOf <- OneLibrary
    PriorityOf <- SamePriority
    Worker = {"A", "B"}
    NoWorker = NoWorker
    SkipLocked = TRUE
    Runner = {"a1", "b1"}
    WorkerOf <- TwoWorkers
    NoJob = NoJob
    MaxConcurrent = 1
    LibraryCap <- NoLibraryCap
    Enabled = {"films"}
    HardwareDecode = TRUE
    Maintainer = "A"
    Env = {"add", "retry_active", "late_requeue", "delete", "crash", "stop", "reclaim_fails", "stall", "maintenance", "container", "copy"}
INVARIANT TypeOK
INVARIANT ClaimIntegrity
INVARIANT ClaimedFilesAreExclusive
