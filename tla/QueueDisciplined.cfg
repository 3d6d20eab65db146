SPECIFICATION Spec
CONSTANTS
    Job = {1, 2}
    File = {"movie"}
    FileOf <- OneFile
    Library = {"films"}
    LibOf <- OneLibrary
    PriorityOf <- SamePriority
    Worker = {"A", "B"}
    NoWorker = NoWorker
    SkipLocked = TRUE
    Runner = {"a1", "b1"}
    WorkerOf <- TwoWorkers
    NoJob = NoJob
    MaxConcurrent = 1
    LibraryCap <- NoLibraryCap
    Enabled = {"films"}
    HardwareDecode = TRUE
    Maintainer = "A"
    Env = {"add", "retry", "cancel", "delete", "crash", "stop", "vanish", "container", "copy"}
INVARIANT RunnersOwnTheirRows
INVARIANT ActiveRowsAreWorkedOn
INVARIANT OneRunPerFile
PROPERTY TerminalIsFinal
PROPERTY ImplementsWorkQueue
