SPECIFICATION Spec
CONSTANTS
    Job = {1, 2, 3, 4}
    File = {"movie", "show", "clip", "trailer"}
    FileOf <- FourFiles
    Library = {"films", "tv"}
    LibOf <- TwoLibraries
    PriorityOf <- TwoPriorities
    Worker = {"A", "B"}
    NoWorker = NoWorker
    SkipLocked = TRUE
    Runner = {"a1", "a2", "b1", "b2"}
    WorkerOf <- FourRunners
    NoJob = NoJob
    MaxConcurrent = 2
    LibraryCap <- FilmsOne
    Enabled = {"films", "tv"}
    HardwareDecode = FALSE
    Maintainer = "A"
    Env = {"add", "retry"}
 
INVARIANT ActiveCap
INVARIANT ConcurrencyCap
INVARIANT OwnCap
