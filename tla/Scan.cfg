SPECIFICATION FairSpec
CONSTANTS
    Path = {"film"}
    Codec = {"h264", "hevc"}
    NoCodec = NoCodec
    NoEntry = NoEntry
    Libraries <- Shared
    CacheLimit = 1
    MaxWrites = 2
    MaxRequests = 2
    MaxFaults = 1
INVARIANT CacheIsTrue
INVARIANT NoScanRequestLost
PROPERTY ScanAddsOnlyWanted
PROPERTY RequestedScanRuns
PROPERTY WantedFilesAreQueued
