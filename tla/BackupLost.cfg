SPECIFICATION Spec
CONSTANTS
    Run = {1, 2}
    MaxSize = 3
    HardwareDecode = TRUE
    Setups <- OverlapSetups
INVARIANT BackupHeld
CHECK_DEADLOCK FALSE
