SPECIFICATION Spec
CONSTANTS
    Run = {1}
    MaxSize = 3
    HardwareDecode = TRUE
    Setups <- SoloSetups
INVARIANT BackupHeld
INVARIANT InstalledIsSound
PROPERTY ReplacesAtomically
PROPERTY CopiedTrashIsKept
CHECK_DEADLOCK FALSE
