SPECIFICATION Spec
CONSTANTS
    Run = {1}
    MaxSize = 2
    HardwareDecode = TRUE
    Setups <- TrashSetups
PROPERTY TrashIsKept
CHECK_DEADLOCK FALSE
