SPECIFICATION FairSpec
CONSTANTS
    Job = {j1, j2, j3}
    MaxConcurrent = 2
    Sessions = 2
    Configs <- FourConfigs
PROPERTY NoRoundDuringProgress
PROPERTY StaleDriverIsNoticed
PROPERTY DeadDeviceIsLeft
PROPERTY JobsGetThrough
