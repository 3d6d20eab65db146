SPECIFICATION FairSpec
CONSTANTS
    Configs <- AllConfigs
    Dir <- InnerDir
    Codecs <- AllCodecs
    Files <- AllFiles
    Containers <- AllContainers
    AllowHardlinked = FALSE
INVARIANT RulesAgree
INVARIANT OwnWorkIsLeft
INVARIANT NoEncodeIsRepeated
INVARIANT NoFalseDolbyVision
INVARIANT SubtitlesFit
PROPERTY WantedAudioSurvives
PROPERTY WorkRunsOut
PROPERTY ScansSettle
CHECK_DEADLOCK FALSE
