SPECIFICATION FairSpec
CONSTANTS
    Slots = 1
    MaxJobs = 2
    MaxRings = 2
    MaxFaults = 2
    Wirings = {"inprocess", "listen"}
INVARIANT NoLostWakeup
PROPERTY WorkIsTaken
PROPERTY PauseTakesEffect
