CONSTANTS
    Sessions = {s1, s2}
    Miners = {m1}
    MinerOf <- MCMinerOf
    BanPeriod = 2
    SweepGrace = 3
    BanThreshold = 2
    MaxTime = 7
    MaxCount = 3
    NoBan = NoBan
SPECIFICATION FairSpec
PROPERTY StaleEntriesSwept
