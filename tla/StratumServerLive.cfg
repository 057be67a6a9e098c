CONSTANTS
    Conns = {c1, c2}
    MaxConn <- MCMaxConn
    MaxSessions <- MCMaxSessions
    MaxInstalls = 2
    Templates = {t1, t2}
    NoTemplate = NoTemplate
    NoConn = NoConn
    TickerEnabled = TRUE
SPECIFICATION FairSpec
PROPERTY JobFreshness
PROPERTY SchedulerStops
