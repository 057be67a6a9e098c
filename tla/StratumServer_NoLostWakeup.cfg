CONSTANTS
    Conns = {c1, c2, c3}
    MaxConn <- MCMaxConn
    MaxSessions <- MCMaxSessions
    MaxInstalls <- MCMaxInstalls
    Templates = {t1, t2}
    NoTemplate = NoTemplate
    NoConn = NoConn
    TickerEnabled = FALSE
SYMMETRY MCSymmetry
SPECIFICATION Spec
INVARIANT NoLostWakeup
