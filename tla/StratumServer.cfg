CONSTANTS
    Conns = {c1, c2, c3}
    MaxConn <- MCMaxConn
    MaxSessions <- MCMaxSessions
    MaxInstalls = 1
    Templates = {t1}
    NoTemplate = NoTemplate
    NoConn = NoConn
    TickerEnabled = FALSE
SYMMETRY MCSymmetry
SPECIFICATION Spec
INVARIANT TypeOK
INVARIANT IdOwnership
