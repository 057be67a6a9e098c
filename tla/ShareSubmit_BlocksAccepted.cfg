CONSTANTS
    t1 = t1
    t2 = t2
    t3 = t3
    Templates <- MCTemplates
    Height <- MCHeight
    Nonces = {n1}
    N = 2
    MaxJobs = 3
    MaxSubmits = 3
    MaxInstalls = 3
    MaxOutages = 1
    NoTemplate = NoTemplate
SPECIFICATION Spec
CHECK_DEADLOCK FALSE
PROPERTY BlocksAccepted
