CONSTANTS
    N = 8
    Width = 8
    Adders = {sched}
    MaxAdds = 60
    NoJob = NoJob
    NoIdx = NoIdx
SPECIFICATION Spec
PROPERTY WindowRefined
