SPECIFICATION HashSpec
CONSTANTS
    f1 = f1
    f2 = f2
    t1 = t1
    t2 = t2
    None = None
    Failed = Failed
    File <- TwoFiles
    Task <- TwoTasks
    MaxVersion = 3
    MaxTime = 2
    MaxExec = 2
INVARIANTS HashOfOneVersion HashOfWhatRuns
SYMMETRY Alike
CHECK_DEADLOCK FALSE
