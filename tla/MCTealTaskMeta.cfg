SPECIFICATION MetaSpec
CONSTANTS
    t1 = t1
    t2 = t2
    pa = pa
    pb = pb
    None = None
    Task <- TwoTasks
    Program <- TwoPrograms
    Grants <- OneEach
    MaxEpoch = 2
SYMMETRY Symmetry
INVARIANT PrivilegesGrounded
