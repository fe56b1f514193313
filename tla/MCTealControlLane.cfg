SPECIFICATION FairSpec
CONSTANTS
    t1 = t1
    t2 = t2
    Thread <- TwoThreads
    MaxEvents = 2
    MaxId = 2
PROPERTIES StaleApprovalRefused ImplementsVerdict OperationsReturn OrphansReleased
