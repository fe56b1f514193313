SPECIFICATION FairSpec
CONSTANTS
    a1 = a1
    a2 = a2
    b1 = b1
    procA = procA
    procB = procB
    Socket <- TwoAndOne
    Proc <- Processes
    Owner <- OwnerOf
    NoSocket = NoSocket
    NoProc = NoProc
    MaxEpoch = 3
INVARIANTS SessionPaired FlushComplete
PROPERTIES NoCurrentTicketLost ImplementsClock LeftoversFlushed
