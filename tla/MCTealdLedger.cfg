SPECIFICATION MCSpec
CONSTANTS
    r1 = r1  r2 = r2  r3 = r3
    g1 = g1
    None = None
    Standing = Standing
    Request <- Requests
    Grant <- OneGrant
    Policies <- AllEffects
    MaxEpoch = 2
    MaxUses = 2
    MaxSwitch = 1
    SocketRoom = 2
    LaneRoom = 1
    EventRoom = 1
    SendRoom = 1
INVARIANTS TicketsHaveEntries ReportsFindEntries LoggedAsTold
PROPERTIES Answered Recorded
CHECK_DEADLOCK FALSE
