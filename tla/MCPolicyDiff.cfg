SPECIFICATION Spec
CONSTANTS
    u1 = u1  u2 = u2  admin = admin  officer = officer  alice = alice
    Uid <- TwoUids
    Role <- TwoRoles
    Name <- OneName
    Gid = {}
    Group = {}
    UidOf <- NameOf
    Path <- Paths
    Under <- Tree
    Pattern = {}
    Glob <- Nothing
    Op <- Ops
    Rename = "rename"
    Net = {}
    Hosts <- Nothing
    Address = {}
    Auth = {}
    Applet = {}
    RuleId = {"allow"}
    WeekDay <- Day
    IsoWeek <- Week
    Directories <- Updates
    Requests <- AllRequests
    Instants <- TwoMondays
    MaxLoads = 2
    None = None
    Bad = Bad
CHECK_DEADLOCK FALSE
INVARIANTS SilentDiffChangesNothing
