SPECIFICATION Spec
CONSTANTS
    u1 = u1  u2 = u2  admin = admin  officer = officer  alice = alice  ghost = ghost  wheel = wheel  sudo = sudo
    Uid <- TwoUids
    Role <- TwoRoles
    Name <- TwoNames
    Gid <- OneGid
    Group <- OneGroup
    UidOf <- NameOf
    Path <- Paths
    Under <- Tree
    Pattern <- Patterns
    Glob <- Globs
    Op <- Ops
    Rename = "rename"
    Net <- OneNet
    Hosts <- Lan
    Address <- Addresses
    Auth <- Auths
    Applet <- Applets
    RuleId <- Ids
    WeekDay <- Day
    IsoWeek <- Week
    Directories <- AllDirectories
    Requests <- AllRequests
    Instants <- AllInstants
    MaxLoads = 1
    None = None
    Bad = Bad
CHECK_DEADLOCK FALSE
INVARIANTS DecisionByPriority ScopeCovers WindowsAsWritten  QuorumReachable
