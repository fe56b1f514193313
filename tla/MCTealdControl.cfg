SPECIFICATION FairSpec
CONSTANTS
    u1 = u1  u2 = u2  roleA = roleA  roleB = roleB  c1 = c1  c2 = c2
    User <- TwoUsers
    Role <- TwoRoles
    Conn <- TwoConns
    Policies <- TwoPolicies
    Installed <- BothRoles
    MaxEpoch = 3
    MaxId = 2
    MaxStart = 2
    MaxOver = 1
    MaxQuiet = 2
    None = None
CHECK_DEADLOCK FALSE
INVARIANTS QuorumBehind RunsInItsEpoch DirectoryInForce ModesAgree
PROPERTIES RunsOnce ImplementsHandover CommandsEnd
