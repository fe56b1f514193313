SPECIFICATION Spec
CONSTANTS
    u1 = u1
    u2 = u2
    roleA = roleA
    roleB = roleB
    c1 = c1
    c2 = c2
    r1 = r1
    r2 = r2
    None = None
    User <- TwoUsers
    Role <- TwoRoles
    Conn <- TwoConns
    Request <- OneRequest
    Policies <- RulesByRole
    MaxEpoch = 2
    MaxDraft = 1
    MaxStart = 1
    MaxLane = 1
INVARIANT AllowedOnGrounds
PROPERTY DispatchInStep
SYMMETRY Alike
