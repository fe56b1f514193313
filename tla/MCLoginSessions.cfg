SPECIFICATION LoginSpec
CONSTANTS
    s1 = s1
    s2 = s2
    u1 = u1
    u2 = u2
    tty = tty
    address = address
    Unknown = Unknown
    Nobody = Nobody
    Session <- TwoSessions
    User <- TwoUsers
    From <- OneAddress
    Tty <- OneTty
    MaxFlight = 3
INVARIANT SessionIsWhoIsIn
SYMMETRY Alike
