CONSTANTS
    n1 = n1
    p1 = p1
    p2 = p2
    t1 = t1
    r1 = r1
    r2 = r2
    r3 = r3
    None = None
    Names <- OneName
    Passwords <- TwoPasswords
    Tokens <- OneToken
    Requests <- ThreeRequests
    Duration = 1
    MaxTime = 3
    MaxFaults = 1
    MaxCrashes = 1
SYMMETRY Symmetry
SPECIFICATION Spec
INVARIANTS TypeOK LogoutHolds SessionsLast NamesKept
PROPERTIES AcceptedInTime
