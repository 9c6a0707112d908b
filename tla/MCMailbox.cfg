CONSTANTS
    alice = alice
    bob = bob
    phone = phone
    laptop = laptop
    tablet = tablet
    m1 = m1
    m2 = m2
    short = short
    long = long
    r1 = r1
    r2 = r2
    r3 = r3
    r4 = r4
    None = None
    Users <- TwoUsers
    Devices <- ThreeDevices
    Owner <- OwnerOf
    MessageIds <- TwoIds
    Payloads <- TwoPayloads
    Size <- SizeOf
    Requests <- TwoRequests
    Calls <- AnyCall
    MaxDevices = 2
    MaxMailboxMessages = 2
    MaxMailboxBytes = 3
    MaxEnvelopeBytes = 2
    MaxFaults = 1
SYMMETRY RequestSymmetry
SPECIFICATION Spec
INVARIANTS TypeOK QuotaRespected RepliesAreTrue
PROPERTIES CausalOrder RevokedStaysClosed NoStranger FanOutReachesAll
CHECK_DEADLOCK FALSE
