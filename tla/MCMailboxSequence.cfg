CONSTANTS
    alice = alice
    bob = bob
    phone = phone
    laptop = laptop
    tablet = tablet
    m1 = m1
    m2 = m2
    short = short
    long = long
    r1 = r1
    r2 = r2
    r3 = r3
    r4 = r4
    None = None
    Users <- TwoUsers
    Devices <- TwoDevices
    Owner <- OwnerOf
    MessageIds <- TwoIds
    Payloads <- OnePayload
    Size <- SizeOf
    Requests <- TwoRequests
    Calls <- Envelopes
    MaxDevices = 2
    MaxMailboxMessages = 2
    MaxMailboxBytes = 2
    MaxEnvelopeBytes = 2
    MaxFaults = 0
SYMMETRY RequestSymmetry
SPECIFICATION Spec
INVARIANTS SequenceUnique
CHECK_DEADLOCK FALSE
