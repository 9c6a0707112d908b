CONSTANTS
    alice = alice
    bob = bob
    phone = phone
    laptop = laptop
    tablet = tablet
    m1 = m1
    m2 = m2
    short = short
    long = long
    r1 = r1
    r2 = r2
    r3 = r3
    r4 = r4
    None = None
    Users <- OneUser
    Devices <- OneDevice
    Owner <- OwnerOf
    MessageIds <- OneId
    Payloads <- OnePayload
    Size <- SizeOf
    Requests <- FourRequests
    Calls <- ToMyself
    MaxDevices = 1
    MaxMailboxMessages = 4
    MaxMailboxBytes = 4
    MaxEnvelopeBytes = 2
    MaxFaults = 0
SYMMETRY RequestSymmetry
SPECIFICATION Spec
PROPERTIES FanOutExtends
CHECK_DEADLOCK FALSE
