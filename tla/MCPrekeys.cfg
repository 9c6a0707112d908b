CONSTANTS
    alice = alice
    bob = bob
    phone = phone
    laptop = laptop
    retry = retry
    r1 = r1
    r2 = r2
    r3 = r3
    None = None
    Users <- TwoUsers
    Devices <- TwoDevices
    Owner <- OwnerOf
    Kinds <- BothKinds
    KeyIds <- ThreeIds
    IdempotencyKeys <- OneRetry
    Requests <- ThreeRequests
    Calls <- SomeCalls
    MaxBatch = 2
    MaxPrekeys = 2
    MaxFaults = 1
SYMMETRY RequestSymmetry
SPECIFICATION Spec
INVARIANTS TypeOK RetriesAgree ClaimsEntitled
PROPERTIES ClaimsAreAtomic
CHECK_DEADLOCK FALSE
