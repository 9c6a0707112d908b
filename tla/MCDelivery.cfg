CONSTANTS
    m1 = m1
    m2 = m2
    d1 = d1
    s1 = s1
    s2 = s2
    s3 = s3
    Items <- OneItem
    Devices <- OneDevice
    Recipient <- ToOneDevice
    Slots <- TwoSlots
    DeliveryLockDuration = 2
    AcknowledgmentTimeout = 1
    InitialBackoffDuration = 1
    MaximumBackoffDuration = 2
    TerminalRetryBackoff = 1
    MaximumRetryAttempts = 1
    MessageTTL = 4
    DeliveryBatchSize = 1
    MaxTime = 6
    MaxFaults = 1
SYMMETRY SlotSymmetry
SPECIFICATION Spec
INVARIANTS TypeOK LeaseExclusion RetryCountBounded SentBounded PushedOnce
PROPERTIES NoResendBeforeDeadline AttemptsAreBooked
CHECK_DEADLOCK FALSE
