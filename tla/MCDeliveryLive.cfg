CONSTANTS
    m1 = m1
    m2 = m2
    d1 = d1
    s1 = s1
    Items <- TwoItems
    Devices <- OneDevice
    Recipient <- ToOneDevice
    Slots <- OneSlot
    DeliveryLockDuration = 2
    AcknowledgmentTimeout = 1
    InitialBackoffDuration = 1
    MaximumBackoffDuration = 2
    TerminalRetryBackoff = 1
    MaximumRetryAttempts = 0
    MessageTTL = 1
    DeliveryBatchSize = 1
    MaxTime = 0
    MaxFaults = 1
SPECIFICATION LiveSpec
PROPERTIES DueRowsAttended
