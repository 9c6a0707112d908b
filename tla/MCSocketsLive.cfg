SPECIFICATION FairSpec
CONSTANTS
    Handlers = {h1}
    Devices = {d1}
    Workers = {w1, w2}
    None = None
    MaxGlobalWebSockets = 1
INVARIANTS
    OneWriter
PROPERTIES
    CallsReturn
    ClosedEnds
CHECK_DEADLOCK FALSE
