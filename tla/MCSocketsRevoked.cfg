SPECIFICATION Spec
CONSTANTS
    Handlers = {h1, h2}
    Devices = {d1}
    Workers = {w1}
    None = None
    MaxGlobalWebSockets = 2
SYMMETRY Symmetry
INVARIANT RevokedIsOffline
CHECK_DEADLOCK FALSE
