SPECIFICATION Spec
CONSTANTS
    Handlers = {h1, h2, h3}
    Devices = {d1}
    Workers = {w1}
    None = None
    MaxGlobalWebSockets = 2
SYMMETRY Symmetry
INVARIANTS
    TypeOK
    LiveIsReachable
    TokensExact
    RevokedIsCutOff
CHECK_DEADLOCK FALSE
