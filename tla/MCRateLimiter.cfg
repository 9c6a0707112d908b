CONSTANTS
    k1 = k1
    k2 = k2
    g1 = g1
    g2 = g2
    g3 = g3
    s1 = s1
    None = None
    Keys <- TwoKeys
    Shards <- OneShard
    ShardOf <- AllInOne
    MaxKeys = 1
    Limit = 3
    ConnLimit = 2
    Window = 2
    FirstCapacity = 1
    Goroutines <- ThreeGoroutines
    MaxTime = 4
SYMMETRY Symmetry
SPECIFICATION Spec
INVARIANTS TypeOK RingHoldsLog WindowRespected GaugeIsExact
