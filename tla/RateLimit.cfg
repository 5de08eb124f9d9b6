SPECIFICATION Spec
CONSTANTS
    ip1 = ip1
    ip2 = ip2
    Ips <- TwoIps
    MaxHits <- SmallMaxHits
    WindowSeconds <- SmallWindow
    Asked <- SomeLines
    Origins <- SomeOrigins
    MaxTime = 4
    MaxRequests = 5
SYMMETRY Symmetry
INVARIANTS
    TypeOK
    AtMostMaxPerWindow
PROPERTIES
    ImplementsSlidingWindow
