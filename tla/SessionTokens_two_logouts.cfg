SPECIFICATION Spec
CONSTANTS
    alice = alice
    root = root
    r1 = r1
    r2 = r2
    r3 = r3
    g1 = g1
    g2 = g2
    g3 = g3
    None = None
    Users <- OneUser
    Staff <- NoStaff
    Requests <- ThreeRequests
    LogoutRequests <- TwoLogouts
    Grants <- TwoGrants
    MaxVersion = 2
PROPERTIES
    NoResurrection
CHECK_DEADLOCK FALSE
