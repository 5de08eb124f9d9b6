SPECIFICATION Spec
CONSTANTS
    alice = alice
    root = root
    r1 = r1
    r2 = r2
    r3 = r3
    g1 = g1
    g2 = g2
    g3 = g3
    None = None
    Users <- TwoUsers
    Staff <- OneStaff
    Requests <- ThreeRequests
    LogoutRequests <- OneLogout
    Grants <- ThreeGrants
    MaxVersion = 2
SYMMETRY Symmetry
INVARIANTS
    TypeOK
    OneLivePerLogin
    FamilyVersion
    CurrentLoginHasLiveRow
PROPERTIES
    NoResurrection
    LogoutEndsSessions
    ImplementsSessions
CHECK_DEADLOCK FALSE
