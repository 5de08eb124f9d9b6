SPECIFICATION Spec
CONSTANTS
    u1 = u1
    u2 = u2
    u3 = u3
    ada = ada
    admin = admin
    g1 = g1
    g2 = g2
    r1 = r1
    r2 = r2
    r3 = r3
    None = None
    Users <- TwoUsers
    Emails <- TwoEmails
    AdminEmail = admin
    GoogleIds <- TwoGoogleIds
    GoogleTokens <- AllTokens
    Requests <- TwoRequests
    GoogleRequests <- OnlyFirst
SYMMETRY Symmetry
PROPERTIES
    NoAutoLink
