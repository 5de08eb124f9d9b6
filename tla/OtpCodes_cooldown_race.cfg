SPECIFICATION Spec
CONSTANTS
    r1 = r1
    r2 = r2
    r3 = r3
    o1 = o1
    o2 = o2
    o3 = o3
    c1 = c1
    c2 = c2
    None = None
    Requests <- ThreeRequests
    IssueRequests <- FirstTwo
    VerifyRequests <- OnlyLast
    Otps <- TwoOtps
    Codes <- OneCode
    Cooldown = 2
    Window = 3
    OtpMax = 2
    Life = 2
    MaxTime = 3
SYMMETRY Symmetry
INVARIANTS
    MailsSpaced
CHECK_DEADLOCK FALSE
