SPECIFICATION Spec
CONSTANTS
    r1 = r1
    r2 = r2
    r3 = r3
    o1 = o1
    o2 = o2
    o3 = o3
    c1 = c1
    c2 = c2
    None = None
    Requests <- TwoRequests
    IssueRequests <- FirstTwo
    VerifyRequests <- FirstTwo
    Otps <- ThreeOtps
    Codes <- TwoCodes
    Cooldown = 1
    Window = 2
    OtpMax = 2
    Life = 2
    MaxTime = 3
SYMMETRY Symmetry
VIEW WithoutMails
INVARIANTS
    TypeOK
    CodesSpaced
    CodesPerWindow
    OneUsableCode
    LoginEndsCodes
CHECK_DEADLOCK FALSE
