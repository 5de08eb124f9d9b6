SPECIFICATION FairSpec
CONSTANTS
    r1 = r1
    r2 = r2
    r3 = r3
    o1 = o1
    o2 = o2
    o3 = o3
    c1 = c1
    c2 = c2
    None = None
    Requests <- TwoRequests
    IssueRequests <- FirstTwo
    VerifyRequests <- FirstTwo
    Otps <- NumberedOtps
    Codes <- TwoCodes
    Cooldown = 0
    Window = 0
    OtpMax = 3
    Life = 1
    MaxTime = 0
ACTION_CONSTRAINT KeysInOrder
VIEW WithoutHistories
PROPERTIES
    EveryRequestAnswered
CHECK_DEADLOCK FALSE
