SPECIFICATION Spec
CONSTANTS
    ada = ada
    root = root
    old = old
    r1 = r1
    r2 = r2
    a1 = a1
    a2 = a2
    None = None
    Users <- AllUsers
    Staff <- OneStaff
    Legacy <- OneLegacy
    Answers <- TwoAnswers
    Requests <- TwoRequests
    MaxVersion = 2
CONSTRAINT OneUserTouched
SYMMETRY Symmetry
INVARIANTS
    TypeOK
    FlagMatchesProfile
    OnlyEntitledServed
PROPERTIES
    ProfileWrittenOnce
