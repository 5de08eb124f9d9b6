SPECIFICATION Spec
CONSTANTS
    u1 = u1
    u2 = u2
    u3 = u3
    u4 = u4
    boss = boss
    blank = blank
    ada = ada
    None = None
    Users <- MCUsers
    Staff <- MCStaff
    Searches <- MCSearches
    Matches <- MCMatches
    Limit = 2
    MaxTime = 3
SYMMETRY Symmetry
INVARIANTS
    TypeOK
    PageHoldsWhatTotalPromises
    NobodyMissed
    TotalPagesSuffice
