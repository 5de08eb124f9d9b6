SPECIFICATION Spec
CONSTANTS
    u1 = u1
    u2 = u2
    m1 = m1
    m2 = m2
    None = None
    Users <- MCUsers
    Migrators <- MCMigrators
SYMMETRY Symmetry
INVARIANT TypeOK
INVARIANT SchemaMatchesRevision
INVARIANT NoStepFails
PROPERTY KeepsStandings
