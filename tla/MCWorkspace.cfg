CONSTANTS
    u1 = u1
    u2 = u2
    u3 = u3
    r1 = r1
    r2 = r2
    None = None
    Users <- MCUsers
    Founder = u1
    Elsewhere <- MCElsewhere
    Requests <- MCRequests
    PoolSize = 2
    MaxRows <- MCMaxRows
SPECIFICATION FairSpec
INVARIANT TypeOK
PROPERTIES
    OwnershipNeverMoves
    OrphanStays
    RequestsEnd
CHECK_DEADLOCK FALSE
