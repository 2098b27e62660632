CONSTANTS
    u1 = u1
    u2 = u2
    u3 = u3
    r1 = r1
    r2 = r2
    None = None
    Users <- TwoUsers
    Founder = u1
    Elsewhere = {}
    Requests <- MCRequests
    PoolSize = 2
    MaxRows <- TwoMaxRows
SPECIFICATION Spec
INVARIANT OneMembershipEach
CHECK_DEADLOCK FALSE
