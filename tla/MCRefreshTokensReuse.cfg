CONSTANTS
    u1 = u1
    u2 = u2
    k1 = k1
    k2 = k2
    k3 = k3
    r1 = r1
    r2 = r2
    r3 = r3
    None = None
    Users <- MCUsers
    Tokens <- MCTokens
    Requests <- MCRequests
SPECIFICATION Spec
SYMMETRY Symmetric
INVARIANT RotationPreventsReuse
