SPECIFICATION Spec
CONSTANTS
    u1 = u1
    u2 = u2
    u3 = u3
    i1 = i1
    i2 = i2
    r1 = r1
    r2 = r2
    None = None
    Users <- MCUsers
    Founder = u1
    Invitations <- MCInvitations
    Requests <- MCRequests
    MaxMembers = 2
    CreditLimit = 1
    Amounts = {1}
SYMMETRY Symmetric
CHECK_DEADLOCK FALSE
INVARIANTS TypeOK CreditsWithinLimit
PROPERTIES OwnershipNeverMoves JoinsByInvitation
