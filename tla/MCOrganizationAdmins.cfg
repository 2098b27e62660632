SPECIFICATION Spec
CONSTANTS
    u1 = u1
    u2 = u2
    u3 = u3
    i1 = i1
    i2 = i2
    r1 = r1
    r2 = r2
    None = None
    Users <- MCUsers
    Founder = u1
    Invitations <- MCInvitations
    Requests <- MCRequests
    MaxMembers = 3
    CreditLimit = 0
    Amounts = {}
CHECK_DEADLOCK FALSE
PROPERTY AdminsAnswerToOwner
