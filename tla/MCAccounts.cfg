CONSTANTS
    u1 = u1
    u2 = u2
    k1 = k1
    k2 = k2
    r1 = r1
    r2 = r2
    e1 = e1
    p1 = p1
    s1 = s1
    s2 = s2
    None = None
    Users <- MCUsers
    Tokens <- MCTokens
    Requests <- MCRequests
    Emails <- MCEmails
    Passwords <- MCPasswords
    States <- MCStates
    Registered <- MCRegistered
    Replies <- MCReplies
SPECIFICATION AccountsSpec
SYMMETRY Symmetric
INVARIANTS
    AccountsTypeOK
    RotationRetiresOld
    StateUsedOnce
    UnreachableOnlyByRace
PROPERTIES
    RevokedGainsNoUse
    TakenEmailGainsNoUser
