CONSTANTS
    s1 = s1
    s2 = s2
    r1 = r1
    r2 = r2
    c1 = c1
    c2 = c2
    n1 = n1
    n2 = n2
    None = None
    Servers <- MCServers
    Requests <- MCRequests
    Target = c1
    Others <- MCOthers
    Names <- MCNames
    Accepted <- MCAccepted
    MaxVersion = 1
    RedisMayFail = TRUE
SPECIFICATION FairConnections
INVARIANT ConnectionsTypeOK
PROPERTIES
    DeletedLeavesCache
    DeletedGainsNoDriver
    TakenNameGainsNoClash
    UnreadableBlocks
CHECK_DEADLOCK FALSE
