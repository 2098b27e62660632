SPECIFICATION Spec
CONSTANTS
    u1 = u1
    u2 = u2
    c1 = c1
    c2 = c2
    s1 = s1
    s2 = s2
    t1 = t1
    t2 = t2
    None = None
    Users <- MCUsers
    Connections <- MCConnections
    SessionIds <- MCSessionIds
    Tasks <- MCTasks
    Landscapes <- MCLandscapes
    Statements <- MCStatements
    Permissions = {{"select", "update", "delete"}}
    Batch = 2
    RowCap = 3
SYMMETRY Symmetric
INVARIANTS
    TypeOK
    SessionHasPool
    SessionIsOwn
    ReplyTruthful
    AnswerIsResult
PROPERTIES
    ClosedStaysClosed
    DeletedThenQuiet
