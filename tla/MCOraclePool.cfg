SPECIFICATION Spec

CONSTANTS
    t1 = t1
    t2 = t2
    t3 = t3
    t4 = t4
    t5 = t5
    Threads <- MCThreads
    PoolMin = 0
    PoolMax = 3
    MaxFailures = 3

INVARIANTS
    SlotsAccounted
    NeverStuck

PROPERTY
    ConnectionsComeBack
