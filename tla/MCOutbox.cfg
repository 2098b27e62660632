CONSTANTS
    e1 = e1
    e2 = e2
    bad = bad
    w1 = w1
    w2 = w2
    NoEvent = NoEvent
    Events <- MCEvents
    Undecodable <- MCUndecodable
    Workers <- MCWorkers
    BatchSize = 2
    MaxAttempts = 3
SPECIFICATION FairSpec
INVARIANTS
    TypeOK
    ExclusiveClaim
    DuplicateOnlyIfUnheard
PROPERTIES
    StrandedOnlyByFault
    ImplementsContract
    EveryEventResolved
