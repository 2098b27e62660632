CONSTANTS
    e1 = e1
    w1 = w1
    NoEvent = NoEvent
    Events <- MCEvents
    Undecodable = {}
    Workers <- MCWorkers
    BatchSize = 1
    MaxAttempts = 2
SPECIFICATION MainSpec
PROPERTY PublishedIsAttempted
CHECK_DEADLOCK FALSE
