SPECIFICATION Spec

CONSTANTS
    Servers <- MCServers
    SampleLimit = 2
    SampleDocs = 2
    MaxFaults = 1

INVARIANTS
    TypeOK
    
    
    RequiredIsEverywhere

PROPERTY
    FetchEnds
