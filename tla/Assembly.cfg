\* The four Apps as they are, and their two transports; one of the two file
\* stores, which differ in name only.
CONSTANTS
    NumServices = 4
    NumListeners = 2
    Embedded = {mongo}
    S3Bucket = FALSE
SPECIFICATION AssemblySpec
\* runServices returns once and for all.
CHECK_DEADLOCK FALSE
INVARIANTS
    NoEarlyRequest
    DependenciesUp
    AllClosed
    OutcomeIsTrue
    UsesRunning
    RequestsServed
PROPERTY NoLateStart
