\* A pipe that one line fills: once nobody reads, the bundle writes one more.
CONSTANTS
    Awaited <- S3Test
    LogLevels = {"", "warn"}
    PipeCap = 1
SPECIFICATION TestSpec
\* The test ends, and with it everything.
CHECK_DEADLOCK FALSE
INVARIANTS
    VerdictIsTrue
    DataOutlivesBundle
    ReleasesAll
PROPERTIES
    KeepsPromises
    TestIsOver
