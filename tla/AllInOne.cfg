\* Both databases, one service and one listener. Of the ends of a database that no
\* stop intends, SIGKILL is enough: the others differ only for the AVX message.
CONSTANTS
    Mongo = mongo
    Redis = redis
    Crash = {}
    NumServices = 1
    NumListeners = 1
SPECIFICATION FairSpec
\* The process exits once and for all.
CHECK_DEADLOCK FALSE
INVARIANTS
    DatabasesOutliveServices
    MarkerIsTrue
    OperatorStopIsClean
PROPERTIES
    UsesSuite
    ImplementsProcess
