\* The smallest bundle: the run ends before any service starts.
CONSTANTS
    Mongo = mongo
    Redis = redis
    Crash = {"fault"}
    NumServices = 1
    NumListeners = 1
SPECIFICATION Spec
\* The process exits once and for all.
CHECK_DEADLOCK FALSE
INVARIANT AvxDiagnosed
