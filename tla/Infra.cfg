\* Two children, as the all-in-one command has: mongod and redis-server.
CONSTANTS
    Proc = {mongo, redis}
    Crash = {"code", "fault"}
SPECIFICATION FairSpec
\* A stop that has returned is the end.
CHECK_DEADLOCK FALSE
INVARIANTS
    StopReapsAll
    LossReported
    NoFalseAlarm
    LossIsNotOperatorStop
    CleanIsClean
    OrdinaryStopIsClean
PROPERTIES
    ImplementsContract
