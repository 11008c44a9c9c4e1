\* Two databases, and the longest lag of the startup that fits.
CONSTANTS
    Proc = {mongo, redis}
    StartupLag = 9
SPECIFICATION Spec
\* The process exits once and for all.
CHECK_DEADLOCK FALSE
INVARIANTS
    WatchdogOutside
    GraceRespected
    NoDeadlineBlame
    OwnsForcedExit
