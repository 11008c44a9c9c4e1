\* A bundle that dies at once, with a wait for one event.
CONSTANTS
    Awaited <- FreshInstall
    LogLevels = {""}
    PipeCap = 2
SPECIFICATION Spec
CHECK_DEADLOCK FALSE
INVARIANT CrashOutputReported
