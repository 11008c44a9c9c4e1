SPECIFICATION FairAttempts
\* initReplicaSetAction returns once and for all.
CHECK_DEADLOCK FALSE
INVARIANT ToleratesFaults
PROPERTIES
    ImplementsReplicaSet
    StopEndsRetries
