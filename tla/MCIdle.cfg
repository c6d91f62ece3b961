\* Two sessions and a reconciliation of one workspace; after one tick a period is full, before it it is not.
CONSTANTS
    Session = {s1, s2}
    Reconciler = {r1}
    IdleLimit = 1
    Retention = 1
    MaxActive = 2
SPECIFICATION MCSpec
INVARIANTS
    NoSessionCountedTwice
    IdlePeriodIsFull
    RetentionIsFull
PROPERTY IdleRunsEnd
CHECK_DEADLOCK FALSE
