\* Three threads and a mutual exclusion semaphore.
CONSTANTS
    NThread = 3
    Initial = 1
SPECIFICATION SemFairSpec
PROPERTY
    SleepersGetIn
CHECK_DEADLOCK FALSE
