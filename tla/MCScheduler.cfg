\* Three threads on two processors: one list has two threads, of which either may
\* sleep, wake the other or exit.
CONSTANTS
    NCpu = 2
    NThread = 3
    MaySleep = {1, 2, 3}
SPECIFICATION FairSpec
INVARIANTS
    EveryThreadOnOneList
    RegistersAreNeverMixedUp
    AddressSpacesMatch
    TheWalkFindsAThread
PROPERTIES
    ImplementsThreads
    NoMigration
    EveryActiveThreadRuns
