\* Memory that is not zero behind the path.
CONSTANTS
    NOpen = 1
    FileSize = 1
    NCalls = 0
    StackGarbage = {0}
    ByteAfterPath = {TRUE}
    FileExists = {TRUE}
SPECIFICATION FairSpec
PROPERTY
    OpenReturns
CHECK_DEADLOCK FALSE
