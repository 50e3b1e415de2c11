\* A file that does not exist.
CONSTANTS
    NOpen = 1
    FileSize = 1
    NCalls = 0
    StackGarbage = {0}
    ByteAfterPath = {FALSE}
    FileExists = {FALSE}
SPECIFICATION FairSpec
PROPERTY
    OpenReturns
CHECK_DEADLOCK FALSE
