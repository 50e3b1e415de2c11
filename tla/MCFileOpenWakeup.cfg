\* The test as it is; nothing goes wrong but the order of wakeup and sleep.
CONSTANTS
    NOpen = 1
    FileSize = 1
    NCalls = 0
    StackGarbage = {0}
    ByteAfterPath = {FALSE}
    FileExists = {TRUE}
SPECIFICATION FairSpec
PROPERTY
    TheTestOpensItsFile
CHECK_DEADLOCK FALSE
