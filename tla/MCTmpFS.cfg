\* ramFS over an archive of five files and directories, three requests.
CONSTANTS
    a = a
    b = b
    c = c
    Junk = Junk
    Archive <- MCArchive
    AsInode <- MCAsInode
    Opened <- MCOpened
    Written <- MCWritten
    Content <- MCContent
    Offset = {0, 2, 8}
    Count = {1, 5}
    Unit = 2
    BlockSize = 3
    Direct = 2
    Entries = 3
    DirentSize = 2
    MaxRequests = 3
SPECIFICATION MCSpec
INVARIANT TheArchiveIsComplete
PROPERTY ImplementsFileStore
