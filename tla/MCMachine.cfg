\* Stubs: two threads on one processor, one exception, both architectures.
\* Console: two rows of four columns, tab stops of two, four messages.
\* Strings: two calls on six bytes, a long of two.
\* Descriptors: chunks of two pointers, up to three, so that five are handed out;
\* three blocks, so that blocks are used again, and two files.
\* Linker: hash tables of one and two buckets.
\* Lock: any leftover AL, 0, 1 (both values of the byte) and 2 (neither).
\* Locks: two processors; the theorem is about any number.
CONSTANTS
    CPU = {c1, c2, c3}
    EntryAL = {0, 1, 2}
    Cpu = {p1, p2}
    NoOne = NoOne
    Thread = {1, 2}
    Raised = {14}
    Calls = {"SYS_EXIT", "SYS_SLEEP", "SYS_SEMOP", "SYS_WAKEUP", "SYS_GET_BOOTMOD"}
    MaxSteps = 2
    Address = {0, 1, 2, 3, 4, 5}
    Word = 2
    MaxWrites = 2
    VIDEO_X = 4
    VIDEO_Y = 2
    Tab = 2
    Blank = Blank
    Messages <- MCMessages
    MaxMessages = 4
    Mains <- MCMains
    Libraries <- MCLibraries
    Junk = Junk
    Zero = Zero
    elf_hash <- MCHash
    ENTRYS_PER_ARRAY = 2
    Entry = {1, 2, 3, 4}
    MaxChunk = 3
    FsIdds = {2, 3, 4}
    File = {f1, f2}
    NoFile = NoFile
SPECIFICATION MCSpec
INVARIANTS
    MutualExclusionUnlessStolen
    NoCircularWait
    ThreadsFindTheirRegisters
    TheScreenIsAWindow
    BytesAreAsMeant
    TheLibraryIsLinked
    DescriptorsNameTheirFiles
PROPERTY
    SomeoneGetsIn
CHECK_DEADLOCK FALSE
