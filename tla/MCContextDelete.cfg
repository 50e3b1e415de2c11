\* The process that exits is the only one, or one of two.
CONSTANTS
    Fan = 4
    NFrame = 50
    Proc = {1, 2}
    Program <- MCProgram
    Length = {1, 2}
    STDRD_STACKSIZ = 1
    LoopsPerPage = 2
    MaxEntry = 4
    MaxSegment = 2
SPECIFICATION DeleteSpec
INVARIANT
    KernelSpaceIsKept
CHECK_DEADLOCK FALSE
