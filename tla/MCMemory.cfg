\* Ranges: two processors, a range of one page and one of two, requests of one
\* and two pages, and room for two freed pages.
\* Tables: two processes, two segments and three pages of memory in front of each
\* program: a segment may be mapped before or behind a stack or a heap, and what
\* shmat maps without need reaches other segments and the program.
CONSTANTS
    NCpu = 2
    Ranges <- MCRanges
    MAX_STACK_INVLD_SIZ = 2
    MaxEntry = 6
    Fan = 4
    NFrame = 50
    Proc = {1, 2}
    Program <- MCProgram
    Length = {1, 2}
    STDRD_STACKSIZ = 1
    LoopsPerPage = 2
    MaxFree = 4
    MaxSegment = 2
SPECIFICATION MCSpec
INVARIANTS
    OnlyARaceSharesPages
    FreeIsForgotten
    KernelIsCommon
    FramesAreSeparate
    SegmentsAreShared
PROPERTIES
    WaitingPagesComeBack
CHECK_DEADLOCK FALSE
