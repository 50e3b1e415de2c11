\* Start: four processors, any of which may be the one that boots.
\* Modes: both architectures, kernels of one and two program headers.
\* Memory: pages of two units, reserved parts of two and three pages.
\* The row: three threads on one processor.
\* Semaphore: two units and up to three sleepers.  Files: two, existing or not,
\* whatever the memory behind the path holds.
CONSTANTS
    Processor = {0, 1, 2, 3}
    MPTables <- MCTables
    PAGE_SIZE = 2
    Width = 8
    Low = 16
    EASYMAPTBL_SIZ = 3
    STDRD_STACKSIZ = 2
    PMM_STACK_SIZ = 2
    Image = {4, 5}
    Maps <- MCMaps
    Modules <- MCModules
    MaxCalls = 6
    NThread = 5
    Initial = 2
    Fan = 2
    TRAMPOLINE = 0
    LoaderPage = 1
    KernelPage = 2
    Kernels <- MCKernels
    NOpen = 2
    FileSize = 2
    NCalls = 3
    StackGarbage <- MCStackGarbage
    ByteAfterPath = {TRUE, FALSE}
    FileExists = {TRUE, FALSE}
SPECIFICATION MCSpec
INVARIANTS
    ProcessorsReachTheKernel
    TheKernelKeepsItsPages
    ProcessorsStartInOrder
    AtMostInitialHold
    WhatIsAskedForIsThere
    ReadersAndWritersAreApart
PROPERTIES
    AllProcessorsStart
    EveryThreadOfARowRuns
    SleepersOfFewGetIn
    AnOpenIsAnswered
CHECK_DEADLOCK FALSE
