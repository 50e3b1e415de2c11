\* The heap: 16 words, pages of 8 and headers of 2; the sizes leave rests of
\* every length, and 6 is one that kmalloc enlarges the heap for.
\* Lists: chunks of two pointers instead of five, and up to three chunks, so that
\* chunks are filled, emptied and filled again before and after the last one.
\* Queues: two, and three blocks, so that both chains have several messages and
\* blocks are used again by the other queue; two sizes and two texts.
CONSTANTS
    HEAP_INIT_SIZE = 16
    PAGE_SIZE = 8
    Header = 2
    Sizes = {1, 2, 3, 6}
    ENTRYS_PER_ARRAY = 2
    Entry = {1, 2, 3}
    MaxChunk = 3
    MsgBlock = {1, 2, 3}
    MaxQueue = 2
    Size = {8, 16}
    Content = {"a", "b"}
SPECIFICATION MCSpec
INVARIANTS
    BlocksTileTheHeap
    TheChainServes
    BlocksHaveOneOwner
PROPERTIES
    ImplementsAllocator
    ImplementsSlotRow
    ImplementsMessageQueues
    PagesAreLostInTwoWays
CHECK_DEADLOCK FALSE
