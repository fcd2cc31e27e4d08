SPECIFICATION MemorySpec
CONSTANTS
    Parts = {"vmem", "heap", "boot"}
    PagesPerByte = 2
    BytesPerWord = 2
    BitmapBytes = 6
    IdxRange = 6
    BootMaps <- MCBootMaps
    MaxRun = 2
    PageSize = 1
    TableEntries = 9
    VgaEntries = {8}
    FPOs = {0, 1, 2}
    Words = 40
    SegmentSize = 20
    ChunkSize = 20
    Alignment = 1
    Sizes = {0, 2, 5, 7}
    MaxBlocks = 3
    TracksFreed = FALSE
    BootPageSize = 4
    BootTableEntries = 12
    LowPages = 2
    MiB = 1
    SegmentMax = 3
    MemoryMaps <- MCMemoryMaps
    KernelPages = 3
    InitSections = {1, 2}
    InitrdSizes = {1, 3, 4, 5, 8}
    InitrdPages = {5, 6, 7, 9, 10}
INVARIANTS
    
    MappingExact
    HeapExact
    InitrdInPlace
PROPERTIES
    IsMemoryPool
CHECK_DEADLOCK FALSE
