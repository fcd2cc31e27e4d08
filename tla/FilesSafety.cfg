SPECIFICATION FilesSpec
CONSTANTS
    Parts = {"vfs", "devfs", "romfs", "kinfo"}
    Tasks = {t1, t2}
    NumInodes = 9
    NumSupers = 3
    NumFiles = 2
    NumFds = 2
    Tree <- MCTree
    StaticFlags = {"romfs", "kinfo"}
    Writable = {"devfs"}
    Opening = {"devfs"}
    Boot <- MCBoot
    Opens <- MCOpens
    Preempt = FALSE
    ExitOpen = FALSE
    MaxOffset = 1
    Types = {"tty", "kbd"}
    Ops <- MCOps
    Field = 4
    DevTasks = {t1}
    HasClose = FALSE
    MaxDevices = 5
    MaxOpens = 1
    NameLen = 5
    Supers <- MCSupers
    ImageSize = 352
    Sizes = {1, 4, 10, 20}
    Offsets = {0, 3, 10}
    MaxReads = 2
    Dumps <- MCDumps
    PageSize = 10
    DumpOffsets = {0, 1, 2, 3, 4, 5, 6, 7, 8, 9, 10}
INVARIANTS
    CountsExact
    DescriptorsExact
    DeviceFilesExact
    RomfsExact
    KinfoExact
CHECK_DEADLOCK FALSE
