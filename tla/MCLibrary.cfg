INIT Init
NEXT Next
CONSTANTS
    Long = 32
    Sample <- MCSample
    Bound = {0, 1, 2, 3, 4, 5}
    Terminator = 98
    Number <- MCNumber
    Base = {2, 10, 16}
    Literal = {"a", "l"}
    Formats <- MCFormats
    BufferLength = 5
    Filename <- MCFilename
    Openmode <- MCOpenmode
    MountName <- MCMountName
    MAX_MOUNTED = 2
    Int3 <- MCInt3
    Ping <- MCPing
    Red <- MCRed
    Clear <- MCClear
    Cat <- MCCat
    Key <- MCKey
    KeysTyped = 7
    Address = 16
    HEAP_BLOCK_SIZE = 2
    kernel_size = 2
    Magic <- MCMagic
    MemoryMap <- MCMemoryMap
    Screen <- MCScreen
    Unwritten = 7
    Picture <- MCPicture
    WIDTH = 2
    HEIGHT = 2
    Char = {"a", "b"}
    Color <- MCColor
    Partitions <- MCPartitions
    LastCluster = 6
    PerCluster = 4
    NameLen = 2
    ExtLen = 1
    Object = {1, 2, 3, 4, 5, 6, 7, 8, 9, 10, 11, 12, 13, 14, 15}
    Descriptor = {1, 2}
    Requests <- MCRequests
    ModeString <- MCModeString
    Holder = {p, q}
    BufferSize = 20
    Wide = 128
    Lost = Lost
    Width = 4
    Height = 5
    WindowWidth = 2
    WindowHeight = 1
    TitleHeight = 2
    NameWidth = 1
    CursorSize = 2
    Transparent <- MCTransparent
    Content = {"red"}
    Motion <- MCMotion
    Place <- MCPlace
    Rounds = 8
    Black = "black"
INVARIANTS
    StringsAgree
    MountsMatch
    HeapInLongestRegion
    LineEdited
    PictureShown
    ScreenShowsTail
    WalkFinds
    ObjectsOwned
    PositionKept
    ScreenShowsBuffer
    OneCursor
