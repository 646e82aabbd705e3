SPECIFICATION MemorySpec
CONSTANTS
    Total = 5
    BlockSize = 4
    Word = 40
    Sizes = {3}
    Process = {p1, p2}
    Index = {0, 1}
    Base = 1
    ImageSize = 4
    StackSize = 4
    FramebufferSize = 4
    Segments <- MCSegments
    MaxSegments = 2
    Argc = 1
    MaxLoads = 3
    ArgumentSize = 4
SYMMETRY Symmetry
INVARIANT OwnedOnce
PROPERTIES MapsOnlyOwn OthersKeepTheirs
