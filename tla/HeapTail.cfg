SPECIFICATION HeapSpec
CONSTANTS
    Total = 6
    BlockSize = 4
    Word = 32
    Sizes = {0, 1, 4, 6, 12, 31}
INVARIANT InsideHeap
