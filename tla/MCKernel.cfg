SPECIFICATION Spec
CONSTANTS
    a = a
    b = b
    c = c
    e = e
    d1 = d1
    d2 = d2
    Deleted = Deleted
    Closed = Closed
    File <- MCFile
    Clusters <- MCClusters
    EndMark <- MCEndMark
    filesize <- Mfilesize
    RootDirectory <- Whole
    DISK_SECTOR_SIZE = 2
    sectors_per_cluster = 2
    DataStart = 4
    DiskEnd = 20
    Descriptor <- MCDescriptor
    BlockSizes = {1, 3, 6}
    Counts = {1, 2}
    Offsets = {0, 2, 5, 9}
    Total = 6
    BlockSize = 4
    Word = 32
    Sizes <- MCSizes
    Addr = {a1, a2, a3}
    Null = Null
    MAX_PROCESSES = 3
    m_buffer_size = 4
    Byte = {0, 1}
    Messages <- MCMessages
    Reads <- MCReads
    Untouched = Untouched
INVARIANTS
    Disjoint ChainIntegrity FirstFit
    CurrentRegistered TableMatchesTasks ListIntact
    CacheCoherent PanicsPastEndOnly AlignedReads
PROPERTIES
    NeighboursUntouched
    RoundRobin
    ImplementsFifo
    ReadReturns
