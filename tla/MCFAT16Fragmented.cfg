SPECIFICATION FAT16Spec
CONSTANTS
    a = a
    b = b
    c = c
    e = e
    d1 = d1
    d2 = d2
    Deleted = Deleted
    Closed = Closed
    File <- MCFile
    Clusters <- MCClusters
    EndMark <- MCEndMark
    filesize <- Mfilesize
    RootDirectory <- Whole
    DISK_SECTOR_SIZE = 2
    sectors_per_cluster = 2
    DataStart = 4
    DiskEnd = 20
    Descriptor <- MCDescriptor
    BlockSizes = {1, 3, 6}
    Counts = {1, 2}
    Offsets = {0, 2, 5, 9}
INVARIANT ReadsFile
