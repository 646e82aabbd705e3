SPECIFICATION WindowSpec
CONSTANTS
    p1 = p1
    p2 = p2
    Client <- MCClient
    Height <- MCHeight
    Width <- MCWidth
    NameLength = 1
    Capacity = 5
INVARIANTS SyncKept ShownWhole NamesWhole
