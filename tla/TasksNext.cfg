SPECIFICATION TasksSpec
CONSTANTS
    Addr = {a1, a2, a3}
    Null = Null
    MAX_PROCESSES = 3
INVARIANT NextIsAllocated
