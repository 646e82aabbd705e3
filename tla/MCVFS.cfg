SPECIFICATION VFSSpec
CONSTANTS
    prog = prog
    empty = empty
    fb = fb
    mouse = mouse
    ws = ws
    Drive = Drive
    Ipc = Ipc
    None = None
    Part <- MCPart
    Path <- MCPath
    DiskFile <- MCDiskFile
    EmptyFile <- MCEmptyFile
    IpcPath <- MCIpcPath
    BootMounts <- Boot
    Program = {shell, client}
    Private = {p1, p2, p3, p4}
    MAX_FILEDESCRIPTORS = 3
    MAX_MOUNTED = 5
SYMMETRY Symmetry
INVARIANTS HeldIsOpen NumbersAccounted PrivatesOwned NullHasCause
PROPERTY BindingsStable
