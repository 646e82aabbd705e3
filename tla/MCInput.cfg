SPECIFICATION MCSpec
CONSTANTS
    Key = {"LeftShift", "RightShift", "1"}
    Packets <- MCPackets
    Empty = Empty
    BufferSize = 3
    Backlog = 1
INVARIANTS PacketsWhole LinesReleased KeysInOrder ShiftLetGo
PROPERTY BufferDrained
