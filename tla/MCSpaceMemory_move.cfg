SPECIFICATION MemorySpec
CONSTANTS
    None = None
    Note = Note
    Spaces = {s1}
    Root = s1
    NPages = 4
    MmapBase = 0
    Frames = {f1, f2, f3, f4}
    Backings = {b1, b2}
    Slots = 1
    MaxCookie = 2
    Values = {zero, v}
    Zero = zero
    MaxLength = 2
    Loads <- MoveLoads
SYMMETRY Symmetry
INVARIANTS ImplementsMemory
PROPERTIES FailedCallsLeaveNoTrace
