SPECIFICATION MemorySpec
CONSTANTS
    None = None
    Note = Note
    Spaces = {s1, s2}
    Root = s1
    NPages = 2
    MmapBase = 0
    Frames = {f1, f2, f3, f4}
    Backings = {b1, b2}
    Slots = 1
    MaxCookie = 2
    Values = {zero, v}
    Zero = zero
    MaxLength = 2
    Loads <- ShareLoads
SYMMETRY Symmetry
INVARIANTS ReferencesCounted ImplementsMemory
PROPERTIES FailedCallsLeaveNoTrace
