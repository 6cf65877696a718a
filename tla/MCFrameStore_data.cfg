SPECIFICATION ObservedSpec
CONSTANTS
    Frames = {f1, f2}
    Threads = {t1, t2}
    Values = {0, 1}
    Zero = 0
    b1 = b1
    Backings = {b1}
    Pages = {p1}
    BackingOf <- MCBackingOf
    Kinds = {"zero", "shared", "private"}
    Calls = {"write", "copy"}
    Lockers = {}
    Accessors = {}
    ResidentLimit = 1
    MaxSwap = 1
    MaxTarget = 1
    MaxCount = 0
    NoFrame = NoFrame
    NoPage = NoPage
    NoThread = NoThread
SYMMETRY FrameThreadSymmetry
INVARIANTS Inv
PROPERTIES ImplementsMemory
