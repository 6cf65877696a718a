SPECIFICATION ObservedSpec
CONSTANTS
    Frames = {f1, f2, f3}
    Threads = {t1, t2}
    Values = {0}
    Zero = 0
    b1 = b1
    Backings = {b1}
    Pages = {}
    BackingOf <- MCBackingOf
    Kinds = {"zero"}
    Calls = {"read"}
    Lockers = {t1}
    Accessors = {t1, t2}
    ResidentLimit = 2
    MaxSwap = 0
    MaxTarget = 2
    MaxCount = 0
    NoFrame = NoFrame
    NoPage = NoPage
    NoThread = NoThread
SYMMETRY FrameSymmetry
INVARIANTS VictimIsUnique WaitersHavePinner
PROPERTIES PinnedStay
