SPECIFICATION InspectSpec
CONSTANTS
    None = None
    Spaces = {s1, s2}
    Root = s1
    NPages = 2
    MmapBase = 0
    Frames = {f1, f2, f3, f4}
    Backings = {b1, b2}
    Slots = 1
    MaxCookie = 2
    Values = {zero, v}
    Zero = zero
    MaxLength = 2
    Loads <- AccessLoads
SYMMETRY Symmetry
INVARIANTS TransfersAreCurrent MlockAllOrNothing NoteCoversMappings ViewsAgree ReferencesCounted SnapshotIsOneInstant
