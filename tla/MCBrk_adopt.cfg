SPECIFICATION Spec
CONSTANTS
    None = None
    PageSize = 2
    NPages = 3
    BasePage = 1
    HalfWord = 8
    Kinds <- BothKinds
    MaxCookie = 3
    MaxOthers = 2
INVARIANTS NoReplacementAdopted
