SPECIFICATION Spec
CONSTANTS
    None = None
    Zero = Zero
    Users = {u1, u2}
    Values = {v1, v2}
    MaxData = 1
    MaxConnects = 2
    Loads <- MCLoads
SYMMETRY Sym
INVARIANTS ReadsAreOfTheNote AnswersAreOwn CompletedIsWritten
