SPECIFICATION FairSpec
CONSTANTS
    Notes = {n1, n2}
    Threads = {t1, t2}
    Values = {0, 1}
    Zero = 0
    MaxPages = 1
    MaxTotal = 2
    Calls = {"write", "resize"}
    Writes = {1}
    Mappers = {t1}
    Contents <- NoContents
    None = None
INVARIANTS Inv FreedIsUnused
PROPERTIES CallsEnd
