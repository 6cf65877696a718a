SPECIFICATION Spec
CONSTANTS
    Notes = {n1, n2, n3}
    Threads = {t1}
    Values = {0, 1}
    Zero = 0
    MaxPages = 2
    MaxTotal = 4
    Calls = {"read", "write", "resize"}
    Writes = {1}
    Mappers = {}
    Contents <- FullContents
    None = None
SYMMETRY Symmetry
INVARIANTS Isolation
