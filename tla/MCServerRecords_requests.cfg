SPECIFICATION Spec
CONSTANTS
    None = None
    Clients = {c1, c2}
    Records = {r1, r2, r3}
    Caps = {k1, k2}
    MaxHandle = 3
    Attempts = 2
    Loads <- MCLoads
SYMMETRY Symmetry
INVARIANTS ReferencesCounted QuotasExact UsesWithinRights
