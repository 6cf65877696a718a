SPECIFICATION FairServerSpec
CONSTANTS
    None = None
    Clients = {c1, c2}
    Callers = {a1, a2}
    Records = {r1, r2, r3}
    Caps = {k1}
    MaxHandle = 3
    Attempts = 1
    Loads <- MCLoads
INVARIANTS SweepMissesNobody StoppedIsEmpty
PROPERTIES StopReturns
