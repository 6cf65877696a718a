SPECIFICATION PartsSpec
CONSTANTS
    None = None
    Readers = {r1, r2}
    Snapshots = {s1, s2, s3}
    Threads = {t1, t2, t3}
    Objects = {o1, o2}
INVARIANTS ReadersSeeLive SnapshotsAccounted SystemSafe HeapMatchesBreak SearchesAgree WalksAgree TraceIsLatest
PROPERTIES UpdateEnds FreedInTheEnd ExtensionContinuesHeap ImplementsPages
