\* Liveness, and the frames' values: three cells, a heap limit of two.
SPECIFICATION FairSpec
CONSTANTS
    t1 = t1
    t2 = t2
    t3 = t3
    Things = {t1, t2, t3}
    ArenaOf <- MCArenaOf
    RootIds = {r1}
    LockTypes = {"object", "string"}
    Null = Null
    Absent = Absent
    MaxCells = 2
    Stuck = 2
    MaxLocks = 1
    MaxLevel = 3
    MaxStack = 1
    MaxSlots = 2
INVARIANTS HeapInv WithinMaxBytes
PROPERTIES GcTerminates
