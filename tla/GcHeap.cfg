\* Safety of the heap on three cells; the embedder locks objects and flat strings.
SPECIFICATION Spec
CONSTANTS
    t1 = t1
    t2 = t2
    t3 = t3
    Things = {t1, t2, t3}
    ArenaOf <- MCArenaOf
    RootIds = {r1}
    LockTypes = {"object", "string"}
    Null = Null
    Absent = Absent
    MaxCells = 3
    Stuck = 2
    MaxLocks = 2
    MaxLevel = 2
    MaxStack = 0
    MaxSlots = 1
SYMMETRY MCSymmetry
INVARIANTS NoDangling HeapAccounting LocksAgree
PROPERTIES CollectsAllGarbage
