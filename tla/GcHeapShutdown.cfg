\* The loop of js_DestroyContext: it never iterates.
SPECIFICATION Spec
CONSTANTS
    t1 = t1
    t2 = t2
    t3 = t3
    Things = {t1, t3}
    ArenaOf <- MCArenaOf
    RootIds = {r1}
    LockTypes = {"object", "string"}
    Null = Null
    Absent = Absent
    MaxCells = 2
    Stuck = 2
    MaxLocks = 1
    MaxLevel = 3
    MaxStack = 1
    MaxSlots = 2
INVARIANTS DownWithoutGarbage
