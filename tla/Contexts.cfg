\* What contexts keep, part after part; an activation comes to its end.
CONSTANTS
  v1 = v1
  v2 = v2
  v3 = v3
  c1 = c1
  c2 = c2
  t1 = t1
  t2 = t2
  Things = {v1, v2, v3}
  Null = Null
  NullMark = NullMark
  ChunkSize = 3
  CountSize = 9
  EnterBelow = 3
  None = None
  ListHead = ListHead
  Threads = {t1, t2}
  Contexts = {c1, c2}
  ThreadOf <- MCThreadOf
  MaxDepth = 2
  MaxLevel = 2
  NFormals = 1
  MaxActuals = 2
  VarCells = {10}
  ElementIds = {0, 1}
  ArgsNames = {"length"}
  JSValues = {"void", "x"}
  VOID = "void"
  NoSlot = NoSlot
SPECIFICATION ContextsSpec
INVARIANTS
  ChunksExact
  InnermostMarked
PROPERTIES
  ImplementsScopes
  GcStarts
  ActivationsOutliveFrames
CHECK_DEADLOCK FALSE
