\* The parts of the engine, one after the other; a part may come to its end or to a bound.
CONSTANTS
  p1 = p1
  p2 = p2
  DHKeys = {1, 2, 3, 4, 5}
  KeyHash <- MCKeyHash
  Bits = 6
  MinLog2 = 2
  LimitLog2 = 5
  HashCode <- MCHashCode
  HashBits = 2
  MinBucketsLog2 = 1
  AtomKeys = {1, 2, 3, 4}
  PinnedKeys = {1}
  InternedKeys = {2}
  MaxCompiles = 2
  NoAtom = NoAtom
  PTScopes = {p1, p2}
  PTIds = {1, 2, 3}
  PTAttrs = {1, 2}
  PTMaxNodes = 5
  PTOffers <- MCOffers
  HashThreshold = 3
  PTMaxCalls = 6
  NoNode = NoNode
  NoTable = NoTable
  Pools = {p1}
  ArenaSize <- MCArenaSize
  ArenaIds = {1, 2, 3}
  MaxAlloc = 4
  MaxHeld = 3
  MaxMarks = 1
  First = First
  WatchedProps = {x, y}
  WatchPoints = {1, 2, 3}
  MaxHandlers = 3
  x = x
  y = y
  proto = proto
  child = child
  JSObjects = {proto, child}
  PropIds = {1, 2}
  ProtoChain <- MCProtoChain
  ScopeChain <- MCScopeChain
  Resolvers = {child}
  HookedClass = {child}
  Mortal = {child}
  PropOffers <- MCPropOffers
  CacheHash <- MCCacheHash
  Reserved = 1
  InitialSlots = 2
  MaxNslots = 5
  MaxPending = 3
  MaxPropCalls = 4
  NoProp = NoProp
  StrCells = {1, 2, 3, 4}
  Buffers = {1, 2, 3}
  NewTexts <- MCNewTexts
  DepStartMask = 1
  DepLengthMask = 3
  MinimizeLimit = 1
  MaxText = 5
  MaxStrCalls = 4
  Cases <- MCCases
  Programs <- MCPrograms
  ArgNames = {"p"}
  VarNames = {"v"}
  Sources <- MCSources
  Arrays <- MCArrays
  Sortings <- MCSortings
  Arguments <- MCArguments
  Positions <- MCPositions
  Other <- MCOther
  Undef = 99
INIT EngineInit
NEXT EngineNext
INVARIANTS
  AtomsExact
  AllocationsHeld
  WatchingSound
  CacheExact
  SlotsExact
  ResolvingExact
  TextsNeverChange
  MatchesExact
  UnwindsExactly
  PrintsWhatItMeans
  RunsAsWritten
  DepthBounds
  ArrayMethodsExact
PROPERTIES
  DHashIsKeySet
  ScopesAreOrderedMaps
CHECK_DEADLOCK FALSE
