\* A setter that deletes its property and defines another: the value goes to the other one.
SPECIFICATION ObjectsSpec
CONSTANTS
    proto = proto
    child = child
    JSObjects = {proto, child}
    PropIds = {1, 2}
    ProtoChain <- MCProtoChain
    ScopeChain <- MCScopeChain
    Resolvers = {child}
    HookedClass = {child}
    Mortal = {child}
    PropOffers <- MCPropOffers
    CacheHash <- MCCacheHash
    Reserved = 1
    InitialSlots = 2
    MaxNslots = 5
    MaxPending = 3
    MaxPropCalls = 4
    NoProp = NoProp
INVARIANTS StoresInOwnSlot
CHECK_DEADLOCK FALSE
