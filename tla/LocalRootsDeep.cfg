\* Scopes entered beyond the first chunk: the pushed mark is an index in a chunk.
SPECIFICATION LRSpec
CONSTANTS
    a = a
    b = b
    c = c
    Things = {a, b, c}
    Null = Null
    NullMark = NullMark
    ChunkSize = 3
    CountSize = 9
    EnterBelow = 6
PROPERTIES ImplementsScopes
