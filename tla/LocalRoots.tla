----------------------------- MODULE LocalRoots -----------------------------
(***************************************************************************)
(* The local root stack of a context (jscntxt.c): roots in chunks linked   *)
(* from the newest down, rootCount of them, the start of a scope marked by *)
(* an entry that saves the scopeMark of the one around it.                 *)
(***************************************************************************)
EXTENDS Integers, Sequences, FiniteSets, SequencesExt

CONSTANTS
    Things,      \* GC things
    Null,        \* JSVAL_NULL, in vacated entries
    NullMark,    \* JSLRS_NULL_MARK
    ChunkSize,   \* JSLRS_CHUNK_SIZE (64)
    CountSize,   \* values of the uint16 rootCount (2^16)
    EnterBelow   \* bound: scopes are entered while rootCount is below it

ASSUME RootsAssumption ==
    /\ ChunkSize \in Nat \ {0} /\ CountSize \in Nat /\ EnterBelow \in Nat
    /\ CountSize % ChunkSize = 0 /\ CountSize > 0
    /\ NullMark \notin Nat /\ Things \cap (Nat \cup {Null, NullMark}) = {}

VARIABLES
    chunks,      \* the chunks, oldest first: <<>> when cx->localRootStack is NULL
    rootCount,   \* lrs->rootCount
    scopeMark    \* lrs->scopeMark

lrVars == <<chunks, rootCount, scopeMark>>

Marks == 0 .. CountSize - 1
EmptyChunk == [j \in 0 .. ChunkSize - 1 |-> Null]

(* The chunk an entry is in, and the entry. *)
ChunkOf(i) == i \div ChunkSize + 1
EntryAt(i) == chunks[ChunkOf(i)][i % ChunkSize]

----------------------------------------------------------------------------
LRInit == chunks = <<>> /\ rootCount = 0 /\ scopeMark = NullMark

(* js_PushLocalRoot onto the stack (cs, n): fails when rootCount would wrap, or when
   malloc gives no new chunk.  It returns the index in the chunk, not in the stack. *)
PushLocalRoot(cs, n, v, mark) ==
    /\ (n + 1) % CountSize # 0 \/ (n # 0 /\ n % ChunkSize = 0)
    /\ LET grown == IF n # 0 /\ n % ChunkSize = 0 THEN Append(cs, EmptyChunk) ELSE cs
       IN  chunks' = [grown EXCEPT ![Len(grown)][n % ChunkSize] = v]
    /\ rootCount' = (n + 1) % CountSize
    /\ scopeMark' = mark

EnterLocalRootScope ==
    /\ rootCount < EnterBelow
    /\ PushLocalRoot(IF chunks = <<>> THEN <<EmptyChunk>> ELSE chunks,
                     rootCount, scopeMark, rootCount % ChunkSize)

(* js_AllocGCThing in a local root scope. *)
AllocGCThing(v) ==
    /\ chunks # <<>>
    /\ PushLocalRoot(chunks, rootCount, v, scopeMark)

(* The outer mark is found in the entry at j of the chunk of scopeMark. *)
LeaveReading(j) ==
    /\ chunks # <<>> /\ rootCount # 0 /\ scopeMark # NullMark
    /\ LET m    == scopeMark % ChunkSize
           kept == SubSeq(chunks, 1, Len(chunks)
                       - ((rootCount - 1) \div ChunkSize - scopeMark \div ChunkSize))
           low  == kept[Len(kept)][j]
       IN  /\ scopeMark' = low
           /\ rootCount' = scopeMark
           /\ chunks' = IF scopeMark = 0 THEN <<>>
                        ELSE IF m = 0 THEN Front(kept)
                        ELSE [kept EXCEPT ![Len(kept)][m] = Null]

LeaveLocalRootScope == LeaveReading(scopeMark % ChunkSize)

(* The newest entry of the current scope that holds v is given the value top, and
   the top entry is popped, with its chunk if empty. *)
ForgetWith(v, top, empty) ==
    /\ chunks # <<>> /\ rootCount # 0 /\ scopeMark # NullMark
    /\ LET n == rootCount - 1
           found == {i \in scopeMark + 1 .. n : EntryAt(i) = v}
       IN  /\ scopeMark < n
           /\ found # {}
           /\ LET i == CHOOSE i \in found : \A j \in found : j <= i
                  swapped == [chunks EXCEPT ![ChunkOf(i)][i % ChunkSize] = top]
              IN  chunks' = IF empty THEN Front(swapped)
                            ELSE [swapped EXCEPT ![ChunkOf(n)][n % ChunkSize] = Null]
           /\ rootCount' = n
    /\ UNCHANGED scopeMark

(* Mutants: the emptied chunk is kept; the entry below the top one takes the place
   of the forgotten one. *)
ForgetKeepsChunk(v) == ForgetWith(v, EntryAt(rootCount - 1), FALSE)
ForgetFillsBelow(v) ==
    ForgetWith(v, EntryAt(rootCount - 2), (rootCount - 1) % ChunkSize = 0)

ForgetLocalRoot(v) == ForgetWith(v, EntryAt(rootCount - 1), (rootCount - 1) % ChunkSize = 0)

LRNext ==
    \/ EnterLocalRootScope
    \/ LeaveLocalRootScope
    \/ \E v \in Things : AllocGCThing(v) \/ ForgetLocalRoot(v)

LRSpec == LRInit /\ [][LRNext]_lrVars

----------------------------------------------------------------------------
(* Mutant: the walk does not go down from the top chunk. *)
WalkInTop(n) == chunks[Len(chunks)][n % ChunkSize]

(* The entry js_MarkLocalRoots meets at count n: it goes one chunk down for each
   chunk boundary it has crossed. *)
Walk(n) ==
    LET crossed == {k \in n + 1 .. rootCount - 1 : k % ChunkSize = 0}
    IN  chunks[Len(chunks) - Cardinality(crossed)][n % ChunkSize]

(* js_MarkLocalRoots walks from the top entry and stops above scopeMark. *)
MarkLocalRoots ==
    IF rootCount = 0 \/ scopeMark = NullMark THEN {}
    ELSE {Walk(n) : n \in scopeMark + 1 .. rootCount - 1}

(* The scopes the entries stand for: each starts above an entry that saves a mark. *)
Starts == {i \in 0 .. rootCount - 1 : EntryAt(i) \in Marks \cup {NullMark}}

(* The kth smallest member of S. *)
NthOf(S, k) == CHOOSE i \in S : Cardinality({j \in S : j < i}) = k - 1

EndOf(k) == IF k = Cardinality(Starts) THEN rootCount ELSE NthOf(Starts, k + 1)

LocalScopes ==
    [k \in 1 .. Cardinality(Starts) |->
        [j \in 1 .. EndOf(k) - NthOf(Starts, k) - 1 |-> EntryAt(NthOf(Starts, k) + j)]]

RootScopes == INSTANCE LocalRootScopes WITH scopes <- LocalScopes

LRTypeOK ==
    /\ chunks \in Seq([0 .. ChunkSize - 1 -> Things \cup Marks \cup {Null, NullMark}])
    /\ rootCount \in Marks
    /\ scopeMark \in Marks \cup {NullMark}

(* Chunks are freed exactly when their last entry goes, whether by leaving a scope
   or by forgetting a root: none leaks and the top entry is always in the top one. *)
ChunksExact ==
    /\ chunks = <<>> <=> rootCount = 0
    /\ chunks # <<>> => Len(chunks) = ChunkOf(rootCount - 1)

(* The chunked stack keeps the promise of jsapi.h: leaving a scope drops its roots
   and no other, forgetting drops one, whatever chunks they are in. *)
ImplementsScopes == RootScopes!Spec

(* What was allocated in the innermost scope and not forgotten is marked by a GC:
   the walk over the chunks misses nothing and never meets a saved mark. *)
InnermostMarked ==
    RootScopes!InScope => MarkLocalRoots = ToSet(Last(LocalScopes))
=============================================================================
