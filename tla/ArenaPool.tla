----------------------------- MODULE ArenaPool -----------------------------
(***************************************************************************)
(* Arena pools (jsarena.c, jsarena.h): stacks of allocations in a chain of *)
(* arenas, marked and released in bulk, and the list of free arenas every  *)
(* pool shares.  An allocation larger than pool->arenasize gets an arena   *)
(* with a header that points back at the arena before it.                  *)
(*                                                                         *)
(* Memory is counted in units; the back pointer takes one of them and the  *)
(* arena's own header none, and alignment adds nothing.  The memory a pool *)
(* starts with is empty, so its chain is the arenas after pool->first.     *)
(* Clients release marks newest first, and free or grow only what they     *)
(* hold; what they free is oversized, alone in its arena or the last one   *)
(* of it, as JS_ArenaFreeAllocation has no way to free another.            *)
(*                                                                         *)
(* An oversized allocation may share its arena: one taken from the free    *)
(* list may have room left, where a later allocation goes.  The code takes *)
(* for granted that it "owns an entire arena" (jsarena.c 291): it grows or *)
(* frees the whole arena, and the other allocations there are lost.  Using *)
(* a lost allocation is undefined; here it is no longer held.              *)
(***************************************************************************)
EXTENDS Integers, Sequences, FiniteSets, SequencesExt, FiniteSetsExt

CONSTANTS
    Pools,
    ArenaSize,       \* pool->arenasize of each pool
    ArenaIds,        \* numbers standing for what malloc may return
    MaxAlloc,        \* bound: the largest allocation asked for
    MaxHeld,         \* bound: allocations a pool's clients hold at once
    MaxMarks,        \* bound: marks a pool has at once
    First            \* the address of pool->first, as a back pointer

ASSUME ArenaPoolAssumption ==
    /\ IsFiniteSet(Pools) /\ ArenaSize \in [Pools -> Nat \ {0}]
    /\ ArenaIds \subseteq Nat /\ First \notin ArenaIds
    /\ MaxAlloc \in Nat /\ MaxHeld \in Nat /\ MaxMarks \in Nat

VARIABLES
    arena,           \* total size, base (1 after a back pointer), avail, back
    arenas,          \* pool -> its arenas, first.next on
    arenaFreelist,
    held,            \* pool -> the allocations held and not lost, oldest first
    marks            \* pool -> the marks held: current->avail and held then

arenaVars == <<arena, arenas, arenaFreelist, held, marks>>

Unused == [total |-> 0, base |-> 0, avail |-> 0, back |-> First]

ArenaInit ==
    /\ arena = [a \in ArenaIds |-> Unused]
    /\ arenas = [p \in Pools |-> <<>>]
    /\ arenaFreelist = <<>>
    /\ held = [p \in Pools |-> <<>>]
    /\ marks = [p \in Pools |-> <<>>]

-----------------------------------------------------------------------------
Malloced == {a \in ArenaIds : arena[a].total > 0}

\* The arena before position i of a chain: what a back pointer there must be.
Before(c, i) == IF i = 1 THEN First ELSE c[i - 1]

Current(p) == IF arenas[p] = <<>> THEN First ELSE Last(arenas[p])

Room(a) == IF a = First THEN 0 ELSE arena[a].total - arena[a].avail

Oversized(p, nb) == nb > ArenaSize[p]

Gross(p, nb) == IF Oversized(p, nb) THEN nb + 1 ELSE ArenaSize[p]

\* The free arenas JS_ArenaAllocate would take, by position.
Fitting(p, nb) ==
    {i \in DOMAIN arenaFreelist :
        LET sz == arena[arenaFreelist[i]].total IN
        IF Oversized(p, nb) THEN sz >= Gross(p, nb) /\ sz <= Gross(p, nb) + ArenaSize[p]
        ELSE sz = Gross(p, nb)}

Block(a, off, size) == [arena |-> a, off |-> off, size |-> size]

HoldBlock(p, block) == held' = [held EXCEPT ![p] = Append(@, block)]

\* The fast path of JS_ARENA_ALLOCATE and the first test of JS_ArenaAllocate;
\* pool->current is always the last arena, so the walk ends there.
AllocateHere(p, nb) ==
    LET a == Current(p) IN
    /\ Room(a) >= nb
    /\ arena' = [arena EXCEPT ![a].avail = @ + nb]
    /\ HoldBlock(p, Block(a, arena[a].avail, nb))
    /\ UNCHANGED <<arenas, arenaFreelist, marks>>

\* A new arena at the end of the chain: the first that fits of the free list,
\* else from malloc.
AllocateArena(p, nb) ==
    LET fit == Fitting(p, nb)
        base == IF Oversized(p, nb) THEN 1 ELSE 0
        Link(a, total) ==
            /\ arena' = [arena EXCEPT ![a] = [total |-> total, base |-> base,
                                             avail |-> base + nb, back |-> Current(p)]]
            /\ arenas' = [arenas EXCEPT ![p] = Append(@, a)]
            /\ HoldBlock(p, Block(a, base, nb))
    IN /\ Room(Current(p)) < nb
       /\ IF fit # {}
          THEN /\ Link(arenaFreelist[Min(fit)], arena[arenaFreelist[Min(fit)]].total)
               /\ arenaFreelist' = RemoveAt(arenaFreelist, Min(fit))
          ELSE /\ Malloced # ArenaIds
               /\ Link(Min(ArenaIds \ Malloced), Gross(p, nb))
               /\ UNCHANGED arenaFreelist
       /\ UNCHANGED marks

Allocate(p, nb) == Len(held[p]) < MaxHeld /\ (AllocateHere(p, nb) \/ AllocateArena(p, nb))

-----------------------------------------------------------------------------
(* Growing. *)

NewerThanMarks(p, k) == \A m \in ToSet(marks[p]) : m.count < k

\* The elements of a sequence at the places in K, in order.
Keeping(s, K) ==
    [i \in 1..Cardinality(K) |-> s[CHOOSE k \in K : Cardinality({j \in K : j <= k}) = i]]

\* The places of a pool's allocations in other arenas than that of k.
OutsideArena(p, k) == {j \in DOMAIN held[p] : held[p][j].arena # held[p][k].arena}

\* Mutant: the next arena's header keeps the old address.
FixNothing(ar, p, c, i) == ar

\* After a leaves place i of the chain for b, or for good, the arena after it,
\* when its allocation is oversized, is told what is before it now.
FixNext(ar, p, c, i) ==
    IF i + 1 <= Len(c) /\ Oversized(p, ar[c[i + 1]].avail - ar[c[i + 1]].base)
    THEN [ar EXCEPT ![c[i + 1]].back = c[i]] ELSE ar

\* JS_ArenaRealloc of the allocation at k, which begins its arena: the arena
\* is found by its header, or when it had none by walking to pool->current;
\* realloc may move it.  It is then as large as this allocation, and what else
\* lay in it is lost.
Realloc(p, k, size) ==
    LET block == held[p][k]
        a == block.arena
        ap == IF Oversized(p, block.size) THEN arena[a].back ELSE Before(arenas[p], Len(arenas[p]))
        i == IF ap = First THEN 1 ELSE 1 + CHOOSE j \in DOMAIN arenas[p] : arenas[p][j] = ap
    IN /\ \E b \in {a} \cup {Min((ArenaIds \ Malloced) \cup {a})} :
            LET moved == [arenas[p] EXCEPT ![i] = b]
                ar == IF b = a THEN arena
                      ELSE FixNext([arena EXCEPT ![b] = arena[a], ![a] = Unused], p, moved, i)
            IN /\ arenas' = [arenas EXCEPT ![p] = moved]
               /\ arena' = [ar EXCEPT ![b] = [total |-> size + 1, base |-> 1,
                                             avail |-> size + 1, back |-> ap]]
               /\ held' = [held EXCEPT ![p] =
                             Keeping([held[p] EXCEPT ![k] = Block(b, 1, size)], {k} \cup OutsideArena(p, k))]
       /\ UNCHANGED <<arenaFreelist, marks>>

\* JS_ARENA_GROW: in place, by realloc, or by copying to a new allocation (the
\* old one stays where it is).
Grow(p, k, size) ==
    LET block == held[p][k]
        a == block.arena
        atEnd == a = Current(p) /\ arena[a].avail = block.off + block.size
        inPlace == atEnd /\ block.off + size <= arena[a].total
        whole == Oversized(p, block.size) \/ (atEnd /\ block.off = arena[a].base)
    IN /\ NewerThanMarks(p, k)
       /\ \/ /\ inPlace
             /\ arena' = [arena EXCEPT ![a].avail = block.off + size]
             /\ held' = [held EXCEPT ![p][k].size = size]
             /\ UNCHANGED <<arenas, arenaFreelist, marks>>
          \/ ~inPlace /\ whole /\ Realloc(p, k, size)
          \/ ~inPlace /\ ~whole /\ Allocate(p, size)

-----------------------------------------------------------------------------
(* Marks, releases and frees. *)

Mark(p) ==
    /\ Len(marks[p]) < MaxMarks
    /\ marks' = [marks EXCEPT ![p] = Append(@,
                   [arena |-> Current(p), count |-> Len(held[p]),
                    avail |-> IF Current(p) = First THEN 0 ELSE arena[Current(p)].avail])]
    /\ UNCHANGED <<arena, arenas, arenaFreelist, held>>

\* JS_ARENA_RELEASE: the arenas after the one the mark points into go back to
\* the malloc heap; a mark that points nowhere any more releases nothing.
ReleaseTo(p) ==
    /\ marks[p] # <<>>
    /\ LET m == Last(marks[p])
           keeps == {i \in DOMAIN arenas[p] :
                       arenas[p][i] = m.arena /\ m.avail >= arena[m.arena].base
                         /\ m.avail <= arena[m.arena].avail}
           kept == IF m.arena = First THEN 0 ELSE Min(keeps)
           gone == ToSet(SubSeq(arenas[p], kept + 1, Len(arenas[p])))
           still == [i \in 1..m.count |-> held[p][i]]
       IN /\ marks' = [marks EXCEPT ![p] = Front(@)]
          /\ held' = [held EXCEPT ![p] = still]
          /\ IF m.arena # First /\ keeps = {} THEN UNCHANGED <<arena, arenas>>
             ELSE /\ arenas' = [arenas EXCEPT ![p] = SubSeq(@, 1, kept)]
                  /\ arena' = [a \in ArenaIds |->
                                 IF a \in gone THEN Unused
                                 ELSE IF a = m.arena THEN [arena[a] EXCEPT !.avail = m.avail]
                                 ELSE arena[a]]
    /\ UNCHANGED arenaFreelist

\* JS_ArenaFreeAllocation of the allocation at k, in any order: an oversized
\* one takes its arena with it and what else lies there, another one its arena
\* when alone in it; else the cursor is drawn back when it stands at the end of
\* the allocation (the walk for one that ends elsewhere finds no arena).
FreeAllocation(p, k) ==
    LET block == held[p][k]
        a == block.arena
        i == IF Oversized(p, block.size)
             THEN IF arena[a].back = First THEN 1
                  ELSE 1 + CHOOSE j \in DOMAIN arenas[p] : arenas[p][j] = arena[a].back
             ELSE CHOOSE j \in DOMAIN arenas[p] : arenas[p][j] = a
        doomed == arenas[p][i]
        rest == RemoveAt(arenas[p], i)
        fixed == IF i <= Len(rest) /\ Oversized(p, arena[rest[i]].avail - arena[rest[i]].base)
                 THEN [arena EXCEPT ![rest[i]].back = Before(rest, i)] ELSE arena
    IN /\ NewerThanMarks(p, k)
       /\ IF Oversized(p, block.size)
             \/ (block.off = arena[a].base /\ arena[a].avail = block.off + block.size)
          THEN /\ arena' = [fixed EXCEPT ![doomed] = Unused]
               /\ arenas' = [arenas EXCEPT ![p] = rest]
               /\ held' = [held EXCEPT ![p] = Keeping(@, OutsideArena(p, k))]
          ELSE /\ arena[a].avail = block.off + block.size
               /\ held' = [held EXCEPT ![p] = RemoveAt(@, k)]
               /\ arena' = [arena EXCEPT ![a].avail = block.off]
               /\ UNCHANGED arenas
       /\ UNCHANGED <<arenaFreelist, marks>>

\* JS_FreeArenaPool: the whole chain goes to the front of the free list.
FreeArenaPool(p) ==
    /\ arenas[p] # <<>>
    /\ arenaFreelist' = arenas[p] \o arenaFreelist
    /\ arenas' = [arenas EXCEPT ![p] = <<>>]
    /\ held' = [held EXCEPT ![p] = <<>>]
    /\ marks' = [marks EXCEPT ![p] = <<>>]
    /\ UNCHANGED arena

\* JS_ArenaFinish: the free list goes back to the malloc heap.
ArenaFinish ==
    /\ arenaFreelist # <<>>
    /\ arena' = [a \in ArenaIds |-> IF a \in ToSet(arenaFreelist) THEN Unused ELSE arena[a]]
    /\ arenaFreelist' = <<>>
    /\ UNCHANGED <<arenas, held, marks>>

ArenaNext ==
    \/ \E p \in Pools :
        \/ \E nb \in 1..MaxAlloc : Allocate(p, nb)
        \/ \E k \in DOMAIN held[p] :
            \/ \E size \in held[p][k].size + 1 .. MaxAlloc : Grow(p, k, size)
            \/ FreeAllocation(p, k)
        \/ Mark(p)
        \/ ReleaseTo(p)
        \/ FreeArenaPool(p)
    \/ ArenaFinish

ArenaSpec == ArenaInit /\ [][ArenaNext]_arenaVars

-----------------------------------------------------------------------------
(* Correctness. *)

Bytes(block) == {<<block.arena, i>> : i \in block.off .. block.off + block.size - 1}

\* What a client holds stays its own until it gives it back, whatever is
\* allocated, grown, moved, released or freed around it (the oversized
\* allocation it shares an arena with excepted): it lies in an arena of
\* its pool's chain, below the cursor, no two held allocations overlap, no
\* arena is in two lists, and the header of an oversized allocation names the
\* arena before it (the JS_ASSERTs of JS_ArenaRealloc, jsarena.c:243, 263).
AllocationsHeld ==
    /\ \A p \in Pools : \A k \in DOMAIN held[p] :
        LET block == held[p][k] IN
        \E i \in DOMAIN arenas[p] :
            /\ arenas[p][i] = block.arena
            /\ arena[block.arena].base <= block.off
            /\ block.off + block.size <= arena[block.arena].avail
            /\ arena[block.arena].avail <= arena[block.arena].total
            /\ Oversized(p, block.size) /\ arena[block.arena].base = 1 =>
                 arena[block.arena].back = Before(arenas[p], i)
    /\ \A p, q \in Pools : \A i \in DOMAIN held[p], j \in DOMAIN held[q] :
        <<p, i>> # <<q, j>> => Bytes(held[p][i]) \cap Bytes(held[q][j]) = {}
    /\ LET lists == FlattenSeq(<<arenaFreelist>> \o SetToSeq({arenas[p] : p \in Pools}))
       IN IsInjective(lists) /\ ToSet(lists) = Malloced
=============================================================================
