-------------------------------- MODULE DHash --------------------------------
(***************************************************************************)
(* jsdhash.c: open addressing with double hashing.  A removed entry leaves *)
(* a sentinel behind if some other key's probe sequence has passed it (its *)
(* collision flag), else a free slot.  The table grows, shrinks or is      *)
(* compressed in place; memory for that may be refused.                    *)
(*                                                                         *)
(* Hash codes have Bits bits where the code has 32, bit 0 being the flag.  *)
(***************************************************************************)
EXTENDS Integers, FiniteSets, FiniteSetsExt

CONSTANTS
    DHKeys,
    KeyHash,     \* each key's hash code, even and not 0
    Bits,        \* JS_DHASH_BITS
    MinLog2,     \* log2 of JS_DHASH_MIN_SIZE
    LimitLog2    \* log2 of JS_DHASH_SIZE_LIMIT

\* 32, 4 and 24 in the code.
ASSUME DHashAssumption ==
    /\ Bits \in Nat /\ MinLog2 \in Nat /\ LimitLog2 \in Nat
    /\ 2 <= MinLog2 /\ MinLog2 < LimitLog2 /\ LimitLog2 <= Bits
    /\ KeyHash \in [DHKeys -> 0..2 ^ Bits - 1]

VARIABLES
    sizeLog2,    \* JS_DHASH_BITS - table->hashShift
    store,       \* table->entryStore
    entryCount, removedCount,
    dhAnswer     \* between calls "idle", else what a call is about to return

dhVars == <<sizeLog2, store, entryCount, removedCount, dhAnswer>>

FREE == [state |-> "free"]
REMOVED == [state |-> "removed"]
LiveSlot(k, flag) == [state |-> "live", key |-> k, collided |-> flag]

ENTRY_IS_LIVE(e) == e.state = "live"
Matches(e, k) == ENTRY_IS_LIVE(e) /\ e.key = k

Size(log2) == 2 ^ log2
Slots(log2) == 0..Size(log2) - 1
EmptyStore(log2) == [i \in Slots(log2) |-> FREE]

\* maxAlphaFrac and minAlphaFrac
MAX_LOAD(size) == (192 * size) \div 256
MIN_LOAD(size) == (64 * size) \div 256

HASH1(h, log2) == h \div Size(Bits - log2)

HASH2(h, log2) ==
    LET h2 == ((h * Size(log2)) % Size(Bits)) \div Size(Bits - log2)
    IN IF h2 % 2 = 0 THEN h2 + 1 ELSE h2

\* The slot of key k's n-th probe.
Probe(k, n, log2) ==
    (HASH1(KeyHash[k], log2) - n * HASH2(KeyHash[k], log2)) % Size(log2)

Stops(st, k, n, log2) ==
    LET e == st[Probe(k, n, log2)] IN e = FREE \/ Matches(e, k)

SearchEnds(st, k, log2) == \E n \in Slots(log2) : Stops(st, k, n, log2)

\* How many slots a search for k passes.
Passes(st, k, log2) == Min({n \in Slots(log2) : Stops(st, k, n, log2)})

\* SearchTable for a lookup: the slot with k, or a free one.
Search(st, k, log2) == Probe(k, Passes(st, k, log2), log2)

\* A lookup comes to an entry for k before it comes to a free slot.
Finds(st, k, log2) ==
    \E n \in Slots(log2) :
        /\ Matches(st[Probe(k, n, log2)], k)
        /\ \A m \in 0..n - 1 : st[Probe(k, m, log2)] # FREE

\* The removed entries that a search for k passes.
Recyclable(st, k, log2) ==
    {n \in 0..Passes(st, k, log2) - 1 : st[Probe(k, n, log2)] = REMOVED}

\* SearchTable for an addition: the first sentinel passed is used again.
SearchToAdd(st, k, log2) ==
    LET removed == Recyclable(st, k, log2)
    IN IF Matches(st[Search(st, k, log2)], k) \/ removed = {}
       THEN Search(st, k, log2)
       ELSE Probe(k, Min(removed), log2)

\* Mutant of Flagged: only the first slot passed is flagged.
FlaggedOnce(st, k, log2) ==
    [i \in DOMAIN st |->
        IF ENTRY_IS_LIVE(st[i]) /\ Passes(st, k, log2) > 0 /\ i = Probe(k, 0, log2)
        THEN LiveSlot(st[i].key, TRUE) ELSE st[i]]

\* An addition flags the live entries it passes, also when it then finds k.
Flagged(st, k, log2) ==
    LET passed == {Probe(k, n, log2) : n \in 0..Passes(st, k, log2) - 1}
    IN [i \in DOMAIN st |-> IF ENTRY_IS_LIVE(st[i]) /\ i \in passed
                            THEN LiveSlot(st[i].key, TRUE) ELSE st[i]]

\* Enters k, which st does not hold.
Enter(st, k, log2) ==
    LET i == SearchToAdd(st, k, log2)
    IN [Flagged(st, k, log2) EXCEPT ![i] = LiveSlot(k, st[i] = REMOVED)]

----------------------------------------------------------------------------
(* ChangeTable: the live entries move to a store of the new size, in order. *)

LiveIn(st) == {i \in DOMAIN st : ENTRY_IS_LIVE(st[i])}

Moved(st, log2) ==
    LET moved[n \in 0..Cardinality(DOMAIN st)] ==   \* the first n slots
            IF n = 0 THEN EmptyStore(log2)
            ELSE IF ENTRY_IS_LIVE(st[n - 1]) THEN Enter(moved[n - 1], st[n - 1].key, log2)
            ELSE moved[n - 1]
    IN moved[Cardinality(DOMAIN st)]

ChangeTable(st, log2) ==
    /\ log2 < LimitLog2
    /\ sizeLog2' = log2
    /\ store' = Moved(st, log2)
    /\ removedCount' = 0

KeepTable(st, removed) ==
    store' = st /\ removedCount' = removed /\ UNCHANGED sizeLog2

Idle == [op |-> "idle", keys |-> {}, ok |-> TRUE]
Says(op, keys, ok) == dhAnswer = Idle /\ dhAnswer' = [op |-> op, keys |-> keys, ok |-> ok]

DHInit ==
    /\ sizeLog2 = MinLog2 /\ store = EmptyStore(MinLog2)
    /\ entryCount = 0 /\ removedCount = 0
    /\ dhAnswer = Idle

----------------------------------------------------------------------------
(* JS_DHASH_ADD                                                             *)

Overloaded == entryCount + removedCount >= MAX_LOAD(Size(sizeLog2))

\* Compressed if a quarter or more of the entries are removed, else grown.
GrownLog2 == IF removedCount >= Size(sizeLog2) \div 4 THEN sizeLog2 ELSE sizeLog2 + 1

LastFree == entryCount + removedCount = Size(sizeLog2) - 1

\* The optional hook initEntry, which could fail here, is in no table of the engine.
AddTo(st, removed, log2, k) ==
    LET i == SearchToAdd(st, k, log2)
    IN /\ Says("add", {k}, TRUE)
       /\ SearchEnds(st, k, log2)
       /\ sizeLog2' = log2
       /\ IF Matches(st[i], k)
          THEN store' = Flagged(st, k, log2) /\ removedCount' = removed /\ UNCHANGED entryCount
          ELSE /\ store' = Enter(st, k, log2)
               /\ removedCount' = IF st[i] = REMOVED THEN removed - 1 ELSE removed
               /\ entryCount' = entryCount + 1

DHAdd(k) == ~Overloaded /\ AddTo(store, removedCount, sizeLog2, k)

DHAddGrowing(k) ==
    Overloaded /\ GrownLog2 < LimitLog2 /\ AddTo(Moved(store, GrownLog2), 0, GrownLog2, k)

\* ChangeTable has failed.
DHAddTight(k) == Overloaded /\ ~LastFree /\ AddTo(store, removedCount, sizeLog2, k)

DHAddFails(k) ==
    /\ Overloaded /\ LastFree
    /\ Says("add", {k}, FALSE)
    /\ UNCHANGED <<sizeLog2, store, entryCount, removedCount>>

----------------------------------------------------------------------------
(* JS_DHASH_REMOVE and JS_DHashTableEnumerate                               *)

\* Mutant of RawRemoved: no sentinel is left.
RawFreed(st, gone) == [i \in DOMAIN st |-> IF i \in gone THEN FREE ELSE st[i]]

\* JS_DHashTableRawRemove of the entries at some slots.
RawRemoved(st, gone) ==
    [i \in DOMAIN st |-> IF i \notin gone THEN st[i]
                         ELSE IF st[i].collided THEN REMOVED ELSE FREE]

RemovedNow(gone) == removedCount + Cardinality({i \in gone : store[i].collided})

Underloaded(count) == sizeLog2 > MinLog2 /\ count <= MIN_LOAD(Size(sizeLog2))

DHRemove(k) ==
    LET i == Search(store, k, sizeLog2)
    IN /\ Says("remove", {k}, TRUE)
       /\ SearchEnds(store, k, sizeLog2)
       /\ IF Matches(store[i], k)
          THEN /\ entryCount' = entryCount - 1
               /\ \/ Underloaded(entryCount - 1)
                     /\ ChangeTable(RawRemoved(store, {i}), sizeLog2 - 1)
                  \/ KeepTable(RawRemoved(store, {i}), RemovedNow({i}))
          ELSE UNCHANGED <<sizeLog2, store, entryCount, removedCount>>

\* JS_CeilingLog2
CeilingLog2(n) == Min({l \in 0..Bits : Size(l) >= n})

\* The size an enumeration leaves room for: half as many entries again.
ShrunkLog2(count) == CeilingLog2(Max({count + count \div 2, Size(MinLog2)}))

\* The enumerator asks for the removal of some entries.
DHEnumerate(R) ==
    LET gone == {i \in LiveIn(store) : store[i].key \in R}
        count == entryCount - Cardinality(gone)
        shrinks == \/ RemovedNow(gone) >= Size(sizeLog2) \div 4
                   \/ Underloaded(count)
    IN /\ Says("enumerate", R, TRUE)
       /\ R # {} /\ \A k \in R : \E i \in gone : store[i].key = k
       /\ entryCount' = count
       /\ \/ shrinks /\ ChangeTable(RawRemoved(store, gone), ShrunkLog2(count))
          \/ KeepTable(RawRemoved(store, gone), RemovedNow(gone))

DHReturn ==
    /\ dhAnswer # Idle /\ dhAnswer' = Idle
    /\ UNCHANGED <<sizeLog2, store, entryCount, removedCount>>

DHNext ==
    \/ DHReturn
    \/ \E k \in DHKeys : DHAdd(k) \/ DHAddGrowing(k) \/ DHAddTight(k) \/ DHAddFails(k)
    \/ \E k \in DHKeys : DHRemove(k)
    \/ \E R \in SUBSET DHKeys : DHEnumerate(R)

DHSpec == DHInit /\ [][DHNext]_dhVars

----------------------------------------------------------------------------
(***************************************************************************)
(* The counts are those of the store, no key has two entries, and every    *)
(* search ends: a free slot is always left on each probe sequence, whatever *)
(* has been removed, recycled, compressed or refused memory (jsdhash.c     *)
(* 353-425 loops without a bound).                                         *)
(***************************************************************************)
TableExact ==
    /\ entryCount = Cardinality(LiveIn(store))
    /\ removedCount = Cardinality({i \in DOMAIN store : store[i] = REMOVED})
    /\ \A i, j \in LiveIn(store) : store[i].key = store[j].key => i = j
    /\ \A k \in DHKeys : SearchEnds(store, k, sizeLog2)

KS == INSTANCE KeySet WITH
          Keys <- DHKeys,
          present <- {k \in DHKeys : Finds(store, k, sizeLog2)},
          answer <- dhAnswer

(***************************************************************************)
(* The table is the set of keys that lookups find: no removal, recycled    *)
(* sentinel, resize or refused memory ever hides another key or brings one *)
(* back, and every step leaves the table as TableExact has it.             *)
(* (KS!KeySetSpec, without a stutter: every step is one of a call.)        *)
(***************************************************************************)
DHashIsKeySet ==
    KS!KeySetInit /\ [][TableExact' /\ (UNCHANGED dhVars \/ KS!KeySetNext)]_dhVars
=============================================================================
