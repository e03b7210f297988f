------------------------------ MODULE HashChain ------------------------------
(***************************************************************************)
(* The chained hash tables of jshash.c, as operators on a table value: the *)
(* buckets are chains of keys, first entry first.  A lookup moves what it  *)
(* finds to the front of its chain.                                        *)
(***************************************************************************)
EXTENDS Integers, FiniteSets, Sequences, SequencesExt

CONSTANTS
    HashCode,     \* each key's scrambled hash, HashBits wide
    HashBits,     \* JS_HASH_BITS
    MinBucketsLog2

\* HashBits is 32 and MinBucketsLog2 4 in the code.
ASSUME HashChainAssumption ==
    /\ HashBits \in Nat /\ MinBucketsLog2 \in 0..HashBits
    /\ HashCode \in [DOMAIN HashCode -> 0..2 ^ HashBits - 1]

Keys == DOMAIN HashCode

NBuckets(log2) == 2 ^ log2
BucketOf(k, log2) == HashCode[k] \div NBuckets(HashBits - log2)

\* The load beyond which a table of n buckets grows, and below which it shrinks.
OVERLOADED(n) == n - n \div 8
UNDERLOADED(n) == IF n > NBuckets(MinBucketsLog2) THEN n \div 4 ELSE 0

NewTable == [log2 |-> MinBucketsLog2, n |-> 0,
             chains |-> [b \in 0..NBuckets(MinBucketsLog2) - 1 |-> <<>>]]

Chain(t, k) == t.chains[BucketOf(k, t.log2)]

\* All entries in the order in which an enumeration meets them.
Entries(t) == FlattenSeq([b \in 1..NBuckets(t.log2) |-> t.chains[b - 1]])

HasKey(t, k) == k \in ToSet(Chain(t, k))

\* The keys of a chain that are in S, in their order.
Only(c, S) ==
    LET upTo[i \in 0..Len(c)] ==
            IF i = 0 THEN <<>>
            ELSE IF c[i] \in S THEN Append(upTo[i - 1], c[i]) ELSE upTo[i - 1]
    IN upTo[Len(c)]

\* What JS_HashTableRawLookup leaves of the table when it finds k.
FoundFirst(t, k) ==
    [t EXCEPT !.chains[BucketOf(k, t.log2)] = <<k>> \o Only(@, Keys \ {k})]

\* The entries, met in order, go to the ends of the chains of a new array.
Rehashed(t, log2) ==
    [t EXCEPT !.log2 = log2,
              !.chains = [b \in 0..NBuckets(log2) - 1 |->
                             Only(Entries(t), {k \in Keys : BucketOf(k, log2) = b})]]

\* JS_HashTableRawAdd: the table grows first if it is overloaded.
RawAdd(t, k) ==
    LET room == IF t.n >= OVERLOADED(NBuckets(t.log2)) THEN Rehashed(t, t.log2 + 1) ELSE t
    IN [room EXCEPT !.n = @ + 1, !.chains[BucketOf(k, room.log2)] = Append(@, k)]

\* The size after `gone' entries have been freed one by one, memory permitting.
ShrunkBuckets(t, gone) ==
    LET size[i \in 0..gone] ==
            IF i = 0 THEN t.log2
            ELSE IF t.n - i < UNDERLOADED(NBuckets(size[i - 1])) THEN size[i - 1] - 1
            ELSE size[i - 1]
    IN size[gone]

(***************************************************************************)
(* JS_HashTableEnumerateEntries, the enumerator asking for the removal of  *)
(* the entries not in Kept: they are unlinked on the way, then freed one   *)
(* by one, when the table may shrink under those that stay.                *)
(***************************************************************************)
EnumerateKeeping(t, Kept, memory) ==
    LET left == [t EXCEPT !.chains = [b \in DOMAIN t.chains |-> Only(t.chains[b], Kept)]]
        gone == t.n - Len(Entries(left))
        log2 == IF memory THEN ShrunkBuckets(t, gone) ELSE t.log2
        counted == [left EXCEPT !.n = t.n - gone]
    IN IF log2 = t.log2 THEN counted ELSE Rehashed(counted, log2)
=============================================================================
