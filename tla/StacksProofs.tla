---------------------------- MODULE StacksProofs ----------------------------
(***************************************************************************)
(* Theorems about the two stacks of the engine.                            *)
(*                                                                         *)
(* LocalRoots: as long as scopes are entered in the first chunk (elsewhere *)
(* js_PushLocalRoot returns an index that is not the entry's), the chunked *)
(* stack is the stack of scopes of jsapi.h, for every size of a chunk, of  *)
(* the count, and every set of things.                                     *)
(*                                                                         *)
(* ArenaPool: what a client holds stays its own, for every set of pools,   *)
(* their arena sizes, every address malloc may return and every size,      *)
(* number and order of allocations, marks and releases.  PoolInv says it:  *)
(*   Listed    an arena is in one list, or malloc's;                       *)
(*   Chained   an arena of a chain began with an allocation still held,    *)
(*             a header points back at the arena before it, and the room   *)
(*             left after an oversized allocation is too small for another *)
(*             oversized one, so those begin their arenas;                 *)
(*   Placed    allocations lie in their arenas and do not overlap;         *)
(*   Marked    a mark divides what was held when it was made from what has *)
(*             come since, and marks are in order.                         *)
(***************************************************************************)
EXTENDS LocalRoots, ArenaPool, FiniteSetTheorems, FunctionTheorems, SequenceTheorems,
        WellFoundedInduction, TLAPS

----------------------------------------------------------------------------
(* Local roots.                                                            *)

FirstChunk == EnterBelow <= ChunkSize /\ ChunkSize > 1

Indices == 0 .. rootCount - 1

(* A vacated entry is not below the count, and the first entry starts a scope. *)
EntriesInv ==
    /\ \A i \in Indices : EntryAt(i) \in Things \cup Marks \cup {NullMark}
    /\ rootCount # 0 => 0 \in Starts
    /\ \A s \in Starts : s < ChunkSize

(* scopeMark and the marks saved lead from each scope to the one around it. *)
MarkChain ==
    /\ IF rootCount = 0 THEN scopeMark = NullMark
       ELSE scopeMark \in Starts /\ \A s \in Starts : s <= scopeMark
    /\ \A s \in Starts :
        IF s = 0 THEN EntryAt(s) = NullMark
        ELSE /\ EntryAt(s) \in Starts /\ EntryAt(s) < s
             /\ \A t \in Starts : t < s => t <= EntryAt(s)

Below(S, i) == {j \in S : j < i}

(* The starts can be counted from the oldest. *)
Counted(S) == \A k \in 1 .. Cardinality(S) : \E i \in S : Cardinality(Below(S, i)) = k - 1

RootsInv == LRTypeOK /\ ChunksExact /\ EntriesInv /\ MarkChain /\ Counted(Starts)

----------------------------------------------------------------------------
(* Division *)

LEMMA Division ==
  \A i \in Nat, n \in Nat \ {0} :
     /\ i \div n \in Nat /\ i % n \in 0 .. n - 1
     /\ i = n * (i \div n) + (i % n)
OBVIOUS

LEMMA QuotientIs ==
  ASSUME NEW n \in Nat \ {0}, NEW i \in Nat, NEW q \in Nat, NEW r \in 0 .. n - 1, i = n * q + r
  PROVE  i \div n = q /\ i % n = r
OBVIOUS

LEMMA InFirst == \A i \in Nat, n \in Nat \ {0} : i < n => i \div n = 0 /\ i % n = i
BY Division

LEMMA DivisionGrows == \A n \in Nat \ {0}, i \in Nat, j \in Nat : i <= j => i \div n <= j \div n
BY Division

(* The quotient grows exactly at the multiples. *)
LEMMA NextQuotient ==
  ASSUME NEW n \in Nat \ {0}, NEW i \in Nat
  PROVE  (i + 1) \div n = IF (i + 1) % n = 0 THEN (i \div n) + 1 ELSE i \div n
<1>1. i = n * (i \div n) + (i % n) /\ i % n \in 0 .. n - 1 /\ i \div n \in Nat
  BY Division
<1>2. CASE i % n = n - 1
  <2>1. i + 1 = n * ((i \div n) + 1) + 0
    BY <1>1, <1>2
  <2>2. 0 \in 0 .. n - 1 /\ (i \div n) + 1 \in Nat /\ i + 1 \in Nat
    BY <1>1
  <2>3. (i + 1) \div n = (i \div n) + 1 /\ (i + 1) % n = 0
    BY ONLY n \in Nat \ {0}, <2>1, <2>2, QuotientIs
  <2> QED BY <2>3
<1>3. CASE i % n # n - 1
  <2>1. i + 1 = n * (i \div n) + ((i % n) + 1)
    BY <1>1
  <2>2. (i % n) + 1 \in 0 .. n - 1 /\ i + 1 \in Nat
    BY <1>1, <1>3
  <2>3. (i + 1) \div n = i \div n /\ (i + 1) % n = (i % n) + 1
    BY ONLY n \in Nat \ {0}, <1>1, <2>1, <2>2, QuotientIs
  <2> QED BY <1>1, <2>3
<1> QED BY <1>2, <1>3

----------------------------------------------------------------------------
(* Extremes *)

LEMMA SmallestExists ==
  ASSUME NEW T \in SUBSET Nat, T # {}
  PROVE  \E m \in T : \A x \in T : m <= x
<1>1. PICK m \in T : \A x \in T : ~(<<x, m>> \in OpToRel(<, Nat))
  BY NatLessThanWellFounded, WFMin
<1>2. ASSUME NEW x \in T PROVE m <= x
  <2>1. ASSUME x < m PROVE <<x, m>> \in OpToRel(<, Nat)
    BY <2>1 DEF OpToRel
  <2>2. ~(x < m) /\ x \in Nat /\ m \in Nat
    BY <1>1, <2>1
  <2> QED BY ONLY <2>2
<1> QED BY <1>2

LEMMA LargestExists ==
  ASSUME NEW T \in SUBSET Nat, T # {}, NEW n \in Nat, \A x \in T : x <= n
  PROVE  \E m \in T : \A x \in T : x <= m
<1> DEFINE D == {n - x : x \in T}
<1>1. ASSUME NEW x \in T PROVE n - x \in D /\ n - x \in Nat
  OBVIOUS
<1>2. D \in SUBSET Nat
  BY <1>1
<1>3. D # {}
  BY <1>1
<1> HIDE DEF D
<1>4. PICK d \in D : \A e \in D : d <= e
  BY <1>2, <1>3, SmallestExists
<1>5. PICK m \in T : d = n - m
  BY DEF D
<1>6. ASSUME NEW x \in T PROVE x <= m
  <2>1. n - m <= n - x
    BY <1>1, <1>4, <1>5
  <2> QED BY <2>1
<1> QED BY <1>6

----------------------------------------------------------------------------
(* Counting *)

LEMMA BelowMember ==
  ASSUME NEW S \in SUBSET Nat, NEW i \in Nat
  PROVE  i \notin Below(S, i) /\ Below(S, i) \in SUBSET S
<1>1. i \notin Below(S, i)
  BY DEF Below
<1>2. Below(S, i) \in SUBSET S
  BY DEF Below
<1> QED BY <1>1, <1>2

LEMMA BelowOne ==
  ASSUME NEW S \in SUBSET Nat, IsFiniteSet(S), NEW i \in S
  PROVE  /\ IsFiniteSet(Below(S, i)) /\ Cardinality(Below(S, i)) \in Nat
         /\ Cardinality(Below(S, i)) < Cardinality(S)
<1>1. IsFiniteSet(Below(S, i)) /\ i \notin Below(S, i)
  BY BelowMember, FS_Subset
<1>2. Below(S, i) \cup {i} \in SUBSET S
  BY BelowMember
<1>3. /\ Cardinality(Below(S, i) \cup {i}) = Cardinality(Below(S, i)) + 1
      /\ Cardinality(Below(S, i)) \in Nat /\ Cardinality(S) \in Nat
  BY <1>1, FS_AddElement, FS_CardinalityType
<1>4. Cardinality(Below(S, i) \cup {i}) <= Cardinality(S)
  BY <1>2, FS_Subset
<1> QED BY <1>1, <1>3, <1>4

LEMMA BelowGrows ==
  ASSUME NEW S \in SUBSET Nat, IsFiniteSet(S), NEW i \in S, NEW j \in S, i < j
  PROVE  Cardinality(Below(S, i)) < Cardinality(Below(S, j))
<1>1. Below(S, j) \in SUBSET Nat /\ IsFiniteSet(Below(S, j)) /\ i \in Below(S, j)
  BY BelowOne DEF Below
<1>2. Below(Below(S, j), i) = Below(S, i)
  <2>1. ASSUME NEW k \in S PROVE k < j /\ k < i <=> k < i
    OBVIOUS
  <2> QED BY <2>1 DEF Below
<1> QED BY <1>1, <1>2, BelowOne

LEMMA NthIs ==
  ASSUME NEW S \in SUBSET Nat, IsFiniteSet(S), NEW k \in Nat \ {0}, NEW i \in S,
         Cardinality(Below(S, i)) = k - 1
  PROVE  NthOf(S, k) = i
<1>1. ASSUME NEW j \in S, Cardinality(Below(S, j)) = k - 1 PROVE j = i
  <2>1. ~(i < j) /\ ~(j < i)
    BY <1>1, BelowGrows
  <2> QED BY <2>1
<1> QED BY <1>1 DEF NthOf, Below

LEMMA NthMember ==
  ASSUME NEW S, Counted(S), NEW k \in 1 .. Cardinality(S)
  PROVE  NthOf(S, k) \in S /\ Cardinality(Below(S, NthOf(S, k))) = k - 1
BY DEF Counted, NthOf, Below

LEMMA NthGrows ==
  ASSUME NEW S \in SUBSET Nat, IsFiniteSet(S), Counted(S), Cardinality(S) \in Nat,
         NEW k \in 1 .. Cardinality(S), NEW l \in 1 .. Cardinality(S), k < l
  PROVE  NthOf(S, k) < NthOf(S, l)
<1>1. PICK i \in S : i = NthOf(S, k) /\ Cardinality(Below(S, i)) = k - 1
  BY NthMember
<1>2. PICK j \in S : j = NthOf(S, l) /\ Cardinality(Below(S, j)) = l - 1
  BY NthMember
<1>3. ~(j < i)
  <2> SUFFICES ASSUME j < i PROVE FALSE
    OBVIOUS
  <2>1. Cardinality(Below(S, j)) < Cardinality(Below(S, i))
    BY BelowGrows
  <2> QED BY ONLY <2>1, <1>1, <1>2, k < l, k \in 1 .. Cardinality(S), l \in 1 .. Cardinality(S),
                  Cardinality(S) \in Nat
<1>4. i # j
  BY ONLY <1>1, <1>2, k < l, k \in 1 .. Cardinality(S), l \in 1 .. Cardinality(S),
          Cardinality(S) \in Nat
<1>5. i \in Nat /\ j \in Nat
  OBVIOUS
<1>6. i < j
  BY ONLY <1>3, <1>4, <1>5
<1> QED BY ONLY <1>1, <1>2, <1>6

(* The last one, and what adding and removing one changes. *)
LEMMA Split ==
  ASSUME NEW S \in SUBSET Nat, NEW m \in S, \A s \in S : s <= m
  PROVE  S = Below(S, m) \cup {m}
<1>1. ASSUME NEW s \in S PROVE s \in Below(S, m) \cup {m}
  BY DEF Below
<1>2. Below(S, m) \in SUBSET S
  BY BelowMember
<1> QED BY <1>1, <1>2

LEMMA LastIs ==
  ASSUME NEW S \in SUBSET Nat, IsFiniteSet(S), NEW m \in S, \A s \in S : s <= m
  PROVE  /\ Cardinality(S) \in Nat \ {0} /\ NthOf(S, Cardinality(S)) = m
         /\ Cardinality(Below(S, m)) = Cardinality(S) - 1
<1>1. S = Below(S, m) \cup {m} /\ m \notin Below(S, m)
  BY Split, BelowMember
<1>2. IsFiniteSet(Below(S, m)) /\ Cardinality(Below(S, m)) \in Nat
  BY BelowOne
<1>3. Cardinality(S) = Cardinality(Below(S, m)) + 1
  BY <1>1, <1>2, FS_AddElement
<1>4. Cardinality(S) \in Nat \ {0} /\ Cardinality(Below(S, m)) = Cardinality(S) - 1
  BY ONLY <1>2, <1>3
<1> QED BY <1>4, NthIs

LEMMA AddStart ==
  ASSUME NEW S \in SUBSET Nat, IsFiniteSet(S), Counted(S), NEW m \in Nat, \A s \in S : s < m
  PROVE  /\ Cardinality(S \cup {m}) = Cardinality(S) + 1
         /\ Counted(S \cup {m})
         /\ NthOf(S \cup {m}, Cardinality(S) + 1) = m
         /\ \A k \in 1 .. Cardinality(S) : NthOf(S \cup {m}, k) = NthOf(S, k)
<1> DEFINE T == S \cup {m}
<1>1. m \notin S /\ T \in SUBSET Nat /\ m \in T
  OBVIOUS
<1>2. IsFiniteSet(T) /\ Cardinality(T) = Cardinality(S) + 1 /\ Cardinality(S) \in Nat
  BY <1>1, FS_AddElement, FS_CardinalityType
<1>3. ASSUME NEW s \in S PROVE Below(T, s) = Below(S, s)
  <2>1. ASSUME NEW j \in T PROVE j < s <=> j \in S /\ j < s
    OBVIOUS
  <2> QED BY <2>1 DEF Below
<1>4. Below(T, m) = S
  <2>1. ASSUME NEW j \in T PROVE j < m <=> j \in S
    OBVIOUS
  <2> QED BY <2>1 DEF Below
<1>5. S \subseteq T
  OBVIOUS
<1> HIDE DEF T
<1>6. ASSUME NEW k \in 1 .. Cardinality(S)
      PROVE  NthOf(S, k) \in T /\ Cardinality(Below(T, NthOf(S, k))) = k - 1 /\ NthOf(T, k) = NthOf(S, k)
  <2>1. PICK i \in S : i = NthOf(S, k) /\ Cardinality(Below(S, i)) = k - 1
    BY NthMember
  <2>2. i \in T /\ Cardinality(Below(T, i)) = k - 1
    BY <2>1, <1>3, <1>5
  <2>3. k \in Nat \ {0}
    BY <1>2
  <2>4. NthOf(T, k) = i
    BY ONLY <1>1, <1>2, <2>2, <2>3, NthIs
  <2> QED BY ONLY <2>1, <2>2, <2>4
<1>7. NthOf(T, Cardinality(S) + 1) = m
  <2>1. Cardinality(S) + 1 \in Nat \ {0} /\ Cardinality(Below(T, m)) = Cardinality(S) + 1 - 1
    BY <1>2, <1>4
  <2> QED BY ONLY <1>1, <1>2, <2>1, NthIs
<1>8. Counted(T)
  <2>1. ASSUME NEW k \in 1 .. Cardinality(S) + 1
        PROVE  \E i \in T : Cardinality(Below(T, i)) = k - 1
    <3>1. CASE k \in 1 .. Cardinality(S)
      BY <3>1, <1>6
    <3>2. CASE k = Cardinality(S) + 1
      BY <3>2, <1>1, <1>2, <1>4
    <3> QED BY <3>1, <3>2, <1>2
  <2> QED BY <1>2, <2>1 DEF Counted
<1> QED BY <1>2, <1>6, <1>7, <1>8 DEF T

LEMMA DropStart ==
  ASSUME NEW S \in SUBSET Nat, IsFiniteSet(S), Counted(S), NEW m \in S, \A s \in S : s <= m
  PROVE  /\ Cardinality(Below(S, m)) = Cardinality(S) - 1
         /\ Counted(Below(S, m))
         /\ \A k \in 1 .. Cardinality(S) - 1 : NthOf(Below(S, m), k) = NthOf(S, k)
<1> DEFINE T == Below(S, m)
<1>1. T \in SUBSET S /\ T \in SUBSET Nat
  BY BelowMember
<1>2. /\ Cardinality(S) \in Nat \ {0} /\ NthOf(S, Cardinality(S)) = m
      /\ Cardinality(T) = Cardinality(S) - 1
  BY LastIs
<1>3. IsFiniteSet(T)
  BY <1>1, FS_Subset
<1>4. ASSUME NEW s \in T PROVE Below(T, s) = Below(S, s)
  <2>1. s \in S /\ s < m
    BY DEF Below
  <2>2. ASSUME NEW j \in S PROVE j < s <=> j < m /\ j < s
    BY <2>1
  <2> QED BY <2>2 DEF Below
<1>5. ASSUME NEW s \in S, s < m PROVE s \in T
  BY <1>5 DEF Below
<1> HIDE DEF T
<1>6. ASSUME NEW k \in 1 .. Cardinality(T)
      PROVE  NthOf(S, k) \in T /\ Cardinality(Below(T, NthOf(S, k))) = k - 1 /\ NthOf(T, k) = NthOf(S, k)
  <2>0. k \in 1 .. Cardinality(S) /\ Cardinality(S) \in 1 .. Cardinality(S) /\ k < Cardinality(S)
    BY <1>2
  <2>1. PICK i \in S : i = NthOf(S, k) /\ Cardinality(Below(S, i)) = k - 1
    BY <2>0, NthMember
  <2>2. NthOf(S, k) < NthOf(S, Cardinality(S))
    BY <1>2, <2>0, NthGrows
  <2>3. i \in T
    BY ONLY <1>2, <2>1, <2>2, <1>5
  <2>4. Cardinality(Below(T, i)) = k - 1
    BY <2>1, <2>3, <1>4
  <2>5. k \in Nat \ {0}
    BY <1>2
  <2>6. NthOf(T, k) = i
    BY ONLY <1>1, <1>3, <2>3, <2>4, <2>5, NthIs
  <2> QED BY ONLY <2>1, <2>3, <2>4, <2>6
<1>7. Counted(T)
  BY <1>6 DEF Counted
<1> QED BY <1>2, <1>6, <1>7 DEF T

----------------------------------------------------------------------------
(* The stack as a stack of entries: what each operation does to them, in     *)
(* whatever chunks they are.                                                 *)

Cells == Things \cup Marks \cup {Null, NullMark}
Rows == [0 .. ChunkSize - 1 -> Cells]

At(cs, i) == cs[ChunkOf(i)][i % ChunkSize]

(* Different entries are different places, in chunks that there are. *)
LEMMA Places ==
  ASSUME NEW i \in Nat, NEW n \in Nat, i < n
  PROVE  /\ ChunkOf(i) \in Nat \ {0} /\ ChunkOf(n) \in Nat \ {0} /\ ChunkOf(i) <= ChunkOf(n)
         /\ i % ChunkSize \in 0 .. ChunkSize - 1 /\ n % ChunkSize \in 0 .. ChunkSize - 1
         /\ ~(ChunkOf(i) = ChunkOf(n) /\ i % ChunkSize = n % ChunkSize)
<1>1. ChunkSize \in Nat \ {0}
  BY RootsAssumption DEF RootsAssumption
<1>2. /\ i = ChunkSize * (i \div ChunkSize) + (i % ChunkSize)
      /\ i \div ChunkSize \in Nat /\ i % ChunkSize \in 0 .. ChunkSize - 1
      /\ n = ChunkSize * (n \div ChunkSize) + (n % ChunkSize)
      /\ n \div ChunkSize \in Nat /\ n % ChunkSize \in 0 .. ChunkSize - 1
  BY <1>1, Division
<1>3. i \div ChunkSize <= n \div ChunkSize
  BY <1>1, DivisionGrows
<1> QED BY <1>2, <1>3 DEF ChunkOf

LEMMA PushView ==
  ASSUME FirstChunk, rootCount \in Marks, NEW cs \in Seq(Rows), cs # <<>>,
         Len(cs) = IF rootCount = 0 THEN 1 ELSE ChunkOf(rootCount - 1),
         NEW v \in Cells, NEW mark, PushLocalRoot(cs, rootCount, v, mark)
  PROVE  /\ rootCount' = rootCount + 1 /\ rootCount' \in Marks
         /\ scopeMark' = mark
         /\ chunks' \in Seq(Rows) /\ Len(chunks') = ChunkOf(rootCount)
         /\ At(chunks', rootCount) = v
         /\ \A i \in Indices : At(chunks', i) = At(cs, i)
<1> DEFINE n == rootCount
           grows == n # 0 /\ n % ChunkSize = 0
           grown == IF grows THEN Append(cs, EmptyChunk) ELSE cs
<1>0. /\ ChunkSize \in Nat \ {0} /\ ChunkSize > 1 /\ CountSize \in Nat \ {0} /\ n \in Nat /\ n < CountSize
      /\ CountSize % ChunkSize = 0
  BY RootsAssumption DEF RootsAssumption, FirstChunk, Marks
<1>a. /\ n = ChunkSize * (n \div ChunkSize) + (n % ChunkSize)
      /\ n \div ChunkSize \in Nat /\ n % ChunkSize \in 0 .. ChunkSize - 1
  BY ONLY <1>0, Division
<1>1. /\ n + 1 < CountSize
      /\ (n + 1) % CountSize = n + 1
  <2>1. CASE n + 1 < CountSize
    BY <1>0, <2>1, InFirst
  <2>2. CASE n + 1 = CountSize
    <3>1. CountSize % CountSize = 0
      <4>1. CountSize = CountSize * 1 + 0 /\ 0 \in 0 .. CountSize - 1
        BY <1>0
      <4> QED BY ONLY <4>1, <1>0, QuotientIs
    <3>2. n % ChunkSize = 0
      BY <2>2, <3>1 DEF PushLocalRoot
    <3>3. n + 1 = ChunkSize * (n \div ChunkSize) + 1 /\ n \div ChunkSize \in Nat
      BY ONLY <1>0, <1>a, <3>2
    <3>4. 1 \in 0 .. ChunkSize - 1 /\ n + 1 \in Nat
      BY <1>0
    <3>5. (n + 1) % ChunkSize = 1
      BY ONLY <1>0, <3>3, <3>4, QuotientIs
    <3> QED BY <1>0, <2>2, <3>5
  <2> QED BY <1>0, <2>1, <2>2
<1>2. EmptyChunk \in Rows
  BY DEF EmptyChunk, Rows, Cells
<1>3. grown \in Seq(Rows) /\ Len(grown) = ChunkOf(n)
  <2>1. CASE n = 0
    BY <1>0, <2>1, InFirst DEF ChunkOf
  <2>2. CASE n # 0
    <3>1. n - 1 \in Nat /\ n - 1 + 1 = n
      BY <1>0, <2>2
    <3>2. n \div ChunkSize = IF n % ChunkSize = 0 THEN ((n - 1) \div ChunkSize) + 1
                              ELSE (n - 1) \div ChunkSize
      BY <1>0, <3>1, NextQuotient
    <3>3. (n - 1) \div ChunkSize \in Nat
      BY <1>0, <3>1, Division
    <3>4. CASE grows
      BY <1>2, <2>2, <3>2, <3>3, <3>4 DEF ChunkOf
    <3>5. CASE ~grows
      BY <2>2, <3>2, <3>3, <3>5 DEF ChunkOf
    <3> QED BY <3>4, <3>5
  <2> QED BY <2>1, <2>2
<1>4. n % ChunkSize \in 0 .. ChunkSize - 1 /\ ChunkOf(n) \in Nat \ {0}
  BY <1>a DEF ChunkOf
<1>5. \A j \in 1 .. Len(cs) : j \in 1 .. Len(grown) /\ grown[j] = cs[j]
  BY <1>2
<1>6. chunks' = [grown EXCEPT ![Len(grown)][n % ChunkSize] = v] /\ n' = (n + 1) % CountSize /\ scopeMark' = mark
  BY DEF PushLocalRoot
<1>7. rootCount' = rootCount + 1 /\ rootCount' \in Marks
  BY <1>0, <1>1, <1>6 DEF Marks
<1> HIDE DEF grown
<1>8. /\ chunks' \in Seq(Rows) /\ Len(chunks') = ChunkOf(n)
      /\ At(chunks', n) = v
  <2>1. Len(grown) \in 1 .. Len(grown) /\ grown[Len(grown)] \in Rows
    BY <1>3, <1>4
  <2>2. [grown[Len(grown)] EXCEPT ![n % ChunkSize] = v] \in Rows
    BY <1>4, <2>1 DEF Rows
  <2> QED BY <1>3, <1>4, <1>6, <2>1, <2>2 DEF Rows, At
<1>9. ASSUME NEW i \in Indices
      PROVE  At(chunks', i) = At(cs, i)
  <2>1. i \in Nat /\ n # 0 /\ n - 1 \in Nat /\ i < n /\ i <= n - 1
    BY <1>0 DEF Indices
  <2>2. ChunkOf(i) \in 1 .. Len(cs)
    <3>1. i \div ChunkSize \in Nat /\ i \div ChunkSize <= (n - 1) \div ChunkSize
      BY <1>0, <2>1, DivisionGrows, Division
    <3>2. Len(cs) = ((n - 1) \div ChunkSize) + 1 /\ (n - 1) \div ChunkSize \in Nat
      BY <1>0, <2>1, Division DEF ChunkOf
    <3> QED BY ONLY <3>1, <3>2 DEF ChunkOf
  <2>3. i % ChunkSize \in 0 .. ChunkSize - 1 /\ ~(ChunkOf(i) = ChunkOf(n) /\ i % ChunkSize = n % ChunkSize)
    BY <1>0, <2>1, Places
  <2>4. grown[ChunkOf(i)] = cs[ChunkOf(i)] /\ grown[ChunkOf(i)] \in Rows /\ ChunkOf(i) \in 1 .. Len(grown)
    BY <1>3, <1>5, <2>2
  <2> QED BY <1>3, <1>4, <1>6, <2>3, <2>4 DEF Rows, At
<1> QED BY <1>6, <1>7, <1>8, <1>9

LEMMA EntryIn ==
  ASSUME RootsInv, NEW i \in Indices
  PROVE  /\ ChunkOf(i) \in 1 .. Len(chunks) /\ i % ChunkSize \in 0 .. ChunkSize - 1
         /\ chunks # <<>> /\ Len(chunks) = ChunkOf(rootCount - 1) /\ chunks \in Seq(Rows)
         /\ i \in Nat /\ rootCount \in Nat \ {0}
<1>0. ChunkSize \in Nat \ {0} /\ i \in Nat /\ rootCount \in Nat \ {0} /\ i <= rootCount - 1 /\ rootCount - 1 \in Nat
  BY RootsAssumption DEF RootsAssumption, RootsInv, LRTypeOK, Marks, Indices
<1>1. chunks # <<>> /\ Len(chunks) = ChunkOf(rootCount - 1) /\ chunks \in Seq(Rows)
  BY <1>0 DEF RootsInv, LRTypeOK, ChunksExact, Rows, Cells
<1>2. i \div ChunkSize <= (rootCount - 1) \div ChunkSize
  BY ONLY <1>0, DivisionGrows
<1>3. i \div ChunkSize \in Nat /\ (rootCount - 1) \div ChunkSize \in Nat /\ i % ChunkSize \in 0 .. ChunkSize - 1
  BY ONLY <1>0, Division
<1>4. ChunkOf(i) \in 1 .. ChunkOf(rootCount - 1)
  BY ONLY <1>2, <1>3 DEF ChunkOf
<1> QED BY <1>0, <1>1, <1>3, <1>4

LEMMA EnterView ==
  ASSUME RootsInv, FirstChunk, EnterLocalRootScope
  PROVE  /\ rootCount < ChunkSize /\ rootCount' = rootCount + 1 /\ scopeMark' = rootCount
         /\ LRTypeOK' /\ ChunksExact' /\ At(chunks', rootCount) = scopeMark
         /\ \A i \in Indices : At(chunks', i) = At(chunks, i)
<1> DEFINE cs == IF chunks = <<>> THEN <<EmptyChunk>> ELSE chunks
<1>1. /\ ChunkSize \in Nat \ {0} /\ rootCount \in Nat /\ rootCount \in Marks /\ rootCount < ChunkSize
      /\ scopeMark \in Cells /\ EnterBelow \in Nat
  BY RootsAssumption DEF RootsAssumption, RootsInv, LRTypeOK, Marks, Cells, EnterLocalRootScope, FirstChunk
<1>2. rootCount % ChunkSize = rootCount
  BY ONLY <1>1, InFirst
<1>3. EmptyChunk \in Rows
  BY DEF EmptyChunk, Rows, Cells
<1>4. chunks \in Seq(Rows) /\ (chunks = <<>> <=> rootCount = 0)
      /\ (chunks # <<>> => Len(chunks) = ChunkOf(rootCount - 1))
  BY DEF RootsInv, LRTypeOK, ChunksExact, Rows, Cells
<1>5. cs \in Seq(Rows) /\ cs # <<>> /\ Len(cs) = IF rootCount = 0 THEN 1 ELSE ChunkOf(rootCount - 1)
  BY <1>3, <1>4
<1>6. PushLocalRoot(cs, rootCount, scopeMark, rootCount)
  BY <1>2 DEF EnterLocalRootScope
<1>7. \A i \in Indices : At(cs, i) = At(chunks, i)
  BY <1>1, <1>4 DEF Indices
<1> HIDE DEF cs
<1>8. /\ rootCount' = rootCount + 1 /\ rootCount' \in Marks
      /\ scopeMark' = rootCount
      /\ chunks' \in Seq(Rows) /\ Len(chunks') = ChunkOf(rootCount)
      /\ At(chunks', rootCount) = scopeMark
      /\ \A i \in Indices : At(chunks', i) = At(cs, i)
  BY <1>1, <1>5, <1>6, PushView
<1>9. ChunkOf(rootCount) \in Nat \ {0} /\ rootCount' - 1 = rootCount /\ rootCount' # 0
  BY <1>1, <1>8, Division DEF ChunkOf
<1>10. LRTypeOK' /\ ChunksExact'
  BY <1>1, <1>8, <1>9 DEF LRTypeOK, ChunksExact, Rows, Cells
<1> QED BY <1>1, <1>7, <1>8, <1>10

LEMMA AllocView ==
  ASSUME RootsInv, FirstChunk, NEW v \in Things, AllocGCThing(v)
  PROVE  /\ rootCount # 0 /\ rootCount' = rootCount + 1 /\ scopeMark' = scopeMark
         /\ LRTypeOK' /\ ChunksExact' /\ At(chunks', rootCount) = v
         /\ \A i \in Indices : At(chunks', i) = At(chunks, i)
<1>1. /\ ChunkSize \in Nat \ {0} /\ rootCount \in Nat /\ rootCount \in Marks /\ v \in Cells
      /\ scopeMark \in Marks \cup {NullMark}
  BY RootsAssumption DEF RootsAssumption, RootsInv, LRTypeOK, Marks, Cells
<1>2. /\ chunks \in Seq(Rows) /\ chunks # <<>> /\ rootCount # 0
      /\ Len(chunks) = IF rootCount = 0 THEN 1 ELSE ChunkOf(rootCount - 1)
  BY DEF RootsInv, LRTypeOK, ChunksExact, Rows, Cells, AllocGCThing
<1>3. PushLocalRoot(chunks, rootCount, v, scopeMark)
  BY DEF AllocGCThing
<1>4. /\ rootCount' = rootCount + 1 /\ rootCount' \in Marks
      /\ scopeMark' = scopeMark
      /\ chunks' \in Seq(Rows) /\ Len(chunks') = ChunkOf(rootCount)
      /\ At(chunks', rootCount) = v
      /\ \A i \in Indices : At(chunks', i) = At(chunks, i)
  BY <1>1, <1>2, <1>3, PushView
<1>5. ChunkOf(rootCount) \in Nat \ {0} /\ rootCount' - 1 = rootCount /\ rootCount' # 0
  BY <1>1, <1>4, Division DEF ChunkOf
<1>6. LRTypeOK' /\ ChunksExact'
  BY <1>1, <1>4, <1>5 DEF LRTypeOK, ChunksExact, Rows, Cells
<1> QED BY <1>2, <1>4, <1>6

LEMMA LeaveView ==
  ASSUME RootsInv, FirstChunk, LeaveLocalRootScope
  PROVE  /\ rootCount # 0 /\ rootCount' = scopeMark /\ scopeMark \in Indices
         /\ scopeMark' = At(chunks, scopeMark)
         /\ LRTypeOK' /\ ChunksExact'
         /\ \A i \in 0 .. scopeMark - 1 : At(chunks', i) = At(chunks, i)
<1>1. /\ ChunkSize \in Nat \ {0} /\ rootCount \in Nat \ {0} /\ rootCount \in Marks
      /\ scopeMark \in Starts /\ scopeMark \in Indices /\ scopeMark \in Nat /\ scopeMark < ChunkSize
      /\ scopeMark < rootCount /\ scopeMark \in Marks
  <2>1. ChunkSize \in Nat \ {0} /\ rootCount \in Nat \ {0} /\ rootCount \in Marks
    BY RootsAssumption
    DEF RootsAssumption, RootsInv, LRTypeOK, Marks, LeaveLocalRootScope, LeaveReading
  <2>2. scopeMark \in Starts /\ scopeMark < ChunkSize
    BY <2>1 DEF RootsInv, MarkChain, EntriesInv
  <2>3. scopeMark \in Indices /\ scopeMark \in Nat /\ scopeMark < rootCount
    BY <2>1, <2>2 DEF Starts, Indices
  <2>4. scopeMark \in Marks
    BY RootsAssumption, <2>1, <2>3 DEF RootsAssumption, Marks
  <2> QED BY <2>1, <2>2, <2>3, <2>4
<1>2. scopeMark % ChunkSize = scopeMark /\ scopeMark \div ChunkSize = 0
  BY ONLY <1>1, InFirst
<1>3. /\ chunks \in Seq(Rows) /\ Len(chunks) = ((rootCount - 1) \div ChunkSize) + 1 /\ chunks # <<>>
      /\ Len(chunks) \in Nat \ {0}
  BY <1>1, EntryIn DEF ChunkOf
<1>4. (rootCount - 1) \div ChunkSize \in Nat
  <2>1. rootCount - 1 \in Nat
    BY <1>1
  <2> QED BY ONLY <1>1, <2>1, Division
<1> DEFINE kept == SubSeq(chunks, 1, Len(chunks) - ((rootCount - 1) \div ChunkSize - scopeMark \div ChunkSize))
<1>5. Len(chunks) - ((rootCount - 1) \div ChunkSize - scopeMark \div ChunkSize) = 1
  BY ONLY <1>2, <1>3, <1>4
<1>6. kept \in Seq(Rows) /\ Len(kept) = 1 /\ kept[1] = chunks[1] /\ chunks[1] \in Rows
  BY <1>3, <1>5
<1>7. /\ scopeMark' = kept[Len(kept)][scopeMark % ChunkSize] /\ rootCount' = scopeMark
      /\ chunks' = IF scopeMark = 0 THEN <<>>
                    ELSE IF scopeMark % ChunkSize = 0 THEN Front(kept)
                    ELSE [kept EXCEPT ![Len(kept)][scopeMark % ChunkSize] = Null]
  BY DEF LeaveLocalRootScope, LeaveReading
<1> HIDE DEF kept
<1>8. \A i \in Nat : i <= scopeMark => ChunkOf(i) = 1 /\ i % ChunkSize = i
  <2>1. \A i \in Nat : i <= scopeMark => i \div ChunkSize = 0 /\ i % ChunkSize = i
    BY ONLY <1>1, InFirst
  <2> QED BY <2>1 DEF ChunkOf
<1>9. scopeMark' = At(chunks, scopeMark)
  BY <1>1, <1>2, <1>6, <1>7, <1>8 DEF At
<1>10. scopeMark' \in Marks \cup {NullMark}
  BY <1>1, <1>9 DEF Starts, EntryAt, At
<1>11. CASE scopeMark = 0
  <2>1. chunks' = <<>> /\ rootCount' = 0
    BY <1>7, <1>11
  <2>2. LRTypeOK' /\ ChunksExact'
    <3>1. chunks' \in Seq(Rows) /\ rootCount' \in Marks
      BY <1>1, <1>11, <2>1
    <3>2. LRTypeOK'
      BY ONLY <1>10, <3>1 DEF LRTypeOK, Rows, Cells, Marks
    <3>3. ChunksExact'
      BY ONLY <2>1 DEF ChunksExact
    <3> QED BY <3>2, <3>3
  <2> QED BY <1>1, <1>7, <1>9, <1>11, <2>2
<1>12. CASE scopeMark # 0
  <2>1. chunks' = [kept EXCEPT ![1][scopeMark] = Null] /\ rootCount' = scopeMark
    BY <1>2, <1>6, <1>7, <1>12
  <2>2. scopeMark \in 0 .. ChunkSize - 1 /\ Null \in Cells
    BY <1>1 DEF Cells
  <2>3. chunks' \in Seq(Rows) /\ Len(chunks') = 1 /\ chunks'[1] = [chunks[1] EXCEPT ![scopeMark] = Null]
    BY <1>6, <2>1, <2>2 DEF Rows
  <2>4. scopeMark - 1 \in Nat /\ ChunkOf(scopeMark - 1) = 1
    BY <1>1, <1>8, <1>12
  <2>5. LRTypeOK' /\ ChunksExact'
    <3>1. rootCount' \in Marks /\ rootCount' - 1 = scopeMark - 1 /\ rootCount' # 0
      BY <1>1, <1>12, <2>1
    <3>2. LRTypeOK'
      BY ONLY <1>10, <2>3, <3>1 DEF LRTypeOK, Rows, Cells, Marks
    <3>3. chunks' # <<>> /\ Len(chunks') = ChunkOf(rootCount' - 1)
      <4>1. chunks' # <<>>
        BY <2>3
      <4> QED BY ONLY <4>1, <2>3, <2>4, <3>1
    <3>4. ChunksExact'
      BY ONLY <3>1, <3>3 DEF ChunksExact, ChunkOf
    <3> QED BY <3>2, <3>4
  <2>6. ASSUME NEW i \in 0 .. scopeMark - 1 PROVE At(chunks', i) = At(chunks, i)
    BY <1>1, <1>6, <1>8, <2>3 DEF At, Rows
  <2> QED BY <1>1, <1>7, <1>9, <2>5, <2>6
<1> QED BY <1>11, <1>12

LEMMA ForgetView ==
  ASSUME RootsInv, FirstChunk, NEW v \in Things, ForgetLocalRoot(v)
  PROVE  /\ rootCount # 0 /\ rootCount' = rootCount - 1 /\ scopeMark' = scopeMark
         /\ scopeMark \in Starts /\ scopeMark < rootCount - 1
         /\ LRTypeOK' /\ ChunksExact'
         /\ \E i \in scopeMark + 1 .. rootCount - 1 :
             /\ At(chunks, i) = v
             /\ \A j \in scopeMark + 1 .. rootCount - 1 : At(chunks, j) = v => j <= i
             /\ \A j \in 0 .. rootCount - 2 :
                   At(chunks', j) = IF j = i THEN At(chunks, rootCount - 1) ELSE At(chunks, j)
<1> DEFINE n == rootCount - 1
           found == {i \in scopeMark + 1 .. n : EntryAt(i) = v}
<1>1. /\ ChunkSize \in Nat \ {0} /\ ChunkSize > 1 /\ CountSize \in Nat /\ rootCount \in Nat \ {0}
      /\ rootCount \in Marks /\ n \in Nat
      /\ scopeMark \in Starts /\ scopeMark \in Nat /\ scopeMark < n /\ found # {}
      /\ scopeMark \in Marks
  <2>1. ChunkSize \in Nat \ {0} /\ CountSize \in Nat /\ rootCount \in Nat \ {0} /\ rootCount \in Marks
    BY RootsAssumption DEF RootsAssumption, RootsInv, LRTypeOK, Marks, ForgetLocalRoot, ForgetWith
  <2>2. scopeMark \in Starts /\ scopeMark < n /\ found # {}
    BY <2>1 DEF RootsInv, MarkChain, ForgetLocalRoot, ForgetWith
  <2>3. scopeMark \in Nat /\ n \in Nat
    BY <2>1, <2>2 DEF Starts
  <2>4. scopeMark \in Marks
    BY <2>1, <2>2, <2>3 DEF Marks
  <2> QED BY <2>1, <2>2, <2>3, <2>4 DEF FirstChunk
<1> DEFINE i == CHOOSE i \in found : \A j \in found : j <= i
<1>2. i \in found /\ \A j \in found : j <= i
  <2>1. ASSUME NEW j \in found PROVE j \in Nat /\ j <= n
    BY <1>1
  <2>2. \E m \in found : \A j \in found : j <= m
    BY <1>1, <2>1, LargestExists
  <2> QED BY <2>2
<1> DEFINE swapped == [chunks EXCEPT ![ChunkOf(i)][i % ChunkSize] = EntryAt(rootCount - 1)]
<1>3. /\ chunks' = IF (rootCount - 1) % ChunkSize = 0 THEN Front(swapped)
                    ELSE [swapped EXCEPT ![ChunkOf(n)][n % ChunkSize] = Null]
      /\ rootCount' = n /\ scopeMark' = scopeMark
  BY DEF ForgetLocalRoot, ForgetWith
<1>4. PICK ii : ii = i
  OBVIOUS
<1>5. ii \in scopeMark + 1 .. n /\ At(chunks, ii) = v
      /\ \A j \in scopeMark + 1 .. n : At(chunks, j) = v => j <= ii
  BY <1>2, <1>4 DEF EntryAt, At
<1>6. PICK sw : sw = [chunks EXCEPT ![ChunkOf(ii)][ii % ChunkSize] = EntryAt(n)]
  OBVIOUS
<1>7. /\ chunks' = IF n % ChunkSize = 0 THEN Front(sw)
                    ELSE [sw EXCEPT ![ChunkOf(n)][n % ChunkSize] = Null]
  BY <1>3, <1>4, <1>6
<1> HIDE DEF found, i, swapped
<1> SUFFICES
        /\ LRTypeOK' /\ ChunksExact'
        /\ \A j \in 0 .. n - 1 :
              At(chunks', j) = IF j = ii THEN At(chunks, n) ELSE At(chunks, j)
  <2>1. rootCount - 2 = n - 1
    BY <1>1
  <2> QED BY <1>1, <1>3, <1>5, <2>1
<1>8. n \in Indices /\ ii \in Indices /\ ii \in Nat /\ ii <= n
  BY <1>1, <1>5 DEF Indices
<1>9. /\ chunks \in Seq(Rows) /\ Len(chunks) = ChunkOf(n)
      /\ ChunkOf(n) \in 1 .. Len(chunks) /\ n % ChunkSize \in 0 .. ChunkSize - 1
      /\ ChunkOf(ii) \in 1 .. Len(chunks) /\ ii % ChunkSize \in 0 .. ChunkSize - 1
  BY <1>8, EntryIn
<1>10. EntryAt(n) \in Cells /\ EntryAt(n) = At(chunks, n)
  <2>1. chunks[ChunkOf(n)] \in Rows
    BY <1>9
  <2> QED BY <1>9, <2>1 DEF EntryAt, At, Rows
<1> DEFINE row == [chunks[ChunkOf(ii)] EXCEPT ![ii % ChunkSize] = EntryAt(n)]
<1>a. row \in Rows /\ row[ii % ChunkSize] = EntryAt(n)
      /\ \A q \in 0 .. ChunkSize - 1 : q # ii % ChunkSize => row[q] = chunks[ChunkOf(ii)][q]
  <2>1. chunks[ChunkOf(ii)] \in Rows
    BY <1>9
  <2> QED BY ONLY <1>9, <1>10, <2>1 DEF Rows
<1>b. sw = [chunks EXCEPT ![ChunkOf(ii)] = row]
  BY ONLY <1>6
<1> HIDE DEF row
<1>11. /\ sw \in Seq(Rows) /\ Len(sw) = Len(chunks)
       /\ \A k \in 1 .. Len(chunks) : sw[k] = IF k = ChunkOf(ii)
                                               THEN row ELSE chunks[k]
  BY ONLY <1>9, <1>a, <1>b
<1>12. ASSUME NEW j \in 0 .. n - 1
       PROVE  /\ At(sw, j) = IF j = ii THEN At(chunks, n) ELSE At(chunks, j)
              /\ ChunkOf(j) \in 1 .. Len(chunks) /\ j % ChunkSize \in 0 .. ChunkSize - 1 /\ j \in Nat /\ j < n
  <2>1. j \in Indices /\ j \in Nat /\ j < n
    BY <1>1 DEF Indices
  <2>2. ChunkOf(j) \in 1 .. Len(chunks) /\ j % ChunkSize \in 0 .. ChunkSize - 1
    BY <2>1, EntryIn
  <2>3. CASE j = ii
    BY ONLY <1>9, <1>10, <1>11, <1>a, <2>1, <2>2, <2>3 DEF At
  <2>4. CASE j # ii
    <3>1. ~(ChunkOf(j) = ChunkOf(ii) /\ j % ChunkSize = ii % ChunkSize)
      <4>1. j < ii \/ ii < j
        BY <1>8, <2>1, <2>4
      <4> QED BY <1>8, <2>1, <4>1, Places
    <3> QED BY ONLY <1>9, <1>10, <1>11, <1>a, <2>1, <2>2, <2>4, <3>1 DEF At
  <2> QED BY <2>1, <2>2, <2>3, <2>4
<1>13. n - 1 \in Nat /\ n - 1 + 1 = n /\ n # 0
  BY <1>1
<1>14. /\ n \div ChunkSize = IF n % ChunkSize = 0 THEN ((n - 1) \div ChunkSize) + 1 ELSE (n - 1) \div ChunkSize
       /\ (n - 1) \div ChunkSize \in Nat
  BY ONLY <1>1, <1>13, NextQuotient, Division
<1>15. /\ chunks' \in Seq(Rows) /\ Len(chunks') = ChunkOf(n - 1)
       /\ \A j \in 0 .. n - 1 : At(chunks', j) = At(sw, j)
  <2>1. CASE n % ChunkSize = 0
    <3>1. ChunkOf(n - 1) = Len(sw) - 1 /\ ChunkOf(n - 1) \in Nat
      BY ONLY <1>9, <1>11, <1>14, <2>1 DEF ChunkOf
    <3>2. chunks' = SubSeq(sw, 1, Len(sw) - 1)
      BY <1>7, <2>1 DEF Front
    <3>3. /\ chunks' \in Seq(Rows) /\ Len(chunks') = Len(sw) - 1
          /\ \A k \in 1 .. Len(sw) - 1 : chunks'[k] = sw[k]
      BY ONLY <1>9, <1>11, <3>1, <3>2
    <3>4. ASSUME NEW j \in 0 .. n - 1 PROVE At(chunks', j) = At(sw, j)
      <4>1. j \in Nat /\ j <= n - 1
        BY <1>1
      <4>2. j \div ChunkSize \in Nat /\ j \div ChunkSize <= (n - 1) \div ChunkSize
        BY ONLY <1>1, <1>13, <4>1, DivisionGrows, Division
      <4>3. ChunkOf(j) \in 1 .. Len(sw) - 1
        BY ONLY <3>1, <4>2, <1>14 DEF ChunkOf
      <4> QED BY <3>3, <4>3 DEF At
    <3> QED BY <3>1, <3>3, <3>4
  <2>2. CASE n % ChunkSize # 0
    <3>1. ChunkOf(n - 1) = Len(sw)
      BY ONLY <1>9, <1>11, <1>14, <2>2 DEF ChunkOf
    <3>2. chunks' = [sw EXCEPT ![ChunkOf(n)][n % ChunkSize] = Null]
      BY <1>7, <2>2
    <3>3. Null \in Cells
      BY DEF Cells
    <3>4. chunks' \in Seq(Rows) /\ Len(chunks') = Len(sw)
      BY <1>9, <1>11, <3>2, <3>3 DEF Rows
    <3>5. ASSUME NEW j \in 0 .. n - 1 PROVE At(chunks', j) = At(sw, j)
      <4>1. ~(ChunkOf(j) = ChunkOf(n) /\ j % ChunkSize = n % ChunkSize)
        BY <1>1, <1>12, Places
      <4> QED BY <1>9, <1>11, <1>12, <3>2, <4>1 DEF At, Rows
    <3> QED BY <3>1, <3>4, <3>5
  <2> QED BY <2>1, <2>2
<1>16. LRTypeOK'
  <2>1. rootCount' \in Marks
    BY <1>1, <1>3 DEF Marks
  <2> QED BY ONLY <1>1, <1>3, <1>15, <2>1 DEF LRTypeOK, Rows, Cells, Marks
<1>17. ChunksExact'
  <2>1. ChunkOf(n - 1) # 0
    BY ONLY <1>14 DEF ChunkOf
  <2>2. chunks' # <<>>
    BY <1>15, <2>1
  <2> QED BY ONLY <1>3, <1>13, <1>15, <2>2 DEF ChunksExact, ChunkOf
<1> QED BY <1>12, <1>15, <1>16, <1>17

----------------------------------------------------------------------------
(* The invariant. *)

LEMMA AtIsEntry ==
  /\ \A i : EntryAt(i) = At(chunks, i)
  /\ Starts = {i \in 0 .. rootCount - 1 : At(chunks, i) \in Marks \cup {NullMark}}
BY DEF EntryAt, At, Starts

LEMMA StartsFinite ==
  ASSUME RootsInv
  PROVE  Starts \in SUBSET Nat /\ IsFiniteSet(Starts) /\ Cardinality(Starts) \in Nat
<1>1. Starts \in SUBSET (0 .. rootCount - 1) /\ rootCount \in Nat
  BY RootsAssumption DEF RootsAssumption, Starts, RootsInv, LRTypeOK, Marks
<1>2. IsFiniteSet(0 .. rootCount - 1)
  BY <1>1, FS_Interval
<1>3. Starts \in SUBSET Nat
  BY <1>1
<1> QED BY <1>1, <1>2, <1>3, FS_Subset, FS_CardinalityType

LEMMA EnterStarts ==
  ASSUME RootsInv, FirstChunk, EnterLocalRootScope
  PROVE  Starts' = Starts \cup {rootCount} /\ (\A s \in Starts : s < rootCount) /\ rootCount \in Nat
<1>1. rootCount \in Nat /\ scopeMark \in Marks \cup {NullMark}
  BY RootsAssumption DEF RootsAssumption, RootsInv, LRTypeOK, Marks
<1>2. /\ rootCount' = rootCount + 1 /\ At(chunks', rootCount) = scopeMark
      /\ \A i \in Indices : At(chunks', i) = At(chunks, i)
  BY EnterView
<1>3. ASSUME NEW i \in 0 .. rootCount
      PROVE  At(chunks', i) \in Marks \cup {NullMark} <=> i \in Starts \/ i = rootCount
  <2>1. CASE i = rootCount
    BY <1>1, <1>2, <2>1
  <2>2. CASE i # rootCount
    <3>1. i \in Indices
      BY <1>1, <2>2 DEF Indices
    <3> QED BY <1>2, <2>2, <3>1, AtIsEntry DEF Indices
  <2> QED BY <2>1, <2>2
<1>4. Starts' = {i \in 0 .. rootCount : At(chunks', i) \in Marks \cup {NullMark}}
  <2>1. Starts' = {i \in 0 .. rootCount' - 1 : At(chunks', i) \in Marks \cup {NullMark}}
    BY DEF Starts, EntryAt, At
  <2>2. rootCount' - 1 = rootCount
    BY <1>1, <1>2
  <2> QED BY <2>1, <2>2
<1>5. \A s \in Starts : s \in 0 .. rootCount /\ s < rootCount
  BY <1>1 DEF Starts
<1>6. rootCount \in 0 .. rootCount
  BY <1>1
<1>7. Starts' = Starts \cup {rootCount}
  BY ONLY <1>3, <1>4, <1>5, <1>6
<1> QED BY <1>1, <1>5, <1>7

LEMMA AllocStarts ==
  ASSUME RootsInv, FirstChunk, NEW v \in Things, AllocGCThing(v)
  PROVE  Starts' = Starts
<1>1. rootCount \in Nat /\ v \notin Marks \cup {NullMark}
  BY RootsAssumption DEF RootsAssumption, RootsInv, LRTypeOK, Marks
<1>2. /\ rootCount' = rootCount + 1 /\ At(chunks', rootCount) = v
      /\ \A i \in Indices : At(chunks', i) = At(chunks, i)
  BY AllocView
<1>3. ASSUME NEW i \in 0 .. rootCount
      PROVE  At(chunks', i) \in Marks \cup {NullMark} <=> i \in Starts
  <2>1. CASE i = rootCount
    BY <1>1, <1>2, <2>1 DEF Starts
  <2>2. CASE i # rootCount
    <3>1. i \in Indices
      BY <1>1, <2>2 DEF Indices
    <3> QED BY <1>2, <2>2, <3>1, AtIsEntry DEF Indices
  <2> QED BY <2>1, <2>2
<1>4. Starts' = {i \in 0 .. rootCount : At(chunks', i) \in Marks \cup {NullMark}}
  <2>1. Starts' = {i \in 0 .. rootCount' - 1 : At(chunks', i) \in Marks \cup {NullMark}}
    BY DEF Starts, EntryAt, At
  <2>2. rootCount' - 1 = rootCount
    BY <1>1, <1>2
  <2> QED BY <2>1, <2>2
<1>5. \A s \in Starts : s \in 0 .. rootCount
  BY <1>1 DEF Starts
<1> QED BY ONLY <1>3, <1>4, <1>5

LEMMA LeaveStarts ==
  ASSUME RootsInv, FirstChunk, LeaveLocalRootScope
  PROVE  Starts' = Below(Starts, scopeMark)
<1>1. /\ rootCount' = scopeMark /\ scopeMark \in Indices
      /\ \A i \in 0 .. scopeMark - 1 : At(chunks', i) = At(chunks, i)
  BY LeaveView
<1>2. scopeMark \in Nat /\ rootCount \in Nat /\ scopeMark < rootCount
  BY <1>1, EntryIn DEF Indices
<1>3. Starts' = {i \in 0 .. scopeMark - 1 : At(chunks', i) \in Marks \cup {NullMark}}
  BY <1>1 DEF Starts, EntryAt, At
<1>4. ASSUME NEW i \in 0 .. scopeMark - 1
      PROVE  At(chunks', i) \in Marks \cup {NullMark} <=> i \in Starts
  <2>1. i \in 0 .. rootCount - 1
    BY <1>2
  <2> QED BY <1>1, <2>1, AtIsEntry
<1>5. ASSUME NEW i \in Starts PROVE i < scopeMark <=> i \in 0 .. scopeMark - 1
  BY <1>2 DEF Starts
<1> QED BY <1>3, <1>4, <1>5 DEF Below

LEMMA ForgetStarts ==
  ASSUME RootsInv, FirstChunk, NEW v \in Things, ForgetLocalRoot(v)
  PROVE  Starts' = Starts
<1> DEFINE n == rootCount - 1
<1>1. /\ rootCount # 0 /\ rootCount' = rootCount - 1 /\ scopeMark \in Starts /\ scopeMark < n
  BY ForgetView
<1>2. rootCount \in Nat \ {0} /\ n \in Nat /\ \A s \in Starts : s \in Nat /\ s <= scopeMark
  <2>1. rootCount \in Nat \ {0}
    BY <1>1, RootsAssumption DEF RootsAssumption, RootsInv, LRTypeOK, Marks
  <2> QED BY <2>1, StartsFinite DEF RootsInv, MarkChain
<1>3. PICK i \in scopeMark + 1 .. n :
             \A j \in 0 .. rootCount - 2 :
                   At(chunks', j) = IF j = i THEN At(chunks, n) ELSE At(chunks, j)
  BY ForgetView
<1>4. i \notin Starts /\ n \notin Starts
  BY <1>1, <1>2
<1>5. Starts' = {j \in 0 .. rootCount - 2 : At(chunks', j) \in Marks \cup {NullMark}}
  <2>1. Starts' = {j \in 0 .. rootCount' - 1 : At(chunks', j) \in Marks \cup {NullMark}}
    BY DEF Starts, EntryAt, At
  <2>2. rootCount' - 1 = rootCount - 2
    BY <1>1, <1>2
  <2> QED BY <2>1, <2>2
<1>6. ASSUME NEW j \in 0 .. rootCount - 2
      PROVE  At(chunks', j) \in Marks \cup {NullMark} <=> j \in Starts
  <2>1. j \in 0 .. rootCount - 1 /\ n \in 0 .. rootCount - 1 /\ i \in 0 .. rootCount - 1
    BY <1>1, <1>2
  <2>2. CASE j = i
    BY <1>3, <1>4, <2>1, <2>2, AtIsEntry
  <2>3. CASE j # i
    BY <1>3, <2>1, <2>3, AtIsEntry
  <2> QED BY <2>2, <2>3
<1>7. \A s \in Starts : s \in 0 .. rootCount - 2
  BY <1>1, <1>2
<1> QED BY ONLY <1>5, <1>6, <1>7

(* The invariant in terms of the entries, for the state after a step. *)
LEMMA InvFromEntries ==
  ASSUME LRTypeOK', ChunksExact', Counted(Starts'),
         \A i \in 0 .. rootCount' - 1 : At(chunks', i) \in Things \cup Marks \cup {NullMark},
         rootCount' # 0 => 0 \in Starts',
         \A s \in Starts' : s < ChunkSize,
         IF rootCount' = 0 THEN scopeMark' = NullMark
         ELSE scopeMark' \in Starts' /\ \A s \in Starts' : s <= scopeMark',
         \A s \in Starts' :
            IF s = 0 THEN At(chunks', s) = NullMark
            ELSE /\ At(chunks', s) \in Starts' /\ At(chunks', s) < s
                 /\ \A t \in Starts' : t < s => t <= At(chunks', s)
  PROVE  RootsInv'
<1>1. EntriesInv'
  BY DEF EntriesInv, EntryAt, At, Indices
<1>2. MarkChain'
  BY DEF MarkChain, EntryAt, At
<1>3. Counted(Starts)'
  BY DEF Counted, Below
<1> QED BY <1>1, <1>2, <1>3 DEF RootsInv

LEMMA EntriesOf ==
  ASSUME RootsInv
  PROVE  /\ rootCount \in Nat /\ ChunkSize \in Nat
         /\ \A i \in Indices : i \in Nat /\ i < rootCount /\ At(chunks, i) \in Things \cup Marks \cup {NullMark}
         /\ rootCount # 0 => 0 \in Starts /\ scopeMark \in Starts /\ scopeMark \in Nat
         /\ rootCount = 0 => scopeMark = NullMark
         /\ \A s \in Starts : s \in Indices /\ s < ChunkSize /\ (rootCount # 0 => s <= scopeMark)
         /\ \A s \in Starts :
               IF s = 0 THEN At(chunks, s) = NullMark
               ELSE /\ At(chunks, s) \in Starts /\ At(chunks, s) < s
                    /\ \A t \in Starts : t < s => t <= At(chunks, s)
<1>1. rootCount \in Nat /\ ChunkSize \in Nat
  BY RootsAssumption DEF RootsAssumption, RootsInv, LRTypeOK, Marks
<1>2. \A i \in Indices : i \in Nat /\ i < rootCount /\ At(chunks, i) \in Things \cup Marks \cup {NullMark}
  BY <1>1, AtIsEntry DEF RootsInv, EntriesInv, Indices
<1>3. rootCount # 0 => 0 \in Starts /\ scopeMark \in Starts /\ scopeMark \in Nat
  BY StartsFinite DEF RootsInv, EntriesInv, MarkChain
<1>4. rootCount = 0 => scopeMark = NullMark
  BY DEF RootsInv, MarkChain
<1>5. \A s \in Starts : s \in Indices /\ s < ChunkSize /\ (rootCount # 0 => s <= scopeMark)
  BY DEF RootsInv, EntriesInv, MarkChain, Starts, Indices
<1>6. ASSUME NEW s \in Starts
      PROVE  IF s = 0 THEN At(chunks, s) = NullMark
             ELSE /\ At(chunks, s) \in Starts /\ At(chunks, s) < s
                  /\ \A t \in Starts : t < s => t <= At(chunks, s)
  BY AtIsEntry DEF RootsInv, MarkChain
<1> QED BY <1>1, <1>2, <1>3, <1>4, <1>5, <1>6

LEMMA EnterKeeps ==
  ASSUME RootsInv, FirstChunk, EnterLocalRootScope
  PROVE  RootsInv'
<1>1. /\ rootCount < ChunkSize /\ rootCount' = rootCount + 1 /\ scopeMark' = rootCount
      /\ LRTypeOK' /\ ChunksExact' /\ At(chunks', rootCount) = scopeMark
      /\ \A i \in Indices : At(chunks', i) = At(chunks, i)
  BY EnterView
<1>2. Starts' = Starts \cup {rootCount} /\ (\A s \in Starts : s < rootCount) /\ rootCount \in Nat
  BY EnterStarts
<1>3. Counted(Starts')
  BY <1>2, StartsFinite, AddStart DEF RootsInv
<1>4. scopeMark \in Marks \cup {NullMark} /\ rootCount' # 0 /\ rootCount' - 1 = rootCount
  BY <1>1, <1>2 DEF RootsInv, LRTypeOK
<1>5. ASSUME NEW i \in 0 .. rootCount' - 1 PROVE At(chunks', i) \in Things \cup Marks \cup {NullMark}
  <2>1. i = rootCount \/ i \in Indices
    BY <1>2, <1>4 DEF Indices
  <2> QED BY <1>1, <1>4, <2>1, EntriesOf
<1>6. 0 \in Starts'
  <2>1. CASE rootCount = 0
    BY <1>2, <2>1
  <2>2. CASE rootCount # 0
    BY <1>2, <2>2, EntriesOf
  <2> QED BY <2>1, <2>2
<1>7. \A s \in Starts' : s < ChunkSize
  BY <1>1, <1>2, EntriesOf
<1>8. scopeMark' \in Starts' /\ \A s \in Starts' : s <= scopeMark'
  <2>1. \A s \in Starts : s <= rootCount
    BY <1>2, EntriesOf
  <2> QED BY <1>1, <1>2, <2>1
<1>9. ASSUME NEW s \in Starts'
      PROVE  IF s = 0 THEN At(chunks', s) = NullMark
             ELSE /\ At(chunks', s) \in Starts' /\ At(chunks', s) < s
                  /\ \A t \in Starts' : t < s => t <= At(chunks', s)
  <2>1. CASE s = rootCount
    <3>1. CASE s = 0
      BY <1>1, <2>1, <3>1, EntriesOf
    <3>2. CASE s # 0
      <4>1. scopeMark \in Starts /\ scopeMark < s /\ scopeMark \in Nat /\ s \in Nat
        BY <1>2, <2>1, <3>2, EntriesOf
      <4>2. \A t \in Starts' : t < s => t <= scopeMark
        BY <1>2, <2>1, <3>2, EntriesOf
      <4> QED BY <1>1, <1>2, <2>1, <3>2, <4>1, <4>2
    <3> QED BY <3>1, <3>2
  <2>2. CASE s # rootCount
    <3>1. s \in Starts /\ s \in Indices /\ s < rootCount /\ s \in Nat
      BY <1>2, <2>2, EntriesOf
    <3>2. At(chunks', s) = At(chunks, s)
      BY <1>1, <3>1
    <3>3. \A t \in Starts' : t < s => t \in Starts
      BY <1>2, <3>1
    <3> QED BY <1>2, <3>1, <3>2, <3>3, EntriesOf
  <2> QED BY <2>1, <2>2
<1> QED BY ONLY <1>1, <1>3, <1>4, <1>5, <1>6, <1>7, <1>8, <1>9, InvFromEntries

LEMMA AllocKeeps ==
  ASSUME RootsInv, FirstChunk, NEW v \in Things, AllocGCThing(v)
  PROVE  RootsInv'
<1>1. /\ rootCount # 0 /\ rootCount' = rootCount + 1 /\ scopeMark' = scopeMark
      /\ LRTypeOK' /\ ChunksExact' /\ At(chunks', rootCount) = v
      /\ \A i \in Indices : At(chunks', i) = At(chunks, i)
  BY AllocView
<1>2. Starts' = Starts
  BY AllocStarts
<1>3. Counted(Starts')
  BY <1>2 DEF RootsInv
<1>4. rootCount \in Nat /\ rootCount' # 0 /\ rootCount' - 1 = rootCount
  BY <1>1, EntriesOf
<1>5. ASSUME NEW i \in 0 .. rootCount' - 1 PROVE At(chunks', i) \in Things \cup Marks \cup {NullMark}
  <2>1. i = rootCount \/ i \in Indices
    BY <1>4 DEF Indices
  <2> QED BY <1>1, <2>1, EntriesOf
<1>6. 0 \in Starts' /\ scopeMark' \in Starts' /\ (\A s \in Starts' : s < ChunkSize /\ s <= scopeMark')
  BY <1>1, <1>2, EntriesOf
<1>7. ASSUME NEW s \in Starts'
      PROVE  IF s = 0 THEN At(chunks', s) = NullMark
             ELSE /\ At(chunks', s) \in Starts' /\ At(chunks', s) < s
                  /\ \A t \in Starts' : t < s => t <= At(chunks', s)
  <2>1. At(chunks', s) = At(chunks, s)
    BY <1>1, <1>2, EntriesOf
  <2> QED BY <1>2, <2>1, EntriesOf
<1> QED BY ONLY <1>1, <1>3, <1>4, <1>5, <1>6, <1>7, InvFromEntries

LEMMA LeaveKeeps ==
  ASSUME RootsInv, FirstChunk, LeaveLocalRootScope
  PROVE  RootsInv'
<1>1. /\ rootCount # 0 /\ rootCount' = scopeMark /\ scopeMark \in Indices
      /\ scopeMark' = At(chunks, scopeMark)
      /\ LRTypeOK' /\ ChunksExact'
      /\ \A i \in 0 .. scopeMark - 1 : At(chunks', i) = At(chunks, i)
  BY LeaveView
<1>2. Starts' = Below(Starts, scopeMark)
  BY LeaveStarts
<1>3. scopeMark \in Nat /\ scopeMark < rootCount /\ rootCount \in Nat /\ scopeMark \in Starts
  BY <1>1, EntriesOf
<1>4. \A s : s \in Starts' <=> s \in Starts /\ s < scopeMark
  BY <1>2 DEF Below
<1>5. Counted(Starts')
  <2>1. \A s \in Starts : s <= scopeMark
    BY <1>1, EntriesOf
  <2> QED BY <1>2, <1>3, <2>1, StartsFinite, DropStart DEF RootsInv
<1>6. ASSUME NEW i \in 0 .. rootCount' - 1 PROVE At(chunks', i) \in Things \cup Marks \cup {NullMark}
  <2>1. i \in Indices /\ i \in 0 .. scopeMark - 1
    BY <1>1, <1>3 DEF Indices
  <2> QED BY <1>1, <2>1, EntriesOf
<1>7. rootCount' # 0 => 0 \in Starts'
  BY <1>1, <1>3, <1>4, EntriesOf
<1>8. \A s \in Starts' : s < ChunkSize
  BY <1>4, EntriesOf
<1>9. IF rootCount' = 0 THEN scopeMark' = NullMark
      ELSE scopeMark' \in Starts' /\ \A s \in Starts' : s <= scopeMark'
  <2>1. CASE scopeMark = 0
    BY <1>1, <1>3, <2>1, EntriesOf
  <2>2. CASE scopeMark # 0
    <3>1. /\ At(chunks, scopeMark) \in Starts /\ At(chunks, scopeMark) < scopeMark
          /\ \A t \in Starts : t < scopeMark => t <= At(chunks, scopeMark)
      BY <1>3, <2>2, EntriesOf
    <3> QED BY <1>1, <1>4, <2>2, <3>1
  <2> QED BY <2>1, <2>2
<1>10. ASSUME NEW s \in Starts'
       PROVE  IF s = 0 THEN At(chunks', s) = NullMark
              ELSE /\ At(chunks', s) \in Starts' /\ At(chunks', s) < s
                   /\ \A t \in Starts' : t < s => t <= At(chunks', s)
  <2>1. s \in Starts /\ s < scopeMark /\ s \in Nat /\ s \in 0 .. scopeMark - 1
    <3>1. s \in Starts /\ s < scopeMark
      BY <1>4
    <3>2. s \in Nat
      BY <3>1, EntriesOf
    <3> QED BY ONLY <1>3, <3>1, <3>2
  <2>2. At(chunks', s) = At(chunks, s)
    BY <1>1, <2>1
  <2>3. CASE s = 0
    BY <2>1, <2>2, <2>3, EntriesOf
  <2>4. CASE s # 0
    <3>1. /\ At(chunks, s) \in Starts /\ At(chunks, s) < s
          /\ \A t \in Starts : t < s => t <= At(chunks, s)
      BY <2>1, <2>4, EntriesOf
    <3>2. At(chunks, s) \in Nat
      BY <3>1, EntriesOf
    <3>3. At(chunks, s) < scopeMark
      BY ONLY <1>3, <2>1, <3>1, <3>2
    <3> QED BY <1>4, <2>2, <2>4, <3>1, <3>3
  <2> QED BY <2>3, <2>4
<1> QED BY ONLY <1>1, <1>5, <1>6, <1>7, <1>8, <1>9, <1>10, InvFromEntries

LEMMA ForgetKeeps ==
  ASSUME RootsInv, FirstChunk, NEW v \in Things, ForgetLocalRoot(v)
  PROVE  RootsInv'
<1>1. /\ rootCount # 0 /\ rootCount' = rootCount - 1 /\ scopeMark' = scopeMark
      /\ scopeMark \in Starts /\ scopeMark < rootCount - 1
      /\ LRTypeOK' /\ ChunksExact'
  BY ForgetView
<1>2. PICK i \in scopeMark + 1 .. rootCount - 1 :
             \A j \in 0 .. rootCount - 2 :
                   At(chunks', j) = IF j = i THEN At(chunks, rootCount - 1) ELSE At(chunks, j)
  BY ForgetView
<1>3. Starts' = Starts
  BY ForgetStarts
<1>4. Counted(Starts')
  BY <1>3 DEF RootsInv
<1>5. /\ rootCount \in Nat /\ scopeMark \in Nat /\ rootCount' # 0 /\ rootCount' - 1 = rootCount - 2
      /\ rootCount - 1 \in Indices
  BY <1>1, EntriesOf DEF Indices
<1>6. ASSUME NEW j \in 0 .. rootCount' - 1 PROVE At(chunks', j) \in Things \cup Marks \cup {NullMark}
  <2>1. j \in 0 .. rootCount - 2 /\ j \in Indices
    BY <1>5 DEF Indices
  <2> QED BY <1>2, <1>5, <2>1, EntriesOf
<1>7. 0 \in Starts' /\ scopeMark' \in Starts' /\ (\A s \in Starts' : s < ChunkSize /\ s <= scopeMark')
  BY <1>1, <1>3, EntriesOf
<1>8. ASSUME NEW s \in Starts'
      PROVE  IF s = 0 THEN At(chunks', s) = NullMark
             ELSE /\ At(chunks', s) \in Starts' /\ At(chunks', s) < s
                  /\ \A t \in Starts' : t < s => t <= At(chunks', s)
  <2>1. s \in Nat /\ s <= scopeMark /\ s \in 0 .. rootCount - 2 /\ s # i
    BY <1>1, <1>3, <1>5, EntriesOf
  <2>2. At(chunks', s) = At(chunks, s)
    BY <1>2, <2>1
  <2> QED BY <1>3, <2>2, EntriesOf
<1> QED BY ONLY <1>1, <1>4, <1>5, <1>6, <1>7, <1>8, InvFromEntries

LEMMA RootsStart == LRInit => RootsInv
<1> SUFFICES ASSUME LRInit PROVE RootsInv
  OBVIOUS
<1>1. chunks = <<>> /\ rootCount = 0 /\ scopeMark = NullMark
  BY DEF LRInit
<1>2. Starts = {}
  BY <1>1 DEF Starts
<1>3. Counted(Starts)
  BY <1>2, FS_EmptySet DEF Counted
<1>4. LRTypeOK
  BY <1>1, RootsAssumption DEF LRTypeOK, RootsAssumption, Marks
<1>5. ChunksExact
  BY <1>1 DEF ChunksExact
<1>6. EntriesInv /\ MarkChain
  BY <1>1, <1>2 DEF EntriesInv, MarkChain, Indices
<1> QED BY <1>3, <1>4, <1>5, <1>6 DEF RootsInv

LEMMA RootsKept == ASSUME FirstChunk PROVE RootsInv /\ [LRNext]_lrVars => RootsInv'
<1> SUFFICES ASSUME RootsInv, [LRNext]_lrVars PROVE RootsInv'
  OBVIOUS
<1>1. CASE LRNext
  BY <1>1, EnterKeeps, LeaveKeeps, AllocKeeps, ForgetKeeps DEF LRNext
<1>2. CASE UNCHANGED lrVars
  <2>1. chunks' = chunks /\ rootCount' = rootCount /\ scopeMark' = scopeMark
    BY <1>2 DEF lrVars
  <2> QED BY <2>1 DEF RootsInv, LRTypeOK, ChunksExact, EntriesInv, MarkChain, Counted, Below, Starts,
                      Indices, EntryAt
<1> QED BY <1>1, <1>2

(* What scopeMark and the entries below it say of each other: js_EnterLocalRootScope, *)
(* js_LeaveLocalRootScope and js_ForgetLocalRoot keep the chain of saved marks.      *)
THEOREM RootsInvariant == ASSUME FirstChunk PROVE LRSpec => []RootsInv
BY RootsStart, RootsKept, PTL DEF LRSpec

(* No chunk leaks and the top entry is in the top chunk, whether js_LeaveLocalRootScope *)
(* or js_ForgetLocalRoot emptied the chunks.                                           *)
THEOREM ChunksCorrect == ASSUME FirstChunk PROVE LRSpec => []ChunksExact
<1>1. RootsInv => ChunksExact
  BY DEF RootsInv
<1> QED BY <1>1, RootsInvariant, PTL

----------------------------------------------------------------------------
(* The scopes, of any chunks, starts and count. *)

EndIn(S, n, k) == IF k = Cardinality(S) THEN n ELSE NthOf(S, k + 1)

ScopeIn(cs, S, n, k) ==
    [j \in 1 .. EndIn(S, n, k) - NthOf(S, k) - 1 |-> At(cs, NthOf(S, k) + j)]

ScopesIn(cs, S, n) == [k \in 1 .. Cardinality(S) |-> ScopeIn(cs, S, n, k)]

LEMMA ScopesAre ==
  /\ LocalScopes = ScopesIn(chunks, Starts, rootCount)
  /\ LocalScopes' = ScopesIn(chunks', Starts', rootCount')
BY DEF LocalScopes, ScopesIn, ScopeIn, EndIn, EndOf, EntryAt, At

LEMMA ScopeShape ==
  ASSUME RootsInv, NEW k \in 1 .. Cardinality(Starts)
  PROVE  /\ NthOf(Starts, k) \in Starts /\ NthOf(Starts, k) \in Nat
         /\ EndIn(Starts, rootCount, k) \in Nat /\ rootCount \in Nat /\ Cardinality(Starts) \in Nat
         /\ NthOf(Starts, k) < EndIn(Starts, rootCount, k)
         /\ EndIn(Starts, rootCount, k) <= rootCount
         /\ ScopeIn(chunks, Starts, rootCount, k) \in Seq(Cells)
         /\ Len(ScopeIn(chunks, Starts, rootCount, k)) = EndIn(Starts, rootCount, k) - NthOf(Starts, k) - 1
<1>1. Starts \in SUBSET Nat /\ IsFiniteSet(Starts) /\ Cardinality(Starts) \in Nat /\ Counted(Starts)
  BY StartsFinite DEF RootsInv
<1>2. NthOf(Starts, k) \in Starts /\ NthOf(Starts, k) \in Nat
  BY <1>1, NthMember
<1>3. rootCount \in Nat /\ \A s \in Starts : s < rootCount
  BY EntriesOf
<1>4. /\ EndIn(Starts, rootCount, k) \in Nat
      /\ NthOf(Starts, k) < EndIn(Starts, rootCount, k)
      /\ EndIn(Starts, rootCount, k) <= rootCount
  <2>1. CASE k = Cardinality(Starts)
    BY <1>2, <1>3, <2>1 DEF EndIn
  <2>2. CASE k # Cardinality(Starts)
    <3>1. k + 1 \in 1 .. Cardinality(Starts) /\ k < k + 1
      BY <1>1, <2>2
    <3>2. NthOf(Starts, k + 1) \in Starts /\ NthOf(Starts, k) < NthOf(Starts, k + 1)
      BY <1>1, <3>1, NthMember, NthGrows
    <3>3. NthOf(Starts, k + 1) \in Nat /\ NthOf(Starts, k + 1) < rootCount
      BY <1>1, <1>3, <3>2
    <3> QED BY ONLY <1>3, <2>2, <3>2, <3>3 DEF EndIn
  <2> QED BY <2>1, <2>2
<1>5. ASSUME NEW j \in 1 .. EndIn(Starts, rootCount, k) - NthOf(Starts, k) - 1
      PROVE  At(chunks, NthOf(Starts, k) + j) \in Cells
  <2>1. NthOf(Starts, k) + j \in Indices
    BY <1>2, <1>3, <1>4 DEF Indices
  <2> QED BY <2>1, EntriesOf DEF Cells
<1>6. EndIn(Starts, rootCount, k) - NthOf(Starts, k) - 1 \in Nat
  BY <1>2, <1>4
<1>7. /\ ScopeIn(chunks, Starts, rootCount, k) \in Seq(Cells)
      /\ Len(ScopeIn(chunks, Starts, rootCount, k)) = EndIn(Starts, rootCount, k) - NthOf(Starts, k) - 1
  BY <1>5, <1>6 DEF ScopeIn
<1> QED BY <1>1, <1>2, <1>3, <1>4, <1>7

LEMMA ScopesShape ==
  ASSUME RootsInv
  PROVE  /\ LocalScopes \in Seq(Seq(Cells)) /\ Len(LocalScopes) = Cardinality(Starts)
         /\ Cardinality(Starts) \in Nat
         /\ \A k \in 1 .. Cardinality(Starts) : LocalScopes[k] = ScopeIn(chunks, Starts, rootCount, k)
<1>1. Cardinality(Starts) \in Nat
  BY StartsFinite
<1>2. LocalScopes = [k \in 1 .. Cardinality(Starts) |-> ScopeIn(chunks, Starts, rootCount, k)]
  BY ScopesAre DEF ScopesIn
<1>3. \A k \in 1 .. Cardinality(Starts) : ScopeIn(chunks, Starts, rootCount, k) \in Seq(Cells)
  BY ScopeShape
<1> QED BY ONLY <1>1, <1>2, <1>3

(* The last scope starts at scopeMark. *)
LEMMA TopScope ==
  ASSUME RootsInv, rootCount # 0
  PROVE  /\ Cardinality(Starts) \in Nat \ {0} /\ NthOf(Starts, Cardinality(Starts)) = scopeMark
         /\ EndIn(Starts, rootCount, Cardinality(Starts)) = rootCount
<1>1. scopeMark \in Starts /\ \A s \in Starts : s <= scopeMark
  BY EntriesOf
<1> QED BY <1>1, StartsFinite, LastIs DEF EndIn

LEMMA SameScope ==
  ASSUME NEW c1, NEW c2, NEW S1, NEW S2, NEW n1, NEW n2, NEW k, NEW a \in Nat, NEW b \in Nat,
         NthOf(S1, k) = a, NthOf(S2, k) = a, EndIn(S1, n1, k) = b, EndIn(S2, n2, k) = b,
         \A i \in 0 .. b - 1 : At(c1, i) = At(c2, i)
  PROVE  ScopeIn(c1, S1, n1, k) = ScopeIn(c2, S2, n2, k)
<1>1. ASSUME NEW j \in 1 .. b - a - 1 PROVE At(c1, a + j) = At(c2, a + j)
  BY a + j \in 0 .. b - 1
<1> QED BY <1>1 DEF ScopeIn

LEMMA EnterEnters ==
  ASSUME RootsInv, FirstChunk, EnterLocalRootScope
  PROVE  LocalScopes' = Append(LocalScopes, <<>>)
<1> DEFINE N == Cardinality(Starts)
<1>1. /\ rootCount' = rootCount + 1
      /\ \A i \in Indices : At(chunks', i) = At(chunks, i)
  BY EnterView
<1>2. Starts' = Starts \cup {rootCount} /\ (\A s \in Starts : s < rootCount) /\ rootCount \in Nat
  BY EnterStarts
<1>3. /\ Cardinality(Starts') = N + 1 /\ NthOf(Starts', N + 1) = rootCount
      /\ \A k \in 1 .. N : NthOf(Starts', k) = NthOf(Starts, k)
  BY <1>2, StartsFinite, AddStart DEF RootsInv
<1>4. N \in Nat
  BY StartsFinite
<1>5. ASSUME NEW k \in 1 .. N
      PROVE  ScopeIn(chunks', Starts', rootCount', k) = ScopeIn(chunks, Starts, rootCount, k)
  <2>1. EndIn(Starts', rootCount', k) = EndIn(Starts, rootCount, k)
    <3>1. CASE k = N
      BY <1>3, <1>4, <3>1 DEF EndIn
    <3>2. CASE k # N
      <4>1. k + 1 \in 1 .. N /\ k # N + 1
        BY <1>4, <3>2
      <4> QED BY <1>3, <3>2, <4>1 DEF EndIn
    <3> QED BY <3>1, <3>2
  <2>2. \A i \in 0 .. EndIn(Starts, rootCount, k) - 1 : At(chunks', i) = At(chunks, i)
    BY <1>1, ScopeShape DEF Indices
  <2> QED BY <1>3, <2>1, <2>2, ScopeShape, SameScope
<1>6. ScopeIn(chunks', Starts', rootCount', N + 1) = <<>>
  <2>1. EndIn(Starts', rootCount', N + 1) - NthOf(Starts', N + 1) - 1 = 0
    BY <1>1, <1>2, <1>3 DEF EndIn
  <2> QED BY <2>1 DEF ScopeIn
<1>7. LocalScopes' = [k \in 1 .. N + 1 |-> ScopeIn(chunks', Starts', rootCount', k)]
  BY <1>3, ScopesAre DEF ScopesIn
<1>8. /\ LocalScopes \in Seq(Seq(Cells)) /\ Len(LocalScopes) = N
      /\ \A k \in 1 .. N : LocalScopes[k] = ScopeIn(chunks, Starts, rootCount, k)
  BY ScopesShape
<1>9. LocalScopes' \in Seq(Seq(Cells)) /\ Len(LocalScopes') = N + 1
  <2>1. ASSUME NEW k \in 1 .. N + 1
        PROVE  ScopeIn(chunks', Starts', rootCount', k) \in Seq(Cells)
    <3>1. CASE k = N + 1
      BY ONLY <1>6, <3>1, EmptySeq
    <3>2. CASE k # N + 1
      <4>1. k \in 1 .. N
        BY <1>4, <3>2
      <4> QED BY <1>5, <4>1, ScopeShape
    <3> QED BY <3>1, <3>2
  <2> QED BY ONLY <1>4, <1>7, <2>1
<1>10. Append(LocalScopes, <<>>) \in Seq(Seq(Cells)) /\ Len(Append(LocalScopes, <<>>)) = N + 1
  BY ONLY <1>8
<1>11. ASSUME NEW k \in 1 .. N + 1
       PROVE  LocalScopes'[k] = Append(LocalScopes, <<>>)[k]
  <2>1. CASE k = N + 1
    BY ONLY <1>4, <1>6, <1>7, <1>8, <2>1
  <2>2. CASE k # N + 1
    BY ONLY <1>4, <1>5, <1>7, <1>8, <2>2, k \in 1 .. N + 1
  <2> QED BY <2>1, <2>2
<1> QED BY ONLY <1>9, <1>10, <1>11, SeqEqual

LEMMA LeaveLeaves ==
  ASSUME RootsInv, FirstChunk, LeaveLocalRootScope
  PROVE  LocalScopes # <<>> /\ LocalScopes' = Front(LocalScopes)
<1> DEFINE N == Cardinality(Starts)
<1>1. /\ rootCount # 0 /\ rootCount' = scopeMark
      /\ \A i \in 0 .. scopeMark - 1 : At(chunks', i) = At(chunks, i)
  BY LeaveView
<1>2. N \in Nat \ {0} /\ NthOf(Starts, N) = scopeMark
  BY <1>1, TopScope
<1>3. scopeMark \in Starts /\ scopeMark \in Nat /\ \A s \in Starts : s <= scopeMark
  BY <1>1, EntriesOf
<1>4. /\ Cardinality(Starts') = N - 1
      /\ \A k \in 1 .. N - 1 : NthOf(Starts', k) = NthOf(Starts, k)
  BY <1>3, LeaveStarts, StartsFinite, DropStart DEF RootsInv
<1>5. ASSUME NEW k \in 1 .. N - 1
      PROVE  ScopeIn(chunks', Starts', rootCount', k) = ScopeIn(chunks, Starts, rootCount, k)
  <2>1. k \in 1 .. N /\ k # N /\ k + 1 \in 1 .. N
    BY <1>2
  <2>2. EndIn(Starts', rootCount', k) = EndIn(Starts, rootCount, k)
    <3>1. CASE k = N - 1
      BY <1>1, <1>2, <1>4, <2>1, <3>1 DEF EndIn
    <3>2. CASE k # N - 1
      <4>1. k + 1 \in 1 .. N - 1
        BY <1>2, <3>2
      <4> QED BY <1>4, <2>1, <3>2, <4>1 DEF EndIn
    <3> QED BY <3>1, <3>2
  <2>3. EndIn(Starts, rootCount, k) <= scopeMark
    <3>1. NthOf(Starts, k + 1) \in Starts
      BY <2>1, StartsFinite, NthMember DEF RootsInv
    <3> QED BY <1>3, <2>1, <3>1 DEF EndIn
  <2>4. EndIn(Starts, rootCount, k) \in Nat
    BY <2>1, ScopeShape
  <2>5. \A i \in 0 .. EndIn(Starts, rootCount, k) - 1 : At(chunks', i) = At(chunks, i)
    BY <1>1, <1>3, <2>3, <2>4
  <2> QED BY <1>4, <2>1, <2>2, <2>5, ScopeShape, SameScope
<1>6. LocalScopes' = [k \in 1 .. N - 1 |-> ScopeIn(chunks', Starts', rootCount', k)]
  BY <1>4, ScopesAre DEF ScopesIn
<1>7. /\ LocalScopes \in Seq(Seq(Cells)) /\ Len(LocalScopes) = N
      /\ \A k \in 1 .. N : LocalScopes[k] = ScopeIn(chunks, Starts, rootCount, k)
  BY ScopesShape
<1>8. \A k \in 1 .. N - 1 : ScopeIn(chunks, Starts, rootCount, k) \in Seq(Cells)
  BY <1>2, ScopeShape
<1>9. LocalScopes' \in Seq(Seq(Cells)) /\ Len(LocalScopes') = N - 1
  BY ONLY <1>2, <1>5, <1>6, <1>8
<1>10. /\ Front(LocalScopes) \in Seq(Seq(Cells)) /\ Len(Front(LocalScopes)) = N - 1
       /\ \A k \in 1 .. N - 1 : Front(LocalScopes)[k] = LocalScopes[k]
  BY ONLY <1>2, <1>7 DEF Front
<1>11. ASSUME NEW k \in 1 .. N - 1 PROVE LocalScopes'[k] = Front(LocalScopes)[k]
  BY ONLY <1>2, <1>5, <1>6, <1>7, <1>10, k \in 1 .. N - 1
<1>12. LocalScopes' = Front(LocalScopes)
  BY ONLY <1>9, <1>10, <1>11, SeqEqual
<1>13. LocalScopes # <<>>
  BY <1>2, <1>7
<1> QED BY <1>12, <1>13

(* What a step does that leaves the starts as they are and changes the last scope. *)
LEMMA TopChanges ==
  ASSUME RootsInv, rootCount # 0, Starts' = Starts, NEW top \in Seq(Cells),
         rootCount' \in Nat, scopeMark < rootCount', Len(top) = rootCount' - scopeMark - 1,
         \A i \in 0 .. scopeMark - 1 : At(chunks', i) = At(chunks, i),
         \A j \in 1 .. rootCount' - scopeMark - 1 : At(chunks', scopeMark + j) = top[j]
  PROVE  /\ LocalScopes # <<>>
         /\ LocalScopes' = [LocalScopes EXCEPT ![Len(LocalScopes)] = top]
<1> DEFINE N == Cardinality(Starts)
<1>1. N \in Nat \ {0} /\ NthOf(Starts, N) = scopeMark
  BY TopScope
<1>2. scopeMark \in Nat /\ \A s \in Starts : s <= scopeMark
  BY EntriesOf
<1>3. /\ LocalScopes \in Seq(Seq(Cells)) /\ Len(LocalScopes) = N
      /\ \A k \in 1 .. N : LocalScopes[k] = ScopeIn(chunks, Starts, rootCount, k)
  BY ScopesShape
<1>4. LocalScopes' = [k \in 1 .. N |-> ScopeIn(chunks', Starts, rootCount', k)]
  BY ScopesAre DEF ScopesIn
<1>5. ASSUME NEW k \in 1 .. N, k # N
      PROVE  ScopeIn(chunks', Starts, rootCount', k) = ScopeIn(chunks, Starts, rootCount, k)
  <2>1. EndIn(Starts, rootCount', k) = EndIn(Starts, rootCount, k)
    BY <1>5 DEF EndIn
  <2>2. EndIn(Starts, rootCount, k) <= scopeMark
    <3>1. k + 1 \in 1 .. N
      BY <1>1, <1>5
    <3>2. NthOf(Starts, k + 1) \in Starts
      BY <3>1, StartsFinite, NthMember DEF RootsInv
    <3> QED BY <1>2, <1>5, <3>2 DEF EndIn
  <2>3. EndIn(Starts, rootCount, k) \in Nat
    BY ScopeShape
  <2>4. \A i \in 0 .. EndIn(Starts, rootCount, k) - 1 : At(chunks', i) = At(chunks, i)
    BY <1>2, <2>2, <2>3
  <2> QED BY <2>1, <2>4, ScopeShape, SameScope
<1>6. ScopeIn(chunks', Starts, rootCount', N) = top
  <2>1. ScopeIn(chunks', Starts, rootCount', N)
          = [j \in 1 .. rootCount' - scopeMark - 1 |-> At(chunks', scopeMark + j)]
    BY <1>1 DEF ScopeIn, EndIn
  <2>2. ScopeIn(chunks', Starts, rootCount', N) = [j \in 1 .. rootCount' - scopeMark - 1 |-> top[j]]
    BY <2>1
  <2>3. rootCount' - scopeMark - 1 \in Nat
    <3>1. \A x, y \in Nat : x < y => y - x - 1 \in Nat
      OBVIOUS
    <3> QED BY <1>2, <3>1
  <2>4. /\ ScopeIn(chunks', Starts, rootCount', N) \in Seq(Cells)
        /\ Len(ScopeIn(chunks', Starts, rootCount', N)) = Len(top)
        /\ \A j \in 1 .. Len(top) : ScopeIn(chunks', Starts, rootCount', N)[j] = top[j]
    BY ONLY <2>2, <2>3, top \in Seq(Cells), Len(top) = rootCount' - scopeMark - 1
  <2> QED BY ONLY <2>4, top \in Seq(Cells), SeqEqual
<1>7. LocalScopes' \in Seq(Seq(Cells)) /\ Len(LocalScopes') = N
  <2>1. ASSUME NEW k \in 1 .. N PROVE ScopeIn(chunks', Starts, rootCount', k) \in Seq(Cells)
    BY <1>5, <1>6, ScopeShape
  <2> QED BY ONLY <1>1, <1>4, <2>1
<1>8. N \in 1 .. N
  BY <1>1
<1>9. /\ [LocalScopes EXCEPT ![N] = top] \in Seq(Seq(Cells)) /\ Len([LocalScopes EXCEPT ![N] = top]) = N
      /\ \A k \in 1 .. N : [LocalScopes EXCEPT ![N] = top][k] = IF k = N THEN top ELSE LocalScopes[k]
  BY ONLY <1>1, <1>3, <1>8, top \in Seq(Cells), ExceptSeq
<1>10. ASSUME NEW k \in 1 .. N PROVE LocalScopes'[k] = [LocalScopes EXCEPT ![N] = top][k]
  BY ONLY <1>3, <1>4, <1>5, <1>6, <1>9, k \in 1 .. N
<1>11. LocalScopes' = [LocalScopes EXCEPT ![N] = top]
  BY ONLY <1>7, <1>9, <1>10, SeqEqual
<1>12. LocalScopes # <<>>
  BY <1>1, <1>3
<1> QED BY <1>3, <1>11, <1>12

LEMMA TopIs ==
  ASSUME RootsInv, rootCount # 0
  PROVE  /\ Last(LocalScopes) \in Seq(Cells) /\ Len(Last(LocalScopes)) = rootCount - scopeMark - 1
         /\ \A j \in 1 .. rootCount - scopeMark - 1 : Last(LocalScopes)[j] = At(chunks, scopeMark + j)
         /\ Last(LocalScopes) = LocalScopes[Len(LocalScopes)]
         /\ rootCount \in Nat /\ scopeMark \in Nat /\ scopeMark < rootCount
<1> DEFINE N == Cardinality(Starts)
<1>1. N \in Nat \ {0} /\ NthOf(Starts, N) = scopeMark /\ EndIn(Starts, rootCount, N) = rootCount
  BY TopScope
<1>2. rootCount \in Nat /\ scopeMark \in Nat /\ scopeMark < rootCount
  BY EntriesOf
<1>3. N \in 1 .. N
  BY <1>1
<1>4. LocalScopes[Len(LocalScopes)] = ScopeIn(chunks, Starts, rootCount, N)
  BY <1>3, ScopesShape
<1>5. Last(LocalScopes) = ScopeIn(chunks, Starts, rootCount, N)
  BY <1>4 DEF Last
<1>6. /\ ScopeIn(chunks, Starts, rootCount, N) \in Seq(Cells)
      /\ Len(ScopeIn(chunks, Starts, rootCount, N)) = rootCount - scopeMark - 1
  BY <1>1, <1>3, ScopeShape
<1>7. ScopeIn(chunks, Starts, rootCount, N) = [j \in 1 .. rootCount - scopeMark - 1 |-> At(chunks, scopeMark + j)]
  BY <1>1 DEF ScopeIn
<1> QED BY <1>2, <1>4, <1>5, <1>6, <1>7

LEMMA AllocAllocates ==
  ASSUME RootsInv, FirstChunk, NEW v \in Things, AllocGCThing(v)
  PROVE  RootScopes!Allocate(v)
<1> DEFINE old == Last(LocalScopes)
           top == Append(old, v)
<1>1. /\ rootCount # 0 /\ rootCount' = rootCount + 1 /\ At(chunks', rootCount) = v
      /\ \A i \in Indices : At(chunks', i) = At(chunks, i)
  BY AllocView
<1>2. /\ old \in Seq(Cells) /\ Len(old) = rootCount - scopeMark - 1
      /\ \A j \in 1 .. rootCount - scopeMark - 1 : old[j] = At(chunks, scopeMark + j)
      /\ old = LocalScopes[Len(LocalScopes)]
      /\ rootCount \in Nat /\ scopeMark \in Nat /\ scopeMark < rootCount
  BY <1>1, TopIs
<1>3. v \in Cells
  BY DEF Cells
<1> HIDE DEF old
<1>4. /\ top \in Seq(Cells) /\ Len(top) = rootCount - scopeMark
      /\ \A j \in 1 .. rootCount - scopeMark :
            top[j] = IF j = rootCount - scopeMark THEN v ELSE old[j]
  BY ONLY <1>2, <1>3
<1> HIDE DEF top
<1>5. rootCount' - scopeMark - 1 = rootCount - scopeMark
  BY ONLY <1>1, <1>2
<1>6. ASSUME NEW j \in 1 .. rootCount - scopeMark PROVE At(chunks', scopeMark + j) = top[j]
  <2>1. CASE j = rootCount - scopeMark
    <3>1. scopeMark + j = rootCount
      BY <1>2, <2>1
    <3> QED BY <1>1, <1>4, <2>1, <3>1
  <2>2. CASE j # rootCount - scopeMark
    <3>1. scopeMark + j \in Indices /\ j \in 1 .. rootCount - scopeMark - 1
      BY <1>2, <2>2 DEF Indices
    <3> QED BY <1>1, <1>2, <1>4, <2>2, <3>1
  <2> QED BY <2>1, <2>2
<1>7. \A i \in 0 .. scopeMark - 1 : At(chunks', i) = At(chunks, i)
  BY <1>1, <1>2 DEF Indices
<1>8. rootCount' \in Nat /\ scopeMark < rootCount'
  BY ONLY <1>1, <1>2
<1>9. LocalScopes # <<>> /\ LocalScopes' = [LocalScopes EXCEPT ![Len(LocalScopes)] = top]
  BY <1>1, <1>4, <1>5, <1>6, <1>7, <1>8, AllocStarts, TopChanges
<1> QED BY ONLY <1>2, <1>9 DEF RootScopes!Allocate, RootScopes!InScope, top

LEMMA ForgetForgets ==
  ASSUME RootsInv, FirstChunk, NEW v \in Things, ForgetLocalRoot(v)
  PROVE  RootScopes!Forget(v)
<1>1. /\ rootCount # 0 /\ rootCount' = rootCount - 1 /\ scopeMark < rootCount - 1
  BY ForgetView
<1>2. PICK i \in scopeMark + 1 .. rootCount - 1 :
             /\ At(chunks, i) = v
             /\ \A j \in scopeMark + 1 .. rootCount - 1 : At(chunks, j) = v => j <= i
             /\ \A j \in 0 .. rootCount - 2 :
                   At(chunks', j) = IF j = i THEN At(chunks, rootCount - 1) ELSE At(chunks, j)
  BY ForgetView
<1>3. PICK old : old = Last(LocalScopes)
  OBVIOUS
<1>4. /\ old \in Seq(Cells) /\ Len(old) = rootCount - scopeMark - 1
      /\ \A j \in 1 .. rootCount - scopeMark - 1 : old[j] = At(chunks, scopeMark + j)
      /\ old = LocalScopes[Len(LocalScopes)]
      /\ rootCount \in Nat /\ scopeMark \in Nat /\ scopeMark < rootCount
  BY <1>1, <1>3, TopIs
<1>5. PICK k : k = i - scopeMark
  OBVIOUS
<1>6. k \in 1 .. Len(old) /\ i = scopeMark + k /\ i \in Nat
  <2>1. i \in scopeMark + 1 .. rootCount - 1
    BY <1>2
  <2>2. k = i - scopeMark
    BY <1>5
  <2>3. Len(old) = rootCount - scopeMark - 1 /\ rootCount \in Nat /\ scopeMark \in Nat
    BY <1>4
  <2> QED BY ONLY <2>1, <2>2, <2>3
<1>7. old[k] = v /\ \A j \in 1 .. Len(old) : old[j] = v => j <= k
  <2>1. ASSUME NEW j \in 1 .. Len(old), old[j] = v PROVE j <= k
    <3>1. scopeMark + j \in scopeMark + 1 .. rootCount - 1 /\ At(chunks, scopeMark + j) = v
      BY <1>4, <2>1
    <3>2. scopeMark + j <= i
      BY <1>2, <3>1
    <3> QED BY <1>4, <1>6, <3>2
  <2> QED BY <1>2, <1>4, <1>6, <2>1
<1>8. RootScopes!SelectLastInSeq(old, LAMBDA u : u = v) = k
  <2> DEFINE I == {j \in 1 .. Len(old) : old[j] = v}
  <2>1. k \in I /\ \A j \in I : k >= j /\ j \in Int
    BY <1>6, <1>7
  <2>2. RootScopes!Max(I) = k
    BY <2>1 DEF RootScopes!Max
  <2> QED BY <2>1, <2>2 DEF RootScopes!SelectLastInSeq
<1> DEFINE filled == IF k = Len(old) THEN old ELSE [old EXCEPT ![k] = Last(old)]
           top == Front(filled)
<1>9. /\ filled \in Seq(Cells) /\ Len(filled) = Len(old)
      /\ \A j \in 1 .. Len(old) : filled[j] = IF j = k THEN old[Len(old)] ELSE old[j]
  BY ONLY <1>4, <1>6 DEF Last
<1> HIDE DEF filled
<1>10. /\ top \in Seq(Cells) /\ Len(top) = rootCount' - scopeMark - 1
       /\ \A j \in 1 .. Len(old) - 1 : top[j] = filled[j]
  BY ONLY <1>1, <1>4, <1>6, <1>9 DEF Front
<1> HIDE DEF top
<1>11. ASSUME NEW j \in 1 .. rootCount' - scopeMark - 1 PROVE At(chunks', scopeMark + j) = top[j]
  <2>1. j \in 1 .. Len(old) - 1 /\ scopeMark + j \in 0 .. rootCount - 2 /\ j \in 1 .. Len(old)
    BY <1>1, <1>4
  <2>2. scopeMark + Len(old) = rootCount - 1 /\ Len(old) \in 1 .. Len(old)
    BY <1>4, <1>6
  <2>3. CASE j = k
    <3>1. At(chunks', scopeMark + j) = At(chunks, rootCount - 1)
      BY <1>2, <1>6, <2>1, <2>3
    <3>2. old[Len(old)] = At(chunks, rootCount - 1)
      BY <1>4, <2>2
    <3> QED BY ONLY <1>9, <1>10, <2>1, <2>3, <3>1, <3>2
  <2>4. CASE j # k
    <3>1. scopeMark + j # i
      BY <1>4, <1>6, <2>4
    <3>2. At(chunks', scopeMark + j) = At(chunks, scopeMark + j)
      BY <1>2, <2>1, <3>1
    <3> QED BY <1>4, <1>9, <1>10, <2>1, <2>4, <3>2
  <2> QED BY <2>3, <2>4
<1>12. \A j \in 0 .. scopeMark - 1 : At(chunks', j) = At(chunks, j)
  BY <1>1, <1>2, <1>4
<1>13. rootCount' \in Nat /\ scopeMark < rootCount'
  BY ONLY <1>1, <1>4
<1>14. LocalScopes # <<>> /\ LocalScopes' = [LocalScopes EXCEPT ![Len(LocalScopes)] = top]
  BY <1>1, <1>10, <1>11, <1>12, <1>13, ForgetStarts, TopChanges
<1>15. k > 0
  BY <1>6
<1>16. RootScopes!Last(LocalScopes) = old
  BY ONLY <1>3 DEF RootScopes!Last, Last
<1>17. RootScopes!Front(IF k = Len(old) THEN old ELSE [old EXCEPT ![k] = RootScopes!Last(old)]) = top
  BY ONLY TRUE DEF RootScopes!Last, Last, RootScopes!Front, Front, top, filled
<1> QED BY ONLY <1>8, <1>14, <1>15, <1>16, <1>17 DEF RootScopes!Forget, RootScopes!InScope

(* The chunked stack keeps the promise of jsapi.h, step by step: what js_AllocGCThing, *)
(* js_EnterLocalRootScope, js_LeaveLocalRootScope and js_ForgetLocalRoot do to the     *)
(* chunks is to root in, open, close and take a root from the innermost scope.         *)
THEOREM ScopesCorrect == ASSUME FirstChunk PROVE LRSpec => ImplementsScopes
<1>1. LRInit => RootScopes!Init
  <2> SUFFICES ASSUME LRInit PROVE LocalScopes = <<>>
    BY DEF RootScopes!Init
  <2>1. Starts = {}
    BY DEF LRInit, Starts
  <2>2. Cardinality(Starts) = 0
    BY <2>1, FS_EmptySet
  <2> QED BY <2>2 DEF LocalScopes
<1>2. RootsInv /\ [LRNext]_lrVars => [RootScopes!Next]_LocalScopes
  <2> SUFFICES ASSUME RootsInv, [LRNext]_lrVars PROVE [RootScopes!Next]_LocalScopes
    OBVIOUS
  <2>1. CASE EnterLocalRootScope
    BY <2>1, EnterEnters DEF RootScopes!Next, RootScopes!Enter
  <2>2. CASE LeaveLocalRootScope
    <3>1. LocalScopes # <<>> /\ LocalScopes' = Front(LocalScopes)
      BY <2>2, LeaveLeaves
    <3>2. LocalScopes' = RootScopes!Front(LocalScopes)
      BY <3>1 DEF Front, RootScopes!Front
    <3> QED BY <3>1, <3>2 DEF RootScopes!Next, RootScopes!Leave, RootScopes!InScope
  <2>3. ASSUME NEW v \in Things, AllocGCThing(v) \/ ForgetLocalRoot(v)
        PROVE  RootScopes!Next
    BY <2>3, AllocAllocates, ForgetForgets DEF RootScopes!Next
  <2>4. CASE UNCHANGED lrVars
    <3>1. chunks' = chunks /\ rootCount' = rootCount /\ scopeMark' = scopeMark
      BY <2>4 DEF lrVars
    <3>2. Starts' = Starts
      BY <3>1 DEF Starts, EntryAt
    <3> QED BY <3>1, <3>2, ScopesAre
  <2> QED BY <2>1, <2>2, <2>3, <2>4 DEF LRNext
<1> QED BY <1>1, <1>2, RootsInvariant, PTL DEF LRSpec, ImplementsScopes, RootScopes!Spec

----------------------------------------------------------------------------
(* Marking. *)

(* The walk crosses a chunk boundary for each multiple of ChunkSize. *)
LEMMA Crossings ==
  ASSUME NEW n \in Nat, NEW m \in Nat, n <= m
  PROVE  Cardinality({k \in n + 1 .. m : k % ChunkSize = 0}) = (m \div ChunkSize) - (n \div ChunkSize)
<1> DEFINE Cross(y) == {k \in n + 1 .. y : k % ChunkSize = 0}
           Wrong == {y \in Nat : n <= y /\ Cardinality(Cross(y)) # (y \div ChunkSize) - (n \div ChunkSize)}
<1>1. ChunkSize \in Nat \ {0} /\ n \div ChunkSize \in Nat
  BY RootsAssumption, Division DEF RootsAssumption
<1>2. SUFFICES Wrong = {}
  <2>1. m \notin Wrong
    BY <1>2
  <2> QED BY <2>1
<1>3. SUFFICES ASSUME Wrong # {} PROVE FALSE
  OBVIOUS
<1>4. Wrong \in SUBSET Nat
  OBVIOUS
<1>5. PICK y \in Wrong : \A x \in Wrong : y <= x
  BY ONLY <1>3, <1>4, SmallestExists
<1>6. y \in Nat /\ n <= y /\ Cardinality(Cross(y)) # (y \div ChunkSize) - (n \div ChunkSize)
  BY DEF Wrong
<1>7. y # n
  <2>1. Cross(n) = {}
    OBVIOUS
  <2>2. Cardinality(Cross(n)) = (n \div ChunkSize) - (n \div ChunkSize)
    BY <1>1, <2>1, FS_EmptySet
  <2> QED BY <1>6, <2>2
<1>8. y - 1 \in Nat /\ n <= y - 1 /\ y - 1 + 1 = y /\ ~(y <= y - 1)
  BY <1>6, <1>7
<1>9. y - 1 \notin Wrong
  BY ONLY <1>5, <1>8
<1>10. Cardinality(Cross(y - 1)) = ((y - 1) \div ChunkSize) - (n \div ChunkSize)
  BY <1>8, <1>9
<1>11. /\ y \div ChunkSize = IF y % ChunkSize = 0 THEN ((y - 1) \div ChunkSize) + 1
                              ELSE (y - 1) \div ChunkSize
       /\ (y - 1) \div ChunkSize \in Nat
  BY ONLY <1>1, <1>8, NextQuotient, Division
<1>12. IsFiniteSet(Cross(y - 1)) /\ y \notin Cross(y - 1)
  <2>1. IsFiniteSet(n + 1 .. y - 1)
    BY <1>6, <1>8, FS_Interval
  <2>2. Cross(y - 1) \in SUBSET (n + 1 .. y - 1)
    OBVIOUS
  <2>3. y \notin Cross(y - 1)
    BY <1>6
  <2> QED BY ONLY <2>1, <2>2, <2>3, FS_Subset
<1>13. Cross(y) = IF y % ChunkSize = 0 THEN Cross(y - 1) \cup {y} ELSE Cross(y - 1)
  <2>1. n + 1 .. y = (n + 1 .. y - 1) \cup {y}
    BY <1>6, <1>8
  <2> QED BY <2>1
<1> HIDE DEF Cross
<1>14. Cardinality(Cross(y)) = IF y % ChunkSize = 0 THEN Cardinality(Cross(y - 1)) + 1
                               ELSE Cardinality(Cross(y - 1))
  BY ONLY <1>12, <1>13, FS_AddElement
<1> QED BY ONLY <1>1, <1>6, <1>10, <1>11, <1>14

LEMMA WalkMeets ==
  ASSUME RootsInv, rootCount # 0, NEW n \in scopeMark + 1 .. rootCount - 1
  PROVE  Walk(n) = At(chunks, n)
<1>1. /\ n \in Indices /\ n \in Nat /\ rootCount - 1 \in Nat /\ rootCount - 1 \in Indices /\ n <= rootCount - 1
  BY EntriesOf DEF Indices
<1>2. Len(chunks) = ((rootCount - 1) \div ChunkSize) + 1
  BY <1>1, EntryIn DEF ChunkOf
<1>3. Cardinality({k \in n + 1 .. rootCount - 1 : k % ChunkSize = 0})
         = ((rootCount - 1) \div ChunkSize) - (n \div ChunkSize)
  BY ONLY <1>1, Crossings
<1>4. ChunkSize \in Nat \ {0}
  BY RootsAssumption DEF RootsAssumption
<1>5. (rootCount - 1) \div ChunkSize \in Nat /\ n \div ChunkSize \in Nat
  BY ONLY <1>1, <1>4, Division
<1>6. Len(chunks) - Cardinality({k \in n + 1 .. rootCount - 1 : k % ChunkSize = 0}) = ChunkOf(n)
  BY ONLY <1>2, <1>3, <1>5 DEF ChunkOf
<1> QED BY ONLY <1>6 DEF Walk, At

(* js_MarkLocalRoots, going down from the top chunk, marks what was allocated in the *)
(* innermost scope and not forgotten, and nothing else.                              *)
THEOREM MarkingCorrect == ASSUME FirstChunk PROVE LRSpec => []InnermostMarked
<1>1. RootsInv => InnermostMarked
  <2> SUFFICES ASSUME RootsInv, RootScopes!InScope PROVE MarkLocalRoots = ToSet(Last(LocalScopes))
    BY DEF InnermostMarked
  <2>1. rootCount # 0
    <3> SUFFICES ASSUME rootCount = 0 PROVE FALSE
      OBVIOUS
    <3>1. Starts = {}
      BY DEF Starts
    <3>2. Cardinality(Starts) = 0
      BY <3>1, FS_EmptySet
    <3>3. LocalScopes = <<>>
      BY <3>2 DEF LocalScopes
    <3> QED BY <3>3 DEF RootScopes!InScope
  <2>2. scopeMark # NullMark
    BY <2>1, EntriesOf, RootsAssumption DEF RootsAssumption
  <2>3. PICK top : top = Last(LocalScopes)
    OBVIOUS
  <2>4. /\ top \in Seq(Cells) /\ Len(top) = rootCount - scopeMark - 1
        /\ \A j \in 1 .. rootCount - scopeMark - 1 : top[j] = At(chunks, scopeMark + j)
        /\ rootCount \in Nat /\ scopeMark \in Nat /\ scopeMark < rootCount
    BY <2>1, <2>3, TopIs
  <2>5. MarkLocalRoots = {Walk(n) : n \in scopeMark + 1 .. rootCount - 1}
    BY <2>1, <2>2 DEF MarkLocalRoots
  <2>6. ToSet(top) = {top[j] : j \in 1 .. rootCount - scopeMark - 1}
    BY ONLY <2>4 DEF ToSet
  <2>7. ASSUME NEW n \in scopeMark + 1 .. rootCount - 1
        PROVE  \E j \in 1 .. rootCount - scopeMark - 1 : top[j] = Walk(n)
    <3>1. n - scopeMark \in 1 .. rootCount - scopeMark - 1 /\ scopeMark + (n - scopeMark) = n
      BY <2>4
    <3>2. top[n - scopeMark] = At(chunks, n)
      BY <2>4, <3>1
    <3> QED BY <2>1, <3>1, <3>2, WalkMeets
  <2>8. ASSUME NEW j \in 1 .. rootCount - scopeMark - 1
        PROVE  \E n \in scopeMark + 1 .. rootCount - 1 : Walk(n) = top[j]
    <3>1. scopeMark + j \in scopeMark + 1 .. rootCount - 1
      BY <2>4
    <3> QED BY <2>1, <2>4, <3>1, WalkMeets
  <2> QED BY <2>3, <2>5, <2>6, <2>7, <2>8
<1> QED BY <1>1, RootsInvariant, PTL

----------------------------------------------------------------------------
(* Sequences without repetition.                                           *)

NoTwice(s) == \A i, j \in 1..Len(s) : s[i] = s[j] => i = j

LEMMA Members ==
  ASSUME NEW K, NEW s \in Seq(K)
  PROVE  /\ ToSet(s) = {s[i] : i \in 1..Len(s)} /\ ToSet(s) \in SUBSET K /\ Len(s) \in Nat
         /\ \A i \in 1..Len(s) : s[i] \in ToSet(s)
         /\ \A x \in ToSet(s) : \E i \in 1..Len(s) : s[i] = x
<1>1. Len(s) \in Nat /\ DOMAIN s = 1..Len(s) /\ \A i \in 1..Len(s) : s[i] \in K
  OBVIOUS
<1> QED BY <1>1 DEF ToSet

LEMMA Appended ==
  ASSUME NEW K, NEW s \in Seq(K), NEW x \in K
  PROVE  /\ Append(s, x) \in Seq(K) /\ ToSet(Append(s, x)) = ToSet(s) \cup {x}
         /\ NoTwice(s) /\ x \notin ToSet(s) => NoTwice(Append(s, x))
<1> DEFINE t == Append(s, x)
           n == Len(s)
<1>1. /\ t \in Seq(K) /\ Len(t) = n + 1 /\ n \in Nat
      /\ t[n + 1] = x /\ \A i \in 1..n : t[i] = s[i]
  OBVIOUS
<1>2. \A i \in 1..n : s[i] \in ToSet(s)
  BY Members
<1>3. \A y \in ToSet(s) : \E i \in 1..n : s[i] = y
  BY Members
<1>4. \A y \in ToSet(t) : \E i \in 1..n + 1 : t[i] = y
  <2> HIDE DEF t
  <2>1. \A y \in ToSet(t) : \E i \in 1..Len(t) : t[i] = y
    BY <1>1, Members
  <2> QED BY <1>1, <2>1
<1>5. \A i \in 1..n + 1 : t[i] \in ToSet(t)
  BY <1>1, Members
<1> HIDE DEF t, n
<1>6. ASSUME NEW y \in ToSet(t) PROVE y \in ToSet(s) \cup {x}
  <2>1. PICK i \in 1..n + 1 : t[i] = y
    BY <1>4
  <2>2. CASE i = n + 1
    BY <1>1, <2>1, <2>2
  <2>3. CASE i # n + 1
    <3>1. i \in 1..n
      BY <1>1, <2>3
    <3> QED BY <1>1, <1>2, <2>1, <3>1
  <2> QED BY <2>2, <2>3
<1>7. ASSUME NEW y \in ToSet(s) \cup {x} PROVE y \in ToSet(t)
  <2>1. CASE y = x
    <3>1. n + 1 \in 1..n + 1
      BY <1>1
    <3> QED BY <1>1, <1>5, <2>1, <3>1
  <2>2. CASE y \in ToSet(s)
    <3>1. PICK i \in 1..n : s[i] = y
      BY <1>3, <2>2
    <3>2. i \in 1..n + 1
      BY <1>1
    <3> QED BY <1>1, <1>5, <3>1, <3>2
  <2> QED BY <2>1, <2>2
<1>8. ASSUME NoTwice(s), x \notin ToSet(s) PROVE NoTwice(t)
  <2> SUFFICES ASSUME NEW i \in 1..n + 1, NEW j \in 1..n + 1, t[i] = t[j] PROVE i = j
    BY <1>1 DEF NoTwice
  <2>1. CASE i = n + 1 /\ j # n + 1
    <3>1. j \in 1..n
      BY <1>1, <2>1
    <3> QED BY <1>1, <1>2, <1>8, <2>1, <3>1
  <2>2. CASE j = n + 1 /\ i # n + 1
    <3>1. i \in 1..n
      BY <1>1, <2>2
    <3> QED BY <1>1, <1>2, <1>8, <2>2, <3>1
  <2>3. CASE i # n + 1 /\ j # n + 1
    <3>1. i \in 1..n /\ j \in 1..n
      BY <1>1, <2>3
    <3>2. s[i] = s[j]
      BY <1>1, <3>1
    <3> QED BY <1>8, <3>1, <3>2 DEF NoTwice, n
  <2> QED BY <2>1, <2>2, <2>3
<1> QED BY <1>1, <1>6, <1>7, <1>8 DEF t

LEMMA Joined ==
  ASSUME NEW K, NEW s \in Seq(K), NEW t \in Seq(K)
  PROVE  /\ s \o t \in Seq(K) /\ ToSet(s \o t) = ToSet(s) \cup ToSet(t)
         /\ NoTwice(s) /\ NoTwice(t) /\ ToSet(s) \cap ToSet(t) = {} => NoTwice(s \o t)
<1> DEFINE u == s \o t
           n == Len(s)
           m == Len(t)
<1>1. /\ u \in Seq(K) /\ Len(u) = n + m /\ n \in Nat /\ m \in Nat
      /\ \A i \in 1..n + m : u[i] = IF i <= n THEN s[i] ELSE t[i - n]
  OBVIOUS
<1>2. /\ \A i \in 1..n : s[i] \in ToSet(s)
      /\ \A y \in ToSet(s) : \E i \in 1..n : s[i] = y
  BY Members
<1>3. /\ \A i \in 1..m : t[i] \in ToSet(t)
      /\ \A y \in ToSet(t) : \E i \in 1..m : t[i] = y
  BY Members
<1>4a. \A y \in ToSet(u) : \E i \in 1..n + m : u[i] = y
  <2>1. \A y \in ToSet(u) : \E i \in 1..Len(u) : u[i] = y
    BY <1>1, Members
  <2> HIDE DEF u
  <2> QED BY <1>1, <2>1
<1>4b. \A i \in 1..n + m : u[i] \in ToSet(u)
  BY <1>1, Members
<1>4. /\ \A i \in 1..n + m : u[i] \in ToSet(u)
      /\ \A y \in ToSet(u) : \E i \in 1..n + m : u[i] = y
  BY <1>4a, <1>4b
<1> HIDE DEF u, n, m
<1>5. \A i \in 1..n : i \in 1..n + m /\ u[i] = s[i]
  <2> TAKE i \in 1..n
  <2>1. i \in 1..n + m /\ i <= n
    BY <1>1
  <2> QED BY <1>1, <2>1
<1>6. \A i \in 1..m : n + i \in 1..n + m /\ u[n + i] = t[i]
  <2> TAKE i \in 1..m
  <2>1. n + i \in 1..n + m /\ ~(n + i <= n) /\ (n + i) - n = i
    BY <1>1
  <2> QED BY <1>1, <2>1
<1>7. \A i \in 1..n + m : i \in 1..n \/ (i - n \in 1..m /\ n + (i - n) = i)
  BY <1>1
<1>8. ASSUME NEW y \in ToSet(u) PROVE y \in ToSet(s) \cup ToSet(t)
  <2>1. PICK i \in 1..n + m : u[i] = y
    BY <1>4
  <2>2. CASE i \in 1..n
    BY <1>2, <1>5, <2>1, <2>2
  <2>3. CASE i - n \in 1..m /\ n + (i - n) = i
    <3>1. u[n + (i - n)] = t[i - n] /\ t[i - n] \in ToSet(t)
      BY <1>3, <1>6, <2>3
    <3> QED BY <2>1, <2>3, <3>1
  <2> QED BY <1>7, <2>2, <2>3
<1>9. ToSet(s) \cup ToSet(t) \subseteq ToSet(u)
  BY <1>2, <1>3, <1>4, <1>5, <1>6
<1>10. ASSUME NoTwice(s), NoTwice(t), ToSet(s) \cap ToSet(t) = {} PROVE NoTwice(u)
  <2> SUFFICES ASSUME NEW i \in 1..n + m, NEW j \in 1..n + m, u[i] = u[j] PROVE i = j
    BY <1>1 DEF NoTwice
  <2>1. ASSUME NEW x \in 1..n, NEW y \in 1..n, u[x] = u[y] PROVE x = y
    BY <1>5, <1>10, <2>1 DEF NoTwice, n
  <2>2. ASSUME NEW x \in 1..m, NEW y \in 1..m, u[n + x] = u[n + y] PROVE x = y
    BY <1>6, <1>10, <2>2 DEF NoTwice, m
  <2>3. ASSUME NEW x \in 1..n, NEW y \in 1..m PROVE u[x] # u[n + y]
    BY <1>2, <1>3, <1>5, <1>6, <1>10
  <2>4. CASE i \in 1..n /\ j \in 1..n
    BY <2>1, <2>4
  <2>5. CASE i \in 1..n /\ ~(j \in 1..n)
    BY <1>7, <2>3, <2>5
  <2>6. CASE ~(i \in 1..n) /\ j \in 1..n
    BY <1>7, <2>3, <2>6
  <2>7. CASE ~(i \in 1..n) /\ ~(j \in 1..n)
    <3>1. i - n \in 1..m /\ j - n \in 1..m /\ n + (i - n) = i /\ n + (j - n) = j
      BY <1>7, <2>7
    <3>2. i - n = j - n
      BY <2>2, <3>1
    <3> QED BY <3>1, <3>2
  <2> QED BY <2>4, <2>5, <2>6, <2>7
<1> QED BY <1>1, <1>8, <1>9, <1>10 DEF u


----------------------------------------------------------------------------
(* Sequences without repetition: what changes the order of the rest.       *)

\* Element a of c stands where b stands, or before it.
NotAfter(c, a, b) ==
    \E i, j \in 1..Len(c) : i <= j /\ c[i] = a /\ c[j] = b

LEMMA OrderAt ==
  ASSUME NEW K, NEW c \in Seq(K), NoTwice(c), NEW i \in 1..Len(c), NEW j \in 1..Len(c)
  PROVE  NotAfter(c, c[i], c[j]) <=> i <= j
BY DEF NotAfter, NoTwice

LEMMA RemovedIs ==
  ASSUME NEW K, NEW s \in Seq(K), NEW i \in 1..Len(s)
  PROVE  /\ RemoveAt(s, i) \in Seq(K) /\ Len(RemoveAt(s, i)) = Len(s) - 1
         /\ \A j \in 1..Len(s) - 1 : RemoveAt(s, i)[j] = IF j < i THEN s[j] ELSE s[j + 1]
<1> DEFINE n == Len(s)
           u == SubSeq(s, 1, i - 1)
           v == SubSeq(s, i + 1, n)
<1>1. n \in Nat /\ i \in Int /\ 1 <= i /\ i <= n /\ \A j \in 1..n : s[j] \in K
  OBVIOUS
<1>2. u \in Seq(K) /\ Len(u) = i - 1 /\ \A j \in 1..i - 1 : u[j] = s[j]
  <2>1. 1 \in Int /\ i - 1 \in Int /\ \A j \in 1..i - 1 : s[j] \in K
    BY <1>1
  <2>2. /\ u \in Seq(K) /\ Len(u) = IF 1 <= i - 1 THEN (i - 1) - 1 + 1 ELSE 0
        /\ \A j \in 1..(i - 1) - 1 + 1 : u[j] = s[1 + j - 1]
    BY <2>1, SubSeqProperties
  <2> HIDE DEF u
  <2>3. \A j \in 1..i - 1 : 1 + j - 1 = j /\ j \in 1..(i - 1) - 1 + 1
    BY <1>1
  <2> QED BY <1>1, <2>2, <2>3
<1>3. v \in Seq(K) /\ Len(v) = n - i /\ \A j \in 1..n - i : v[j] = s[i + j]
  <2>1. i + 1 \in Int /\ n \in Int /\ \A j \in i + 1..n : s[j] \in K
    BY <1>1
  <2>2. /\ v \in Seq(K) /\ Len(v) = IF i + 1 <= n THEN n - (i + 1) + 1 ELSE 0
        /\ \A j \in 1..n - (i + 1) + 1 : v[j] = s[(i + 1) + j - 1]
    BY <2>1, SubSeqProperties
  <2> HIDE DEF v
  <2>3. \A j \in 1..n - i : (i + 1) + j - 1 = i + j /\ j \in 1..n - (i + 1) + 1
    BY <1>1
  <2> QED BY <1>1, <2>2, <2>3
<1>4. RemoveAt(s, i) = u \o v
  BY DEF RemoveAt
<1> HIDE DEF u, v, n
<1>5a. u \in Seq(K) /\ v \in Seq(K)
  BY <1>2, <1>3
<1>5. /\ u \o v \in Seq(K) /\ Len(u \o v) = Len(u) + Len(v)
      /\ \A j \in 1..Len(u) + Len(v) : (u \o v)[j] = IF j <= Len(u) THEN u[j] ELSE v[j - Len(u)]
  BY ONLY <1>5a
<1>6. Len(u) + Len(v) = n - 1
  BY <1>1, <1>2, <1>3
<1>7. ASSUME NEW j \in 1..n - 1
      PROVE  (u \o v)[j] = IF j < i THEN s[j] ELSE s[j + 1]
  <2>1. CASE j < i
    <3>1. j \in 1..i - 1 /\ j <= Len(u)
      BY <1>1, <1>2, <2>1
    <3> QED BY <1>2, <1>5, <1>6, <2>1, <3>1
  <2>2. CASE ~(j < i)
    <3>1. ~(j <= Len(u)) /\ j - Len(u) \in 1..n - i /\ i + (j - Len(u)) = j + 1
      BY <1>1, <1>2, <2>2
    <3> QED BY <1>3, <1>5, <1>6, <2>2, <3>1
  <2> QED BY <2>1, <2>2
<1> QED BY <1>4, <1>5, <1>6, <1>7 DEF n

LEMMA RemovedKeeps ==
  ASSUME NEW K, NEW s \in Seq(K), NoTwice(s), NEW i \in 1..Len(s), NEW d, d = s[i],
         NEW r, r = RemoveAt(s, i)
  PROVE  /\ NoTwice(r) /\ ToSet(r) = ToSet(s) \ {d}
         /\ \A a, b \in ToSet(s) \ {d} : NotAfter(r, a, b) <=> NotAfter(s, a, b)
<1> DEFINE n == Len(s)
           Old(j) == IF j < i THEN j ELSE j + 1
           New(j) == IF j < i THEN j ELSE j - 1
<1>1. r \in Seq(K) /\ Len(r) = n - 1 /\ \A j \in 1..n - 1 : r[j] = IF j < i THEN s[j] ELSE s[j + 1]
  BY RemovedIs
<1>2. n \in Nat /\ 1 <= n /\ i \in Int /\ i \in 1..n
  OBVIOUS
<1>3. \A j \in 1..n - 1 : Old(j) \in 1..n /\ Old(j) # i /\ r[j] = s[Old(j)]
  BY <1>1, <1>2
<1>4. \A j \in 1..n : j # i => New(j) \in 1..n - 1 /\ r[New(j)] = s[j]
  <2> TAKE j \in 1..n
  <2> SUFFICES ASSUME j # i PROVE New(j) \in 1..n - 1 /\ r[New(j)] = s[j]
    OBVIOUS
  <2>1. CASE j < i
    <3>1. j \in 1..n - 1
      BY <1>2, <2>1
    <3> QED BY <1>1, <2>1, <3>1
  <2>2. CASE ~(j < i)
    <3>1. j - 1 \in 1..n - 1 /\ ~(j - 1 < i) /\ (j - 1) + 1 = j
      BY <1>2, <2>2
    <3> QED BY <1>1, <2>2, <3>1
  <2> QED BY <2>1, <2>2
<1>5. \A j, k \in 1..n - 1 : (Old(j) = Old(k) => j = k) /\ (j <= k <=> Old(j) <= Old(k))
  BY <1>2
<1> HIDE DEF Old, New
<1>6. NoTwice(r)
  <2> SUFFICES ASSUME NEW j \in 1..n - 1, NEW k \in 1..n - 1, r[j] = r[k] PROVE j = k
    BY <1>1 DEF NoTwice
  <2>1. Old(j) = Old(k)
    BY <1>3 DEF NoTwice
  <2> QED BY <1>5, <2>1
<1>7. \A x \in ToSet(s) : \E j \in 1..n : s[j] = x
  BY Members
<1>8. \A j \in 1..n : s[j] \in ToSet(s)
  BY Members
<1>9. \A x \in ToSet(r) : \E j \in 1..n - 1 : r[j] = x
  <2>1. \A x \in ToSet(r) : \E j \in 1..Len(r) : r[j] = x
    BY <1>1, Members
  <2> QED BY <1>1, <2>1
<1>10. \A j \in 1..n - 1 : r[j] \in ToSet(r)
  <2>1. \A j \in 1..Len(r) : r[j] \in ToSet(r)
    BY <1>1, Members
  <2> QED BY <1>1, <2>1
<1>11. ToSet(r) = ToSet(s) \ {s[i]}
  <2>1. ASSUME NEW x \in ToSet(r) PROVE x \in ToSet(s) /\ x # s[i]
    <3>1. PICK j \in 1..n - 1 : r[j] = x
      BY <1>9
    <3>2. x = s[Old(j)] /\ Old(j) \in 1..n /\ Old(j) # i
      BY <1>3, <3>1
    <3> QED BY <1>2, <1>8, <3>2 DEF NoTwice, n
  <2>2. ASSUME NEW x \in ToSet(s), x # s[i] PROVE x \in ToSet(r)
    <3>1. PICK j \in 1..n : s[j] = x
      BY <1>7
    <3> QED BY <1>4, <1>10, <2>2, <3>1
  <2> QED BY <2>1, <2>2
<1>12. ASSUME NEW a \in ToSet(s) \ {s[i]}, NEW b \in ToSet(s) \ {s[i]}
       PROVE  NotAfter(r, a, b) <=> NotAfter(s, a, b)
  <2>1. PICK x \in 1..n - 1 : r[x] = a
    BY <1>9, <1>11
  <2>2. PICK y \in 1..n - 1 : r[y] = b
    BY <1>9, <1>11
  <2>3. s[Old(x)] = a /\ s[Old(y)] = b /\ Old(x) \in 1..n /\ Old(y) \in 1..n
    BY <1>3, <2>1, <2>2
  <2>4. NotAfter(r, a, b) <=> x <= y
    BY <1>1, <1>6, <2>1, <2>2, OrderAt
  <2>5. NotAfter(s, a, b) <=> Old(x) <= Old(y)
    BY <2>3, OrderAt
  <2> QED BY <1>5, <2>4, <2>5
<1> QED BY <1>6, <1>11, <1>12

LEMMA ReplacedKeeps ==
  ASSUME NEW K, NEW s \in Seq(K), NoTwice(s), NEW i \in 1..Len(s), NEW a, a = s[i],
         NEW b \in K, b \notin ToSet(s) \/ b = a,
         NEW t \in Seq(K), Len(t) = Len(s), \A j \in 1..Len(s) : t[j] = IF j = i THEN b ELSE s[j]
  PROVE  /\ NoTwice(t) /\ ToSet(t) = (ToSet(s) \ {a}) \cup {b}
         /\ \A x, y \in ToSet(s) \ {a} : NotAfter(t, x, y) <=> NotAfter(s, x, y)
         /\ \A y \in ToSet(s) \ {a} : NotAfter(t, b, y) <=> NotAfter(s, a, y)
<1> DEFINE n == Len(s)
<1>1. t \in Seq(K) /\ Len(t) = n /\ \A j \in 1..n : t[j] = IF j = i THEN b ELSE s[j]
  OBVIOUS
<1>2. \A j \in 1..n : s[j] \in ToSet(s)
  BY Members
<1>3. \A x \in ToSet(s) : \E j \in 1..n : s[j] = x
  BY Members
<1>4. \A j \in 1..n : t[j] \in ToSet(t)
  <2>1. \A j \in 1..Len(t) : t[j] \in ToSet(t)
    BY <1>1, Members
  <2> QED BY <1>1, <2>1
<1>5. \A x \in ToSet(t) : \E j \in 1..n : t[j] = x
  <2>1. \A x \in ToSet(t) : \E j \in 1..Len(t) : t[j] = x
    BY <1>1, Members
  <2> QED BY <1>1, <2>1
<1> HIDE DEF n
<1>6. i \in 1..n /\ \A j \in 1..n : j # i => s[j] # s[i] /\ s[j] # b
  BY <1>2 DEF NoTwice, n
<1>7. NoTwice(t)
  <2> SUFFICES ASSUME NEW j \in 1..n, NEW k \in 1..n, t[j] = t[k] PROVE j = k
    BY <1>1 DEF NoTwice
  <2>1. CASE j = i \/ k = i
    BY <1>1, <1>6, <2>1
  <2>2. CASE j # i /\ k # i
    <3>1. s[j] = s[k]
      BY <1>1, <2>2
    <3> QED BY <3>1 DEF NoTwice, n
  <2> QED BY <2>1, <2>2
<1>8. ToSet(t) = (ToSet(s) \ {s[i]}) \cup {b}
  <2>1. ASSUME NEW x \in ToSet(t) PROVE x \in (ToSet(s) \ {s[i]}) \cup {b}
    <3>1. PICK j \in 1..n : t[j] = x
      BY <1>5
    <3> QED BY <1>1, <1>2, <1>6, <3>1
  <2>2. ASSUME NEW x \in (ToSet(s) \ {s[i]}) \cup {b} PROVE x \in ToSet(t)
    <3>1. CASE x = b
      <4>1. t[i] = b
        BY <1>1, <1>6
      <4> QED BY <1>4, <1>6, <3>1, <4>1
    <3>2. CASE x \in ToSet(s) \ {s[i]}
      <4>1. PICK j \in 1..n : s[j] = x
        BY <1>3, <3>2
      <4>2. j # i
        BY <3>2, <4>1
      <4>3. t[j] = x
        BY <1>1, <4>1, <4>2
      <4> QED BY <1>4, <4>3
    <3> QED BY <2>2, <3>1, <3>2
  <2> QED BY <2>1, <2>2
<1>9. ASSUME NEW x \in ToSet(s) \ {s[i]}, NEW y \in ToSet(s) \ {s[i]}
      PROVE  NotAfter(t, x, y) <=> NotAfter(s, x, y)
  <2>1. PICK j \in 1..n : s[j] = x
    BY <1>3
  <2>2. PICK k \in 1..n : s[k] = y
    BY <1>3
  <2>3. j # i /\ k # i
    BY <2>1, <2>2
  <2>4. t[j] = x /\ t[k] = y
    BY <1>1, <2>1, <2>2, <2>3
  <2>5. NotAfter(t, x, y) <=> j <= k
    BY <1>1, <1>7, <2>4, OrderAt
  <2>6. NotAfter(s, x, y) <=> j <= k
    BY <2>1, <2>2, OrderAt DEF n
  <2> QED BY <2>5, <2>6
<1>10. ASSUME NEW y \in ToSet(s) \ {s[i]} PROVE NotAfter(t, b, y) <=> NotAfter(s, s[i], y)
  <2>1. PICK k \in 1..n : s[k] = y
    BY <1>3
  <2>2. k # i
    BY <2>1
  <2>3. t[k] = y /\ t[i] = b
    BY <1>1, <1>6, <2>1, <2>2
  <2>4. NotAfter(t, b, y) <=> i <= k
    BY <1>1, <1>6, <1>7, <2>3, OrderAt
  <2>5. NotAfter(s, s[i], y) <=> i <= k
    BY <1>6, <2>1, OrderAt DEF n
  <2> QED BY <2>4, <2>5
<1> QED BY <1>1, <1>7, <1>8, <1>9, <1>10 DEF n

LEMMA AppendOrder ==
  ASSUME NEW K, NEW s \in Seq(K), NoTwice(s), NEW x \in K, x \notin ToSet(s)
  PROVE  /\ \A a, b \in ToSet(s) : NotAfter(Append(s, x), a, b) <=> NotAfter(s, a, b)
         /\ \A b \in ToSet(s) : ~NotAfter(Append(s, x), x, b)
<1> DEFINE n == Len(s)
           t == Append(s, x)
<1>1. t \in Seq(K) /\ Len(t) = n + 1 /\ n \in Nat /\ t[n + 1] = x /\ \A i \in 1..n : t[i] = s[i]
  OBVIOUS
<1>2. NoTwice(t)
  BY Appended
<1>3. \A y \in ToSet(s) : \E i \in 1..n : s[i] = y
  BY Members
<1> HIDE DEF t, n
<1>4. \A i \in 1..n : i \in 1..Len(t)
  BY <1>1
<1>5. ASSUME NEW a \in ToSet(s), NEW b \in ToSet(s)
      PROVE  NotAfter(t, a, b) <=> NotAfter(s, a, b)
  <2>1. PICK i \in 1..n : s[i] = a
    BY <1>3
  <2>2. PICK j \in 1..n : s[j] = b
    BY <1>3
  <2>3. t[i] = a /\ t[j] = b /\ i \in 1..Len(t) /\ j \in 1..Len(t)
    BY <1>1, <1>4, <2>1, <2>2
  <2>4. NotAfter(t, a, b) <=> i <= j
    BY <1>1, <1>2, <2>3, OrderAt
  <2>5. NotAfter(s, a, b) <=> i <= j
    BY <2>1, <2>2, OrderAt DEF n
  <2> QED BY <2>4, <2>5
<1>6. ASSUME NEW b \in ToSet(s) PROVE ~NotAfter(t, x, b)
  <2>1. PICK j \in 1..n : s[j] = b
    BY <1>3
  <2>2. t[j] = b /\ j \in 1..Len(t) /\ n + 1 \in 1..Len(t) /\ ~(n + 1 <= j)
    BY <1>1, <1>4, <2>1
  <2> QED BY <1>1, <1>2, <2>2, OrderAt
<1> QED BY <1>5, <1>6 DEF t

LEMMA PrefixIs ==
  ASSUME NEW K, NEW s \in Seq(K), NEW n \in 0..Len(s)
  PROVE  /\ SubSeq(s, 1, n) \in Seq(K) /\ Len(SubSeq(s, 1, n)) = n
         /\ \A i \in 1..n : SubSeq(s, 1, n)[i] = s[i]
<1> DEFINE t == SubSeq(s, 1, n)
<1>1. Len(s) \in Nat /\ n \in Int /\ 0 <= n /\ n <= Len(s) /\ \A i \in 1..Len(s) : s[i] \in K
  OBVIOUS
<1>2. /\ t \in Seq(K) /\ Len(t) = IF 1 <= n THEN n - 1 + 1 ELSE 0
      /\ \A j \in 1..n - 1 + 1 : t[j] = s[1 + j - 1]
  <2>1. 1 \in Int /\ n \in Int /\ \A j \in 1..n : s[j] \in K
    BY <1>1
  <2> QED BY <2>1, SubSeqProperties
<1> HIDE DEF t
<1>3. \A j \in 1..n : 1 + j - 1 = j /\ j \in 1..n - 1 + 1
  BY <1>1
<1>4. (IF 1 <= n THEN n - 1 + 1 ELSE 0) = n
  BY <1>1
<1>5. t \in Seq(K) /\ Len(t) = n /\ \A i \in 1..n : t[i] = s[i]
  BY ONLY <1>2, <1>3, <1>4
<1> QED BY <1>5 DEF t

\* t is the first elements of s.
Begin(s, t) == Len(t) <= Len(s) /\ \A i \in 1..Len(t) : t[i] = s[i]

LEMMA PrefixOrder ==
  ASSUME NEW K, NEW s \in Seq(K), NoTwice(s), NEW t \in Seq(K), Begin(s, t)
  PROVE  /\ ToSet(t) \subseteq ToSet(s) /\ NoTwice(t)
         /\ \A i \in 1..Len(t), a \in ToSet(s) : NotAfter(s, a, s[i]) => a \in ToSet(t)
         /\ \A a, b \in ToSet(t) : NotAfter(t, a, b) <=> NotAfter(s, a, b)
<1>1. Len(t) \in Nat /\ Len(s) \in Nat
  OBVIOUS
<1>2. \A i \in 1..Len(t) : i \in 1..Len(s) /\ t[i] = s[i]
  BY <1>1 DEF Begin
<1>3. \A i \in 1..Len(t) : t[i] \in ToSet(t)
  BY Members
<1>4. \A x \in ToSet(t) : \E i \in 1..Len(t) : t[i] = x
  BY Members
<1>5. \A x \in ToSet(s) : \E i \in 1..Len(s) : s[i] = x
  BY Members
<1>6. \A i \in 1..Len(s) : s[i] \in ToSet(s)
  BY Members
<1>7. NoTwice(t) /\ ToSet(t) \subseteq ToSet(s)
  BY <1>2, <1>4, <1>6 DEF NoTwice
<1>8. ASSUME NEW i \in 1..Len(t), NEW a \in ToSet(s), NotAfter(s, a, s[i]) PROVE a \in ToSet(t)
  <2>1. PICK j \in 1..Len(s) : s[j] = a
    BY <1>5
  <2>2. j <= i
    BY <1>2, <1>8, <2>1, OrderAt
  <2>3. j \in 1..Len(t)
    BY <2>2
  <2> QED BY <1>2, <1>3, <2>1, <2>3
<1>9. ASSUME NEW a \in ToSet(t), NEW b \in ToSet(t) PROVE NotAfter(t, a, b) <=> NotAfter(s, a, b)
  <2>1. PICK i \in 1..Len(t) : t[i] = a
    BY <1>4
  <2>2. PICK j \in 1..Len(t) : t[j] = b
    BY <1>4
  <2>3. s[i] = a /\ s[j] = b /\ i \in 1..Len(s) /\ j \in 1..Len(s)
    BY <1>2, <2>1, <2>2
  <2>4. NotAfter(t, a, b) <=> i <= j
    BY <1>7, <2>1, <2>2, OrderAt
  <2>5. NotAfter(s, a, b) <=> i <= j
    BY <2>3, OrderAt
  <2> QED BY <2>4, <2>5
<1> QED BY <1>7, <1>8, <1>9

LEMMA LastAfter ==
  ASSUME NEW K, NEW s \in Seq(K), NoTwice(s), s # <<>>
  PROVE  \A a \in ToSet(s) : NotAfter(s, a, s[Len(s)])
<1>1. Len(s) \in 1..Len(s)
  OBVIOUS
<1>2. ASSUME NEW a \in ToSet(s) PROVE NotAfter(s, a, s[Len(s)])
  <2>1. PICK i \in 1..Len(s) : s[i] = a
    BY Members
  <2>2. i <= Len(s)
    OBVIOUS
  <2> QED BY <1>1, <2>1, <2>2, OrderAt
<1> QED BY <1>2

----------------------------------------------------------------------------
(* What is kept of a sequence.                                             *)

\* The place the i-th of the places kept has.
Kept(K, i) == CHOOSE k \in K : Cardinality({j \in K : j <= k}) = i

(* The places kept are counted in their order, and those before the first  *)
(* that is not kept keep their number.                                      *)
Counts(K) ==
    /\ Cardinality(K) \in Nat
    /\ \A i \in 1..Cardinality(K) : Kept(K, i) \in K
    /\ \A i, j \in 1..Cardinality(K) : Kept(K, i) = Kept(K, j) => i = j
    /\ \A k \in K : \E i \in 1..Cardinality(K) : Kept(K, i) = k
    /\ \A n \in Nat : 1..n \subseteq K =>
         /\ n <= Cardinality(K)
         /\ \A i \in 1..n : Kept(K, i) = i
         /\ \A i \in n + 1..Cardinality(K) : Kept(K, i) > n

LEMMA KeptCounts ==
  ASSUME NEW m \in Nat, NEW K, K \subseteq 1..m
  PROVE  Counts(K)
<1> DEFINE UpTo(k) == {j \in K : j <= k}
           R(k) == Cardinality(UpTo(k))
           N == Cardinality(K)
<1>1. IsFiniteSet(K) /\ N \in Nat
  <2>1. IsFiniteSet(1..m)
    BY FS_Interval
  <2> QED BY <2>1, FS_Subset, FS_CardinalityType
<1>2. ASSUME NEW k \in K PROVE R(k) \in 1..N /\ IsFiniteSet(UpTo(k))
  <2>1. UpTo(k) \subseteq K /\ k \in UpTo(k) /\ {k} \subseteq UpTo(k)
    BY k \in 1..m
  <2> HIDE DEF UpTo
  <2>2. IsFiniteSet(UpTo(k)) /\ Cardinality(UpTo(k)) <= N /\ Cardinality(UpTo(k)) \in Nat
    BY ONLY <1>1, <2>1, FS_Subset, FS_CardinalityType
  <2>3. Cardinality({k}) = 1
    BY FS_Singleton
  <2>4. Cardinality({k}) <= Cardinality(UpTo(k))
    BY ONLY <2>1, <2>2, FS_Subset
  <2> QED BY ONLY <2>2, <2>3, <2>4, <1>1
<1>3. ASSUME NEW k \in K, NEW l \in K, k < l PROVE R(k) < R(l)
  <2>1. UpTo(k) \subseteq UpTo(l) /\ l \in UpTo(l) /\ l \notin UpTo(k)
    <3>1. \A j \in K : j \in Nat
      OBVIOUS
    <3>2. k \in Nat /\ l \in Nat /\ ~(l <= k)
      BY <1>3, <3>1
    <3>3. \A j \in K : j <= k => j <= l
      BY <1>3, <3>1, <3>2
    <3>4. l \in K /\ l <= l
      BY <3>2
    <3> QED BY ONLY <3>2, <3>3, <3>4
  <2>2. IsFiniteSet(UpTo(l)) /\ R(k) \in 1..N /\ R(l) \in 1..N
    BY <1>2
  <2> HIDE DEF UpTo
  <2>3. Cardinality(UpTo(k)) <= Cardinality(UpTo(l)) /\ Cardinality(UpTo(k)) # Cardinality(UpTo(l))
    BY ONLY <2>1, <2>2, FS_Subset
  <2> QED BY ONLY <1>1, <2>2, <2>3
<1>4. ASSUME NEW k \in K, NEW l \in K, R(k) = R(l) PROVE k = l
  <2>1. k \in 1..m /\ l \in 1..m /\ R(k) \in 1..N /\ R(l) \in 1..N
    BY <1>2
  <2>2. ~(R(k) < R(l)) /\ ~(R(l) < R(k))
    BY ONLY <2>1, <1>4, <1>1
  <2>3. ~(k < l) /\ ~(l < k)
    BY ONLY <1>3, <2>2
  <2> QED BY ONLY <2>1, <2>3
<1>5. ASSUME NEW i \in 1..N PROVE \E k \in K : R(k) = i
  <2> DEFINE f == [k \in K |-> R(k)]
  <2> HIDE DEF R
  <2>1. f \in [K -> 1..N]
    BY <1>2
  <2>2. \A k, l \in K : f[k] = f[l] => k = l
    BY <1>4
  <2>3. \A k \in K : f[k] = R(k)
    OBVIOUS
  <2> HIDE DEF f
  <2>4. f \in Injection(K, 1..N)
    BY ONLY <2>1, <2>2 DEF Injection, IsInjective
  <2>5. IsFiniteSet(1..N) /\ Cardinality(1..N) = N
    BY ONLY <1>1, FS_Interval
  <2>6. f \in Surjection(K, 1..N)
    BY ONLY <2>4, <2>5, FS_Injection DEF N
  <2> QED BY ONLY <2>3, <2>6 DEF Surjection
<1>6. ASSUME NEW i \in 1..N PROVE Kept(K, i) \in K /\ R(Kept(K, i)) = i
  BY <1>5 DEF Kept
<1>7. ASSUME NEW k \in K PROVE Kept(K, R(k)) = k
  <2>1. R(k) \in 1..N
    BY <1>2
  <2>2. Kept(K, R(k)) \in K /\ R(Kept(K, R(k))) = R(k)
    BY ONLY <2>1, <1>6
  <2> QED BY ONLY <2>2, <1>4
<1>8. ASSUME NEW n \in Nat, 1..n \subseteq K
      PROVE  /\ n <= N /\ \A i \in 1..n : Kept(K, i) = i
             /\ \A i \in n + 1..N : Kept(K, i) > n
  <2>1. IsFiniteSet(1..n) /\ Cardinality(1..n) = n
    BY FS_Interval
  <2>2. n <= N
    BY ONLY <1>1, <1>8, <2>1, FS_Subset DEF N
  <2>3. ASSUME NEW i \in 1..n PROVE R(i) = i /\ i \in K
    <3>0. \A j \in K : j \in Nat /\ j >= 1
      OBVIOUS
    <3>1. UpTo(i) = 1..i
      <4>1. i \in Nat /\ 1..i \subseteq K
        BY <1>8
      <4>2. \A j \in UpTo(i) : j \in 1..i
        BY <3>0, <4>1
      <4>3. \A j \in 1..i : j \in UpTo(i)
        BY <4>1
      <4> HIDE DEF UpTo
      <4> QED BY ONLY <4>2, <4>3
    <3>2. Cardinality(1..i) = i
      BY FS_Interval
    <3> QED BY <1>8, <3>1, <3>2
  <2>4. \A i \in 1..n : Kept(K, i) = i
    <3> HIDE DEF R
    <3> TAKE i \in 1..n
    <3>1. i \in K /\ R(i) = i
      BY <2>3
    <3>2. Kept(K, R(i)) = i
      BY ONLY <1>7, <3>1
    <3> QED BY ONLY <3>1, <3>2
  <2>5. ASSUME NEW i \in n + 1..N PROVE Kept(K, i) > n
    <3> HIDE DEF R
    <3>1. i \in 1..N
      BY <1>1
    <3>2. Kept(K, i) \in K /\ R(Kept(K, i)) = i
      BY ONLY <1>6, <3>1
    <3> DEFINE y == Kept(K, i)
    <3>3. y \in 1..m
      BY <3>2
    <3> HIDE DEF y
    <3>4. y \in 1..n => i = y
      BY <2>3, <3>2 DEF y
    <3> QED BY <3>3, <3>4 DEF y
  <2> QED BY ONLY <2>2, <2>4, <2>5
<1> HIDE DEF R
<1>9. \A i, j \in 1..N : Kept(K, i) = Kept(K, j) => i = j
  BY ONLY <1>6
<1>10. \A k \in K : \E i \in 1..N : Kept(K, i) = k
  BY ONLY <1>2, <1>7
<1> QED BY ONLY <1>1, <1>6, <1>8, <1>9, <1>10 DEF Counts, N

\* What Keeping makes of a sequence.
LEMMA KeepingIs ==
  ASSUME NEW T, NEW s \in Seq(T), NEW K, K \subseteq 1..Len(s), NEW t, t = Keeping(s, K)
  PROVE  /\ t \in Seq(T) /\ Len(t) = Cardinality(K)
         /\ \A i \in 1..Cardinality(K) : t[i] = s[Kept(K, i)]
         /\ Counts(K)
<1>1. Counts(K)
  <2>1. Len(s) \in Nat
    OBVIOUS
  <2> QED BY ONLY <2>1, K \subseteq 1..Len(s), KeptCounts
<1> DEFINE N == Cardinality(K)
<1>2. N \in Nat /\ \A i \in 1..N : Kept(K, i) \in 1..Len(s)
  BY <1>1 DEF Counts
<1>3. t = [i \in 1..N |-> s[Kept(K, i)]]
  BY Zenon DEF Keeping, Kept
<1> HIDE DEF N
<1>4. \A i \in 1..N : s[Kept(K, i)] \in T
  BY <1>2
<1>5. t \in [1..N -> T] 
  BY ONLY <1>3, <1>4
<1>6. t \in Seq(T) /\ Len(t) = N
  BY ONLY <1>2, <1>3, <1>5
<1> QED BY ONLY <1>1, <1>3, <1>6 DEF N

----------------------------------------------------------------------------
(* One pool: its arenas ar, chain c, held allocations h and marks ms.      *)

ArenaRecords == [total : Nat, base : {0, 1}, avail : Nat, back : ArenaIds \cup {First}]
Blocks == [arena : ArenaIds, off : Nat, size : Nat]
Cursors == [arena : ArenaIds \cup {First}, count : Nat, avail : Nat]

Domains(ar, c, h, ms) ==
    /\ ar \in [ArenaIds -> ArenaRecords] /\ c \in Seq(ArenaIds)
    /\ h \in Seq(Blocks) /\ ms \in Seq(Cursors)

\* The allocation begins the arena; an arena with a header began oversized, and
\* the room it had left then was no larger than an arena of the pool.
Begins(p, ar, block, a) ==
    /\ block.arena = a /\ block.off = ar[a].base
    /\ ar[a].base = 1 => /\ Oversized(p, block.size)
                         /\ ar[a].total <= block.size + 1 + ArenaSize[p]

Formed(p, r) == r.base <= r.avail /\ r.avail <= r.total /\ (r.base = 0 => r.total = ArenaSize[p])

\* Every arena of a chain began with an allocation that is still held, and one
\* with a header points back at the arena before it.
Chained(p, ar, c, h) ==
    \A i \in 1..Len(c) :
        /\ Formed(p, ar[c[i]])
        /\ ar[c[i]].base = 1 => ar[c[i]].back = Before(c, i)
        /\ \E k \in 1..Len(h) : Begins(p, ar, h[k], c[i])

Inside(ar, block) ==
    /\ block.size >= 1 /\ ar[block.arena].base <= block.off
    /\ block.off + block.size <= ar[block.arena].avail

\* No two allocations overlap.
Apart(x, y) == x.arena = y.arena => x.off + x.size <= y.off \/ y.off + y.size <= x.off

Placed(ar, c, h) ==
    /\ \A k \in 1..Len(h) : h[k].arena \in ToSet(c) /\ Inside(ar, h[k])
    /\ \A j, k \in 1..Len(h) : j # k => Apart(h[j], h[k])

\* A mark divides the allocations: those before it lie below it, in arenas that
\* begin below it, and those after it above.
Divides(p, ar, c, h, m) ==
    /\ m.count <= Len(h)
    /\ m.arena = First => m.count = 0
    /\ m.arena # First =>
        /\ m.arena \in ToSet(c)
        /\ ar[m.arena].base <= m.avail /\ m.avail <= ar[m.arena].avail
        /\ \A k \in 1..m.count :
            /\ NotAfter(c, h[k].arena, m.arena)
            /\ h[k].arena = m.arena => h[k].off + h[k].size <= m.avail
        /\ \A k \in m.count + 1..Len(h) : h[k].arena = m.arena => m.avail <= h[k].off
        /\ \A a \in ToSet(c) : NotAfter(c, a, m.arena) => \E k \in 1..m.count : Begins(p, ar, h[k], a)

Older(c, m, n) ==
    /\ m.count <= n.count
    /\ m.arena # First =>
        /\ n.arena # First /\ NotAfter(c, m.arena, n.arena)
        /\ m.arena = n.arena => m.avail <= n.avail

Marked(p, ar, c, h, ms) ==
    /\ \A x \in 1..Len(ms) : Divides(p, ar, c, h, ms[x])
    /\ \A x, y \in 1..Len(ms) : x < y => Older(c, ms[x], ms[y])

Sound(p, ar, c, h, ms) ==
    NoTwice(c) /\ Chained(p, ar, c, h) /\ Placed(ar, c, h) /\ Marked(p, ar, c, h, ms)

LEMMA Typed ==
  ASSUME NEW ar, NEW c, NEW h, NEW ms, Domains(ar, c, h, ms)
  PROVE  /\ \A x \in ArenaIds : /\ ar[x].total \in Nat /\ ar[x].base \in {0, 1} /\ ar[x].avail \in Nat
                                /\ ar[x].back \in ArenaIds \cup {First}
         /\ c \in Seq(ArenaIds) /\ Len(c) \in Nat /\ \A i \in 1..Len(c) : c[i] \in ArenaIds /\ c[i] \in ToSet(c)
         /\ ToSet(c) \subseteq ArenaIds /\ \A x \in ToSet(c) : \E i \in 1..Len(c) : c[i] = x
         /\ Len(h) \in Nat
         /\ \A k \in 1..Len(h) : h[k].arena \in ArenaIds /\ h[k].off \in Nat /\ h[k].size \in Nat
         /\ Len(ms) \in Nat
         /\ \A x \in 1..Len(ms) : /\ ms[x].arena \in ArenaIds \cup {First} /\ ms[x].count \in Nat
                                  /\ ms[x].avail \in Nat
         /\ First \notin ArenaIds
<1>1. ar \in [ArenaIds -> ArenaRecords] /\ c \in Seq(ArenaIds) /\ h \in Seq(Blocks) /\ ms \in Seq(Cursors)
  BY DEF Domains
<1>2. \A x \in ArenaIds : ar[x] \in ArenaRecords
  BY <1>1
<1>3. Len(h) \in Nat /\ \A k \in 1..Len(h) : h[k] \in Blocks
  BY <1>1
<1>4. Len(ms) \in Nat /\ \A x \in 1..Len(ms) : ms[x] \in Cursors
  BY <1>1
<1>5. Len(c) \in Nat /\ ToSet(c) \subseteq ArenaIds /\ \A i \in 1..Len(c) : c[i] \in ArenaIds /\ c[i] \in ToSet(c)
  BY <1>1, Members
<1>6. \A x \in ToSet(c) : \E i \in 1..Len(c) : c[i] = x
  BY <1>1, Members
<1> QED BY <1>1, <1>2, <1>3, <1>4, <1>5, <1>6, ArenaPoolAssumption DEF ArenaRecords, Blocks, Cursors

\* What is left of a pool depends only on the arenas of its chain.
LEMMA Elsewhere ==
  ASSUME NEW p, NEW ar, NEW c, NEW h, NEW ms, Domains(ar, c, h, ms), Sound(p, ar, c, h, ms),
         NEW ar2, \A a \in ToSet(c) : ar2[a] = ar[a]
  PROVE  Sound(p, ar2, c, h, ms)
<1>1. /\ \A i \in 1..Len(c) : c[i] \in ToSet(c)
      /\ \A x \in 1..Len(ms) : ms[x].count \in Nat
      /\ Len(h) \in Nat
  BY Typed
<1>2. \A a \in ToSet(c) : \A b : Begins(p, ar, b, a) => Begins(p, ar2, b, a)
  BY DEF Begins
<1>3. Chained(p, ar2, c, h)
  <2>1. ASSUME NEW i \in 1..Len(c)
        PROVE  /\ Formed(p, ar2[c[i]])
               /\ ar2[c[i]].base = 1 => ar2[c[i]].back = Before(c, i)
               /\ \E k \in 1..Len(h) : Begins(p, ar2, h[k], c[i])
    <3>1. c[i] \in ToSet(c) /\ ar2[c[i]] = ar[c[i]]
      BY <1>1
    <3>2. PICK k \in 1..Len(h) : Begins(p, ar, h[k], c[i])
      BY DEF Sound, Chained
    <3>3. Begins(p, ar2, h[k], c[i])
      BY <1>2, <3>1, <3>2
    <3> QED BY <3>1, <3>3 DEF Sound, Chained
  <2> QED BY <2>1 DEF Chained
<1>4. Placed(ar2, c, h)
  BY DEF Sound, Placed, Inside
<1>5. Marked(p, ar2, c, h, ms)
  <2>1. ASSUME NEW x \in 1..Len(ms) PROVE Divides(p, ar2, c, h, ms[x])
    <3> DEFINE m == ms[x]
    <3>1. Divides(p, ar, c, h, m)
      BY DEF Sound, Marked
    <3> HIDE DEF m
    <3>2. ASSUME m.arena # First, NEW a \in ToSet(c), NotAfter(c, a, m.arena)
          PROVE  \E k \in 1..m.count : Begins(p, ar2, h[k], a)
      BY <1>2, <3>1, <3>2 DEF Divides
    <3>3. Divides(p, ar2, c, h, m)
      BY <3>1, <3>2 DEF Divides
    <3> QED BY <3>3 DEF m
  <2> QED BY <2>1 DEF Sound, Marked
<1> QED BY <1>3, <1>4, <1>5 DEF Sound

\* From ar to ar2 only the cursor of a changes.
MovedTo(ar, ar2, a, v) ==
    /\ \A x \in ArenaIds : x # a => ar2[x] = ar[x]
    /\ ar2[a].total = ar[a].total /\ ar2[a].base = ar[a].base /\ ar2[a].back = ar[a].back
    /\ ar2[a].avail = v

\* Allocating below the limit of an arena of the chain.
LEMMA AllocatedHere ==
  ASSUME NEW p \in Pools, NEW ar, NEW c, NEW h, NEW ms, Domains(ar, c, h, ms), Sound(p, ar, c, h, ms),
         NEW a \in ToSet(c), NEW nb \in Nat, nb >= 1, ar[a].avail + nb <= ar[a].total,
         NEW ar2, NEW h2, Domains(ar2, c, h2, ms),
         MovedTo(ar, ar2, a, ar[a].avail + nb),
         Len(h2) = Len(h) + 1, \A k \in 1..Len(h) : h2[k] = h[k],
         NEW b, b = h2[Len(h) + 1], b.arena = a, b.off = ar[a].avail, b.size = nb
  PROVE  Sound(p, ar2, c, h2, ms)
<1>m. /\ \A x \in ArenaIds : x # a => ar2[x] = ar[x]
      /\ ar2[a].total = ar[a].total /\ ar2[a].base = ar[a].base /\ ar2[a].back = ar[a].back
      /\ ar2[a].avail = ar[a].avail + nb
  BY DEF MovedTo
<1> USE <1>m
<1>1. /\ \A x \in ArenaIds : /\ ar[x].total \in Nat /\ ar[x].base \in {0, 1} /\ ar[x].avail \in Nat
                             /\ ar[x].back \in ArenaIds \cup {First}
      /\ Len(c) \in Nat /\ \A i \in 1..Len(c) : c[i] \in ArenaIds /\ c[i] \in ToSet(c)
      /\ ToSet(c) \subseteq ArenaIds
      /\ Len(h) \in Nat
      /\ \A k \in 1..Len(h) : h[k].arena \in ArenaIds /\ h[k].off \in Nat /\ h[k].size \in Nat
      /\ \A x \in 1..Len(ms) : /\ ms[x].arena \in ArenaIds \cup {First} /\ ms[x].count \in Nat
                               /\ ms[x].avail \in Nat
  BY Typed
<1>2. /\ Chained(p, ar, c, h) /\ Placed(ar, c, h) /\ Marked(p, ar, c, h, ms) /\ NoTwice(c)
  BY DEF Sound
<1>3. \A x \in ArenaIds : /\ ar2[x].base = ar[x].base /\ ar2[x].total = ar[x].total
                          /\ ar2[x].back = ar[x].back /\ ar[x].avail <= ar2[x].avail
                          /\ x # a => ar2[x].avail = ar[x].avail
  <2> TAKE x \in ArenaIds
  <2>1. CASE x = a
    BY <1>1, <2>1
  <2>2. CASE x # a
    BY <1>1, <2>2
  <2> QED BY <2>1, <2>2
<1>4. \A x \in ArenaIds : \A block : Begins(p, ar, block, x) => Begins(p, ar2, block, x)
  BY <1>3 DEF Begins
<1>5. \A k \in 1..Len(h2) : k \in 1..Len(h) \/ k = Len(h) + 1
  BY <1>1
<1>6. \A k \in 1..Len(h) : k \in 1..Len(h2)
  BY <1>1
<1>7. Chained(p, ar2, c, h2)
  <2>1. ASSUME NEW i \in 1..Len(c)
        PROVE  /\ Formed(p, ar2[c[i]])
               /\ ar2[c[i]].base = 1 => ar2[c[i]].back = Before(c, i)
               /\ \E k \in 1..Len(h2) : Begins(p, ar2, h2[k], c[i])
    <3>1. PICK k \in 1..Len(h) : Begins(p, ar, h[k], c[i])
      BY <1>2 DEF Chained
    <3>2. Begins(p, ar2, h2[k], c[i]) /\ k \in 1..Len(h2)
      BY <1>1, <1>4, <1>6, <3>1
    <3>3. c[i] \in ArenaIds /\ Formed(p, ar[c[i]]) /\ (ar[c[i]].base = 1 => ar[c[i]].back = Before(c, i))
      BY <1>1, <1>2 DEF Chained
    <3>4. Formed(p, ar2[c[i]])
      <4>1. CASE c[i] = a
        BY <1>1, <1>3, <3>3, <4>1 DEF Formed
      <4>2. CASE c[i] # a
        BY <3>3, <4>2
      <4> QED BY <4>1, <4>2
    <3> QED BY <1>3, <3>2, <3>3, <3>4
  <2> QED BY <2>1 DEF Chained
<1>8. Placed(ar2, c, h2)
  <2>1. ASSUME NEW k \in 1..Len(h)
        PROVE  h2[k].arena \in ToSet(c) /\ Inside(ar2, h2[k]) /\ Apart(h2[k], b) /\ Apart(b, h2[k])
    <3>1. h2[k] = h[k] /\ h[k].arena \in ToSet(c) /\ Inside(ar, h[k])
      BY <1>2 DEF Placed
    <3>2. h[k].arena \in ArenaIds /\ h[k].off \in Nat /\ h[k].size \in Nat
      BY <1>1
    <3> DEFINE y == h[k].arena
    <3>a. /\ ar2[y].base = ar[y].base /\ ar[y].avail <= ar2[y].avail
          /\ ar[y].avail \in Nat /\ ar[y].base \in Nat /\ ar2[y].avail \in Nat
      <4>1. \A z \in ArenaIds : ar2[z].avail \in Nat
        BY Typed
      <4> HIDE DEF y
      <4>2. y \in ArenaIds
        BY <3>2 DEF y
      <4> QED BY <1>1, <1>3, <4>1, <4>2
    <3>3. Inside(ar2, h[k])
      BY ONLY <3>a, <3>1, <3>2 DEF Inside
    <3>4. h[k].arena = b.arena => h[k].off + h[k].size <= b.off
      BY <3>1 DEF Inside
    <3> QED BY <3>1, <3>3, <3>4 DEF Apart
  <2>2. b.arena \in ToSet(c) /\ Inside(ar2, b)
    <3>1. a \in ArenaIds
      BY <1>1
    <3>2. \E i \in 1..Len(c) : c[i] = a
      BY Typed
    <3>3. ar[a].base <= ar[a].avail
      BY <1>2, <3>2 DEF Chained, Formed
    <3> QED BY <1>1, <3>1, <3>3 DEF Inside
  <2>3. ASSUME NEW j \in 1..Len(h2), NEW k \in 1..Len(h2), j # k PROVE Apart(h2[j], h2[k])
    <3>1. CASE j \in 1..Len(h) /\ k \in 1..Len(h)
      BY <1>2, <2>3, <3>1 DEF Placed
    <3>2. CASE j = Len(h) + 1
      BY <1>5, <2>1, <2>3, <3>2
    <3>3. CASE k = Len(h) + 1
      BY <1>5, <2>1, <2>3, <3>3
    <3> QED BY <1>5, <3>1, <3>2, <3>3
  <2> QED BY <1>5, <2>1, <2>2, <2>3 DEF Placed
<1>9. Marked(p, ar2, c, h2, ms)
  <2>1. ASSUME NEW x \in 1..Len(ms) PROVE Divides(p, ar2, c, h2, ms[x])
    <3> DEFINE m == ms[x]
    <3>1. Divides(p, ar, c, h, m)
      BY <1>2 DEF Marked
    <3>2. m.arena \in ArenaIds \cup {First} /\ m.count \in Nat /\ m.avail \in Nat
      BY <1>1
    <3> HIDE DEF m
    <3>3. m.count <= Len(h) /\ m.count <= Len(h2) /\ (m.arena = First => m.count = 0)
      BY <1>1, <3>1, <3>2 DEF Divides
    <3>4. \A k \in 1..m.count : k \in 1..Len(h) /\ h2[k] = h[k]
      BY <1>1, <3>2, <3>3
    <3>5. ASSUME m.arena # First
          PROVE  /\ m.arena \in ToSet(c)
                 /\ ar2[m.arena].base <= m.avail /\ m.avail <= ar2[m.arena].avail
                 /\ \A k \in 1..m.count :
                     /\ NotAfter(c, h2[k].arena, m.arena)
                     /\ h2[k].arena = m.arena => h2[k].off + h2[k].size <= m.avail
                 /\ \A k \in m.count + 1..Len(h2) : h2[k].arena = m.arena => m.avail <= h2[k].off
                 /\ \A y \in ToSet(c) :
                     NotAfter(c, y, m.arena) => \E k \in 1..m.count : Begins(p, ar2, h2[k], y)
      <4>1. m.arena \in ToSet(c) /\ ar[m.arena].base <= m.avail /\ m.avail <= ar[m.arena].avail
        BY <3>1, <3>5 DEF Divides
      <4>2. ar2[m.arena].base <= m.avail /\ m.avail <= ar2[m.arena].avail
        <5>1. m.arena \in ArenaIds /\ \A z \in ArenaIds : ar2[z].avail \in Nat
          BY <1>1, <4>1, Typed
        <5>2. /\ ar2[m.arena].base = ar[m.arena].base /\ ar[m.arena].avail <= ar2[m.arena].avail
              /\ ar[m.arena].avail \in Nat /\ ar2[m.arena].avail \in Nat
          BY <1>1, <1>3, <5>1
        <5> QED BY ONLY <3>2, <4>1, <5>2
      <4>3. ASSUME NEW k \in 1..m.count
            PROVE  /\ NotAfter(c, h2[k].arena, m.arena)
                   /\ h2[k].arena = m.arena => h2[k].off + h2[k].size <= m.avail
        BY <3>1, <3>4, <3>5 DEF Divides
      <4>4. ASSUME NEW k \in m.count + 1..Len(h2), h2[k].arena = m.arena PROVE m.avail <= h2[k].off
        <5>1. CASE k = Len(h) + 1
          BY <4>1, <4>4, <5>1
        <5>2. CASE k # Len(h) + 1
          <6>1. k \in m.count + 1..Len(h) /\ h2[k] = h[k]
            BY <1>1, <3>2, <5>2
          <6> QED BY <3>1, <3>5, <4>4, <6>1 DEF Divides
        <5> QED BY <5>1, <5>2
      <4>5. ASSUME NEW y \in ToSet(c), NotAfter(c, y, m.arena)
            PROVE  \E k \in 1..m.count : Begins(p, ar2, h2[k], y)
        <5>1. PICK k \in 1..m.count : Begins(p, ar, h[k], y)
          BY <3>1, <3>5, <4>5 DEF Divides
        <5> QED BY <1>1, <1>4, <3>4, <5>1
      <4> QED BY <4>1, <4>2, <4>3, <4>4, <4>5
    <3>6. Divides(p, ar2, c, h2, m)
      BY <3>3, <3>5 DEF Divides
    <3> QED BY <3>6 DEF m
  <2> QED BY <1>2, <2>1 DEF Marked
<1> QED BY <1>2, <1>7, <1>8, <1>9 DEF Sound

\* A new arena at the end of the chain, begun by the new allocation.
LEMMA ArenaAdded ==
  ASSUME NEW p \in Pools, NEW ar, NEW c, NEW h, NEW ms, Domains(ar, c, h, ms), Sound(p, ar, c, h, ms),
         NEW a \in ArenaIds, a \notin ToSet(c),
         NEW ar2, NEW c2, NEW h2, Domains(ar2, c2, h2, ms), c2 = Append(c, a),
         \A x \in ArenaIds : x # a => ar2[x] = ar[x],
         Formed(p, ar2[a]), ar2[a].back = IF c = <<>> THEN First ELSE c[Len(c)],
         Len(h2) = Len(h) + 1, \A k \in 1..Len(h) : h2[k] = h[k],
         NEW b, b = h2[Len(h) + 1], Begins(p, ar2, b, a), b.size >= 1,
         b.off + b.size <= ar2[a].avail
  PROVE  Sound(p, ar2, c2, h2, ms)
<1>1. /\ \A x \in ArenaIds : /\ ar[x].total \in Nat /\ ar[x].base \in {0, 1} /\ ar[x].avail \in Nat
                             /\ ar[x].back \in ArenaIds \cup {First}
      /\ Len(c) \in Nat /\ \A i \in 1..Len(c) : c[i] \in ArenaIds /\ c[i] \in ToSet(c)
      /\ ToSet(c) \subseteq ArenaIds
      /\ Len(h) \in Nat
      /\ \A k \in 1..Len(h) : h[k].arena \in ArenaIds /\ h[k].off \in Nat /\ h[k].size \in Nat
      /\ \A x \in 1..Len(ms) : /\ ms[x].arena \in ArenaIds \cup {First} /\ ms[x].count \in Nat
                               /\ ms[x].avail \in Nat
  BY Typed
<1>2. /\ Chained(p, ar, c, h) /\ Placed(ar, c, h) /\ Marked(p, ar, c, h, ms) /\ NoTwice(c)
  BY DEF Sound
<1>3. c \in Seq(ArenaIds)
  BY DEF Domains
<1>4. /\ NoTwice(c2) /\ ToSet(c2) = ToSet(c) \cup {a}
      /\ \A x, y \in ToSet(c) : NotAfter(c2, x, y) <=> NotAfter(c, x, y)
      /\ \A y \in ToSet(c) : ~NotAfter(c2, a, y)
  BY <1>2, <1>3, Appended, AppendOrder
<1>5. Len(c2) = Len(c) + 1 /\ c2[Len(c) + 1] = a /\ \A i \in 1..Len(c) : c2[i] = c[i]
  BY <1>3
<1>6. \A i \in 1..Len(c2) : i \in 1..Len(c) \/ i = Len(c) + 1
  BY <1>1, <1>5
<1>7. /\ \A k \in 1..Len(h2) : k \in 1..Len(h) \/ k = Len(h) + 1
      /\ \A k \in 1..Len(h) : k \in 1..Len(h2)
      /\ Len(h) + 1 \in 1..Len(h2)
  BY <1>1
<1>8. \A x \in ToSet(c) : x \in ArenaIds /\ x # a /\ ar2[x] = ar[x]
  BY <1>1
<1>9. \A x \in ToSet(c) : \A block : Begins(p, ar, block, x) => Begins(p, ar2, block, x)
  BY <1>8 DEF Begins
<1>10. Chained(p, ar2, c2, h2)
  <2>1. ASSUME NEW i \in 1..Len(c)
        PROVE  /\ Formed(p, ar2[c2[i]])
               /\ ar2[c2[i]].base = 1 => ar2[c2[i]].back = Before(c2, i)
               /\ \E k \in 1..Len(h2) : Begins(p, ar2, h2[k], c2[i])
    <3>1. PICK k \in 1..Len(h) : Begins(p, ar, h[k], c[i])
      BY <1>2 DEF Chained
    <3>2. c2[i] = c[i] /\ c[i] \in ToSet(c)
      BY <1>1, <1>5
    <3>3. Begins(p, ar2, h2[k], c2[i]) /\ k \in 1..Len(h2)
      BY <1>7, <1>9, <3>1, <3>2
    <3>4. Before(c2, i) = Before(c, i)
      <4>1. i # 1 => i - 1 \in 1..Len(c)
        BY <1>1
      <4> QED BY <1>5, <4>1 DEF Before
    <3>5. Formed(p, ar[c[i]]) /\ (ar[c[i]].base = 1 => ar[c[i]].back = Before(c, i))
      BY <1>2 DEF Chained
    <3> QED BY <1>8, <3>2, <3>3, <3>4, <3>5
  <2>2. /\ Formed(p, ar2[a])
        /\ ar2[a].back = Before(c2, Len(c) + 1)
        /\ \E k \in 1..Len(h2) : Begins(p, ar2, h2[k], a)
    <3>1. ar2[a].back = Before(c2, Len(c) + 1)
      <4>1. CASE c = <<>>
        BY <4>1 DEF Before
      <4>2. CASE c # <<>>
        <5>1. Len(c) + 1 # 1 /\ (Len(c) + 1) - 1 = Len(c) /\ Len(c) \in 1..Len(c)
          BY <1>3, <4>2
        <5> QED BY <1>5, <4>2, <5>1 DEF Before
      <4> QED BY <4>1, <4>2
    <3> QED BY <1>7, <3>1
  <2>3. ASSUME NEW i \in 1..Len(c2)
        PROVE  /\ Formed(p, ar2[c2[i]])
               /\ ar2[c2[i]].base = 1 => ar2[c2[i]].back = Before(c2, i)
               /\ \E k \in 1..Len(h2) : Begins(p, ar2, h2[k], c2[i])
    <3>1. CASE i \in 1..Len(c)
      BY ONLY <2>1, <3>1
    <3>2. CASE i = Len(c) + 1
      BY ONLY <1>5, <2>2, <3>2
    <3> QED BY <1>6, <3>1, <3>2
  <2> QED BY ONLY <2>3 DEF Chained
<1>11. Placed(ar2, c2, h2)
  <2>1. ASSUME NEW k \in 1..Len(h)
        PROVE  h2[k].arena \in ToSet(c2) /\ Inside(ar2, h2[k]) /\ Apart(h2[k], b) /\ Apart(b, h2[k])
    <3>1. h2[k] = h[k] /\ h[k].arena \in ToSet(c) /\ Inside(ar, h[k])
      BY <1>2 DEF Placed
    <3>2. Inside(ar2, h[k]) /\ h[k].arena # a
      BY <1>8, <3>1 DEF Inside
    <3> QED BY <1>4, <3>1, <3>2 DEF Apart, Begins
  <2>2. b.arena \in ToSet(c2) /\ Inside(ar2, b)
    <3>1. \A x \in ArenaIds : ar2[x].base \in Nat
      BY Typed
    <3> QED BY <1>4, <3>1 DEF Inside, Begins
  <2>3. ASSUME NEW j \in 1..Len(h2), NEW k \in 1..Len(h2), j # k PROVE Apart(h2[j], h2[k])
    <3>1. CASE j \in 1..Len(h) /\ k \in 1..Len(h)
      BY <1>2, <2>3, <3>1 DEF Placed
    <3>2. CASE j = Len(h) + 1
      BY <1>7, <2>1, <2>3, <3>2
    <3>3. CASE k = Len(h) + 1
      BY <1>7, <2>1, <2>3, <3>3
    <3> QED BY <1>7, <3>1, <3>2, <3>3
  <2> QED BY <1>7, <2>1, <2>2, <2>3 DEF Placed
<1>12. Marked(p, ar2, c2, h2, ms)
  <2>1. ASSUME NEW x \in 1..Len(ms) PROVE Divides(p, ar2, c2, h2, ms[x])
    <3> DEFINE m == ms[x]
    <3>1. Divides(p, ar, c, h, m)
      BY <1>2 DEF Marked
    <3>2. m.arena \in ArenaIds \cup {First} /\ m.count \in Nat /\ m.avail \in Nat
      BY <1>1
    <3> HIDE DEF m
    <3>3. m.count <= Len(h) /\ m.count <= Len(h2) /\ (m.arena = First => m.count = 0)
      BY <1>1, <3>1, <3>2 DEF Divides
    <3>4. \A k \in 1..m.count : k \in 1..Len(h) /\ h2[k] = h[k]
      BY <1>1, <3>2, <3>3
    <3>5. ASSUME m.arena # First
          PROVE  /\ m.arena \in ToSet(c2)
                 /\ ar2[m.arena].base <= m.avail /\ m.avail <= ar2[m.arena].avail
                 /\ \A k \in 1..m.count :
                     /\ NotAfter(c2, h2[k].arena, m.arena)
                     /\ h2[k].arena = m.arena => h2[k].off + h2[k].size <= m.avail
                 /\ \A k \in m.count + 1..Len(h2) : h2[k].arena = m.arena => m.avail <= h2[k].off
                 /\ \A y \in ToSet(c2) :
                     NotAfter(c2, y, m.arena) => \E k \in 1..m.count : Begins(p, ar2, h2[k], y)
      <4>1. m.arena \in ToSet(c) /\ ar[m.arena].base <= m.avail /\ m.avail <= ar[m.arena].avail
        BY <3>1, <3>5 DEF Divides
      <4>2. ar2[m.arena] = ar[m.arena] /\ m.arena # a /\ m.arena \in ToSet(c2)
        BY <1>4, <1>8, <4>1
      <4>3. ASSUME NEW k \in 1..m.count
            PROVE  /\ NotAfter(c2, h2[k].arena, m.arena)
                   /\ h2[k].arena = m.arena => h2[k].off + h2[k].size <= m.avail
        <5>1. h[k].arena \in ToSet(c)
          BY <1>2, <3>4 DEF Placed
        <5> QED BY <1>4, <3>1, <3>4, <3>5, <4>1, <5>1 DEF Divides
      <4>4. ASSUME NEW k \in m.count + 1..Len(h2), h2[k].arena = m.arena PROVE m.avail <= h2[k].off
        <5>1. CASE k = Len(h) + 1
          BY <4>2, <4>4, <5>1 DEF Begins
        <5>2. CASE k # Len(h) + 1
          <6>1. k \in m.count + 1..Len(h) /\ h2[k] = h[k]
            BY <1>1, <3>2, <5>2
          <6> QED BY <3>1, <3>5, <4>4, <6>1 DEF Divides
        <5> QED BY <5>1, <5>2
      <4>5. ASSUME NEW y \in ToSet(c2), NotAfter(c2, y, m.arena)
            PROVE  \E k \in 1..m.count : Begins(p, ar2, h2[k], y)
        <5>1. y \in ToSet(c) /\ NotAfter(c, y, m.arena)
          BY <1>4, <4>1, <4>5
        <5>2. PICK k \in 1..m.count : Begins(p, ar, h[k], y)
          BY <3>1, <3>5, <5>1 DEF Divides
        <5> QED BY <1>9, <3>4, <5>1, <5>2
      <4> QED BY <4>1, <4>2, <4>3, <4>4, <4>5
    <3>6. Divides(p, ar2, c2, h2, m)
      BY <3>3, <3>5 DEF Divides
    <3> QED BY <3>6 DEF m
  <2>2. ASSUME NEW x \in 1..Len(ms), NEW y \in 1..Len(ms), x < y PROVE Older(c2, ms[x], ms[y])
    <3>1. Older(c, ms[x], ms[y])
      BY <1>2, <2>2 DEF Marked
    <3>2. Divides(p, ar, c, h, ms[x]) /\ Divides(p, ar, c, h, ms[y])
      BY <1>2 DEF Marked
    <3>3. /\ ms[x].arena # First => ms[x].arena \in ToSet(c)
          /\ ms[y].arena # First => ms[y].arena \in ToSet(c)
      BY <3>2 DEF Divides
    <3> QED BY <1>4, <3>1, <3>3 DEF Older
  <2> QED BY <2>1, <2>2 DEF Marked
<1> QED BY <1>4, <1>10, <1>11, <1>12 DEF Sound

\* Growing, in place, the allocation that ends at the cursor of its arena.
\* From h to h2 only the length of the allocation at k changes.
Longer(h, h2, k, size) ==
    /\ Len(h2) = Len(h) /\ \A j \in 1..Len(h) : j # k => h2[j] = h[j]
    /\ h2[k].arena = h[k].arena /\ h2[k].off = h[k].off /\ h2[k].size = size

LEMMA GrownInPlace ==
  ASSUME NEW p \in Pools, NEW ar, NEW c, NEW h, NEW ms, Domains(ar, c, h, ms), Sound(p, ar, c, h, ms),
         NEW k \in 1..Len(h), \A x \in 1..Len(ms) : ms[x].count < k,
         NEW a, a = h[k].arena, ar[a].avail = h[k].off + h[k].size,
         NEW size \in Nat, size > h[k].size, h[k].off + size <= ar[a].total,
         NEW ar2, NEW h2, Domains(ar2, c, h2, ms),
         MovedTo(ar, ar2, a, h[k].off + size), Longer(h, h2, k, size)
  PROVE  Sound(p, ar2, c, h2, ms)
<1>m. /\ \A x \in ArenaIds : x # a => ar2[x] = ar[x]
      /\ ar2[a].total = ar[a].total /\ ar2[a].base = ar[a].base /\ ar2[a].back = ar[a].back
      /\ ar2[a].avail = h[k].off + size
  BY DEF MovedTo
<1> USE <1>m
<1>l. /\ Len(h2) = Len(h) /\ \A j \in 1..Len(h) : j # k => h2[j] = h[j]
      /\ h2[k].arena = a /\ h2[k].off = h[k].off /\ h2[k].size = size
  BY DEF Longer
<1> USE <1>l
<1>1. /\ \A x \in ArenaIds : /\ ar[x].total \in Nat /\ ar[x].base \in {0, 1} /\ ar[x].avail \in Nat
                             /\ ar[x].back \in ArenaIds \cup {First}
      /\ Len(c) \in Nat /\ \A i \in 1..Len(c) : c[i] \in ArenaIds /\ c[i] \in ToSet(c)
      /\ ToSet(c) \subseteq ArenaIds
      /\ Len(h) \in Nat
      /\ \A j \in 1..Len(h) : h[j].arena \in ArenaIds /\ h[j].off \in Nat /\ h[j].size \in Nat
      /\ \A x \in 1..Len(ms) : /\ ms[x].arena \in ArenaIds \cup {First} /\ ms[x].count \in Nat
                               /\ ms[x].avail \in Nat
  BY Typed
<1>2. /\ Chained(p, ar, c, h) /\ Placed(ar, c, h) /\ Marked(p, ar, c, h, ms) /\ NoTwice(c)
  BY DEF Sound
<1>3. a \in ArenaIds /\ a \in ToSet(c) /\ ArenaSize[p] \in Nat
  <2>1. ArenaSize[p] \in Nat
    BY ArenaPoolAssumption
  <2> QED BY <1>1, <1>2, <2>1 DEF Placed
<1>4. \A x \in ArenaIds : /\ ar2[x].base = ar[x].base /\ ar2[x].total = ar[x].total
                          /\ ar2[x].back = ar[x].back /\ ar[x].avail <= ar2[x].avail
                          /\ ar2[x].avail \in Nat
  <2> TAKE x \in ArenaIds
  <2>1. CASE x = a
    BY <1>1, <2>1
  <2>2. CASE x # a
    BY <1>1, <2>2
  <2> QED BY <2>1, <2>2
<1>5. \A j \in 1..Len(h) : h2[j].arena = h[j].arena /\ h2[j].off = h[j].off /\ h[j].size <= h2[j].size
                            /\ h2[j].size \in Nat
  <2> TAKE j \in 1..Len(h)
  <2>1. CASE j = k
    BY <1>1, <2>1
  <2>2. CASE j # k
    BY <1>1, <2>2
  <2> QED BY <2>1, <2>2
<1>6. \A x \in ArenaIds, j \in 1..Len(h) : Begins(p, ar, h[j], x) => Begins(p, ar2, h2[j], x)
  <2> TAKE x \in ArenaIds, j \in 1..Len(h)
  <2>1. ar2[x].base = ar[x].base /\ ar2[x].total = ar[x].total /\ ar[x].total \in Nat
    BY <1>1, <1>4
  <2>2. /\ h2[j].arena = h[j].arena /\ h2[j].off = h[j].off /\ h[j].size <= h2[j].size
        /\ h2[j].size \in Nat /\ h[j].size \in Nat
    BY <1>1, <1>5
  <2> SUFFICES ASSUME Begins(p, ar, h[j], x) PROVE Begins(p, ar2, h2[j], x)
    OBVIOUS
  <2>3. h2[j].arena = x /\ h2[j].off = ar2[x].base
    BY <2>1, <2>2 DEF Begins
  <2>4. ASSUME ar2[x].base = 1
        PROVE  Oversized(p, h2[j].size) /\ ar2[x].total <= h2[j].size + 1 + ArenaSize[p]
    <3>1. h[j].size > ArenaSize[p] /\ ar[x].total <= h[j].size + 1 + ArenaSize[p]
      BY <2>1, <2>4 DEF Begins, Oversized
    <3> QED BY ONLY <1>3, <2>1, <2>2, <3>1 DEF Oversized
  <2> QED BY <2>3, <2>4 DEF Begins
<1>7. Chained(p, ar2, c, h2)
  <2>1. ASSUME NEW i \in 1..Len(c)
        PROVE  /\ Formed(p, ar2[c[i]])
               /\ ar2[c[i]].base = 1 => ar2[c[i]].back = Before(c, i)
               /\ \E j \in 1..Len(h2) : Begins(p, ar2, h2[j], c[i])
    <3>1. PICK j \in 1..Len(h) : Begins(p, ar, h[j], c[i])
      BY <1>2 DEF Chained
    <3>2. Begins(p, ar2, h2[j], c[i]) /\ j \in 1..Len(h2)
      BY <1>1, <1>6, <3>1
    <3>3. c[i] \in ArenaIds /\ Formed(p, ar[c[i]]) /\ (ar[c[i]].base = 1 => ar[c[i]].back = Before(c, i))
      BY <1>1, <1>2 DEF Chained
    <3>4. Formed(p, ar2[c[i]])
      <4>1. CASE c[i] = a
        <5>1. ar[a].base <= ar[a].avail /\ ar[a].avail <= ar2[a].avail /\ ar2[a].avail <= ar2[a].total
          BY <1>3, <1>4, <3>3, <4>1 DEF Formed
        <5>2. ar[a].base \in Nat /\ ar[a].avail \in Nat /\ ar2[a].avail \in Nat
          <6>1. \A x \in ArenaIds : ar[x].base \in Nat /\ ar[x].avail \in Nat /\ ar2[x].avail \in Nat
            BY <1>1, <1>4
          <6> QED BY ONLY <1>3, <6>1
        <5> QED BY <3>3, <4>1, <5>1, <5>2 DEF Formed
      <4>2. CASE c[i] # a
        BY <3>3, <4>2
      <4> QED BY <4>1, <4>2
    <3> QED BY <1>4, <3>2, <3>3, <3>4
  <2> QED BY <2>1 DEF Chained
<1>8. Placed(ar2, c, h2)
  <2>1. ASSUME NEW j \in 1..Len(h) PROVE h2[j].arena \in ToSet(c) /\ Inside(ar2, h2[j])
    <3>1. h[j].arena \in ToSet(c) /\ Inside(ar, h[j])
      BY <1>2 DEF Placed
    <3>2. CASE j = k
      <4>1. ar2[a].base <= h[k].off
        BY <1>3, <1>4, <3>1, <3>2 DEF Inside
      <4>2. h2[k].size >= 1
        BY <1>1
      <4>3. h2[k].off + h2[k].size <= ar2[a].avail
        BY <1>1, <1>3
      <4>4. Inside(ar2, h2[k])
        BY <4>1, <4>2, <4>3 DEF Inside
      <4> QED BY <1>3, <3>2, <4>4
    <3>3. CASE j # k
      <4> DEFINE y == h[j].arena
      <4>1. y \in ArenaIds /\ h[j].off \in Nat /\ h[j].size \in Nat
        BY <1>1
      <4> HIDE DEF y
      <4>2. /\ ar2[y].base = ar[y].base /\ ar[y].avail <= ar2[y].avail
            /\ ar[y].avail \in Nat /\ ar2[y].avail \in Nat
        BY <1>1, <1>4, <4>1
      <4>3. Inside(ar2, h[j])
        BY ONLY <3>1, <4>1, <4>2 DEF Inside, y
      <4> QED BY <3>1, <3>3, <4>3
    <3> QED BY <3>2, <3>3
  <2>2. ASSUME NEW j \in 1..Len(h), j # k PROVE Apart(h2[j], h2[k]) /\ Apart(h2[k], h2[j])
    <3>1. h2[j] = h[j] /\ Apart(h[j], h[k]) /\ Inside(ar, h[j])
      BY <1>2, <2>2 DEF Placed
    <3>2. ASSUME h[j].arena = a PROVE h[j].off + h[j].size <= h[k].off
      <4>1. h[j].off + h[j].size <= ar[a].avail /\ h[j].size >= 1
        BY <3>1, <3>2 DEF Inside
      <4>2. h[j].off + h[j].size <= h[k].off \/ h[k].off + h[k].size <= h[j].off
        BY <3>1, <3>2 DEF Apart
      <4>3. h[j].off \in Nat /\ h[j].size \in Nat /\ h[k].off \in Nat /\ h[k].size \in Nat
        BY <1>1
      <4> QED BY ONLY <4>1, <4>2, <4>3, ar[a].avail = h[k].off + h[k].size
    <3> QED BY <3>1, <3>2 DEF Apart
  <2>3. ASSUME NEW i \in 1..Len(h2), NEW j \in 1..Len(h2), i # j PROVE Apart(h2[i], h2[j])
    <3>1. CASE i # k /\ j # k
      BY <1>2, <2>3, <3>1 DEF Placed
    <3>2. CASE i = k \/ j = k
      BY <2>2, <2>3, <3>2
    <3> QED BY <3>1, <3>2
  <2> QED BY <2>1, <2>3 DEF Placed
<1>9. Marked(p, ar2, c, h2, ms)
  <2>1. ASSUME NEW x \in 1..Len(ms) PROVE Divides(p, ar2, c, h2, ms[x])
    <3> DEFINE m == ms[x]
    <3>1. Divides(p, ar, c, h, m) /\ m.count < k
      BY <1>2 DEF Marked
    <3>2. m.arena \in ArenaIds \cup {First} /\ m.count \in Nat /\ m.avail \in Nat
      BY <1>1
    <3> HIDE DEF m
    <3>3. m.count <= Len(h2) /\ (m.arena = First => m.count = 0)
      BY <3>1 DEF Divides
    <3>4. \A j \in 1..m.count : j \in 1..Len(h) /\ h2[j] = h[j]
      BY <1>1, <3>1, <3>2
    <3>5. ASSUME m.arena # First
          PROVE  /\ m.arena \in ToSet(c)
                 /\ ar2[m.arena].base <= m.avail /\ m.avail <= ar2[m.arena].avail
                 /\ \A j \in 1..m.count :
                     /\ NotAfter(c, h2[j].arena, m.arena)
                     /\ h2[j].arena = m.arena => h2[j].off + h2[j].size <= m.avail
                 /\ \A j \in m.count + 1..Len(h2) : h2[j].arena = m.arena => m.avail <= h2[j].off
                 /\ \A y \in ToSet(c) :
                     NotAfter(c, y, m.arena) => \E j \in 1..m.count : Begins(p, ar2, h2[j], y)
      <4>1. m.arena \in ToSet(c) /\ ar[m.arena].base <= m.avail /\ m.avail <= ar[m.arena].avail
        BY <3>1, <3>5 DEF Divides
      <4>2. ar2[m.arena].base <= m.avail /\ m.avail <= ar2[m.arena].avail
        <5>1. m.arena \in ArenaIds
          BY <1>1, <4>1
        <5>2. /\ ar2[m.arena].base = ar[m.arena].base /\ ar[m.arena].avail <= ar2[m.arena].avail
              /\ ar[m.arena].avail \in Nat /\ ar2[m.arena].avail \in Nat
          BY <1>1, <1>4, <5>1
        <5> QED BY ONLY <3>2, <4>1, <5>2
      <4>3. ASSUME NEW j \in 1..m.count
            PROVE  /\ NotAfter(c, h2[j].arena, m.arena)
                   /\ h2[j].arena = m.arena => h2[j].off + h2[j].size <= m.avail
        BY <3>1, <3>4, <3>5 DEF Divides
      <4>4. ASSUME NEW j \in m.count + 1..Len(h2), h2[j].arena = m.arena PROVE m.avail <= h2[j].off
        <5>1. j \in m.count + 1..Len(h) /\ j \in 1..Len(h)
          BY <1>1, <3>2
        <5> QED BY <1>5, <3>1, <3>5, <4>4, <5>1 DEF Divides
      <4>5. ASSUME NEW y \in ToSet(c), NotAfter(c, y, m.arena)
            PROVE  \E j \in 1..m.count : Begins(p, ar2, h2[j], y)
        <5>1. PICK j \in 1..m.count : Begins(p, ar, h[j], y)
          BY <3>1, <3>5, <4>5 DEF Divides
        <5>2. y \in ArenaIds
          BY <1>1
        <5> QED BY <1>6, <3>4, <5>1, <5>2
      <4> QED BY <4>1, <4>2, <4>3, <4>4, <4>5
    <3>6. Divides(p, ar2, c, h2, m)
      BY <3>3, <3>5 DEF Divides
    <3> QED BY <3>6 DEF m
  <2> QED BY <1>2, <2>1 DEF Marked
<1> QED BY <1>2, <1>7, <1>8, <1>9 DEF Sound

\* A new mark, of the last arena's cursor.
LEMMA MarkedNow ==
  ASSUME NEW p \in Pools, NEW ar, NEW c, NEW h, NEW ms, Domains(ar, c, h, ms), Sound(p, ar, c, h, ms),
         NEW ms2, Domains(ar, c, h, ms2), Len(ms2) = Len(ms) + 1,
         \A x \in 1..Len(ms) : ms2[x] = ms[x],
         NEW m, m = ms2[Len(ms) + 1], m.count = Len(h),
         IF c = <<>> THEN m.arena = First ELSE m.arena = c[Len(c)] /\ m.avail = ar[c[Len(c)]].avail
  PROVE  Sound(p, ar, c, h, ms2)
<1>1. /\ \A x \in ArenaIds : ar[x].base \in Nat /\ ar[x].avail \in Nat
      /\ c \in Seq(ArenaIds) /\ \A i \in 1..Len(c) : c[i] \in ArenaIds /\ c[i] \in ToSet(c)
      /\ \A x \in ToSet(c) : \E i \in 1..Len(c) : c[i] = x
      /\ Len(h) \in Nat /\ Len(ms) \in Nat /\ First \notin ArenaIds
      /\ \A x \in 1..Len(ms) : ms[x].arena \in ArenaIds \cup {First}
  BY Typed
<1>2. /\ Chained(p, ar, c, h) /\ Placed(ar, c, h) /\ Marked(p, ar, c, h, ms) /\ NoTwice(c)
  BY DEF Sound
<1>3. \A x \in 1..Len(ms2) : x \in 1..Len(ms) \/ x = Len(ms) + 1
  BY <1>1
<1>4. c # <<>> => /\ m.arena \in ToSet(c) /\ m.arena # First
                  /\ \A a \in ToSet(c) : NotAfter(c, a, m.arena)
  <2> SUFFICES ASSUME c # <<>> PROVE /\ m.arena \in ToSet(c) /\ m.arena # First
                                     /\ \A a \in ToSet(c) : NotAfter(c, a, m.arena)
    OBVIOUS
  <2>1. Len(c) \in 1..Len(c)
    BY <1>1
  <2> QED BY <1>1, <1>2, <2>1, LastAfter
<1>5. Divides(p, ar, c, h, m)
  <2>1. CASE c = <<>>
    <3>1. \A k \in 1..Len(h) : \E i \in 1..Len(c) : c[i] = h[k].arena
      BY <1>1, <1>2 DEF Placed
    <3>2. Len(h) = 0
      BY <1>1, <2>1, <3>1
    <3> QED BY <2>1, <3>2 DEF Divides
  <2>2. CASE c # <<>>
    <3>1. ar[m.arena].base <= m.avail /\ m.avail <= ar[m.arena].avail
      <4>1. Formed(p, ar[m.arena]) /\ m.arena \in ArenaIds /\ m.avail = ar[m.arena].avail
        BY <1>1, <1>2, <1>4, <2>2 DEF Chained
      <4> QED BY <1>1, <4>1 DEF Formed
    <3>2. ASSUME NEW k \in 1..m.count
          PROVE  /\ NotAfter(c, h[k].arena, m.arena)
                 /\ h[k].arena = m.arena => h[k].off + h[k].size <= m.avail
      <4>1. h[k].arena \in ToSet(c) /\ Inside(ar, h[k])
        BY <1>2 DEF Placed
      <4> QED BY <1>4, <2>2, <4>1 DEF Inside
    <3>3. ~\E k \in m.count + 1..Len(h) : TRUE
      BY <1>1
    <3>4. ASSUME NEW a \in ToSet(c) PROVE \E k \in 1..m.count : Begins(p, ar, h[k], a)
      BY <1>1, <1>2 DEF Chained
    <3>5. m.count <= Len(h)
      BY <1>1
    <3> QED BY <1>4, <2>2, <3>1, <3>2, <3>3, <3>4, <3>5 DEF Divides
  <2> QED BY <2>1, <2>2
<1>6. ASSUME NEW x \in 1..Len(ms) PROVE Older(c, ms[x], m)
  <2>1. Divides(p, ar, c, h, ms[x])
    BY <1>2 DEF Marked
  <2>2. ms[x].count <= m.count
    BY <2>1 DEF Divides
  <2>3. ASSUME ms[x].arena # First
        PROVE  /\ m.arena # First /\ NotAfter(c, ms[x].arena, m.arena)
               /\ ms[x].arena = m.arena => ms[x].avail <= m.avail
    <3>1. ms[x].arena \in ToSet(c) /\ ms[x].avail <= ar[ms[x].arena].avail
      BY <2>1, <2>3 DEF Divides
    <3>2. c # <<>>
      BY <1>1, <3>1
    <3> QED BY <1>4, <3>1, <3>2
  <2> QED BY <2>2, <2>3 DEF Older
<1>7. Marked(p, ar, c, h, ms2)
  <2>1. ASSUME NEW x \in 1..Len(ms2) PROVE Divides(p, ar, c, h, ms2[x])
    BY <1>2, <1>3, <1>5 DEF Marked
  <2>2. ASSUME NEW x \in 1..Len(ms2), NEW y \in 1..Len(ms2), x < y PROVE Older(c, ms2[x], ms2[y])
    <3>1. x \in 1..Len(ms)
      BY <1>1, <2>2
    <3>2. CASE y \in 1..Len(ms)
      BY <1>2, <2>2, <3>1, <3>2 DEF Marked
    <3>3. CASE y = Len(ms) + 1
      BY <1>6, <3>1, <3>3
    <3> QED BY <1>3, <3>2, <3>3
  <2> QED BY <2>1, <2>2 DEF Marked
<1> QED BY <1>2, <1>7 DEF Sound

\* An allocation that begins its arena and no mark precedes lies, with the
\* arena, above all marks.
LEMMA BegunAbove ==
  ASSUME NEW p \in Pools, NEW ar, NEW c, NEW h, NEW ms, Domains(ar, c, h, ms), Sound(p, ar, c, h, ms),
         NEW k \in 1..Len(h), \A x \in 1..Len(ms) : ms[x].count < k,
         h[k].off = ar[h[k].arena].base,
         NEW x \in 1..Len(ms), ms[x].arena # First
  PROVE  ms[x].arena # h[k].arena /\ ~NotAfter(c, h[k].arena, ms[x].arena)
<1> DEFINE m == ms[x]
           a == h[k].arena
<1>1. Divides(p, ar, c, h, m) /\ m.count < k
  BY DEF Sound, Marked
<1>2. m.count \in Nat /\ Len(h) \in Nat /\ \A j \in 1..Len(h) : h[j].off \in Nat /\ h[j].size \in Nat
  BY Typed
<1>3. a \in ToSet(c) /\ \A y \in ToSet(c) : \E i \in 1..Len(c) : c[i] = y
  BY Typed DEF Sound, Placed
<1>4. ~NotAfter(c, a, m.arena)
  <2> SUFFICES ASSUME NotAfter(c, a, m.arena) PROVE FALSE
    OBVIOUS
  <2>1. PICK j \in 1..m.count : Begins(p, ar, h[j], a)
    BY <1>1, <1>3 DEF Divides
  <2>2. j \in 1..Len(h) /\ j # k
    BY <1>1, <1>2, <2>1
  <2>3. Apart(h[j], h[k]) /\ h[j].size >= 1 /\ h[k].size >= 1
    BY <2>2 DEF Sound, Placed, Inside
  <2>4. h[j].arena = h[k].arena /\ h[j].off = h[k].off
    BY <2>1 DEF Begins
  <2>5. h[j].off \in Nat /\ h[j].size \in Nat /\ h[k].off \in Nat /\ h[k].size \in Nat
    BY <1>2, <2>2
  <2> QED BY ONLY <2>3, <2>4, <2>5 DEF Apart
<1>5. NotAfter(c, a, a)
  <2>1. PICK i \in 1..Len(c) : c[i] = a
    BY <1>3
  <2>2. i <= i
    OBVIOUS
  <2> QED BY <2>1, <2>2 DEF NotAfter
<1> QED BY <1>4, <1>5

\* The allocation at k begins the arena at i and lies above all marks.
Heads(ar, c, h, ms, k, i) ==
    /\ k \in 1..Len(h) /\ i \in 1..Len(c) /\ h[k].arena = c[i] /\ h[k].off = ar[c[i]].base
    /\ \A x \in 1..Len(ms) : ms[x].count < k

\* It also has the arena to itself.
Owns(ar, c, h, ms, k, i) ==
    /\ Heads(ar, c, h, ms, k, i)
    /\ \A j \in 1..Len(h) : j # k => h[j].arena # c[i]

\* From ar to ar2 the other arenas of the chain keep what they are, and the one
\* after i is told that b is before it.
Told(ar, ar2, c, i, b) ==
    \A j \in 1..Len(c) : j # i =>
        /\ ar2[c[j]].total = ar[c[j]].total /\ ar2[c[j]].base = ar[c[j]].base
        /\ ar2[c[j]].avail = ar[c[j]].avail
        /\ ar[c[j]].base = 1 => ar2[c[j]].back = IF j = i + 1 THEN b ELSE ar[c[j]].back

\* An oversized allocation that fills arena b, described by r.
Fills(p, block, b, r, back) ==
    /\ block.arena = b /\ block.off = 1 /\ Oversized(p, block.size)
    /\ r.total = block.size + 1 /\ r.base = 1 /\ r.avail = block.size + 1 /\ r.back = back

Replaced(c, c2, i, b) == Len(c2) = Len(c) /\ \A j \in 1..Len(c) : c2[j] = IF j = i THEN b ELSE c[j]

\* The arena at i becomes b, as long as the allocation has grown.
LEMMA Reallocated ==
  ASSUME NEW p \in Pools, NEW ar, NEW c, NEW h, NEW ms, Domains(ar, c, h, ms), Sound(p, ar, c, h, ms),
         NEW k, NEW i, Owns(ar, c, h, ms, k, i),
         NEW b \in ArenaIds, b = c[i] \/ b \notin ToSet(c),
         NEW ar2, NEW c2, NEW h2, Domains(ar2, c2, h2, ms),
         Replaced(c, c2, i, b), Told(ar, ar2, c, i, b),
         Len(h2) = Len(h), \A j \in 1..Len(h) : j # k => h2[j] = h[j],
         Fills(p, h2[k], b, ar2[b], Before(c, i))
  PROVE  Sound(p, ar2, c2, h2, ms)
<1> DEFINE a == c[i]
           size == h2[k].size
<1>a. /\ k \in 1..Len(h) /\ \A x \in 1..Len(ms) : ms[x].count < k
      /\ a = h[k].arena /\ h[k].off = ar[a].base /\ \A j \in 1..Len(h) : j # k => h[j].arena # a
      /\ i \in 1..Len(c) /\ c[i] = a /\ (b = a \/ b \notin ToSet(c))
      /\ c2 \in Seq(ArenaIds)
      /\ Len(c2) = Len(c) /\ \A j \in 1..Len(c) : c2[j] = IF j = i THEN b ELSE c[j]
      /\ ar2[b].total = size + 1 /\ ar2[b].base = 1 /\ ar2[b].avail = size + 1
      /\ ar2[b].back = Before(c, i)
      /\ h2[k].arena = b /\ h2[k].off = 1 /\ h2[k].size = size
      /\ size > ArenaSize[p]
  BY DEF Owns, Heads, Domains, Fills, Replaced, Oversized
<1>c. size \in Nat
  <2>1. k \in 1..Len(h2) /\ \A j \in 1..Len(h2) : h2[j].size \in Nat
    BY <1>a, Typed
  <2> QED BY <2>1
<1>b. /\ \A x \in ToSet(c) \ {a} : /\ ar2[x].total = ar[x].total /\ ar2[x].base = ar[x].base
                                   /\ ar2[x].avail = ar[x].avail
      /\ \A j \in 1..Len(c) : j # i /\ ar[c[j]].base = 1 =>
           ar2[c[j]].back = IF j = i + 1 THEN b ELSE ar[c[j]].back
  <2>1. \A x \in ToSet(c) : \E j \in 1..Len(c) : c[j] = x
    BY Typed
  <2> QED BY <2>1 DEF Told
<1> HIDE DEF a, size
<1> USE <1>a, <1>b, <1>c
<1>1. /\ \A x \in ArenaIds : /\ ar[x].total \in Nat /\ ar[x].base \in {0, 1} /\ ar[x].avail \in Nat
                             /\ ar[x].back \in ArenaIds \cup {First}
      /\ Len(c) \in Nat /\ \A j \in 1..Len(c) : c[j] \in ArenaIds /\ c[j] \in ToSet(c)
      /\ ToSet(c) \subseteq ArenaIds /\ c \in Seq(ArenaIds)
      /\ Len(h) \in Nat
      /\ \A j \in 1..Len(h) : h[j].arena \in ArenaIds /\ h[j].off \in Nat /\ h[j].size \in Nat
      /\ \A x \in 1..Len(ms) : /\ ms[x].arena \in ArenaIds \cup {First} /\ ms[x].count \in Nat
                               /\ ms[x].avail \in Nat
  BY Typed
<1>2. /\ Chained(p, ar, c, h) /\ Placed(ar, c, h) /\ Marked(p, ar, c, h, ms) /\ NoTwice(c)
  BY DEF Sound
<1>3. ArenaSize[p] \in Nat /\ a \in ToSet(c)
  BY <1>1, ArenaPoolAssumption
<1>4. /\ Len(c2) = Len(c) /\ \A j \in 1..Len(c) : c2[j] = IF j = i THEN b ELSE c[j]
      /\ NoTwice(c2) /\ ToSet(c2) = (ToSet(c) \ {a}) \cup {b}
      /\ \A x, y \in ToSet(c) \ {a} : NotAfter(c2, x, y) <=> NotAfter(c, x, y)
      /\ \A y \in ToSet(c) \ {a} : NotAfter(c2, b, y) <=> NotAfter(c, a, y)
  <2>1. c2 \in Seq(ArenaIds) /\ Len(c2) = Len(c) /\ \A j \in 1..Len(c) : c2[j] = IF j = i THEN b ELSE c[j]
    OBVIOUS
  <2>2. /\ c \in Seq(ArenaIds) /\ NoTwice(c) /\ i \in 1..Len(c) /\ a = c[i]
        /\ b \in ArenaIds /\ (b \notin ToSet(c) \/ b = a)
    BY <1>1, <1>2
  <2>3. /\ NoTwice(c2) /\ ToSet(c2) = (ToSet(c) \ {a}) \cup {b}
        /\ \A x, y \in ToSet(c) \ {a} : NotAfter(c2, x, y) <=> NotAfter(c, x, y)
        /\ \A y \in ToSet(c) \ {a} : NotAfter(c2, b, y) <=> NotAfter(c, a, y)
    BY ONLY <2>1, <2>2, ReplacedKeeps
  <2> QED BY ONLY <2>1, <2>3
<1>5. \A j \in 1..Len(c) : j # i => c[j] \in ToSet(c) \ {a} /\ c2[j] = c[j] /\ c[j] # b
  BY <1>1, <1>2, <1>4 DEF NoTwice
<1>6. \A j \in 1..Len(h) : j # k => /\ h2[j] = h[j] /\ h[j].arena \in ToSet(c) \ {a} /\ h[j].arena # b
                                    /\ Inside(ar, h[j])
  BY <1>2 DEF Placed
<1>7. \A x \in ToSet(c) \ {a} : \A block : Begins(p, ar, block, x) => Begins(p, ar2, block, x)
  BY DEF Begins
<1>8. Chained(p, ar2, c2, h2)
  <2>1. ASSUME NEW j \in 1..Len(c)
        PROVE  /\ Formed(p, ar2[c2[j]])
               /\ ar2[c2[j]].base = 1 => ar2[c2[j]].back = Before(c2, j)
               /\ \E l \in 1..Len(h2) : Begins(p, ar2, h2[l], c2[j])
    <3>1. CASE j = i
      <4>1. c2[j] = b
        BY <1>4, <3>1
      <4>2. Formed(p, ar2[b])
        BY <1>1 DEF Formed
      <4>3. Before(c2, j) = Before(c, i)
        <5>1. i # 1 => i - 1 \in 1..Len(c) /\ i - 1 # i
          BY <1>1
        <5> QED BY <1>4, <3>1, <5>1 DEF Before
      <4>4. Begins(p, ar2, h2[k], b) /\ k \in 1..Len(h2)
        <5>1. size + 1 <= size + 1 + ArenaSize[p]
          BY <1>3
        <5> QED BY <5>1 DEF Begins, Oversized
      <4> QED BY <4>1, <4>2, <4>3, <4>4
    <3>2. CASE j # i
      <4>1. c2[j] = c[j] /\ c[j] \in ToSet(c) \ {a}
        BY <1>5, <3>2
      <4>2. Formed(p, ar2[c[j]])
        BY <1>2, <4>1 DEF Chained, Formed
      <4>3. ASSUME ar2[c[j]].base = 1 PROVE ar2[c[j]].back = Before(c2, j)
        <5>1. ar[c[j]].base = 1 /\ ar[c[j]].back = Before(c, j)
          BY <1>2, <4>1, <4>3 DEF Chained
        <5>2. ar2[c[j]].back = IF j = i + 1 THEN b ELSE Before(c, j)
          BY <3>2, <5>1
        <5>3. j # 1 => j - 1 \in 1..Len(c) /\ (j - 1 = i <=> j = i + 1)
          BY <1>1
        <5>4. i + 1 # 1
          BY <1>1
        <5>5. Before(c2, j) = IF j = i + 1 THEN b ELSE Before(c, j)
          BY <1>4, <5>3, <5>4 DEF Before
        <5> QED BY <5>2, <5>5
      <4>4. PICK l \in 1..Len(h) : Begins(p, ar, h[l], c[j])
        BY <1>2 DEF Chained
      <4>5. l # k
        BY <4>1, <4>4 DEF Begins
      <4>6. Begins(p, ar2, h2[l], c[j]) /\ l \in 1..Len(h2)
        BY <1>7, <4>1, <4>4, <4>5
      <4> QED BY <4>1, <4>2, <4>3, <4>6
    <3> QED BY <3>1, <3>2
  <2> QED BY <1>4, <2>1 DEF Chained
<1>9. Placed(ar2, c2, h2)
  <2>1. ASSUME NEW j \in 1..Len(h2), j # k
        PROVE  h2[j].arena \in ToSet(c2) /\ Inside(ar2, h2[j]) /\ Apart(h2[j], h2[k]) /\ Apart(h2[k], h2[j])
    <3>1. h2[j] = h[j] /\ h[j].arena \in ToSet(c) \ {a} /\ h[j].arena # b /\ Inside(ar, h[j])
      BY <1>6, <2>1
    <3>2. Inside(ar2, h[j])
      BY <3>1 DEF Inside
    <3> QED BY <1>4, <3>1, <3>2 DEF Apart
  <2>2. h2[k].arena \in ToSet(c2) /\ Inside(ar2, h2[k])
    <3>1. size >= 1 /\ 1 + size <= size + 1 /\ 1 <= 1
      BY <1>3
    <3> QED BY <1>4, <3>1 DEF Inside
  <2>3. ASSUME NEW j \in 1..Len(h2), NEW l \in 1..Len(h2), j # l PROVE Apart(h2[j], h2[l])
    <3>1. CASE j = k \/ l = k
      BY <2>1, <2>3, <3>1
    <3>2. CASE j # k /\ l # k
      BY <1>2, <2>3, <3>2 DEF Placed
    <3> QED BY <3>1, <3>2
  <2> QED BY <2>1, <2>2, <2>3 DEF Placed
<1>10. Marked(p, ar2, c2, h2, ms)
  <2>1. ASSUME NEW x \in 1..Len(ms), ms[x].arena # First
        PROVE  ms[x].arena # a /\ ~NotAfter(c, a, ms[x].arena) /\ ms[x].arena \in ToSet(c) \ {a}
    <3>0. /\ p \in Pools /\ Domains(ar, c, h, ms) /\ Sound(p, ar, c, h, ms) /\ k \in 1..Len(h)
          /\ \A y \in 1..Len(ms) : ms[y].count < k
          /\ h[k].off = ar[h[k].arena].base /\ x \in 1..Len(ms)
      OBVIOUS
    <3>1. ms[x].arena # h[k].arena /\ ~NotAfter(c, h[k].arena, ms[x].arena)
      BY ONLY <2>1, <3>0, BegunAbove
    <3> QED BY <1>2, <2>1, <3>1 DEF Marked, Divides
  <2>2. ASSUME NEW x \in 1..Len(ms) PROVE Divides(p, ar2, c2, h2, ms[x])
    <3> DEFINE m == ms[x]
    <3>1. Divides(p, ar, c, h, m) /\ m.count < k
      BY <1>2 DEF Marked
    <3>2. m.arena \in ArenaIds \cup {First} /\ m.count \in Nat /\ m.avail \in Nat
      BY <1>1
    <3>3. m.arena # First => /\ m.arena # a /\ ~NotAfter(c, a, m.arena) /\ m.arena \in ToSet(c) \ {a}
                             /\ m.arena # b
      BY <2>1
    <3> HIDE DEF m
    <3>4. m.count <= Len(h2) /\ (m.arena = First => m.count = 0)
      BY <3>1 DEF Divides
    <3>5. \A j \in 1..m.count : j \in 1..Len(h) /\ j # k /\ h2[j] = h[j]
      BY <1>1, <3>1, <3>2
    <3>6. ASSUME m.arena # First
          PROVE  /\ m.arena \in ToSet(c2)
                 /\ ar2[m.arena].base <= m.avail /\ m.avail <= ar2[m.arena].avail
                 /\ \A j \in 1..m.count :
                     /\ NotAfter(c2, h2[j].arena, m.arena)
                     /\ h2[j].arena = m.arena => h2[j].off + h2[j].size <= m.avail
                 /\ \A j \in m.count + 1..Len(h2) : h2[j].arena = m.arena => m.avail <= h2[j].off
                 /\ \A y \in ToSet(c2) :
                     NotAfter(c2, y, m.arena) => \E j \in 1..m.count : Begins(p, ar2, h2[j], y)
      <4>1. m.arena \in ToSet(c2)
        BY <1>4, <3>3, <3>6
      <4>2. ar2[m.arena].base <= m.avail /\ m.avail <= ar2[m.arena].avail
        BY <3>1, <3>3, <3>6 DEF Divides
      <4>3. ASSUME NEW j \in 1..m.count
            PROVE  /\ NotAfter(c2, h2[j].arena, m.arena)
                   /\ h2[j].arena = m.arena => h2[j].off + h2[j].size <= m.avail
        <5>1. h2[j] = h[j] /\ h[j].arena \in ToSet(c) \ {a}
          BY <1>6, <3>5
        <5> QED BY <1>4, <3>1, <3>3, <3>6, <5>1 DEF Divides
      <4>4. ASSUME NEW j \in m.count + 1..Len(h2), h2[j].arena = m.arena PROVE m.avail <= h2[j].off
        <5>1. j # k
          BY <3>3, <3>6, <4>4
        <5>2. j \in m.count + 1..Len(h) /\ h2[j] = h[j]
          <6>1. j \in m.count + 1..Len(h) /\ j \in 1..Len(h)
            <7>1. Len(h2) = Len(h) /\ Len(h) \in Nat
              BY <1>1
            <7> QED BY ONLY <3>2, <4>4, <7>1
          <6> QED BY <5>1, <6>1
        <5> QED BY <3>1, <3>6, <4>4, <5>2 DEF Divides
      <4>5. ASSUME NEW y \in ToSet(c2), NotAfter(c2, y, m.arena)
            PROVE  \E j \in 1..m.count : Begins(p, ar2, h2[j], y)
        <5>1. y \in ToSet(c) \ {a} /\ NotAfter(c, y, m.arena)
          <6>1. CASE y = b
            BY <1>4, <3>3, <3>6, <4>5, <6>1
          <6>2. CASE y # b
            BY <1>4, <3>3, <3>6, <4>5, <6>2
          <6> QED BY <6>1, <6>2
        <5>2. PICK j \in 1..m.count : Begins(p, ar, h[j], y)
          BY <3>1, <3>6, <5>1 DEF Divides
        <5> QED BY <1>7, <3>5, <5>1, <5>2
      <4> QED BY <4>1, <4>2, <4>3, <4>4, <4>5
    <3>7. Divides(p, ar2, c2, h2, m)
      BY <3>4, <3>6 DEF Divides
    <3> QED BY <3>7 DEF m
  <2>3. ASSUME NEW x \in 1..Len(ms), NEW y \in 1..Len(ms), x < y PROVE Older(c2, ms[x], ms[y])
    <3>1. Older(c, ms[x], ms[y])
      BY <1>2, <2>3 DEF Marked
    <3> QED BY <1>4, <2>1, <3>1 DEF Older
  <2> QED BY <2>2, <2>3 DEF Marked
<1> QED BY <1>4, <1>8, <1>9, <1>10 DEF Sound

\* The allocations h2 are those of h at the places in K.
Fewer(h, h2, K) ==
    /\ \A j \in 1..Len(h2) : \E l \in K : h2[j] = h[l]
    /\ \A l \in K : \E j \in 1..Len(h2) : h2[j] = h[l]
    /\ (\A i, j \in 1..Len(h) : i # j => Apart(h[i], h[j])) =>
         \A i, j \in 1..Len(h2) : i # j => Apart(h2[i], h2[j])
    /\ \A n \in Nat : 1..n \subseteq K =>
         /\ n <= Len(h2)
         /\ \A j \in 1..n : j \in 1..Len(h) /\ j \in K /\ h2[j] = h[j]
         /\ \A j \in n + 1..Len(h2) : \E l \in n + 1..Len(h) : l \in K /\ h2[j] = h[l]

AllBut(h, k) == (1..Len(h)) \ {k}

LEMMA HeldFewer ==
  ASSUME NEW h, Len(h) \in Nat, NEW k \in 1..Len(h), NEW h2, Len(h2) = Len(h) - 1,
         \A j \in 1..Len(h) - 1 : h2[j] = IF j < k THEN h[j] ELSE h[j + 1]
  PROVE  Fewer(h, h2, AllBut(h, k))
<1> DEFINE Old(j) == IF j < k THEN j ELSE j + 1
           New(j) == IF j < k THEN j ELSE j - 1
<1>1. \A j \in 1..Len(h2) : Old(j) \in 1..Len(h) /\ Old(j) # k /\ h2[j] = h[Old(j)]
  <2> TAKE j \in 1..Len(h2)
  <2>1. j \in 1..Len(h) - 1
    OBVIOUS
  <2>2. h2[j] = IF j < k THEN h[j] ELSE h[j + 1]
    BY <2>1
  <2>3. CASE j < k
    BY <2>1, <2>2, <2>3
  <2>4. CASE ~(j < k)
    BY <2>1, <2>2, <2>4
  <2> QED BY <2>3, <2>4
<1>2. \A i, j \in 1..Len(h2) : Old(i) = Old(j) => i = j
  OBVIOUS
<1>3. ASSUME NEW l \in 1..Len(h), l # k PROVE New(l) \in 1..Len(h2) /\ h2[New(l)] = h[l]
  <2>1. CASE l < k
    <3>1. l \in 1..Len(h) - 1
      BY <2>1
    <3> QED BY <2>1, <3>1
  <2>2. CASE ~(l < k)
    <3>1. l - 1 \in 1..Len(h) - 1 /\ ~(l - 1 < k) /\ (l - 1) + 1 = l
      BY <1>3, <2>2
    <3> QED BY <2>2, <3>1
  <2> QED BY <2>1, <2>2
<1>4. ASSUME NEW n \in Nat, n < k
      PROVE  /\ n <= Len(h2)
             /\ \A j \in 1..n : j \in 1..Len(h) /\ j # k /\ h2[j] = h[j]
             /\ \A j \in n + 1..Len(h2) : Old(j) \in n + 1..Len(h) /\ j \in 1..Len(h2)
  <2>1. n <= Len(h2)
    BY <1>4
  <2>2. ASSUME NEW j \in 1..n PROVE j \in 1..Len(h) /\ j # k /\ h2[j] = h[j]
    <3>1. j \in 1..Len(h) /\ j < k /\ j \in 1..Len(h) - 1
      BY <1>4
    <3> QED BY <3>1
  <2>3. ASSUME NEW j \in n + 1..Len(h2) PROVE Old(j) \in n + 1..Len(h) /\ j \in 1..Len(h2)
    BY <1>4
  <2> QED BY <2>1, <2>2, <2>3
<1> HIDE DEF Old, New
<1>5. ASSUME \A i, j \in 1..Len(h) : i # j => Apart(h[i], h[j]), NEW i \in 1..Len(h2), NEW j \in 1..Len(h2), i # j
      PROVE  Apart(h2[i], h2[j])
  <2>1. Old(i) # Old(j) /\ Old(i) \in 1..Len(h) /\ Old(j) \in 1..Len(h)
    BY <1>1, <1>2, <1>5
  <2> QED BY <1>1, <1>5, <2>1
<1> DEFINE K == AllBut(h, k)
<1>k. \A l : l \in K <=> l \in 1..Len(h) /\ l # k
  BY DEF AllBut
<1> HIDE DEF K
<1>6. \A j \in 1..Len(h2) : \E l \in K : h2[j] = h[l]
  BY <1>1, <1>k
<1>7. \A l \in K : \E j \in 1..Len(h2) : h2[j] = h[l]
  BY <1>3, <1>k
<1>8. ASSUME NEW n \in Nat, 1..n \subseteq K
      PROVE  /\ n <= Len(h2)
             /\ \A j \in 1..n : j \in 1..Len(h) /\ j \in K /\ h2[j] = h[j]
             /\ \A j \in n + 1..Len(h2) : \E l \in n + 1..Len(h) : l \in K /\ h2[j] = h[l]
  <2>1. n < k
    <3>1. k \notin K /\ k \in Nat /\ k >= 1
      BY <1>k
    <3>2. k \notin 1..n
      BY <1>8, <3>1
    <3> QED BY <3>1, <3>2
  <2>2. /\ n <= Len(h2)
        /\ \A j \in 1..n : j \in 1..Len(h) /\ j # k /\ h2[j] = h[j]
        /\ \A j \in n + 1..Len(h2) : Old(j) \in n + 1..Len(h) /\ j \in 1..Len(h2)
    BY <1>4, <2>1
  <2>3. ASSUME NEW j \in n + 1..Len(h2)
        PROVE  \E l \in n + 1..Len(h) : l \in K /\ h2[j] = h[l]
    BY <1>1, <1>k, <2>2
  <2> QED BY <1>k, <2>2, <2>3
<1> QED BY <1>5, <1>6, <1>7, <1>8 DEF Fewer, K

LEMMA KeptFewer ==
  ASSUME NEW h \in Seq(Blocks), NEW K, K \subseteq 1..Len(h), NEW h2, h2 = Keeping(h, K)
  PROVE  Fewer(h, h2, K)
<1>1. /\ h2 \in Seq(Blocks)
      /\ Len(h2) = Cardinality(K) /\ \A i \in 1..Cardinality(K) : h2[i] = h[Kept(K, i)]
      /\ Counts(K)
  <2>1. h \in Seq(Blocks) /\ K \subseteq 1..Len(h) /\ h2 = Keeping(h, K)
    OBVIOUS
  <2>2. h2 \in Seq(Blocks)
    BY ONLY <2>1, KeepingIs
  <2>3. Len(h2) = Cardinality(K)
    BY ONLY <2>1, KeepingIs
  <2>4. h2 = [i \in 1..Cardinality(K) |-> h[Kept(K, i)]]
    BY <2>1, Zenon DEF Keeping, Kept
  <2>5. \A i \in 1..Cardinality(K) : h2[i] = h[Kept(K, i)]
    BY ONLY <2>4
  <2>6. Counts(K)
    BY ONLY <2>1, KeepingIs
  <2> QED BY ONLY <2>2, <2>3, <2>5, <2>6
<1> DEFINE N == Cardinality(K)
<1>2. /\ N \in Nat
      /\ \A i \in 1..N : Kept(K, i) \in K
      /\ \A i, j \in 1..N : Kept(K, i) = Kept(K, j) => i = j
      /\ \A k \in K : \E i \in 1..N : Kept(K, i) = k
      /\ \A n \in Nat : 1..n \subseteq K =>
           /\ n <= N
           /\ \A i \in 1..n : Kept(K, i) = i
           /\ \A i \in n + 1..N : Kept(K, i) > n
  BY <1>1 DEF Counts
<1>3. Len(h2) = N /\ \A i \in 1..N : h2[i] = h[Kept(K, i)]
  BY <1>1
<1>4. Len(h) \in Nat
  OBVIOUS
<1> HIDE DEF N
<1>5. \A j \in 1..Len(h2) : \E l \in K : h2[j] = h[l]
  BY ONLY <1>2, <1>3
<1>6. \A l \in K : \E j \in 1..Len(h2) : h2[j] = h[l]
  BY ONLY <1>2, <1>3
<1>7. ASSUME \A i, j \in 1..Len(h) : i # j => Apart(h[i], h[j]), NEW i \in 1..Len(h2), NEW j \in 1..Len(h2), i # j
      PROVE  Apart(h2[i], h2[j])
  <2>1. Kept(K, i) # Kept(K, j) /\ Kept(K, i) \in 1..Len(h) /\ Kept(K, j) \in 1..Len(h)
    BY ONLY <1>2, <1>3, <1>7, K \subseteq 1..Len(h)
  <2>2. h2[i] = h[Kept(K, i)] /\ h2[j] = h[Kept(K, j)]
    BY ONLY <1>3, <1>7
  <2> QED BY ONLY <1>7, <2>1, <2>2
<1>8. ASSUME NEW n \in Nat, 1..n \subseteq K
      PROVE  /\ n <= Len(h2)
             /\ \A j \in 1..n : j \in 1..Len(h) /\ j \in K /\ h2[j] = h[j]
             /\ \A j \in n + 1..Len(h2) : \E l \in n + 1..Len(h) : l \in K /\ h2[j] = h[l]
  <2>1. /\ n <= N
        /\ \A i \in 1..n : Kept(K, i) = i
        /\ \A i \in n + 1..N : Kept(K, i) > n
    BY ONLY <1>2, <1>8
  <2>2. ASSUME NEW j \in 1..n PROVE j \in 1..Len(h) /\ j \in K /\ h2[j] = h[j]
    <3>1. j \in 1..N /\ Kept(K, j) = j
      BY ONLY <1>2, <1>8, <2>1
    <3> QED BY ONLY <1>2, <1>3, <3>1, K \subseteq 1..Len(h)
  <2>3. ASSUME NEW j \in n + 1..Len(h2) PROVE \E l \in n + 1..Len(h) : l \in K /\ h2[j] = h[l]
    <3> DEFINE l == Kept(K, j)
    <3>1. j \in 1..N /\ j \in n + 1..N
      BY ONLY <1>2, <1>3, <2>3, n \in Nat
    <3>2. l \in K /\ l > n /\ h2[j] = h[l]
      BY ONLY <1>2, <1>3, <2>1, <3>1
    <3>3. l \in 1..Len(h)
      BY ONLY <3>2, K \subseteq 1..Len(h)
    <3> HIDE DEF l
    <3>4. l \in n + 1..Len(h)
      BY ONLY <1>4, <3>2, <3>3, n \in Nat
    <3> QED BY ONLY <3>2, <3>4
  <2> QED BY ONLY <1>3, <2>1, <2>2, <2>3
<1> QED BY ONLY <1>5, <1>6, <1>7, <1>8 DEF Fewer

\* The places of the allocations outside arena a.
Outside(h, a) == {j \in 1..Len(h) : h[j].arena # a}

\* What lies below a mark is outside the arena of an allocation that begins its
\* arena above all marks.
LEMMA MarkedOutside ==
  ASSUME NEW p \in Pools, NEW ar, NEW c, NEW h, NEW ms, Domains(ar, c, h, ms), Sound(p, ar, c, h, ms),
         NEW k, NEW i, Heads(ar, c, h, ms, k, i), NEW x \in 1..Len(ms)
  PROVE  1..ms[x].count \subseteq Outside(h, c[i])
<1> DEFINE m == ms[x]
<1>0. /\ k \in 1..Len(h) /\ h[k].arena = c[i] /\ h[k].off = ar[h[k].arena].base
      /\ \A y \in 1..Len(ms) : ms[y].count < k
  BY DEF Heads
<1>1. Divides(p, ar, c, h, m) /\ m.count < k /\ m.count \in Nat /\ Len(h) \in Nat
  BY <1>0, Typed DEF Sound, Marked
<1>2. m.arena # First => ~NotAfter(c, c[i], m.arena)
  BY <1>0, BegunAbove
<1> HIDE DEF m
<1>3. ASSUME NEW j \in 1..m.count PROVE j \in 1..Len(h) /\ h[j].arena # c[i]
  <2>1. m.arena # First /\ j \in 1..Len(h)
    BY <1>0, <1>1 DEF Divides
  <2>2. NotAfter(c, h[j].arena, m.arena)
    BY <1>1, <2>1 DEF Divides
  <2> QED BY <1>2, <2>1, <2>2
<1> QED BY <1>3 DEF Outside, m

\* The arena at i leaves the chain with all allocations in it; the arena after it
\* is told.
LEMMA ArenaDropped ==
  ASSUME NEW p \in Pools, NEW ar, NEW c, NEW h, NEW ms, Domains(ar, c, h, ms), Sound(p, ar, c, h, ms),
         NEW k, NEW i, Heads(ar, c, h, ms, k, i),
         NEW ar2, NEW c2, NEW h2, Domains(ar2, c2, h2, ms), c2 = RemoveAt(c, i),
         Told(ar, ar2, c, i, Before(c, i)),
         Fewer(h, h2, Outside(h, c[i]))
  PROVE  Sound(p, ar2, c2, h2, ms)
<1> DEFINE a == c[i]
           K == Outside(h, a)
<1>k. \A l : l \in K <=> l \in 1..Len(h) /\ h[l].arena # a
  BY DEF Outside
<1>m. \A x \in 1..Len(ms) : 1..ms[x].count \subseteq K
  BY MarkedOutside
<1>3. Fewer(h, h2, K)
  OBVIOUS
<1> HIDE DEF K
<1>a. /\ k \in 1..Len(h) /\ \A x \in 1..Len(ms) : ms[x].count < k
      /\ a = h[k].arena /\ h[k].off = ar[a].base
      /\ i \in 1..Len(c) /\ c[i] = a
  BY DEF Heads
<1>b. /\ \A x \in ToSet(c) \ {a} : /\ ar2[x].total = ar[x].total /\ ar2[x].base = ar[x].base
                                   /\ ar2[x].avail = ar[x].avail
      /\ \A j \in 1..Len(c) : j # i /\ ar[c[j]].base = 1 =>
           ar2[c[j]].back = IF j = i + 1 THEN Before(c, i) ELSE ar[c[j]].back
  <2>1. \A x \in ToSet(c) : \E j \in 1..Len(c) : c[j] = x
    BY Typed
  <2> QED BY <2>1 DEF Told
<1> HIDE DEF a
<1> USE <1>a, <1>b
<1>1. /\ Len(c) \in Nat /\ \A j \in 1..Len(c) : c[j] \in ArenaIds /\ c[j] \in ToSet(c)
      /\ ToSet(c) \subseteq ArenaIds /\ c \in Seq(ArenaIds)
      /\ Len(h) \in Nat
      /\ \A x \in 1..Len(ms) : /\ ms[x].arena \in ArenaIds \cup {First} /\ ms[x].count \in Nat
                               /\ ms[x].avail \in Nat
  BY Typed
<1>2. /\ Chained(p, ar, c, h) /\ Placed(ar, c, h) /\ Marked(p, ar, c, h, ms) /\ NoTwice(c)
  BY DEF Sound
<1>4. /\ Len(c2) = Len(c) - 1 /\ \A j \in 1..Len(c) - 1 : c2[j] = IF j < i THEN c[j] ELSE c[j + 1]
      /\ NoTwice(c2) /\ ToSet(c2) = ToSet(c) \ {a}
      /\ \A x, y \in ToSet(c) \ {a} : NotAfter(c2, x, y) <=> NotAfter(c, x, y)
  <2>1. c \in Seq(ArenaIds) /\ NoTwice(c) /\ i \in 1..Len(c) /\ a = c[i] /\ c2 = RemoveAt(c, i)
    BY <1>1, <1>2
  <2>2. Len(c2) = Len(c) - 1 /\ \A j \in 1..Len(c) - 1 : c2[j] = IF j < i THEN c[j] ELSE c[j + 1]
    BY ONLY <2>1, RemovedIs
  <2>3. /\ NoTwice(c2) /\ ToSet(c2) = ToSet(c) \ {a}
        /\ \A x, y \in ToSet(c) \ {a} : NotAfter(c2, x, y) <=> NotAfter(c, x, y)
    BY ONLY <2>1, RemovedKeeps
  <2> QED BY ONLY <2>2, <2>3
<1>5. \A j \in 1..Len(c) : j # i => c[j] \in ToSet(c) \ {a}
  BY <1>1, <1>2 DEF NoTwice
<1>6. \A j \in K : h[j].arena \in ToSet(c) \ {a} /\ Inside(ar, h[j])
  BY <1>2, <1>k DEF Placed
<1>7. \A x \in ToSet(c) \ {a} : \A block : Begins(p, ar, block, x) => Begins(p, ar2, block, x)
  BY DEF Begins
<1>8. Chained(p, ar2, c2, h2)
  <2>1. ASSUME NEW j \in 1..Len(c), j # i, NEW before,
               before = IF j = i + 1 THEN Before(c, i) ELSE Before(c, j)
        PROVE  /\ Formed(p, ar2[c[j]])
               /\ ar2[c[j]].base = 1 => ar2[c[j]].back = before
               /\ \E l \in 1..Len(h2) : Begins(p, ar2, h2[l], c[j])
    <3>1. c[j] \in ToSet(c) \ {a}
      BY <1>5, <2>1
    <3>2. Formed(p, ar2[c[j]])
      BY <1>2, <3>1 DEF Chained, Formed
    <3>3. ASSUME ar2[c[j]].base = 1 PROVE ar2[c[j]].back = before
      <4>1. ar[c[j]].base = 1 /\ ar[c[j]].back = Before(c, j)
        BY <1>2, <3>1, <3>3 DEF Chained
      <4> QED BY <2>1, <4>1
    <3>4. PICK l \in 1..Len(h) : Begins(p, ar, h[l], c[j])
      BY <1>2 DEF Chained
    <3>5. l \in K
      BY <1>k, <3>1, <3>4 DEF Begins
    <3>6. PICK n \in 1..Len(h2) : h2[n] = h[l]
      BY <1>3, <3>5 DEF Fewer
    <3>7. Begins(p, ar2, h2[n], c[j])
      BY <1>7, <3>1, <3>4, <3>6
    <3> QED BY <3>2, <3>3, <3>7
  <2>2. ASSUME NEW j \in 1..Len(c2)
        PROVE  /\ Formed(p, ar2[c2[j]])
               /\ ar2[c2[j]].base = 1 => ar2[c2[j]].back = Before(c2, j)
               /\ \E l \in 1..Len(h2) : Begins(p, ar2, h2[l], c2[j])
    <3>1. j \in 1..Len(c) - 1 /\ j \in 1..Len(c) /\ j + 1 \in 1..Len(c)
      BY <1>1, <1>4
    <3>2. CASE j < i
      <4>1. j # i /\ j # i + 1 /\ (j # 1 => j - 1 \in 1..Len(c) - 1 /\ j - 1 < i)
        BY <3>1, <3>2
      <4>2. c2[j] = c[j] /\ Before(c2, j) = Before(c, j)
        BY <1>4, <3>1, <3>2, <4>1 DEF Before
      <4> QED BY <2>1, <3>1, <4>1, <4>2
    <3>3. CASE j = i
      <4>1. j + 1 # i /\ j + 1 = i + 1 /\ ~(j < i) /\ (j # 1 => j - 1 \in 1..Len(c) - 1 /\ j - 1 < i)
        BY <3>1, <3>3
      <4>2. c2[j] = c[j + 1] /\ Before(c2, j) = Before(c, i)
        BY <1>4, <3>1, <3>3, <4>1 DEF Before
      <4> QED BY <2>1, <3>1, <4>1, <4>2
    <3>4. CASE j > i
      <4>1. /\ j + 1 # i /\ j + 1 # i + 1 /\ ~(j < i) /\ j # 1 /\ j + 1 # 1 /\ (j + 1) - 1 = j
            /\ j - 1 \in 1..Len(c) - 1 /\ ~(j - 1 < i) /\ (j - 1) + 1 = j
        BY <3>1, <3>4
      <4>2. c2[j] = c[j + 1] /\ Before(c2, j) = Before(c, j + 1)
        BY <1>4, <3>1, <4>1 DEF Before
      <4> DEFINE n == j + 1
      <4>3. n \in 1..Len(c) /\ n # i /\ n # i + 1
        BY <3>1, <4>1
      <4> HIDE DEF n
      <4>4. /\ Formed(p, ar2[c[n]])
            /\ ar2[c[n]].base = 1 => ar2[c[n]].back = Before(c, n)
            /\ \E l \in 1..Len(h2) : Begins(p, ar2, h2[l], c[n])
        BY <2>1, <4>3
      <4> QED BY ONLY <4>2, <4>4 DEF n
    <3> QED BY <3>1, <3>2, <3>3, <3>4
  <2> QED BY <2>2 DEF Chained
<1>9. Placed(ar2, c2, h2)
  <2>1. ASSUME NEW j \in 1..Len(h2) PROVE h2[j].arena \in ToSet(c2) /\ Inside(ar2, h2[j])
    <3>1. PICK l \in K : h2[j] = h[l]
      BY <1>3 DEF Fewer
    <3>2. h[l].arena \in ToSet(c) \ {a} /\ Inside(ar, h[l])
      BY <1>6, <3>1
    <3>3. Inside(ar2, h[l])
      BY <3>2 DEF Inside
    <3> QED BY <1>4, <3>1, <3>2, <3>3
  <2> QED BY <1>2, <1>3, <2>1 DEF Placed, Fewer
<1>10. Marked(p, ar2, c2, h2, ms)
  <2>1. ASSUME NEW x \in 1..Len(ms), ms[x].arena # First
        PROVE  ms[x].arena # a /\ ~NotAfter(c, a, ms[x].arena) /\ ms[x].arena \in ToSet(c) \ {a}
    <3>0. /\ p \in Pools /\ Domains(ar, c, h, ms) /\ Sound(p, ar, c, h, ms) /\ k \in 1..Len(h)
          /\ \A y \in 1..Len(ms) : ms[y].count < k
          /\ h[k].off = ar[h[k].arena].base /\ x \in 1..Len(ms)
      OBVIOUS
    <3>1. ms[x].arena # h[k].arena /\ ~NotAfter(c, h[k].arena, ms[x].arena)
      BY ONLY <2>1, <3>0, BegunAbove
    <3> QED BY <1>2, <2>1, <3>1 DEF Marked, Divides
  <2>2. ASSUME NEW x \in 1..Len(ms) PROVE Divides(p, ar2, c2, h2, ms[x])
    <3> DEFINE m == ms[x]
    <3>1. Divides(p, ar, c, h, m) /\ m.count < k
      BY <1>2 DEF Marked
    <3>2. m.arena \in ArenaIds \cup {First} /\ m.count \in Nat /\ m.avail \in Nat
      BY <1>1
    <3>k. 1..m.count \subseteq K
      BY <1>m
    <3>3. m.arena # First => m.arena # a /\ ~NotAfter(c, a, m.arena) /\ m.arena \in ToSet(c) \ {a}
      BY <2>1
    <3> HIDE DEF m
    <3>4. m.count <= Len(h2) /\ (m.arena = First => m.count = 0)
      BY <1>3, <3>1, <3>2, <3>k DEF Divides, Fewer
    <3>5. /\ \A j \in 1..m.count : j \in 1..Len(h) /\ j \in K /\ h2[j] = h[j]
          /\ \A j \in m.count + 1..Len(h2) : \E l \in m.count + 1..Len(h) : l \in K /\ h2[j] = h[l]
      BY <1>3, <3>1, <3>2, <3>k DEF Fewer
    <3>6. ASSUME m.arena # First
          PROVE  /\ m.arena \in ToSet(c2)
                 /\ ar2[m.arena].base <= m.avail /\ m.avail <= ar2[m.arena].avail
                 /\ \A j \in 1..m.count :
                     /\ NotAfter(c2, h2[j].arena, m.arena)
                     /\ h2[j].arena = m.arena => h2[j].off + h2[j].size <= m.avail
                 /\ \A j \in m.count + 1..Len(h2) : h2[j].arena = m.arena => m.avail <= h2[j].off
                 /\ \A y \in ToSet(c2) :
                     NotAfter(c2, y, m.arena) => \E j \in 1..m.count : Begins(p, ar2, h2[j], y)
      <4>1. m.arena \in ToSet(c2)
        BY <1>4, <3>3, <3>6
      <4>2. ar2[m.arena].base <= m.avail /\ m.avail <= ar2[m.arena].avail
        BY <3>1, <3>3, <3>6 DEF Divides
      <4>3. ASSUME NEW j \in 1..m.count
            PROVE  /\ NotAfter(c2, h2[j].arena, m.arena)
                   /\ h2[j].arena = m.arena => h2[j].off + h2[j].size <= m.avail
        <5>1. h2[j] = h[j] /\ h[j].arena \in ToSet(c) \ {a}
          BY <1>6, <3>5
        <5> QED BY <1>4, <3>1, <3>3, <3>6, <5>1 DEF Divides
      <4>4. ASSUME NEW j \in m.count + 1..Len(h2), h2[j].arena = m.arena PROVE m.avail <= h2[j].off
        <5>1. PICK l \in m.count + 1..Len(h) : l \in K /\ h2[j] = h[l]
          BY <3>5
        <5> QED BY <3>1, <3>6, <4>4, <5>1 DEF Divides
      <4>5. ASSUME NEW y \in ToSet(c2), NotAfter(c2, y, m.arena)
            PROVE  \E j \in 1..m.count : Begins(p, ar2, h2[j], y)
        <5>1. y \in ToSet(c) \ {a} /\ NotAfter(c, y, m.arena)
          BY <1>4, <3>3, <3>6, <4>5
        <5>2. PICK j \in 1..m.count : Begins(p, ar, h[j], y)
          BY <3>1, <3>6, <5>1 DEF Divides
        <5> QED BY <1>7, <3>5, <5>1, <5>2
      <4> QED BY <4>1, <4>2, <4>3, <4>4, <4>5
    <3>7. Divides(p, ar2, c2, h2, m)
      BY <3>4, <3>6 DEF Divides
    <3> QED BY <3>7 DEF m
  <2>3. ASSUME NEW x \in 1..Len(ms), NEW y \in 1..Len(ms), x < y PROVE Older(c2, ms[x], ms[y])
    <3>1. Older(c, ms[x], ms[y])
      BY <1>2, <2>3 DEF Marked
    <3> QED BY <1>4, <2>1, <3>1 DEF Older
  <2> QED BY <2>2, <2>3 DEF Marked
<1> QED BY <1>4, <1>8, <1>9, <1>10 DEF Sound

\* The allocation at k ends at its arena's cursor and does not begin the arena:
\* the cursor goes back to where it starts.
LEMMA CursorDrawnBack ==
  ASSUME NEW p \in Pools, NEW ar, NEW c, NEW h, NEW ms, Domains(ar, c, h, ms), Sound(p, ar, c, h, ms),
         NEW k \in 1..Len(h), \A x \in 1..Len(ms) : ms[x].count < k,
         NEW a, a = h[k].arena, h[k].off # ar[a].base, ar[a].avail = h[k].off + h[k].size,
         NEW ar2, NEW h2, Domains(ar2, c, h2, ms),
         MovedTo(ar, ar2, a, h[k].off),
         Len(h2) = Len(h) - 1, \A j \in 1..Len(h) - 1 : h2[j] = IF j < k THEN h[j] ELSE h[j + 1]
  PROVE  Sound(p, ar2, c, h2, ms)
<1>m. /\ \A x \in ArenaIds : x # a => ar2[x] = ar[x]
      /\ ar2[a].total = ar[a].total /\ ar2[a].base = ar[a].base /\ ar2[a].back = ar[a].back
      /\ ar2[a].avail = h[k].off
  BY DEF MovedTo
<1> USE <1>m
<1>1. /\ \A x \in ArenaIds : /\ ar[x].total \in Nat /\ ar[x].base \in Nat /\ ar[x].avail \in Nat
      /\ Len(c) \in Nat /\ \A i \in 1..Len(c) : c[i] \in ArenaIds /\ c[i] \in ToSet(c)
      /\ ToSet(c) \subseteq ArenaIds
      /\ Len(h) \in Nat
      /\ \A j \in 1..Len(h) : h[j].arena \in ArenaIds /\ h[j].off \in Nat /\ h[j].size \in Nat
      /\ \A x \in 1..Len(ms) : /\ ms[x].arena \in ArenaIds \cup {First} /\ ms[x].count \in Nat
                               /\ ms[x].avail \in Nat
  BY Typed
<1>2. /\ Chained(p, ar, c, h) /\ Placed(ar, c, h) /\ Marked(p, ar, c, h, ms) /\ NoTwice(c)
  BY DEF Sound
<1> DEFINE K == AllBut(h, k)
<1>3. Fewer(h, h2, K)
  BY <1>1, HeldFewer
<1>k. /\ \A l : l \in K <=> l \in 1..Len(h) /\ l # k
      /\ \A n \in Nat : n < k => 1..n \subseteq K
  BY <1>1 DEF AllBut
<1> HIDE DEF K
<1>4. /\ a \in ArenaIds /\ a \in ToSet(c) /\ h[k].size >= 1 /\ h[k].off \in Nat /\ h[k].size \in Nat
      /\ ar[a].base <= h[k].off /\ ar[a].base \in Nat /\ ar[a].total \in Nat /\ ar[a].avail \in Nat
  <2>1. a \in ArenaIds /\ a \in ToSet(c) /\ Inside(ar, h[k])
    BY <1>1, <1>2 DEF Placed
  <2> QED BY <1>1, <2>1 DEF Inside
<1>5. \A x \in ArenaIds : ar2[x].base = ar[x].base /\ ar2[x].total = ar[x].total /\ ar2[x].back = ar[x].back
  <2> TAKE x \in ArenaIds
  <2>1. CASE x = a
    BY <2>1
  <2>2. CASE x # a
    BY <2>2
  <2> QED BY <2>1, <2>2
<1>6. \A x \in ArenaIds : \A block : Begins(p, ar, block, x) => Begins(p, ar2, block, x)
  BY <1>5 DEF Begins
\* The others in the arena lie below.
<1>7. ASSUME NEW l \in 1..Len(h), l # k, h[l].arena = a PROVE h[l].off + h[l].size <= h[k].off
  <2>1. Apart(h[l], h[k]) /\ Inside(ar, h[l])
    BY <1>2, <1>7 DEF Placed
  <2>2. h[l].off \in Nat /\ h[l].size \in Nat
    BY <1>1
  <2>3. h[l].off + h[l].size <= ar[a].avail /\ h[l].size >= 1
    BY <1>7, <2>1 DEF Inside
  <2>4. h[l].off + h[l].size <= h[k].off \/ h[k].off + h[k].size <= h[l].off
    BY <1>7, <2>1 DEF Apart
  <2>5. ar[a].avail = h[k].off + h[k].size
    OBVIOUS
  <2> QED BY ONLY <1>4, <2>2, <2>3, <2>4, <2>5
<1>8. Chained(p, ar2, c, h2)
  <2>1. ASSUME NEW i \in 1..Len(c)
        PROVE  /\ Formed(p, ar2[c[i]])
               /\ ar2[c[i]].base = 1 => ar2[c[i]].back = Before(c, i)
               /\ \E j \in 1..Len(h2) : Begins(p, ar2, h2[j], c[i])
    <3>1. PICK l \in 1..Len(h) : Begins(p, ar, h[l], c[i])
      BY <1>2 DEF Chained
    <3>2. l # k
      BY <3>1 DEF Begins
    <3>3. PICK j \in 1..Len(h2) : h2[j] = h[l]
      BY <1>3, <1>k, <3>2 DEF Fewer
    <3>4. c[i] \in ArenaIds /\ Formed(p, ar[c[i]]) /\ (ar[c[i]].base = 1 => ar[c[i]].back = Before(c, i))
      BY <1>1, <1>2 DEF Chained
    <3>5. Begins(p, ar2, h2[j], c[i])
      BY <1>6, <3>1, <3>3, <3>4
    <3>6. Formed(p, ar2[c[i]])
      <4>1. CASE c[i] = a
        <5>1. ar2[a].base <= ar2[a].avail /\ ar2[a].avail <= ar2[a].total
          <6>1. ar[a].avail <= ar[a].total
            BY <3>4, <4>1 DEF Formed
          <6>2. /\ ar2[a].base = ar[a].base /\ ar2[a].total = ar[a].total /\ ar2[a].avail = h[k].off
                /\ ar[a].avail = h[k].off + h[k].size
            OBVIOUS
          <6> QED BY ONLY <1>4, <6>1, <6>2
        <5> QED BY <1>4, <1>5, <3>4, <4>1, <5>1 DEF Formed
      <4>2. CASE c[i] # a
        BY <3>4, <4>2
      <4> QED BY <4>1, <4>2
    <3> QED BY <1>5, <3>4, <3>5, <3>6
  <2> QED BY <2>1 DEF Chained
<1>9. Placed(ar2, c, h2)
  <2>1. ASSUME NEW j \in 1..Len(h2) PROVE h2[j].arena \in ToSet(c) /\ Inside(ar2, h2[j])
    <3>1. PICK l \in 1..Len(h) : l # k /\ h2[j] = h[l]
      BY <1>3, <1>k DEF Fewer
    <3>2. h[l].arena \in ToSet(c) /\ Inside(ar, h[l])
      BY <1>2 DEF Placed
    <3>3. CASE h[l].arena = a
      <4>1. h[l].off + h[l].size <= ar2[a].avail
        BY <1>7, <3>1, <3>3
      <4>2. Inside(ar2, h[l])
        BY <3>2, <3>3, <4>1 DEF Inside
      <4> QED BY <3>1, <3>2, <4>2
    <3>4. CASE h[l].arena # a
      <4>1. ar2[h[l].arena] = ar[h[l].arena]
        BY <1>1, <3>4
      <4>2. Inside(ar2, h[l])
        BY <3>2, <4>1 DEF Inside
      <4> QED BY <3>1, <3>2, <4>2
    <3> QED BY <3>3, <3>4
  <2> QED BY <1>2, <1>3, <2>1 DEF Placed, Fewer
<1>10. Marked(p, ar2, c, h2, ms)
  <2>1. ASSUME NEW x \in 1..Len(ms) PROVE Divides(p, ar2, c, h2, ms[x])
    <3> DEFINE m == ms[x]
    <3>1. Divides(p, ar, c, h, m) /\ m.count < k
      BY <1>2 DEF Marked
    <3>2. m.arena \in ArenaIds \cup {First} /\ m.count \in Nat /\ m.avail \in Nat
      BY <1>1
    <3> HIDE DEF m
    <3>k. 1..m.count \subseteq K
      BY <1>k, <3>1, <3>2
    <3>3. m.count <= Len(h2) /\ (m.arena = First => m.count = 0)
      BY <1>3, <3>1, <3>2, <3>k DEF Divides, Fewer
    <3>4. /\ \A j \in 1..m.count : j \in 1..Len(h) /\ j # k /\ h2[j] = h[j]
          /\ \A j \in m.count + 1..Len(h2) : \E l \in m.count + 1..Len(h) : l # k /\ h2[j] = h[l]
      BY <1>3, <1>k, <3>1, <3>2, <3>k DEF Fewer
    <3>5. ASSUME m.arena # First
          PROVE  /\ m.arena \in ToSet(c)
                 /\ ar2[m.arena].base <= m.avail /\ m.avail <= ar2[m.arena].avail
                 /\ \A j \in 1..m.count :
                     /\ NotAfter(c, h2[j].arena, m.arena)
                     /\ h2[j].arena = m.arena => h2[j].off + h2[j].size <= m.avail
                 /\ \A j \in m.count + 1..Len(h2) : h2[j].arena = m.arena => m.avail <= h2[j].off
                 /\ \A y \in ToSet(c) :
                     NotAfter(c, y, m.arena) => \E j \in 1..m.count : Begins(p, ar2, h2[j], y)
      <4>1. m.arena \in ToSet(c) /\ ar[m.arena].base <= m.avail /\ m.avail <= ar[m.arena].avail
        BY <3>1, <3>5 DEF Divides
      <4>2. ar2[m.arena].base <= m.avail /\ m.avail <= ar2[m.arena].avail
        <5>1. CASE m.arena = a
          <6>1. k \in m.count + 1..Len(h)
            BY <3>1, <3>2
          <6>2. m.avail <= h[k].off
            BY <3>1, <3>5, <5>1, <6>1 DEF Divides
          <6> QED BY <4>1, <5>1, <6>2
        <5>2. CASE m.arena # a
          BY <1>1, <4>1, <5>2
        <5> QED BY <5>1, <5>2
      <4>3. ASSUME NEW j \in 1..m.count
            PROVE  /\ NotAfter(c, h2[j].arena, m.arena)
                   /\ h2[j].arena = m.arena => h2[j].off + h2[j].size <= m.avail
        BY <3>1, <3>4, <3>5 DEF Divides
      <4>4. ASSUME NEW j \in m.count + 1..Len(h2), h2[j].arena = m.arena PROVE m.avail <= h2[j].off
        <5>1. PICK l \in m.count + 1..Len(h) : l # k /\ h2[j] = h[l]
          BY <3>4
        <5> QED BY <3>1, <3>5, <4>4, <5>1 DEF Divides
      <4>5. ASSUME NEW y \in ToSet(c), NotAfter(c, y, m.arena)
            PROVE  \E j \in 1..m.count : Begins(p, ar2, h2[j], y)
        <5>1. PICK j \in 1..m.count : Begins(p, ar, h[j], y)
          BY <3>1, <3>5, <4>5 DEF Divides
        <5>2. y \in ArenaIds
          BY <1>1
        <5> QED BY <1>6, <3>4, <5>1, <5>2
      <4> QED BY <4>1, <4>2, <4>3, <4>4, <4>5
    <3>6. Divides(p, ar2, c, h2, m)
      BY <3>3, <3>5 DEF Divides
    <3> QED BY <3>6 DEF m
  <2> QED BY <1>2, <2>1 DEF Marked
<1> QED BY <1>2, <1>8, <1>9, <1>10 DEF Sound

\* The last mark is released: its arena is the last of the chain again.
LEMMA Released ==
  ASSUME NEW p \in Pools, NEW ar, NEW c, NEW h, NEW ms, Domains(ar, c, h, ms), Sound(p, ar, c, h, ms),
         NEW n \in Nat, Len(ms) = n + 1, NEW m, m = ms[n + 1], m.arena # First,
         NEW ar2, NEW c2, NEW h2, NEW ms2, Domains(ar2, c2, h2, ms2),
         Begin(c, c2), Len(c2) \in 1..Len(c), c[Len(c2)] = m.arena,
         \A x \in ToSet(c2) : x # m.arena => ar2[x] = ar[x],
         ar2[m.arena].total = ar[m.arena].total, ar2[m.arena].base = ar[m.arena].base,
         ar2[m.arena].back = ar[m.arena].back, ar2[m.arena].avail = m.avail,
         Len(h2) = m.count, \A k \in 1..m.count : h2[k] = h[k],
         Len(ms2) = n, \A x \in 1..n : ms2[x] = ms[x]
  PROVE  Sound(p, ar2, c2, h2, ms2)
<1>1. /\ \A x \in ArenaIds : ar[x].total \in Nat /\ ar[x].base \in Nat /\ ar[x].avail \in Nat
      /\ Len(c) \in Nat /\ \A i \in 1..Len(c) : c[i] \in ArenaIds /\ c[i] \in ToSet(c)
      /\ ToSet(c) \subseteq ArenaIds /\ c \in Seq(ArenaIds) /\ First \notin ArenaIds
      /\ Len(h) \in Nat
      /\ \A j \in 1..Len(h) : h[j].arena \in ArenaIds /\ h[j].off \in Nat /\ h[j].size \in Nat
      /\ \A x \in 1..Len(ms) : /\ ms[x].arena \in ArenaIds \cup {First} /\ ms[x].count \in Nat
                               /\ ms[x].avail \in Nat
  <2>1. Domains(ar, c, h, ms)
    OBVIOUS
  <2> QED BY ONLY <2>1, Typed
<1>2. /\ Chained(p, ar, c, h) /\ Placed(ar, c, h) /\ Marked(p, ar, c, h, ms) /\ NoTwice(c)
  BY DEF Sound
<1>3. c2 \in Seq(ArenaIds)
  BY DEF Domains
<1>4. /\ ToSet(c2) \subseteq ToSet(c) /\ NoTwice(c2)
      /\ \A i \in 1..Len(c2), a \in ToSet(c) : NotAfter(c, a, c[i]) => a \in ToSet(c2)
      /\ \A a, b \in ToSet(c2) : NotAfter(c2, a, b) <=> NotAfter(c, a, b)
  BY <1>1, <1>2, <1>3, PrefixOrder
<1>5. \A i \in 1..Len(c2) : i \in 1..Len(c) /\ c2[i] = c[i] /\ c[i] \in ToSet(c2)
  <2>1. \A i \in 1..Len(c2) : c2[i] \in ToSet(c2)
    BY <1>3, Members
  <2> QED BY <1>1, <2>1 DEF Begin
<1>6. Len(c2) \in 1..Len(c2)
  OBVIOUS
<1>7. m.arena \in ToSet(c2) /\ \A a \in ToSet(c) : NotAfter(c, a, m.arena) => a \in ToSet(c2)
  BY <1>4, <1>5, <1>6
<1>8. Divides(p, ar, c, h, m) /\ n + 1 \in 1..Len(ms) /\ m.count \in Nat /\ m.avail \in Nat
  BY <1>1, <1>2 DEF Marked
<1>9. /\ m.count <= Len(h) /\ ar[m.arena].base <= m.avail /\ m.avail <= ar[m.arena].avail
      /\ \A k \in 1..m.count :
          /\ NotAfter(c, h[k].arena, m.arena)
          /\ h[k].arena = m.arena => h[k].off + h[k].size <= m.avail
      /\ \A a \in ToSet(c) : NotAfter(c, a, m.arena) => \E k \in 1..m.count : Begins(p, ar, h[k], a)
  BY <1>8 DEF Divides
<1>10. \A k \in 1..m.count : k \in 1..Len(h) /\ h2[k] = h[k] /\ h[k].arena \in ToSet(c2)
  <2> TAKE k \in 1..m.count
  <2>1. k \in 1..Len(h)
    BY <1>1, <1>8, <1>9
  <2>2. h[k].arena \in ToSet(c)
    BY <1>2, <2>1 DEF Placed
  <2> QED BY <1>7, <1>9, <2>1, <2>2
<1>11. \A x \in ToSet(c2) : /\ ar2[x].total = ar[x].total /\ ar2[x].base = ar[x].base
                            /\ ar2[x].back = ar[x].back
  <2> TAKE x \in ToSet(c2)
  <2>1. CASE x = m.arena
    BY <2>1
  <2>2. CASE x # m.arena
    BY <2>2
  <2> QED BY <2>1, <2>2
<1>12. \A x \in ToSet(c2) : \A block : Begins(p, ar, block, x) => Begins(p, ar2, block, x)
  BY <1>11 DEF Begins
<1>13. Chained(p, ar2, c2, h2)
  <2>1. ASSUME NEW i \in 1..Len(c2)
        PROVE  /\ Formed(p, ar2[c2[i]])
               /\ ar2[c2[i]].base = 1 => ar2[c2[i]].back = Before(c2, i)
               /\ \E k \in 1..Len(h2) : Begins(p, ar2, h2[k], c2[i])
    <3>1. i \in 1..Len(c) /\ c2[i] = c[i] /\ c[i] \in ToSet(c2) /\ c[i] \in ToSet(c)
      BY <1>4, <1>5
    <3>2. Formed(p, ar[c[i]]) /\ (ar[c[i]].base = 1 => ar[c[i]].back = Before(c, i))
      BY <1>2, <3>1 DEF Chained
    <3>3. Before(c2, i) = Before(c, i)
      <4>1. i # 1 => i - 1 \in 1..Len(c2)
        BY <1>1
      <4> QED BY <1>5, <4>1 DEF Before
    <3>4. Formed(p, ar2[c[i]])
      <4>1. CASE c[i] = m.arena
        <5>1. m.avail <= ar[m.arena].total
          <6>1. m.arena \in ArenaIds /\ ar[m.arena].avail <= ar[m.arena].total
            BY <1>1, <3>1, <3>2, <4>1 DEF Formed
          <6>2. ar[m.arena].avail \in Nat /\ ar[m.arena].total \in Nat
            BY <1>1, <6>1
          <6> QED BY ONLY <1>8, <1>9, <6>1, <6>2
        <5> QED BY <1>9, <3>2, <4>1, <5>1 DEF Formed
      <4>2. CASE c[i] # m.arena
        BY <3>1, <3>2, <4>2
      <4> QED BY <4>1, <4>2
    <3>5. NotAfter(c, c[i], m.arena)
      <4>1. i <= Len(c2) /\ Len(c2) \in 1..Len(c)
        BY <1>1
      <4> QED BY <1>1, <1>2, <3>1, <4>1, OrderAt
    <3>6. PICK k \in 1..m.count : Begins(p, ar, h[k], c[i])
      BY <1>9, <3>1, <3>5
    <3>7. Begins(p, ar2, h2[k], c[i])
      BY <1>10, <1>12, <3>1, <3>6
    <3> QED BY <1>11, <3>1, <3>2, <3>3, <3>4, <3>7
  <2> QED BY <2>1 DEF Chained
<1>14. Placed(ar2, c2, h2)
  <2>1. ASSUME NEW k \in 1..Len(h2) PROVE h2[k].arena \in ToSet(c2) /\ Inside(ar2, h2[k])
    <3>1. k \in 1..Len(h) /\ h2[k] = h[k] /\ h[k].arena \in ToSet(c2)
      BY <1>10
    <3>2. Inside(ar, h[k])
      BY <1>2, <3>1 DEF Placed
    <3>3. CASE h[k].arena = m.arena
      <4>1. h[k].off + h[k].size <= m.avail
        BY <1>9, <3>3
      <4>2. Inside(ar2, h[k])
        BY <3>2, <3>3, <4>1 DEF Inside
      <4> QED BY <3>1, <4>2
    <3>4. CASE h[k].arena # m.arena
      <4>1. Inside(ar2, h[k])
        BY <3>1, <3>2, <3>4 DEF Inside
      <4> QED BY <3>1, <4>1
    <3> QED BY <3>3, <3>4
  <2>2. ASSUME NEW j \in 1..Len(h2), NEW k \in 1..Len(h2), j # k PROVE Apart(h2[j], h2[k])
    BY <1>2, <1>10, <2>2 DEF Placed
  <2> QED BY <2>1, <2>2 DEF Placed
<1>15. \A x \in 1..n : x \in 1..Len(ms) /\ ms2[x] = ms[x] /\ x < n + 1
  OBVIOUS
<1>16. ASSUME NEW x \in 1..n, ms[x].arena # First PROVE ms[x].arena \in ToSet(c2)
  <2>1. Divides(p, ar, c, h, ms[x]) /\ Older(c, ms[x], m)
    BY <1>2, <1>8, <1>15 DEF Marked
  <2> QED BY <1>7, <1>16, <2>1 DEF Divides, Older
<1>17. Marked(p, ar2, c2, h2, ms2)
  <2>1. ASSUME NEW x \in 1..n PROVE Divides(p, ar2, c2, h2, ms[x])
    <3> DEFINE o == ms[x]
    <3>1. Divides(p, ar, c, h, o) /\ Older(c, o, m)
      BY <1>2, <1>8, <1>15 DEF Marked
    <3>2. o.arena \in ArenaIds \cup {First} /\ o.count \in Nat /\ o.avail \in Nat
      BY <1>1, <1>15
    <3>3. o.arena # First => o.arena \in ToSet(c2)
      BY <1>16
    <3> HIDE DEF o
    <3>4. o.count <= Len(h2) /\ (o.arena = First => o.count = 0)
      BY <3>1 DEF Divides, Older
    <3>5. \A k \in 1..o.count : k \in 1..m.count
      BY <1>8, <3>2, <3>4
    <3>6. ASSUME o.arena # First
          PROVE  /\ o.arena \in ToSet(c2)
                 /\ ar2[o.arena].base <= o.avail /\ o.avail <= ar2[o.arena].avail
                 /\ \A k \in 1..o.count :
                     /\ NotAfter(c2, h2[k].arena, o.arena)
                     /\ h2[k].arena = o.arena => h2[k].off + h2[k].size <= o.avail
                 /\ \A k \in o.count + 1..Len(h2) : h2[k].arena = o.arena => o.avail <= h2[k].off
                 /\ \A y \in ToSet(c2) :
                     NotAfter(c2, y, o.arena) => \E k \in 1..o.count : Begins(p, ar2, h2[k], y)
      <4>1. o.arena \in ToSet(c) /\ ar[o.arena].base <= o.avail /\ o.avail <= ar[o.arena].avail
        BY <3>1, <3>6 DEF Divides
      <4>2. ar2[o.arena].base <= o.avail /\ o.avail <= ar2[o.arena].avail
        <5>1. CASE o.arena = m.arena
          BY <3>1, <3>6, <4>1, <5>1 DEF Older
        <5>2. CASE o.arena # m.arena
          BY <3>3, <3>6, <4>1, <5>2
        <5> QED BY <5>1, <5>2
      <4>3. ASSUME NEW k \in 1..o.count
            PROVE  /\ NotAfter(c2, h2[k].arena, o.arena)
                   /\ h2[k].arena = o.arena => h2[k].off + h2[k].size <= o.avail
        <5>1. h2[k] = h[k] /\ h[k].arena \in ToSet(c2)
          BY <1>10, <3>5
        <5> QED BY <1>4, <3>1, <3>3, <3>6, <5>1 DEF Divides
      <4>4. ASSUME NEW k \in o.count + 1..Len(h2), h2[k].arena = o.arena PROVE o.avail <= h2[k].off
        <5>1. k \in o.count + 1..Len(h) /\ k \in 1..m.count
          BY <1>1, <1>8, <1>9, <3>2
        <5> QED BY <1>10, <3>1, <3>6, <4>4, <5>1 DEF Divides
      <4>5. ASSUME NEW y \in ToSet(c2), NotAfter(c2, y, o.arena)
            PROVE  \E k \in 1..o.count : Begins(p, ar2, h2[k], y)
        <5>1. y \in ToSet(c) /\ NotAfter(c, y, o.arena)
          BY <1>4, <3>3, <3>6, <4>5
        <5>2. PICK k \in 1..o.count : Begins(p, ar, h[k], y)
          BY <3>1, <3>6, <5>1 DEF Divides
        <5> QED BY <1>10, <1>12, <3>5, <5>2
      <4> QED BY <3>3, <3>6, <4>2, <4>3, <4>4, <4>5
    <3>7. Divides(p, ar2, c2, h2, o)
      BY <3>4, <3>6 DEF Divides
    <3> QED BY <3>7 DEF o
  <2>2. ASSUME NEW x \in 1..n, NEW y \in 1..n, x < y PROVE Older(c2, ms[x], ms[y])
    <3>1. Older(c, ms[x], ms[y])
      BY <1>2, <1>15, <2>2 DEF Marked
    <3> QED BY <1>4, <1>16, <3>1 DEF Older
  <2> QED BY <1>15, <2>1, <2>2 DEF Marked
<1> QED BY <1>4, <1>13, <1>14, <1>17 DEF Sound

\* The last mark was set in the empty pool.
LEMMA ReleasedAll ==
  ASSUME NEW p \in Pools, NEW ar, NEW c, NEW h, NEW ms, Domains(ar, c, h, ms), Sound(p, ar, c, h, ms),
         NEW n \in Nat, Len(ms) = n + 1, NEW m, m = ms[n + 1], m.arena = First,
         NEW ar2, NEW c2, NEW h2, NEW ms2, Len(c2) = 0, Len(h2) = m.count,
         Len(ms2) = n, \A x \in 1..n : ms2[x] = ms[x]
  PROVE  Sound(p, ar2, c2, h2, ms2)
<1>1. \A x \in 1..Len(ms) : ms[x].count \in Nat
  <2>1. Domains(ar, c, h, ms)
    OBVIOUS
  <2> QED BY ONLY <2>1, Typed
<1>2. n + 1 \in 1..Len(ms) /\ \A x \in 1..n : x \in 1..Len(ms) /\ x < n + 1
  OBVIOUS
<1>3. m.count = 0
  BY <1>2 DEF Sound, Marked, Divides
<1>4. \A x \in 1..n : ms2[x] = ms[x] /\ ms[x].arena = First /\ ms[x].count = 0
  <2> TAKE x \in 1..n
  <2>1. Older(c, ms[x], m) /\ Divides(p, ar, c, h, ms[x])
    BY <1>2 DEF Sound, Marked
  <2> QED BY <2>1 DEF Older, Divides
<1>5. NoTwice(c2) /\ Chained(p, ar2, c2, h2) /\ Placed(ar2, c2, h2)
  BY <1>3 DEF NoTwice, Chained, Placed
<1>6. Marked(p, ar2, c2, h2, ms2)
  BY <1>3, <1>4 DEF Marked, Divides, Older
<1> QED BY <1>5, <1>6 DEF Sound

LEMMA EmptyPool == \A p, ar : Sound(p, ar, <<>>, <<>>, <<>>)
BY DEF Sound, NoTwice, Chained, Placed, Marked

----------------------------------------------------------------------------
(* The pools together.                                                     *)

Types ==
    /\ arena \in [ArenaIds -> ArenaRecords] /\ arenas \in [Pools -> Seq(ArenaIds)]
    /\ arenaFreelist \in Seq(ArenaIds)
    /\ held \in [Pools -> Seq(Blocks)] /\ marks \in [Pools -> Seq(Cursors)]

\* An arena is in one list, and there once, or malloc's.
Listed ==
    /\ NoTwice(arenaFreelist)
    /\ \A p \in Pools : ToSet(arenas[p]) \cap ToSet(arenaFreelist) = {}
    /\ \A p, q \in Pools : p # q => ToSet(arenas[p]) \cap ToSet(arenas[q]) = {}
    /\ \A a \in ArenaIds :
        arena[a].total > 0 <=> a \in ToSet(arenaFreelist) \/ \E p \in Pools : a \in ToSet(arenas[p])

PoolInv ==
    /\ Types /\ Listed
    /\ \A p \in Pools : Sound(p, arena, arenas[p], held[p], marks[p])

\* What a step of pool p may touch: what is in no other pool.
Mine(p) == {a \in ArenaIds : \A q \in Pools : a \in ToSet(arenas[q]) => q = p}

LEMMA PoolTyped ==
  ASSUME Types, NEW p \in Pools
  PROVE  Domains(arena, arenas[p], held[p], marks[p]) /\ ToSet(arenas[p]) \subseteq ArenaIds
<1>1. Domains(arena, arenas[p], held[p], marks[p])
  BY DEF Types, Domains
<1> QED BY <1>1, Typed

LEMMA MineAre ==
  ASSUME Types, Listed, NEW p \in Pools
  PROVE  /\ ToSet(arenas[p]) \subseteq Mine(p) /\ ToSet(arenaFreelist) \subseteq Mine(p)
         /\ \A a \in ArenaIds : arena[a].total = 0 => a \in Mine(p)
         /\ \A a \in Mine(p) : arena[a].total > 0 <=> a \in ToSet(arenas[p]) \/ a \in ToSet(arenaFreelist)
<1>1. ToSet(arenaFreelist) \subseteq ArenaIds
  <2>1. arenaFreelist \in Seq(ArenaIds)
    BY DEF Types
  <2> QED BY <2>1, Members
<1>2. \A q \in Pools : ToSet(arenas[q]) \subseteq ArenaIds
  BY PoolTyped
<1>3. \A a \in ArenaIds : arena[a].total = 0 => ~(arena[a].total > 0)
  BY DEF Types, ArenaRecords
<1> QED BY <1>1, <1>2, <1>3 DEF Mine, Listed

LEMMA PoolSteps ==
  ASSUME PoolInv, NEW p \in Pools,
         NEW ar \in [ArenaIds -> ArenaRecords], NEW c \in Seq(ArenaIds), NEW f \in Seq(ArenaIds),
         NEW h \in Seq(Blocks), NEW ms \in Seq(Cursors),
         arena' = ar, arenas' = [arenas EXCEPT ![p] = c], arenaFreelist' = f,
         held' = [held EXCEPT ![p] = h], marks' = [marks EXCEPT ![p] = ms],
         Sound(p, ar, c, h, ms), NoTwice(f), ToSet(c) \cap ToSet(f) = {},
         ToSet(c) \subseteq Mine(p), ToSet(f) \subseteq Mine(p),
         \A a \in ArenaIds \ Mine(p) : ar[a] = arena[a],
         \A a \in Mine(p) : ar[a].total > 0 <=> a \in ToSet(c) \/ a \in ToSet(f)
  PROVE  PoolInv'
<1>1. Types'
  BY DEF PoolInv, Types
<1>2. /\ arenas \in [Pools -> Seq(ArenaIds)] /\ held \in [Pools -> Seq(Blocks)]
      /\ marks \in [Pools -> Seq(Cursors)]
  BY DEF PoolInv, Types
<1>3. /\ arenas'[p] = c /\ held'[p] = h /\ marks'[p] = ms
      /\ \A q \in Pools : q # p => arenas'[q] = arenas[q] /\ held'[q] = held[q] /\ marks'[q] = marks[q]
  BY <1>2
<1>4. \A q \in Pools : q # p => ToSet(arenas[q]) \subseteq ArenaIds \ Mine(p)
  BY PoolTyped DEF PoolInv, Mine
<1>5. \A q, r \in Pools : q # r => ToSet(arenas[q]) \cap ToSet(arenas[r]) = {}
  BY DEF PoolInv, Listed
<1>6. Listed'
  <2>1. ASSUME NEW q \in Pools PROVE ToSet(arenas'[q]) \cap ToSet(f) = {}
    BY <1>3, <1>4
  <2>2. ASSUME NEW q \in Pools, NEW r \in Pools, q # r PROVE ToSet(arenas'[q]) \cap ToSet(arenas'[r]) = {}
    <3>1. CASE q # p /\ r # p
      BY <1>3, <1>5, <2>2, <3>1
    <3>2. CASE q = p
      BY <1>3, <1>4, <2>2, <3>2
    <3>3. CASE r = p
      BY <1>3, <1>4, <2>2, <3>3
    <3> QED BY <3>1, <3>2, <3>3
  <2>3. ASSUME NEW a \in ArenaIds
        PROVE  ar[a].total > 0 <=> a \in ToSet(f) \/ \E q \in Pools : a \in ToSet(arenas'[q])
    <3>1. CASE a \in Mine(p)
      BY <1>3, <1>4, <3>1
    <3>2. CASE a \notin Mine(p)
      <4>1. PICK q \in Pools : q # p /\ a \in ToSet(arenas[q])
        BY <3>2 DEF Mine
      <4>2. arena[a].total > 0
        BY <4>1 DEF PoolInv, Listed
      <4>3. ar[a] = arena[a] /\ a \in ToSet(arenas'[q])
        BY <1>3, <3>2, <4>1
      <4> QED BY <4>2, <4>3
    <3> QED BY <3>1, <3>2
  <2> QED BY <2>1, <2>2, <2>3 DEF Listed
<1>7. ASSUME NEW q \in Pools PROVE Sound(q, ar, arenas'[q], held'[q], marks'[q])
  <2>1. CASE q = p
    BY <1>3, <2>1
  <2>2. CASE q # p
    <3>1. Domains(arena, arenas[q], held[q], marks[q]) /\ Sound(q, arena, arenas[q], held[q], marks[q])
      BY PoolTyped DEF PoolInv
    <3>2. \A a \in ToSet(arenas[q]) : ar[a] = arena[a]
      BY <1>4, <2>2
    <3>3. Sound(q, ar, arenas[q], held[q], marks[q])
      BY <3>1, <3>2, Elsewhere
    <3> QED BY <1>3, <2>2, <3>3
  <2> QED BY <2>1, <2>2
<1> QED BY <1>1, <1>6, <1>7 DEF PoolInv

\* A step of pool p to arenas ar, chain c, free list f, allocations h, marks ms.
StepOf(p, ar, c, f, h, ms) ==
    /\ ar \in [ArenaIds -> ArenaRecords] /\ c \in Seq(ArenaIds) /\ f \in Seq(ArenaIds)
    /\ h \in Seq(Blocks) /\ ms \in Seq(Cursors)
    /\ arena' = ar /\ arenas' = [arenas EXCEPT ![p] = c] /\ arenaFreelist' = f
    /\ held' = [held EXCEPT ![p] = h] /\ marks' = [marks EXCEPT ![p] = ms]
    /\ Sound(p, ar, c, h, ms) /\ NoTwice(f) /\ ToSet(c) \cap ToSet(f) = {}
    /\ ToSet(c) \subseteq Mine(p) /\ ToSet(f) \subseteq Mine(p)
    /\ \A a \in ArenaIds \ Mine(p) : ar[a] = arena[a]
    /\ \A a \in Mine(p) : ar[a].total > 0 <=> a \in ToSet(c) \/ a \in ToSet(f)

LEMMA StepKeeps ==
  ASSUME PoolInv, NEW p \in Pools, NEW ar, NEW c, NEW f, NEW h, NEW ms, StepOf(p, ar, c, f, h, ms)
  PROVE  PoolInv'
BY PoolSteps DEF StepOf

LEMMA PoolStart == ArenaInit => PoolInv
<1> SUFFICES ASSUME ArenaInit PROVE PoolInv
  OBVIOUS
<1>1. Types
  BY DEF ArenaInit, Types, Unused, ArenaRecords
<1>2. ToSet(<<>>) = {} /\ NoTwice(<<>>)
  BY DEF ToSet, NoTwice
<1>3. \A p \in Pools : arenas[p] = <<>> /\ held[p] = <<>> /\ marks[p] = <<>>
  BY DEF ArenaInit
<1>4. \A a \in ArenaIds : arena[a].total = 0
  BY DEF ArenaInit, Unused
<1>5. Listed
  BY <1>2, <1>3, <1>4 DEF ArenaInit, Listed
<1> QED BY <1>1, <1>3, <1>5, EmptyPool DEF PoolInv

LEMMA MinIn ==
  ASSUME NEW T \in SUBSET Nat, T # {} PROVE Min(T) \in T
BY SmallestExists DEF Min

LEMMA CursorSet ==
  ASSUME NEW ar \in [ArenaIds -> ArenaRecords], NEW a \in ArenaIds, NEW v \in Nat,
         NEW ar2, ar2 = [ar EXCEPT ![a].avail = v]
  PROVE  /\ ar2 \in [ArenaIds -> ArenaRecords] /\ ar2[a].avail = v /\ ar2[a].base = ar[a].base
         /\ ar2[a].total = ar[a].total /\ ar2[a].back = ar[a].back
         /\ \A x \in ArenaIds : x # a => ar2[x] = ar[x]
         /\ \A x \in ArenaIds : ar2[x].total = ar[x].total
BY DEF ArenaRecords

LEMMA Unchanged ==
  ASSUME Types, NEW p \in Pools
  PROVE  /\ [arenas EXCEPT ![p] = arenas[p]] = arenas /\ [held EXCEPT ![p] = held[p]] = held
         /\ [marks EXCEPT ![p] = marks[p]] = marks
<1>1. \A q \in Pools : /\ [arenas EXCEPT ![p] = arenas[p]][q] = arenas[q]
                       /\ [held EXCEPT ![p] = held[p]][q] = held[q]
                       /\ [marks EXCEPT ![p] = marks[p]][q] = marks[q]
  BY DEF Types
<1> QED BY <1>1 DEF Types

\* The state of a pool, and of the free list, as the lemmas above take it.
LEMMA PoolFacts ==
  ASSUME PoolInv, NEW p \in Pools
  PROVE  /\ Domains(arena, arenas[p], held[p], marks[p])
         /\ Sound(p, arena, arenas[p], held[p], marks[p])
         /\ NoTwice(arenas[p]) /\ NoTwice(arenaFreelist)
         /\ arena \in [ArenaIds -> ArenaRecords] /\ arenas[p] \in Seq(ArenaIds)
         /\ arenaFreelist \in Seq(ArenaIds) /\ held[p] \in Seq(Blocks) /\ marks[p] \in Seq(Cursors)
         /\ ToSet(arenas[p]) \cap ToSet(arenaFreelist) = {}
         /\ ToSet(arenas[p]) \subseteq Mine(p) /\ ToSet(arenaFreelist) \subseteq Mine(p)
         /\ \A a \in ArenaIds : arena[a].total = 0 => a \in Mine(p)
         /\ \A a \in Mine(p) : arena[a].total > 0 <=> a \in ToSet(arenas[p]) \/ a \in ToSet(arenaFreelist)
         /\ Mine(p) \subseteq ArenaIds
<1>1. Types /\ Listed /\ Sound(p, arena, arenas[p], held[p], marks[p])
  BY DEF PoolInv
<1>2. NoTwice(arenas[p]) /\ NoTwice(arenaFreelist) /\ ToSet(arenas[p]) \cap ToSet(arenaFreelist) = {}
  BY <1>1 DEF Sound, Listed
<1>3. /\ arena \in [ArenaIds -> ArenaRecords] /\ arenas[p] \in Seq(ArenaIds)
      /\ arenaFreelist \in Seq(ArenaIds) /\ held[p] \in Seq(Blocks) /\ marks[p] \in Seq(Cursors)
  BY <1>1 DEF Types
<1> QED BY <1>1, <1>2, <1>3, PoolTyped, MineAre DEF Mine

LEMMA AllocateHereKeeps ==
  ASSUME PoolInv, NEW p \in Pools, NEW nb \in Nat, nb >= 1, AllocateHere(p, nb)
  PROVE  PoolInv'
<1> DEFINE a == Current(p)
           c == arenas[p]
           h == held[p]
           b == Block(a, arena[a].avail, nb)
           v == arena[a].avail + nb
           ar2 == [arena EXCEPT ![a].avail = v]
           h2 == Append(h, b)
<1>1. /\ Domains(arena, c, h, marks[p]) /\ Sound(p, arena, c, h, marks[p])
      /\ arena \in [ArenaIds -> ArenaRecords] /\ c \in Seq(ArenaIds)
      /\ arenaFreelist \in Seq(ArenaIds) /\ h \in Seq(Blocks) /\ marks[p] \in Seq(Cursors)
      /\ NoTwice(arenaFreelist) /\ ToSet(c) \cap ToSet(arenaFreelist) = {}
      /\ ToSet(c) \subseteq Mine(p) /\ ToSet(arenaFreelist) \subseteq Mine(p)
      /\ \A x \in Mine(p) : arena[x].total > 0 <=> x \in ToSet(c) \/ x \in ToSet(arenaFreelist)
      /\ Mine(p) \subseteq ArenaIds
  BY PoolFacts
<1>2. Room(a) >= nb /\ arena' = ar2 /\ held' = [held EXCEPT ![p] = h2] /\ arenas' = arenas
      /\ arenaFreelist' = arenaFreelist /\ marks' = marks
  BY DEF AllocateHere, HoldBlock
<1>3. a # First
  BY <1>2 DEF Room
<1>4. a \in ToSet(c) /\ a \in ArenaIds
  <2>1. c # <<>> /\ a = c[Len(c)]
    BY <1>3 DEF Current, Last
  <2>2. Len(c) \in 1..Len(c)
    BY <1>1, <2>1
  <2> QED BY <1>1, <2>1, <2>2, Typed
<1>5. arena[a].avail \in Nat /\ arena[a].total \in Nat
  BY <1>1, <1>4, Typed
<1>6. arena[a].avail + nb <= arena[a].total /\ arena[a].avail + nb \in Nat
  <2>1. arena[a].total - arena[a].avail >= nb
    BY <1>2, <1>3 DEF Room
  <2> HIDE DEF a
  <2> QED BY <1>5, <2>1
<1>7. /\ ar2 \in [ArenaIds -> ArenaRecords] /\ ar2[a].avail = arena[a].avail + nb
      /\ ar2[a].base = arena[a].base
      /\ ar2[a].total = arena[a].total /\ ar2[a].back = arena[a].back
      /\ \A x \in ArenaIds : x # a => ar2[x] = arena[x]
      /\ \A x \in ArenaIds : ar2[x].total = arena[x].total
  <2>1. v \in Nat /\ v = arena[a].avail + nb
    BY <1>6
  <2>2. ar2 = [arena EXCEPT ![a].avail = v]
    OBVIOUS
  <2> HIDE DEF a, v, ar2
  <2> QED BY ONLY <1>1, <1>4, <2>1, <2>2, CursorSet
<1>8. b \in Blocks /\ b.arena = a /\ b.off = arena[a].avail /\ b.size = nb
  BY <1>4, <1>5 DEF Block, Blocks
<1> HIDE DEF a, b, ar2, v
<1>9. /\ h2 \in Seq(Blocks) /\ Len(h2) = Len(h) + 1 /\ h2[Len(h) + 1] = b
      /\ \A k \in 1..Len(h) : h2[k] = h[k]
  BY <1>1, <1>8
<1> HIDE DEF h2
<1>10. Domains(ar2, c, h2, marks[p])
  BY <1>1, <1>7, <1>9 DEF Domains
<1>11. Sound(p, ar2, c, h2, marks[p])
  <2> HIDE DEF c, h
  <2> DEFINE ms == marks[p]
  <2> HIDE DEF ms
  <2>1. Domains(arena, c, h, ms) /\ Sound(p, arena, c, h, ms) /\ Domains(ar2, c, h2, ms)
    BY <1>1, <1>10 DEF ms
  <2>m. MovedTo(arena, ar2, a, arena[a].avail + nb)
    BY <1>7 DEF MovedTo
  <2>2. Sound(p, ar2, c, h2, ms)
    BY <1>4, <1>6, <1>8, <1>9, <2>1, <2>m, AllocatedHere
  <2> QED BY <2>2 DEF ms
<1>12. /\ arenas' = [arenas EXCEPT ![p] = c] /\ marks' = [marks EXCEPT ![p] = marks[p]]
  BY <1>2, Unchanged DEF PoolInv
<1>13. /\ \A x \in ArenaIds \ Mine(p) : ar2[x] = arena[x]
       /\ \A x \in Mine(p) : ar2[x].total > 0 <=> x \in ToSet(c) \/ x \in ToSet(arenaFreelist)
  BY <1>1, <1>4, <1>7
<1> QED BY <1>1, <1>2, <1>7, <1>9, <1>11, <1>12, <1>13, PoolSteps

LEMMA LinkKeeps ==
  ASSUME PoolInv, NEW p \in Pools, NEW nb \in Nat, nb >= 1,
         NEW total \in Nat, NEW base \in {0, 1}, base = 1 <=> Oversized(p, nb),
         base + nb <= total, base = 0 => total = ArenaSize[p],
         base = 1 => total <= nb + 1 + ArenaSize[p],
         NEW a \in Mine(p), a \notin ToSet(arenas[p]),
         NEW f \in Seq(ArenaIds), NoTwice(f), ToSet(f) = ToSet(arenaFreelist) \ {a},
         arena' = [arena EXCEPT ![a] = [total |-> total, base |-> base,
                                       avail |-> base + nb, back |-> Current(p)]],
         arenas' = [arenas EXCEPT ![p] = Append(@, a)],
         HoldBlock(p, Block(a, base, nb)), arenaFreelist' = f, marks' = marks
  PROVE  PoolInv'
<1> DEFINE c == arenas[p]
           h == held[p]
           ms == marks[p]
           r == [total |-> total, base |-> base, avail |-> base + nb, back |-> Current(p)]
           b == Block(a, base, nb)
           ar2 == [arena EXCEPT ![a] = r]
           c2 == Append(c, a)
           h2 == Append(h, b)
<1>1. /\ Domains(arena, c, h, ms) /\ Sound(p, arena, c, h, ms)
      /\ arena \in [ArenaIds -> ArenaRecords] /\ c \in Seq(ArenaIds)
      /\ arenaFreelist \in Seq(ArenaIds) /\ h \in Seq(Blocks) /\ ms \in Seq(Cursors)
      /\ NoTwice(c) /\ ToSet(c) \cap ToSet(arenaFreelist) = {}
      /\ ToSet(c) \subseteq Mine(p) /\ ToSet(arenaFreelist) \subseteq Mine(p)
      /\ \A x \in Mine(p) : arena[x].total > 0 <=> x \in ToSet(c) \/ x \in ToSet(arenaFreelist)
      /\ Mine(p) \subseteq ArenaIds
  BY PoolFacts
<1>2. arena' = ar2 /\ arenas' = [arenas EXCEPT ![p] = c2] /\ held' = [held EXCEPT ![p] = h2]
  BY DEF HoldBlock
<1>3. a \in ArenaIds /\ total > 0
  BY <1>1
<1>4. r \in ArenaRecords /\ r.total = total /\ r.base = base /\ r.avail = base + nb
      /\ r.back = IF c = <<>> THEN First ELSE c[Len(c)]
  <2>1. Current(p) = IF c = <<>> THEN First ELSE c[Len(c)]
    BY DEF Current, Last
  <2>2. Current(p) \in ArenaIds \cup {First}
    <3>1. c # <<>> => Len(c) \in 1..Len(c)
      BY <1>1
    <3>2. c # <<>> => c[Len(c)] \in ArenaIds
      BY <1>1, <3>1
    <3> QED BY <2>1, <3>2
  <2>3. base + nb \in Nat
    OBVIOUS
  <2> QED BY <2>1, <2>2, <2>3 DEF ArenaRecords
<1>5. b \in Blocks /\ b.arena = a /\ b.off = base /\ b.size = nb
  BY <1>3 DEF Block, Blocks
<1> HIDE DEF r, b, c, h, ms
<1>6. ar2 \in [ArenaIds -> ArenaRecords] /\ ar2[a] = r /\ \A x \in ArenaIds : x # a => ar2[x] = arena[x]
  BY <1>1, <1>3, <1>4
<1>7. /\ h2 \in Seq(Blocks) /\ Len(h2) = Len(h) + 1 /\ h2[Len(h) + 1] = b
      /\ \A k \in 1..Len(h) : h2[k] = h[k]
  BY <1>1, <1>5
<1>8. c2 \in Seq(ArenaIds) /\ ToSet(c2) = ToSet(c) \cup {a}
  BY <1>1, <1>3, Appended
<1> HIDE DEF ar2, h2
<1>9. Domains(ar2, c2, h2, ms)
  BY <1>1, <1>6, <1>7, <1>8 DEF Domains
<1>10. Formed(p, r) /\ Begins(p, ar2, b, a) /\ b.size >= 1 /\ b.off + b.size <= ar2[a].avail
  <2>1. Formed(p, r)
    BY <1>4 DEF Formed
  <2>2. Begins(p, ar2, b, a)
    BY <1>4, <1>5, <1>6 DEF Begins
  <2> QED BY <1>4, <1>5, <1>6, <2>1, <2>2
<1>11. Sound(p, ar2, c2, h2, ms)
  <2>1. /\ Formed(p, ar2[a]) /\ ar2[a].back = IF c = <<>> THEN First ELSE c[Len(c)]
        /\ a \notin ToSet(c)
    BY <1>4, <1>6, <1>10 DEF c
  <2>2. c2 = Append(c, a)
    OBVIOUS
  <2> HIDE DEF c2
  <2> QED BY <1>1, <1>3, <1>6, <1>7, <1>9, <1>10, <2>1, <2>2, ArenaAdded
<1> HIDE DEF c2
<1>12. marks' = [marks EXCEPT ![p] = ms]
  BY Unchanged DEF PoolInv, ms
<1>13. /\ ToSet(c2) \cap ToSet(f) = {} /\ ToSet(c2) \subseteq Mine(p) /\ ToSet(f) \subseteq Mine(p)
       /\ \A x \in ArenaIds \ Mine(p) : ar2[x] = arena[x]
       /\ \A x \in Mine(p) : ar2[x].total > 0 <=> x \in ToSet(c2) \/ x \in ToSet(f)
  <2>1. ToSet(c2) \cap ToSet(f) = {} /\ ToSet(c2) \subseteq Mine(p) /\ ToSet(f) \subseteq Mine(p)
    BY <1>1, <1>8
  <2>2. \A x \in ArenaIds \ Mine(p) : ar2[x] = arena[x]
    BY <1>6
  <2>3. ASSUME NEW x \in Mine(p) PROVE ar2[x].total > 0 <=> x \in ToSet(c2) \/ x \in ToSet(f)
    <3>1. CASE x = a
      BY <1>3, <1>4, <1>6, <1>8, <3>1
    <3>2. CASE x # a
      <4>1. ar2[x] = arena[x]
        BY <1>1, <1>6, <3>2
      <4> QED BY <1>1, <1>8, <3>2, <4>1
    <3> QED BY <3>1, <3>2
  <2> QED BY <2>1, <2>2, <2>3
<1> QED BY <1>1, <1>2, <1>6, <1>7, <1>8, <1>11, <1>12, <1>13, PoolSteps

LEMMA AllocateArenaKeeps ==
  ASSUME PoolInv, NEW p \in Pools, NEW nb \in Nat, nb >= 1, AllocateArena(p, nb)
  PROVE  PoolInv'
<1> DEFINE fit == Fitting(p, nb)
           base == IF Oversized(p, nb) THEN 1 ELSE 0
           Link(a, total) ==
             /\ arena' = [arena EXCEPT ![a] = [total |-> total, base |-> base,
                                              avail |-> base + nb, back |-> Current(p)]]
             /\ arenas' = [arenas EXCEPT ![p] = Append(@, a)]
             /\ HoldBlock(p, Block(a, base, nb))
<1>1. /\ arenaFreelist \in Seq(ArenaIds) /\ NoTwice(arenaFreelist)
      /\ ToSet(arenas[p]) \cap ToSet(arenaFreelist) = {}
      /\ ToSet(arenaFreelist) \subseteq Mine(p) /\ Mine(p) \subseteq ArenaIds
      /\ \A a \in ArenaIds : arena[a].total = 0 => a \in Mine(p)
      /\ \A a \in Mine(p) : arena[a].total > 0 <=> a \in ToSet(arenas[p]) \/ a \in ToSet(arenaFreelist)
      /\ \A a \in ArenaIds : arena[a].total \in Nat
  BY PoolFacts, Typed
<1>2. ArenaSize[p] \in Nat /\ base \in {0, 1} /\ (base = 1 <=> Oversized(p, nb))
  BY ArenaPoolAssumption
<1>3. marks' = marks
  BY DEF AllocateArena
<1>4. CASE fit # {}
  <2> DEFINE j == Min(fit)
             a == arenaFreelist[j]
             f == RemoveAt(arenaFreelist, j)
  <2>1. Link(a, arena[a].total) /\ arenaFreelist' = f
    BY <1>4 DEF AllocateArena
  <2>2. j \in fit
    <3>1. fit \in SUBSET Nat
      BY <1>1 DEF Fitting
    <3> HIDE DEF fit
    <3> QED BY <1>4, <3>1, MinIn
  <2>3. /\ j \in 1..Len(arenaFreelist)
        /\ IF Oversized(p, nb)
           THEN arena[a].total >= Gross(p, nb) /\ arena[a].total <= Gross(p, nb) + ArenaSize[p]
           ELSE arena[a].total = Gross(p, nb)
    <3> HIDE DEF j
    <3> QED BY <1>1, <2>2 DEF Fitting
  <2> HIDE DEF fit, j
  <2>4. a \in ToSet(arenaFreelist) /\ a \in Mine(p) /\ a \in ArenaIds /\ a \notin ToSet(arenas[p])
    <3>1. a \in ToSet(arenaFreelist)
      BY <1>1, <2>3, Members
    <3> HIDE DEF a
    <3> QED BY <1>1, <3>1
  <2>5. f \in Seq(ArenaIds) /\ NoTwice(f) /\ ToSet(f) = ToSet(arenaFreelist) \ {a}
    <3>1. f = RemoveAt(arenaFreelist, j) /\ a = arenaFreelist[j]
      OBVIOUS
    <3>2. RemoveAt(arenaFreelist, j) \in Seq(ArenaIds)
      BY ONLY <1>1, <2>3, RemovedIs
    <3> HIDE DEF a, f
    <3>3. NoTwice(f) /\ ToSet(f) = ToSet(arenaFreelist) \ {a}
      BY ONLY <1>1, <2>3, <3>1, RemovedKeeps
    <3> QED BY ONLY <3>1, <3>2, <3>3
  <2>6. /\ arena[a].total \in Nat /\ base + nb <= arena[a].total
        /\ base = 0 => arena[a].total = ArenaSize[p]
        /\ base = 1 => arena[a].total <= nb + 1 + ArenaSize[p]
    <3>1. arena[a].total \in Nat
      BY <1>1, <2>4
    <3> HIDE DEF a
    <3>2. CASE Oversized(p, nb)
      BY <1>2, <2>3, <3>1, <3>2 DEF Gross
    <3>3. CASE ~Oversized(p, nb)
      <4>1. nb <= ArenaSize[p]
        BY <1>2, <3>3 DEF Oversized
      <4> QED BY <1>2, <2>3, <3>3, <4>1 DEF Gross
    <3> QED BY <3>2, <3>3
  <2> DEFINE total == arena[a].total
  <2>7. /\ arena' = [arena EXCEPT ![a] = [total |-> total, base |-> base,
                                         avail |-> base + nb, back |-> Current(p)]]
        /\ arenas' = [arenas EXCEPT ![p] = Append(@, a)]
        /\ HoldBlock(p, Block(a, base, nb))
    BY <2>1
  <2>8. total \in Nat /\ base + nb <= total /\ (base = 0 => total = ArenaSize[p])
        /\ (base = 1 => total <= nb + 1 + ArenaSize[p])
    BY <2>6
  <2> HIDE DEF a, f, total, base
  <2> QED BY <1>2, <1>3, <2>1, <2>4, <2>5, <2>7, <2>8, LinkKeeps
<1>5. CASE fit = {}
  <2> DEFINE a == Min(ArenaIds \ Malloced)
             total == Gross(p, nb)
  <2>1. Malloced # ArenaIds /\ Link(a, total) /\ arenaFreelist' = arenaFreelist
    BY <1>5 DEF AllocateArena
  <2>2. a \in ArenaIds \ Malloced
    <3>1. ArenaIds \ Malloced # {} /\ ArenaIds \ Malloced \in SUBSET Nat
      BY <2>1, ArenaPoolAssumption DEF Malloced
    <3> QED BY <3>1, MinIn
  <2> HIDE DEF a
  <2>3. a \in ArenaIds /\ ~(arena[a].total > 0)
    BY <2>2 DEF Malloced
  <2>4. a \in Mine(p) /\ a \notin ToSet(arenas[p]) /\ a \notin ToSet(arenaFreelist)
    <3>1. arena[a].total = 0
      BY <1>1, <2>3
    <3> QED BY <1>1, <2>3, <3>1
  <2>5. ToSet(arenaFreelist) = ToSet(arenaFreelist) \ {a}
    BY <2>4
  <2>6. total \in Nat /\ base + nb <= total /\ (base = 0 => total = ArenaSize[p])
        /\ (base = 1 => total <= nb + 1 + ArenaSize[p])
    <3>1. CASE Oversized(p, nb)
      BY <1>2, <3>1 DEF Gross
    <3>2. CASE ~Oversized(p, nb)
      BY <1>2, <3>2 DEF Gross, Oversized
    <3> QED BY <3>1, <3>2
  <2>7. /\ arena' = [arena EXCEPT ![a] = [total |-> total, base |-> base,
                                         avail |-> base + nb, back |-> Current(p)]]
        /\ arenas' = [arenas EXCEPT ![p] = Append(@, a)]
        /\ HoldBlock(p, Block(a, base, nb))
    BY <2>1
  <2> HIDE DEF total, base
  <2> QED BY <1>1, <1>2, <1>3, <2>1, <2>4, <2>5, <2>6, <2>7, LinkKeeps
<1> QED BY <1>4, <1>5

\* The allocation that begins an arena is the one the arena began with.
LEMMA BeginsIt ==
  ASSUME NEW p \in Pools, NEW ar, NEW c, NEW h, NEW ms, Domains(ar, c, h, ms), Sound(p, ar, c, h, ms),
         NEW k \in 1..Len(h), NEW a, a = h[k].arena, h[k].off = ar[a].base
  PROVE  Begins(p, ar, h[k], a)
<1>1. a \in ToSet(c)
  BY DEF Sound, Placed
<1>2. PICK i \in 1..Len(c) : c[i] = a
  BY <1>1, Typed
<1>3. PICK j \in 1..Len(h) : Begins(p, ar, h[j], a)
  BY <1>2 DEF Sound, Chained
<1>4. h[j].off \in Nat /\ h[j].size \in Nat /\ h[k].off \in Nat /\ h[k].size \in Nat
  BY Typed
<1>5. j = k
  <2> SUFFICES ASSUME j # k PROVE FALSE
    OBVIOUS
  <2>1. Apart(h[j], h[k]) /\ h[j].size >= 1 /\ h[k].size >= 1
    BY DEF Sound, Placed, Inside
  <2>2. h[j].arena = h[k].arena /\ h[j].off = h[k].off
    BY <1>3 DEF Begins
  <2> QED BY ONLY <1>4, <2>1, <2>2 DEF Apart
<1> QED BY <1>3, <1>5

LEMMA NoRoomAfter ==
  ASSUME NEW jo \in Nat, NEW js \in Nat, NEW ko \in Nat, NEW ks \in Nat, NEW total \in Nat,
         NEW limit \in Nat, ks > limit, ko + ks <= total, 1 <= ko, jo = 1,
         total <= js + 1 + limit, jo + js <= ko \/ ko + ks <= jo
  PROVE  FALSE
OBVIOUS

\* An oversized allocation begins its arena: the room it left is too small for
\* another.
LEMMA OversizedBegins ==
  ASSUME NEW p \in Pools, NEW ar, NEW c, NEW h, NEW ms, Domains(ar, c, h, ms), Sound(p, ar, c, h, ms),
         NEW k \in 1..Len(h), NEW a, a = h[k].arena, Oversized(p, h[k].size)
  PROVE  h[k].off = ar[a].base
<1>1. a \in ToSet(c) /\ Inside(ar, h[k])
  BY DEF Sound, Placed
<1>2. PICK i \in 1..Len(c) : c[i] = a
  BY <1>1, Typed
<1>3. Formed(p, ar[a]) /\ \E j \in 1..Len(h) : Begins(p, ar, h[j], a)
  BY <1>2 DEF Sound, Chained
<1>4. PICK j \in 1..Len(h) : Begins(p, ar, h[j], a)
  BY <1>3
<1>5. /\ h[j].off \in Nat /\ h[j].size \in Nat /\ h[k].off \in Nat /\ h[k].size \in Nat
      /\ ar[a].total \in Nat /\ ar[a].base \in {0, 1} /\ ar[a].avail \in Nat
      /\ ArenaSize[p] \in Nat
  <2>1. a \in ArenaIds
    BY <1>2, Typed
  <2> QED BY <2>1, Typed, ArenaPoolAssumption
<1>6. h[k].size > ArenaSize[p] /\ h[k].off + h[k].size <= ar[a].total /\ h[k].size >= 1
      /\ ar[a].base <= h[k].off
  <2>1. /\ h[k].off + h[k].size <= ar[a].avail /\ ar[a].avail <= ar[a].total /\ h[k].size >= 1
        /\ ar[a].base <= h[k].off
    BY <1>1, <1>3 DEF Inside, Formed
  <2>2. h[k].size > ArenaSize[p]
    BY DEF Oversized
  <2> QED BY ONLY <1>5, <2>1, <2>2
<1>7. ar[a].base = 1
  <2> SUFFICES ASSUME ar[a].base = 0 PROVE FALSE
    BY <1>5
  <2>1. ar[a].total = ArenaSize[p]
    BY <1>3 DEF Formed
  <2> QED BY ONLY <1>5, <1>6, <2>1
<1>8. h[j].arena = a /\ h[j].off = ar[a].base /\ ar[a].total <= h[j].size + 1 + ArenaSize[p]
      /\ h[j].size >= 1
  BY <1>4, <1>7 DEF Begins, Sound, Placed, Inside
<1>9. j = k
  <2> SUFFICES ASSUME j # k PROVE FALSE
    OBVIOUS
  <2>1. h[j].off + h[j].size <= h[k].off \/ h[k].off + h[k].size <= h[j].off
    BY <1>8 DEF Sound, Placed, Apart
  <2>2. h[j].off = 1 /\ 1 <= h[k].off
    BY <1>6, <1>7, <1>8
  <2> QED BY ONLY <1>5, <1>6, <1>8, <2>1, <2>2, NoRoomAfter
<1> QED BY <1>8, <1>9

\* An allocation that begins an arena.
LEMMA Whole ==
  ASSUME NEW p \in Pools, NEW ar, NEW c, NEW h, NEW ms, Domains(ar, c, h, ms), Sound(p, ar, c, h, ms),
         NEW k, NEW i, Heads(ar, c, h, ms, k, i), NEW a, a = c[i]
  PROVE  /\ Formed(p, ar[a]) /\ Begins(p, ar, h[k], a) /\ h[k].off + h[k].size <= ar[a].total
         /\ h[k].size >= 1
         /\ Oversized(p, h[k].size) => ar[a].base = 1 /\ ar[a].back = Before(c, i)
<1>0. /\ k \in 1..Len(h) /\ a = h[k].arena /\ h[k].off = ar[a].base
      /\ i \in 1..Len(c) /\ c[i] = a
  BY DEF Heads
<1> USE <1>0
<1>1. /\ Formed(p, ar[a]) /\ (ar[a].base = 1 => ar[a].back = Before(c, i))
  BY DEF Sound, Chained
<1>2. Begins(p, ar, h[k], a)
  BY BeginsIt
<1>3. /\ a \in ArenaIds /\ ar[a].total \in Nat /\ ar[a].base \in {0, 1} /\ ar[a].avail \in Nat
      /\ h[k].off \in Nat /\ h[k].size \in Nat
  BY Typed
<1>4. h[k].off + h[k].size <= ar[a].avail /\ ar[a].avail <= ar[a].total /\ h[k].size >= 1
  BY <1>1 DEF Sound, Placed, Inside, Formed
<1>5. h[k].off + h[k].size <= ar[a].total
  BY ONLY <1>3, <1>4
<1>6. ASSUME Oversized(p, h[k].size), ar[a].base = 0 PROVE FALSE
  <2>1. ar[a].total = ArenaSize[p] /\ h[k].size > ArenaSize[p] /\ ArenaSize[p] \in Nat
    BY <1>1, <1>6, ArenaPoolAssumption DEF Formed, Oversized
  <2> QED BY ONLY <1>3, <1>5, <2>1
<1> QED BY <1>1, <1>2, <1>3, <1>4, <1>5, <1>6

\* The allocations that share the arena of one that begins it are lost.
LEMMA Evicted ==
  ASSUME NEW p \in Pools, NEW ar, NEW c, NEW h, NEW ms, Domains(ar, c, h, ms), Sound(p, ar, c, h, ms),
         NEW k, NEW i, Heads(ar, c, h, ms, k, i),
         NEW h2, Fewer(h, h2, {k} \cup Outside(h, c[i])), Len(h2) \in Nat
  PROVE  Sound(p, ar, c, h2, ms)
<1> DEFINE a == c[i]
           K == {k} \cup Outside(h, a)
<1>k. \A l : l \in K <=> l = k \/ (l \in 1..Len(h) /\ h[l].arena # a)
  BY DEF Outside
<1>m. \A x \in 1..Len(ms) : 1..ms[x].count \subseteq K
  BY MarkedOutside
<1>3. Fewer(h, h2, K)
  OBVIOUS
<1> HIDE DEF K
<1>a. k \in 1..Len(h) /\ a = h[k].arena /\ h[k].off = ar[a].base /\ i \in 1..Len(c)
  BY DEF Heads
<1>b. Begins(p, ar, h[k], a)
  BY <1>a, BeginsIt
<1>1. /\ Len(h) \in Nat
      /\ \A x \in 1..Len(ms) : ms[x].count \in Nat
  BY Typed
<1>2. /\ Chained(p, ar, c, h) /\ Placed(ar, c, h) /\ Marked(p, ar, c, h, ms) /\ NoTwice(c)
  BY DEF Sound
<1> HIDE DEF a
<1>4. Chained(p, ar, c, h2)
  <2>1. ASSUME NEW j \in 1..Len(c) PROVE \E n \in 1..Len(h2) : Begins(p, ar, h2[n], c[j])
    <3>1. PICK l \in 1..Len(h) : l \in K /\ Begins(p, ar, h[l], c[j])
      <4>1. CASE c[j] = a
        BY <1>a, <1>b, <1>k, <4>1
      <4>2. CASE c[j] # a
        <5>1. PICK l \in 1..Len(h) : Begins(p, ar, h[l], c[j])
          BY <1>2 DEF Chained
        <5>2. h[l].arena # a
          BY <4>2, <5>1 DEF Begins
        <5> QED BY <1>k, <5>1, <5>2
      <4> QED BY <4>1, <4>2
    <3>2. PICK n \in 1..Len(h2) : h2[n] = h[l]
      BY <1>3, <3>1 DEF Fewer
    <3> QED BY <3>1, <3>2
  <2> QED BY <1>2, <2>1 DEF Chained
<1>5. Placed(ar, c, h2)
  <2>1. ASSUME NEW j \in 1..Len(h2) PROVE h2[j].arena \in ToSet(c) /\ Inside(ar, h2[j])
    <3>1. PICK l \in K : h2[j] = h[l]
      BY <1>3 DEF Fewer
    <3>2. l \in 1..Len(h)
      BY <1>a, <1>k
    <3> QED BY <1>2, <3>1, <3>2 DEF Placed
  <2> QED BY <1>2, <1>3, <2>1 DEF Placed, Fewer
<1>6. Marked(p, ar, c, h2, ms)
  <2>1. ASSUME NEW x \in 1..Len(ms) PROVE Divides(p, ar, c, h2, ms[x])
    <3> DEFINE m == ms[x]
    <3>1. Divides(p, ar, c, h, m) /\ m.count \in Nat /\ 1..m.count \subseteq K
      BY <1>1, <1>2, <1>m DEF Marked
    <3> HIDE DEF m
    <3>2. m.count <= Len(h2) /\ (m.arena = First => m.count = 0)
      BY <1>3, <3>1 DEF Divides, Fewer
    <3>3. /\ \A j \in 1..m.count : j \in 1..Len(h) /\ j \in K /\ h2[j] = h[j]
          /\ \A j \in m.count + 1..Len(h2) : \E l \in m.count + 1..Len(h) : l \in K /\ h2[j] = h[l]
      BY <1>3, <3>1 DEF Fewer
    <3>4. ASSUME m.arena # First
          PROVE  /\ m.arena \in ToSet(c)
                 /\ ar[m.arena].base <= m.avail /\ m.avail <= ar[m.arena].avail
                 /\ \A j \in 1..m.count :
                     /\ NotAfter(c, h2[j].arena, m.arena)
                     /\ h2[j].arena = m.arena => h2[j].off + h2[j].size <= m.avail
                 /\ \A j \in m.count + 1..Len(h2) : h2[j].arena = m.arena => m.avail <= h2[j].off
                 /\ \A y \in ToSet(c) :
                     NotAfter(c, y, m.arena) => \E j \in 1..m.count : Begins(p, ar, h2[j], y)
      <4>1. m.arena \in ToSet(c) /\ ar[m.arena].base <= m.avail /\ m.avail <= ar[m.arena].avail
        BY <3>1, <3>4 DEF Divides
      <4>2. ASSUME NEW j \in 1..m.count
            PROVE  /\ NotAfter(c, h2[j].arena, m.arena)
                   /\ h2[j].arena = m.arena => h2[j].off + h2[j].size <= m.avail
        BY <3>1, <3>3, <3>4 DEF Divides
      <4>3. ASSUME NEW j \in m.count + 1..Len(h2), h2[j].arena = m.arena PROVE m.avail <= h2[j].off
        <5>1. PICK l \in m.count + 1..Len(h) : h2[j] = h[l]
          BY <3>3
        <5> QED BY <3>1, <3>4, <4>3, <5>1 DEF Divides
      <4>4. ASSUME NEW y \in ToSet(c), NotAfter(c, y, m.arena)
            PROVE  \E j \in 1..m.count : Begins(p, ar, h2[j], y)
        <5>1. PICK j \in 1..m.count : Begins(p, ar, h[j], y)
          BY <3>1, <3>4, <4>4 DEF Divides
        <5> QED BY <3>3, <5>1
      <4> QED BY <4>1, <4>2, <4>3, <4>4
    <3>5. Divides(p, ar, c, h2, m)
      BY <3>2, <3>4 DEF Divides
    <3> QED BY <3>5 DEF m
  <2> QED BY <1>2, <2>1 DEF Marked
<1> QED BY <1>2, <1>4, <1>5, <1>6 DEF Sound

\* An arena with a header is recognised by its length.
LEMMA BegunOversized ==
  ASSUME NEW p \in Pools, NEW ar, NEW c, NEW h, NEW ms, Domains(ar, c, h, ms), Sound(p, ar, c, h, ms),
         NEW i \in 1..Len(c), ar[c[i]].base = 1
  PROVE  Oversized(p, ar[c[i]].avail - ar[c[i]].base) /\ ar[c[i]].back = Before(c, i)
<1> DEFINE a == c[i]
<1>1. PICK j \in 1..Len(h) : Begins(p, ar, h[j], a)
  BY DEF Sound, Chained
<1>2. h[j].arena = a /\ h[j].off = 1 /\ h[j].size > ArenaSize[p]
  BY <1>1 DEF Begins, Oversized
<1>3. h[j].off + h[j].size <= ar[a].avail
  BY <1>2 DEF Sound, Placed, Inside
<1>4. ar[a].avail \in Nat /\ h[j].size \in Nat /\ ArenaSize[p] \in Nat
  BY Typed, ArenaPoolAssumption
<1>5. ar[a].avail - ar[a].base > ArenaSize[p]
  BY <1>2, <1>3, <1>4
<1>6. ar[c[i]].back = Before(c, i)
  BY DEF Sound, Chained
<1> QED BY <1>5, <1>6 DEF Oversized

\* The place after the one a back pointer names.
LEMMA PlaceAfter ==
  ASSUME NEW c \in Seq(ArenaIds), NoTwice(c), NEW i \in 1..Len(c), NEW ap, ap = Before(c, i)
  PROVE  (IF ap = First THEN 1 ELSE 1 + CHOOSE j \in DOMAIN c : c[j] = ap) = i
<1>1. CASE i = 1
  BY <1>1 DEF Before
<1>2. CASE i # 1
  <2>1. i - 1 \in 1..Len(c) /\ 1 + (i - 1) = i /\ DOMAIN c = 1..Len(c)
    BY <1>2
  <2>2. ap = c[i - 1] /\ ap \in ArenaIds
    BY <1>2, <2>1 DEF Before
  <2>3. ap # First
    BY <2>2, ArenaPoolAssumption
  <2> DEFINE d == CHOOSE j \in DOMAIN c : c[j] = ap
  <2>4. d \in DOMAIN c /\ c[d] = ap
    BY <2>1, <2>2
  <2> HIDE DEF d
  <2>5. d = i - 1
    BY <2>1, <2>2, <2>4 DEF NoTwice
  <2> QED BY <2>1, <2>3, <2>5 DEF d
<1> QED BY <1>1, <1>2

\* Only the arena after i changes, and only its back pointer.
OnlyFixed(ar, p, c, i, ar2) ==
    /\ ar2 \in [ArenaIds -> ArenaRecords]
    /\ \A x \in ArenaIds : /\ ar2[x].total = ar[x].total /\ ar2[x].base = ar[x].base
                           /\ ar2[x].avail = ar[x].avail
    /\ \A x \in ArenaIds : ar2[x] = ar[x] \/ (i + 1 \in 1..Len(c) /\ x = c[i + 1])
    /\ i + 1 \in 1..Len(c) /\ Oversized(p, ar[c[i + 1]].avail - ar[c[i + 1]].base)
         => ar2[c[i + 1]].back = c[i]

LEMMA NextFixed ==
  ASSUME NEW p, NEW ar \in [ArenaIds -> ArenaRecords], NEW c \in Seq(ArenaIds), NEW i \in 1..Len(c)
  PROVE  OnlyFixed(ar, p, c, i, FixNext(ar, p, c, i))
<1> DEFINE ar2 == FixNext(ar, p, c, i)
<1>0. ar2 = FixNext(ar, p, c, i)
  OBVIOUS
<1> HIDE DEF ar2
<1> SUFFICES OnlyFixed(ar, p, c, i, ar2)
  BY DEF ar2
<1>1. CASE i + 1 <= Len(c) /\ Oversized(p, ar[c[i + 1]].avail - ar[c[i + 1]].base)
  <2> DEFINE y == c[i + 1]
  <2>1. i + 1 \in 1..Len(c) /\ y \in ArenaIds /\ c[i] \in ArenaIds
    BY <1>1
  <2>2. ar2 = [ar EXCEPT ![y].back = c[i]]
    BY <1>0, <1>1 DEF FixNext
  <2> HIDE DEF y
  <2>3. /\ ar2 \in [ArenaIds -> ArenaRecords] /\ ar2[y].back = c[i]
        /\ \A x \in ArenaIds : /\ ar2[x].total = ar[x].total /\ ar2[x].base = ar[x].base
                               /\ ar2[x].avail = ar[x].avail
        /\ \A x \in ArenaIds : x # y => ar2[x] = ar[x]
    BY <2>1, <2>2 DEF ArenaRecords
  <2> QED BY <2>1, <2>3 DEF y, OnlyFixed
<1>2. CASE ~(i + 1 <= Len(c) /\ Oversized(p, ar[c[i + 1]].avail - ar[c[i + 1]].base))
  <2>1. ar2 = ar /\ (i + 1 \in 1..Len(c) => i + 1 <= Len(c))
    BY <1>0, <1>2 DEF FixNext
  <2> QED BY <1>2, <2>1 DEF OnlyFixed
<1> QED BY <1>1, <1>2

\* The places a growing or freed allocation leaves to the others.
LEMMA OutsideIs ==
  ASSUME PoolInv, NEW p \in Pools, NEW k
  PROVE  OutsideArena(p, k) = Outside(held[p], held[p][k].arena)
<1>1. DOMAIN held[p] = 1..Len(held[p])
  BY PoolFacts
<1> QED BY <1>1 DEF OutsideArena, Outside

LEMMA Newer ==
  ASSUME PoolInv, NEW p \in Pools, NEW k, NewerThanMarks(p, k)
  PROVE  \A x \in 1..Len(marks[p]) : marks[p][x].count < k
<1>1. marks[p] \in Seq(Cursors)
  BY PoolFacts
<1>2. \A x \in 1..Len(marks[p]) : marks[p][x] \in ToSet(marks[p])
  BY <1>1, Members
<1> QED BY <1>2 DEF NewerThanMarks

LEMMA ReallocKeeps ==
  ASSUME PoolInv, NEW p \in Pools, NEW k \in 1..Len(held[p]), NEW size \in Nat, size > held[p][k].size,
         NEW a, a = held[p][k].arena, NewerThanMarks(p, k), Realloc(p, k, size),
         \/ Oversized(p, held[p][k].size)
         \/ /\ a = Current(p) /\ held[p][k].off = arena[a].base
            /\ held[p][k].off + size > arena[a].total
  PROVE  PoolInv'
<1> DEFINE c == arenas[p]
           h == held[p]
           ms == marks[p]
           block == h[k]
           ap == IF Oversized(p, block.size) THEN arena[block.arena].back ELSE Before(c, Len(c))
           i == IF ap = First THEN 1 ELSE 1 + CHOOSE j \in DOMAIN c : c[j] = ap
<1>1. /\ Domains(arena, c, h, ms) /\ Sound(p, arena, c, h, ms)
      /\ arena \in [ArenaIds -> ArenaRecords] /\ c \in Seq(ArenaIds)
      /\ arenaFreelist \in Seq(ArenaIds) /\ h \in Seq(Blocks) /\ ms \in Seq(Cursors)
      /\ NoTwice(c) /\ NoTwice(arenaFreelist) /\ ToSet(c) \cap ToSet(arenaFreelist) = {}
      /\ ToSet(c) \subseteq Mine(p) /\ ToSet(arenaFreelist) \subseteq Mine(p)
      /\ \A x \in ArenaIds : arena[x].total = 0 => x \in Mine(p)
      /\ \A x \in Mine(p) : arena[x].total > 0 <=> x \in ToSet(c) \/ x \in ToSet(arenaFreelist)
      /\ Mine(p) \subseteq ArenaIds
  BY PoolFacts
<1>2. /\ \A x \in ArenaIds : arena[x].total \in Nat /\ arena[x].base \in {0, 1} /\ arena[x].avail \in Nat
                             /\ arena[x].back \in ArenaIds \cup {First}
      /\ Len(c) \in Nat /\ \A j \in 1..Len(c) : c[j] \in ArenaIds /\ c[j] \in ToSet(c)
      /\ \A x \in ToSet(c) : \E j \in 1..Len(c) : c[j] = x
      /\ \A j \in 1..Len(h) : h[j].arena \in ArenaIds /\ h[j].off \in Nat /\ h[j].size \in Nat
      /\ ArenaSize[p] \in Nat
  BY <1>1, Typed, ArenaPoolAssumption
<1>3. block.off = arena[a].base /\ \A x \in 1..Len(ms) : ms[x].count < k
  <2>1. block.off = arena[a].base
    <3>1. CASE Oversized(p, block.size)
      <4>1. a = h[k].arena /\ Oversized(p, h[k].size) /\ k \in 1..Len(h) /\ p \in Pools
        BY <3>1
      <4>2. block.off = h[k].off
        OBVIOUS
      <4> HIDE DEF c, h, ms, block
      <4>3. h[k].off = arena[a].base
        BY ONLY <1>1, <4>1, OversizedBegins
      <4> QED BY <4>2, <4>3
    <3>2. CASE ~Oversized(p, block.size)
      BY <3>2
    <3> QED BY <3>1, <3>2
  <2> QED BY <2>1, Newer
<1>4. a \in ToSet(c) /\ a \in ArenaIds
  BY <1>1, <1>2 DEF Sound, Placed
<1>5. PICK i0 \in 1..Len(c) : c[i0] = a
  BY <1>2, <1>4
<1>o. Heads(arena, c, h, ms, k, i0)
  BY <1>3, <1>5 DEF Heads
<1>6. /\ Formed(p, arena[a]) /\ Begins(p, arena, block, a) /\ block.off + block.size <= arena[a].total
      /\ Oversized(p, block.size) => arena[a].base = 1 /\ arena[a].back = Before(c, i0)
  <2> HIDE DEF c, h, ms
  <2>1. p \in Pools
    OBVIOUS
  <2> QED BY ONLY <1>1, <1>5, <1>o, <2>1, Whole
<1>7. size > ArenaSize[p] /\ ap = Before(c, i0)
  <2>1. CASE Oversized(p, block.size)
    <3>1. block.size > ArenaSize[p] /\ block.size \in Nat
      BY <1>2, <2>1 DEF Oversized
    <3>2. size > block.size
      OBVIOUS
    <3> QED BY <1>2, <1>6, <2>1, <3>1, <3>2
  <2>2. CASE ~Oversized(p, block.size)
    <3>1. a = Current(p) /\ block.off + size > arena[a].total
      BY <2>2
    <3>2. c # <<>>
      BY <1>5
    <3>3. a = c[Len(c)] /\ Len(c) \in 1..Len(c)
      BY <1>1, <3>1, <3>2 DEF Current, Last
    <3>4. i0 = Len(c)
      BY <1>1, <1>5, <3>3 DEF NoTwice
    <3>5. arena[a].base = 0 /\ arena[a].total = ArenaSize[p]
      BY <1>2, <1>4, <1>6, <2>2 DEF Begins, Formed
    <3>6. size > ArenaSize[p]
      BY <1>2, <1>3, <3>1, <3>5
    <3> QED BY <2>2, <3>4, <3>6
  <2> QED BY <2>1, <2>2
<1>8. i = i0
  <2> HIDE DEF c, ap
  <2> QED BY <1>1, <1>5, <1>7, PlaceAfter
<1> DEFINE Moves(b, x) ==
             LET moved == [arenas[p] EXCEPT ![i] = b]
                 ar == IF b = x THEN arena
                       ELSE FixNext([arena EXCEPT ![b] = arena[x], ![x] = Unused], p, moved, i)
             IN /\ arenas' = [arenas EXCEPT ![p] = moved]
                /\ arena' = [ar EXCEPT ![b] = [total |-> size + 1, base |-> 1,
                                              avail |-> size + 1, back |-> ap]]
                /\ held' = [held EXCEPT ![p] =
                              Keeping([held[p] EXCEPT ![k] = Block(b, 1, size)], {k} \cup OutsideArena(p, k))]
<1>9a. \E b \in {block.arena} \cup {Min((ArenaIds \ Malloced) \cup {block.arena})} : Moves(b, block.arena)
  BY DEF Realloc
<1> HIDE DEF Moves
<1>9. PICK b \in {a} \cup {Min((ArenaIds \ Malloced) \cup {a})} : Moves(b, a)
  <2>1. a = block.arena
    OBVIOUS
  <2> HIDE DEF block
  <2> QED BY <1>9a, <2>1
<1> HIDE DEF i, ap
<1> DEFINE c2 == [c EXCEPT ![i0] = b]
           ar1 == [arena EXCEPT ![b] = arena[a], ![a] = Unused]
           ar3 == FixNext(ar1, p, c2, i0)
           ar == IF b = a THEN arena ELSE ar3
           r == [total |-> size + 1, base |-> 1, avail |-> size + 1, back |-> ap]
           ar2 == [ar EXCEPT ![b] = r]
           nb == Block(b, 1, size)
           K == {k} \cup Outside(h, a)
           h0 == [h EXCEPT ![k] = nb]
           h1 == Keeping(h, K)
           h2 == Keeping(h0, K)
<1>10. arenas' = [arenas EXCEPT ![p] = c2] /\ arena' = ar2 /\ held' = [held EXCEPT ![p] = h2]
  <2>1. {k} \cup OutsideArena(p, k) = K
    BY OutsideIs
  <2> HIDE DEF K
  <2> QED BY <1>8, <1>9, <2>1 DEF Moves
<1>11. arenaFreelist' = arenaFreelist /\ marks' = marks
  BY DEF Realloc
<1>12. b \in ArenaIds /\ (b = a \/ arena[b].total = 0)
  <2> DEFINE T == (ArenaIds \ Malloced) \cup {a}
  <2>1. T # {} /\ T \in SUBSET Nat
    BY <1>4, ArenaPoolAssumption
  <2>2. Min(T) \in T
    <3> HIDE DEF T
    <3> QED BY <2>1, MinIn
  <2>3. b = a \/ b = Min(T)
    BY <1>9
  <2>4. b \in T
    <3> HIDE DEF T
    <3>1. a \in T
      BY DEF T
    <3> QED BY <2>2, <2>3, <3>1
  <2>5. b = a \/ (b \in ArenaIds /\ ~(arena[b].total > 0))
    BY <2>4 DEF Malloced
  <2>6. ASSUME NEW y \in ArenaIds, ~(arena[y].total > 0) PROVE arena[y].total = 0
    <3>1. arena[y].total \in Nat
      BY ONLY <1>2, <2>6
    <3> QED BY ONLY <2>6, <3>1
  <2>7. a \in ArenaIds
    BY ONLY <1>4
  <2> QED BY ONLY <2>5, <2>6, <2>7
<1> HIDE DEF c, h, ms
<1>13. b \in Mine(p) /\ (b = a \/ (b \notin ToSet(c) /\ b \notin ToSet(arenaFreelist)))
  <2>1. CASE b = a
    BY <1>1, <1>4, <2>1
  <2>2. CASE arena[b].total = 0
    BY <1>1, <1>12, <2>2
  <2> QED BY <1>12, <2>1, <2>2
<1>14. c2 \in Seq(ArenaIds) /\ Len(c2) = Len(c) /\ \A j \in 1..Len(c) : c2[j] = IF j = i0 THEN b ELSE c[j]
  BY <1>1, <1>12, ExceptSeq
<1>15. NoTwice(c2) /\ ToSet(c2) = (ToSet(c) \ {a}) \cup {b}
  <2>1. c \in Seq(ArenaIds) /\ NoTwice(c) /\ a = c[i0] /\ (b \notin ToSet(c) \/ b = a)
    BY <1>1, <1>5, <1>13
  <2>2. c2 \in Seq(ArenaIds) /\ Len(c2) = Len(c) /\ \A j \in 1..Len(c) : c2[j] = IF j = i0 THEN b ELSE c[j]
    BY <1>14
  <2>3. i0 \in 1..Len(c) /\ b \in ArenaIds
    BY <1>12
  <2> HIDE DEF c2, K, h0, h1, h2, ar, ar1, ar2, ar3, r, nb
  <2> QED BY ONLY <2>1, <2>2, <2>3, ReplacedKeeps
<1>16. r \in ArenaRecords /\ r.total = size + 1 /\ r.base = 1 /\ r.avail = size + 1 /\ r.back = Before(c, i0)
  <2>1. ap \in ArenaIds \cup {First}
    <3>1. i0 # 1 => i0 - 1 \in 1..Len(c)
      BY <1>2
    <3> QED BY <1>2, <1>7, <3>1 DEF Before
  <2> QED BY <1>7, <2>1 DEF ArenaRecords
<1>17. nb \in Blocks /\ nb.arena = b /\ nb.off = 1 /\ nb.size = size
  BY <1>12 DEF Block, Blocks
<1> HIDE DEF r, nb
<1>e. /\ h0 \in Seq(Blocks) /\ Len(h0) = Len(h) /\ h0[k] = nb
      /\ \A j \in 1..Len(h) : j # k => h0[j] = h[j]
  <2>1. k \in 1..Len(h)
    BY DEF h
  <2> QED BY <1>1, <1>17, <2>1, ExceptSeq
\* The same places are kept of the old and of the new allocations.
<1>f. k \in K /\ K \subseteq 1..Len(h) /\ \A l \in K : l # k => h[l].arena # a
  BY DEF Outside, h
<1>h. h1 = Keeping(h, K) /\ h2 = Keeping(h0, K) /\ Len(h) \in Nat
  BY <1>1
<1>q. K = {k} \cup Outside(h, c[i0])
  BY <1>5
<1> HIDE DEF h0, h1, h2, K
<1>r. /\ h1 \in Seq(Blocks) /\ Len(h1) = Cardinality(K)
      /\ \A n \in 1..Cardinality(K) : h1[n] = h[Kept(K, n)]
      /\ Counts(K)
  BY ONLY <1>1, <1>f, <1>h, KeepingIs
<1>s. /\ h2 \in Seq(Blocks) /\ Len(h2) = Cardinality(K)
      /\ \A n \in 1..Cardinality(K) : h2[n] = h0[Kept(K, n)]
  <2>1. K \subseteq 1..Len(h0)
    BY <1>e, <1>f
  <2> QED BY ONLY <1>e, <1>h, <2>1, KeepingIs
<1>t. PICK k1 \in 1..Cardinality(K) : Kept(K, k1) = k
  BY <1>f, <1>r DEF Counts
<1>u. \A n \in 1..Cardinality(K) : n # k1 => Kept(K, n) \in K /\ Kept(K, n) # k
  BY <1>r, <1>t DEF Counts
<1>v. Sound(p, arena, c, h1, ms) /\ Domains(arena, c, h1, ms)
  <2>1. Fewer(h, h1, K)
    BY ONLY <1>1, <1>f, <1>h, KeptFewer
  <2>2. Len(h1) \in Nat /\ p \in Pools
    BY <1>r
  <2>3. Sound(p, arena, c, h1, ms)
    BY ONLY <1>1, <1>o, <1>q, <2>1, <2>2, Evicted
  <2> QED BY <1>1, <1>r, <2>3 DEF Domains
<1>w. Owns(arena, c, h1, ms, k1, i0)
  <2>1. h1[k1] = h[k] /\ k1 \in 1..Len(h1)
    BY <1>r, <1>t
  <2>2. ASSUME NEW x \in 1..Len(ms) PROVE ms[x].count < k1
    <3>1. 1..ms[x].count \subseteq Outside(h, c[i0]) /\ ms[x].count \in Nat /\ ms[x].count < k /\ p \in Pools
      BY <1>1, <1>3, <1>o, MarkedOutside, Typed
    <3>2. 1..ms[x].count \subseteq K
      BY <1>q, <3>1
    <3>3. \A n \in 1..ms[x].count : Kept(K, n) = n
      BY <1>r, <3>1, <3>2 DEF Counts
    <3>4. k1 \notin 1..ms[x].count
      <4> SUFFICES ASSUME k1 \in 1..ms[x].count PROVE FALSE
        OBVIOUS
      <4>1. k1 = k
        BY <1>t, <3>3
      <4> QED BY <3>1, <4>1
    <3>5. k1 \in Nat /\ k1 >= 1
      BY <1>r DEF Counts
    <3> QED BY <3>1, <3>4, <3>5
  <2>3. Heads(arena, c, h1, ms, k1, i0)
    BY <1>o, <2>1, <2>2 DEF Heads
  <2>4. ASSUME NEW n \in 1..Len(h1), n # k1 PROVE h1[n].arena # c[i0]
    BY <1>5, <1>f, <1>r, <1>u, <2>4
  <2> QED BY <2>3, <2>4 DEF Owns
<1>18. /\ h2 \in Seq(Blocks) /\ Len(h2) = Len(h1) /\ h2[k1] = nb
       /\ \A j \in 1..Len(h1) : j # k1 => h2[j] = h1[j]
  <2>1. h2[k1] = nb
    BY <1>e, <1>s, <1>t
  <2>2. ASSUME NEW j \in 1..Len(h1), j # k1 PROVE h2[j] = h1[j]
    <3>1. Kept(K, j) \in 1..Len(h) /\ Kept(K, j) # k /\ j \in 1..Cardinality(K)
      BY <1>f, <1>r, <1>u, <2>2
    <3> QED BY <1>e, <1>r, <1>s, <3>1
  <2> QED BY <1>r, <1>s, <2>1, <2>2
\* The arenas of the chain but this one keep all but the back pointer.
<1>19. /\ ar \in [ArenaIds -> ArenaRecords]
       /\ \A x \in ArenaIds : x # a /\ x # b => /\ ar[x].total = arena[x].total /\ ar[x].base = arena[x].base
                                                /\ ar[x].avail = arena[x].avail
       /\ \A x \in ArenaIds : x \notin ToSet(c) /\ x # b => ar[x] = arena[x]
       /\ b # a => ar[a].total = 0
       /\ \A j \in 1..Len(c) : j # i0 /\ arena[c[j]].base = 1 =>
            ar[c[j]].back = IF j = i0 + 1 THEN b ELSE arena[c[j]].back
  <2>0. \A j \in 1..Len(c) : j # i0 => c[j] # a /\ c[j] \in ArenaIds /\ c[j] \in ToSet(c)
    BY <1>1, <1>2, <1>5 DEF NoTwice
  <2>1. CASE b = a
    <3>1. ar = arena
      BY <2>1
    <3>2. ASSUME NEW j \in 1..Len(c), j = i0 + 1, arena[c[j]].base = 1 PROVE arena[c[j]].back = b
      <4>1. arena[c[j]].back = Before(c, j)
        BY <1>1, <3>2, BegunOversized
      <4>2. j # 1 /\ j - 1 = i0
        BY <3>2
      <4> QED BY <1>5, <2>1, <4>1, <4>2 DEF Before
    <3> HIDE DEF ar
    <3> QED BY <1>1, <2>1, <3>1, <3>2
  <2>2. CASE b # a
    <3>1. ar = ar3
      BY <2>2
    <3>2. /\ ar1 \in [ArenaIds -> ArenaRecords] /\ ar1[a] = Unused
          /\ \A x \in ArenaIds : x # a /\ x # b => ar1[x] = arena[x]
      <4>1. Unused \in ArenaRecords
        BY DEF Unused, ArenaRecords
      <4> QED BY <1>1, <1>4, <1>12, <2>2, <4>1
    <3> HIDE DEF ar1, c2, ar
    <3>3. ar3 = FixNext(ar1, p, c2, i0) /\ i0 \in 1..Len(c2)
      BY <1>14
    <3> HIDE DEF ar3
    <3>4. /\ ar3 \in [ArenaIds -> ArenaRecords]
          /\ \A x \in ArenaIds : /\ ar3[x].total = ar1[x].total /\ ar3[x].base = ar1[x].base
                                 /\ ar3[x].avail = ar1[x].avail
          /\ \A x \in ArenaIds : ar3[x] = ar1[x] \/ (i0 + 1 \in 1..Len(c2) /\ x = c2[i0 + 1])
          /\ i0 + 1 \in 1..Len(c2) /\ Oversized(p, ar1[c2[i0 + 1]].avail - ar1[c2[i0 + 1]].base)
               => ar3[c2[i0 + 1]].back = c2[i0]
      <4>1. c2 \in Seq(ArenaIds) /\ ar1 \in [ArenaIds -> ArenaRecords] /\ i0 \in 1..Len(c2)
        BY <1>14, <3>2, <3>3
      <4>2. OnlyFixed(ar1, p, c2, i0, FixNext(ar1, p, c2, i0))
        BY ONLY <4>1, NextFixed
      <4> QED BY ONLY <3>3, <4>2 DEF OnlyFixed
    <3>5. i0 + 1 \in 1..Len(c2) => /\ c2[i0 + 1] = c[i0 + 1] /\ i0 + 1 \in 1..Len(c)
                                   /\ c2[i0 + 1] \in ToSet(c) /\ c2[i0 + 1] # a
      <4>1. i0 + 1 # i0
        OBVIOUS
      <4> QED BY <1>14, <2>0, <4>1
    <3>6. \A x \in ArenaIds : x # a /\ x # b => /\ ar3[x].total = arena[x].total /\ ar3[x].base = arena[x].base
                                                /\ ar3[x].avail = arena[x].avail
      BY <3>2, <3>4
    <3>7. \A x \in ArenaIds : x \notin ToSet(c) /\ x # b => ar3[x] = arena[x]
      BY <1>4, <3>2, <3>4, <3>5
    <3>8. ar3[a].total = 0
      BY <1>4, <3>2, <3>4 DEF Unused
    <3>9. ASSUME NEW j \in 1..Len(c), j # i0, arena[c[j]].base = 1
          PROVE  ar3[c[j]].back = IF j = i0 + 1 THEN b ELSE arena[c[j]].back
      <4>1. c[j] \in ArenaIds /\ c[j] # a /\ c[j] # b
        BY <1>13, <2>0, <2>2, <3>9
      <4>2. ar1[c[j]] = arena[c[j]]
        BY <3>2, <4>1
      <4>3. CASE j = i0 + 1
        <5>1. i0 + 1 \in 1..Len(c2) /\ c2[i0 + 1] = c[j] /\ c2[i0] = b
          BY <1>14, <3>5, <4>3
        <5>2. Oversized(p, arena[c[j]].avail - arena[c[j]].base)
          BY <1>1, <3>9, BegunOversized
        <5> QED BY <3>4, <4>2, <4>3, <5>1, <5>2
      <4>4. CASE j # i0 + 1
        <5>1. ~(i0 + 1 \in 1..Len(c2) /\ c[j] = c2[i0 + 1])
          BY <1>1, <3>5, <4>4 DEF NoTwice
        <5>2. ar3[c[j]] = ar1[c[j]]
          BY <3>4, <4>1, <5>1
        <5> QED BY <4>2, <4>4, <5>2
      <4> QED BY <4>3, <4>4
    <3> QED BY <3>1, <3>4, <3>6, <3>7, <3>8, <3>9
  <2> QED BY <2>1, <2>2
<1> HIDE DEF ar
<1>20. ar2 \in [ArenaIds -> ArenaRecords] /\ ar2[b] = r /\ \A x \in ArenaIds : x # b => ar2[x] = ar[x]
  BY <1>12, <1>16, <1>19
<1> HIDE DEF ar2, c2
<1>21. Domains(ar2, c2, h2, ms)
  BY <1>1, <1>14, <1>18, <1>20 DEF Domains
<1>22. Told(arena, ar2, c, i0, b)
  <2>1. \A j \in 1..Len(c) : j # i0 => c[j] # a /\ c[j] # b /\ c[j] \in ArenaIds
    BY <1>1, <1>2, <1>5, <1>13 DEF NoTwice
  <2> QED BY <1>19, <1>20, <2>1 DEF Told
<1>24. Sound(p, ar2, c2, h2, ms)
  <2>1. Fills(p, h2[k1], b, ar2[b], Before(c, i0)) /\ Replaced(c, c2, i0, b)
    BY <1>7, <1>14, <1>16, <1>17, <1>18, <1>20 DEF Fills, Oversized, Replaced
  <2>2. (b = c[i0] \/ b \notin ToSet(c)) /\ p \in Pools
    BY <1>5, <1>13
  <2> QED BY ONLY <1>v, <1>w, <1>12, <1>18, <1>21, <1>22, <2>1, <2>2, Reallocated
<1>25. marks' = [marks EXCEPT ![p] = ms]
  BY <1>11, Unchanged DEF PoolInv, ms
<1>26. /\ ToSet(c2) \cap ToSet(arenaFreelist) = {} /\ ToSet(c2) \subseteq Mine(p)
       /\ \A x \in ArenaIds \ Mine(p) : ar2[x] = arena[x]
       /\ \A x \in Mine(p) : ar2[x].total > 0 <=> x \in ToSet(c2) \/ x \in ToSet(arenaFreelist)
  <2>1. ToSet(c2) \cap ToSet(arenaFreelist) = {} /\ ToSet(c2) \subseteq Mine(p)
    BY <1>1, <1>4, <1>13, <1>15
  <2>2. \A x \in ArenaIds \ Mine(p) : ar2[x] = arena[x]
    BY <1>1, <1>13, <1>19, <1>20
  <2>3. ASSUME NEW x \in Mine(p)
        PROVE  ar2[x].total > 0 <=> x \in ToSet(c2) \/ x \in ToSet(arenaFreelist)
    <3>1. CASE x = b
      <4>1. ar2[x].total = size + 1 /\ size + 1 > 0
        BY <1>16, <1>20, <3>1
      <4> QED BY <1>15, <3>1, <4>1
    <3>2. CASE x = a /\ x # b
      <4>1. ar2[x].total = 0 /\ x \notin ToSet(arenaFreelist)
        BY <1>1, <1>4, <1>19, <1>20, <3>2
      <4> QED BY <1>15, <3>2, <4>1
    <3>3. CASE x # a /\ x # b
      <4>1. ar2[x].total = arena[x].total
        BY <1>1, <1>19, <1>20, <3>3
      <4> QED BY <1>1, <1>15, <3>3, <4>1
    <3> QED BY <3>1, <3>2, <3>3
  <2> QED BY <2>1, <2>2, <2>3
<1> QED BY <1>1, <1>10, <1>11, <1>14, <1>18, <1>20, <1>24, <1>25, <1>26, PoolSteps

LEMMA GrowInPlaceKeeps ==
  ASSUME PoolInv, NEW p \in Pools, NEW k \in 1..Len(held[p]), NEW size \in Nat, size > held[p][k].size,
         NEW a, a = held[p][k].arena, NewerThanMarks(p, k),
         arena[a].avail = held[p][k].off + held[p][k].size, held[p][k].off + size <= arena[a].total,
         arena' = [arena EXCEPT ![a].avail = held[p][k].off + size],
         held' = [held EXCEPT ![p][k].size = size],
         UNCHANGED <<arenas, arenaFreelist, marks>>
  PROVE  PoolInv'
<1> DEFINE c == arenas[p]
           h == held[p]
           ms == marks[p]
           v == h[k].off + size
           ar2 == [arena EXCEPT ![a].avail = v]
           h2 == [h EXCEPT ![k].size = size]
<1>1. /\ Domains(arena, c, h, ms) /\ Sound(p, arena, c, h, ms)
      /\ arena \in [ArenaIds -> ArenaRecords] /\ c \in Seq(ArenaIds)
      /\ arenaFreelist \in Seq(ArenaIds) /\ h \in Seq(Blocks) /\ ms \in Seq(Cursors)
      /\ NoTwice(arenaFreelist) /\ ToSet(c) \cap ToSet(arenaFreelist) = {}
      /\ ToSet(c) \subseteq Mine(p) /\ ToSet(arenaFreelist) \subseteq Mine(p)
      /\ \A x \in Mine(p) : arena[x].total > 0 <=> x \in ToSet(c) \/ x \in ToSet(arenaFreelist)
      /\ Mine(p) \subseteq ArenaIds
  BY PoolFacts
<1>2. arena' = ar2 /\ held' = [held EXCEPT ![p] = h2]
  OBVIOUS
<1>3. a \in ToSet(c) /\ a \in ArenaIds
  BY <1>1, Typed DEF Sound, Placed
<1>4. h[k] \in Blocks /\ h[k].off \in Nat /\ v \in Nat
  BY <1>1, Typed
<1>5. /\ ar2 \in [ArenaIds -> ArenaRecords] /\ ar2[a].avail = v /\ ar2[a].base = arena[a].base
      /\ ar2[a].total = arena[a].total /\ ar2[a].back = arena[a].back
      /\ \A x \in ArenaIds : x # a => ar2[x] = arena[x]
      /\ \A x \in ArenaIds : ar2[x].total = arena[x].total
  <2>1. ar2 = [arena EXCEPT ![a].avail = v]
    OBVIOUS
  <2>2. arena \in [ArenaIds -> ArenaRecords] /\ a \in ArenaIds /\ v \in Nat
    BY <1>1, <1>3, <1>4
  <2> HIDE DEF v, ar2
  <2> QED BY ONLY <2>1, <2>2 DEF ArenaRecords
<1>6. /\ h2 \in Seq(Blocks) /\ Len(h2) = Len(h) /\ \A j \in 1..Len(h) : j # k => h2[j] = h[j]
      /\ h2[k].arena = a /\ h2[k].off = h[k].off /\ h2[k].size = size
  <2> DEFINE b == [h[k] EXCEPT !.size = size]
  <2>1. b \in Blocks /\ b.arena = a /\ b.off = h[k].off /\ b.size = size
    BY <1>4 DEF Blocks
  <2>2. h2 = [h EXCEPT ![k] = b]
    OBVIOUS
  <2>3. k \in 1..Len(h)
    OBVIOUS
  <2> HIDE DEF b, h2
  <2>4. h2 \in Seq(Blocks) /\ Len(h2) = Len(h) /\ h2[k] = b /\ \A j \in 1..Len(h) : j # k => h2[j] = h[j]
    BY <1>1, <2>1, <2>2, <2>3, ExceptSeq
  <2> QED BY <2>1, <2>4
<1> HIDE DEF ar2, h2
<1>7. Domains(ar2, c, h2, ms)
  BY <1>1, <1>5, <1>6 DEF Domains
<1>8. Sound(p, ar2, c, h2, ms)
  <2>1. /\ k \in 1..Len(h) /\ a = h[k].arena /\ arena[a].avail = h[k].off + h[k].size
        /\ size \in Nat /\ size > h[k].size /\ h[k].off + size <= arena[a].total /\ p \in Pools
    OBVIOUS
  <2>2. \A x \in 1..Len(ms) : ms[x].count < k
    BY Newer
  <2>3. MovedTo(arena, ar2, a, h[k].off + size) /\ Longer(h, h2, k, size)
    BY <1>5, <1>6 DEF MovedTo, Longer
  <2>4. Domains(arena, c, h, ms) /\ Sound(p, arena, c, h, ms)
    BY <1>1
  <2> HIDE DEF c, h, ms, v
  <2> QED BY ONLY <1>7, <2>1, <2>2, <2>3, <2>4, GrownInPlace
<1>9. arenas' = [arenas EXCEPT ![p] = c] /\ marks' = [marks EXCEPT ![p] = ms] /\ arenaFreelist' = arenaFreelist
  BY Unchanged DEF PoolInv
<1> HIDE DEF c, h, ms, v
<1>10. /\ \A x \in ArenaIds \ Mine(p) : ar2[x] = arena[x]
       /\ \A x \in Mine(p) : ar2[x].total > 0 <=> x \in ToSet(c) \/ x \in ToSet(arenaFreelist)
  BY <1>1, <1>3, <1>5
<1>11. StepOf(p, ar2, c, arenaFreelist, h2, ms)
  BY ONLY <1>1, <1>2, <1>5, <1>6, <1>8, <1>9, <1>10 DEF StepOf
<1> QED BY <1>11, StepKeeps

LEMMA AllocateKeeps ==
  ASSUME PoolInv, NEW p \in Pools, NEW nb \in Nat, nb >= 1, Allocate(p, nb)
  PROVE  PoolInv'
BY AllocateHereKeeps, AllocateArenaKeeps DEF Allocate

LEMMA GrowKeeps ==
  ASSUME PoolInv, NEW p \in Pools, NEW k \in 1..Len(held[p]), NEW size \in Nat, size > held[p][k].size,
         Grow(p, k, size)
  PROVE  PoolInv'
<1> DEFINE block == held[p][k]
           a == block.arena
           atEnd == a = Current(p) /\ arena[a].avail = block.off + block.size
           inPlace == atEnd /\ block.off + size <= arena[a].total
           whole == Oversized(p, block.size) \/ (atEnd /\ block.off = arena[a].base)
<1>1. /\ NewerThanMarks(p, k)
      /\ \/ /\ inPlace
            /\ arena' = [arena EXCEPT ![a].avail = block.off + size]
            /\ held' = [held EXCEPT ![p][k].size = size]
            /\ UNCHANGED <<arenas, arenaFreelist, marks>>
         \/ ~inPlace /\ whole /\ Realloc(p, k, size)
         \/ ~inPlace /\ ~whole /\ Allocate(p, size)
  BY DEF Grow
<1>2. block.size \in Nat /\ block.off \in Nat /\ a \in ArenaIds /\ arena[a].total \in Nat
  BY PoolFacts, Typed
<1>3. CASE /\ inPlace
           /\ arena' = [arena EXCEPT ![a].avail = block.off + size]
           /\ held' = [held EXCEPT ![p][k].size = size]
           /\ UNCHANGED <<arenas, arenaFreelist, marks>>
  BY <1>1, <1>3, GrowInPlaceKeeps
<1>4. CASE ~inPlace /\ whole /\ Realloc(p, k, size)
  <2>1. \/ Oversized(p, block.size)
        \/ a = Current(p) /\ block.off = arena[a].base /\ block.off + size > arena[a].total
    BY <1>2, <1>4
  <2> QED BY <1>1, <1>4, <2>1, ReallocKeeps
<1>5. CASE ~inPlace /\ ~whole /\ Allocate(p, size)
  <2>1. size >= 1
    BY <1>2
  <2> QED BY <1>5, <2>1, AllocateKeeps
<1> QED BY <1>1, <1>3, <1>4, <1>5

LEMMA MarkKeeps ==
  ASSUME PoolInv, NEW p \in Pools, Mark(p)
  PROVE  PoolInv'
<1> DEFINE c == arenas[p]
           h == held[p]
           ms == marks[p]
           m == [arena |-> Current(p), count |-> Len(h),
                 avail |-> IF Current(p) = First THEN 0 ELSE arena[Current(p)].avail]
           ms2 == Append(ms, m)
<1>1. /\ Domains(arena, c, h, ms) /\ Sound(p, arena, c, h, ms)
      /\ arena \in [ArenaIds -> ArenaRecords] /\ c \in Seq(ArenaIds)
      /\ arenaFreelist \in Seq(ArenaIds) /\ h \in Seq(Blocks) /\ ms \in Seq(Cursors)
      /\ NoTwice(arenaFreelist) /\ ToSet(c) \cap ToSet(arenaFreelist) = {}
      /\ ToSet(c) \subseteq Mine(p) /\ ToSet(arenaFreelist) \subseteq Mine(p)
      /\ \A x \in Mine(p) : arena[x].total > 0 <=> x \in ToSet(c) \/ x \in ToSet(arenaFreelist)
  BY PoolFacts
<1>2. marks' = [marks EXCEPT ![p] = ms2] /\ arena' = arena /\ arenas' = arenas /\ held' = held
      /\ arenaFreelist' = arenaFreelist
  BY DEF Mark
<1>3. IF c = <<>> THEN Current(p) = First ELSE Current(p) = c[Len(c)] /\ c[Len(c)] \in ArenaIds
  <2>1. c # <<>> => Len(c) \in 1..Len(c)
    BY <1>1
  <2> QED BY <1>1, <2>1 DEF Current, Last
<1>4. m \in Cursors /\ m.arena = Current(p) /\ m.count = Len(h)
      /\ (Current(p) # First => m.avail = arena[Current(p)].avail)
  <2>1. Current(p) \in ArenaIds \cup {First}
    BY <1>3
  <2>2. Current(p) # First => arena[Current(p)].avail \in Nat
    BY <1>1, <2>1, Typed
  <2>3. Len(h) \in Nat
    BY <1>1
  <2> HIDE DEF h
  <2> QED BY <2>1, <2>2, <2>3 DEF Cursors
<1> HIDE DEF m
<1>5. ms2 \in Seq(Cursors) /\ Len(ms2) = Len(ms) + 1 /\ ms2[Len(ms) + 1] = m /\ \A x \in 1..Len(ms) : ms2[x] = ms[x]
  BY <1>1, <1>4
<1> HIDE DEF ms2
<1>6. Domains(arena, c, h, ms2)
  BY <1>1, <1>5 DEF Domains
<1>7. Sound(p, arena, c, h, ms2)
  <2>1. IF c = <<>> THEN m.arena = First ELSE m.arena = c[Len(c)] /\ m.avail = arena[c[Len(c)]].avail
    BY <1>3, <1>4, ArenaPoolAssumption
  <2>2. p \in Pools /\ m.count = Len(h)
    BY <1>4
  <2> HIDE DEF c, h, ms
  <2> QED BY ONLY <1>1, <1>5, <1>6, <2>1, <2>2, MarkedNow
<1>8. arenas' = [arenas EXCEPT ![p] = c] /\ held' = [held EXCEPT ![p] = h]
  BY <1>2, Unchanged DEF PoolInv
<1> HIDE DEF c, h, ms
<1>9. StepOf(p, arena, c, arenaFreelist, h, ms2)
  BY ONLY <1>1, <1>2, <1>5, <1>7, <1>8 DEF StepOf
<1> QED BY <1>9, StepKeeps

LEMMA FreePoolKeeps ==
  ASSUME PoolInv, NEW p \in Pools, FreeArenaPool(p)
  PROVE  PoolInv'
<1> DEFINE c == arenas[p]
           f == c \o arenaFreelist
<1>1. /\ arena \in [ArenaIds -> ArenaRecords] /\ c \in Seq(ArenaIds) /\ arenaFreelist \in Seq(ArenaIds)
      /\ NoTwice(c) /\ NoTwice(arenaFreelist) /\ ToSet(c) \cap ToSet(arenaFreelist) = {}
      /\ ToSet(c) \subseteq Mine(p) /\ ToSet(arenaFreelist) \subseteq Mine(p)
      /\ \A x \in Mine(p) : arena[x].total > 0 <=> x \in ToSet(c) \/ x \in ToSet(arenaFreelist)
  BY PoolFacts
<1>2. /\ arenaFreelist' = f /\ arenas' = [arenas EXCEPT ![p] = <<>>] /\ arena' = arena
      /\ held' = [held EXCEPT ![p] = <<>>] /\ marks' = [marks EXCEPT ![p] = <<>>]
  BY DEF FreeArenaPool
<1>3. f \in Seq(ArenaIds) /\ ToSet(f) = ToSet(c) \cup ToSet(arenaFreelist) /\ NoTwice(f)
  <2> HIDE DEF c
  <2> QED BY <1>1, Joined
<1>4. <<>> \in Seq(ArenaIds) /\ <<>> \in Seq(Blocks) /\ <<>> \in Seq(Cursors) /\ ToSet(<<>>) = {}
  BY DEF ToSet
<1> HIDE DEF c, f
<1>5. /\ ToSet(<<>>) \cap ToSet(f) = {} /\ ToSet(<<>>) \subseteq Mine(p) /\ ToSet(f) \subseteq Mine(p)
      /\ \A x \in Mine(p) : arena[x].total > 0 <=> x \in ToSet(<<>>) \/ x \in ToSet(f)
  BY ONLY <1>1, <1>3, <1>4
<1>6. Sound(p, arena, <<>>, <<>>, <<>>)
  BY EmptyPool
<1>7. StepOf(p, arena, <<>>, f, <<>>, <<>>)
  BY ONLY <1>1, <1>2, <1>3, <1>4, <1>5, <1>6 DEF StepOf
<1> QED BY <1>7, StepKeeps

LEMMA FinishKeeps ==
  ASSUME PoolInv, ArenaFinish
  PROVE  PoolInv'
<1> DEFINE ar == [a \in ArenaIds |-> IF a \in ToSet(arenaFreelist) THEN Unused ELSE arena[a]]
<1>1. /\ arena' = ar /\ arenaFreelist' = <<>> /\ arenas' = arenas /\ held' = held /\ marks' = marks
  BY DEF ArenaFinish
<1>2. Types /\ Listed /\ \A p \in Pools : Sound(p, arena, arenas[p], held[p], marks[p])
  BY DEF PoolInv
<1>3. /\ ar \in [ArenaIds -> ArenaRecords]
      /\ \A a \in ArenaIds : a \in ToSet(arenaFreelist) => ar[a].total = 0
      /\ \A a \in ArenaIds : a \notin ToSet(arenaFreelist) => ar[a] = arena[a]
  <2>1. Unused \in ArenaRecords /\ Unused.total = 0
    BY DEF Unused, ArenaRecords
  <2> HIDE DEF Unused
  <2> QED BY <1>2, <2>1 DEF Types
<1> HIDE DEF ar
<1>4. ToSet(<<>>) = {} /\ NoTwice(<<>>) /\ <<>> \in Seq(ArenaIds)
  BY DEF ToSet, NoTwice
<1>5. Types'
  BY <1>1, <1>2, <1>3, <1>4 DEF Types
<1>6. Listed'
  <2>1. /\ \A p \in Pools : ToSet(arenas[p]) \cap ToSet(arenaFreelist) = {}
        /\ \A p, q \in Pools : p # q => ToSet(arenas[p]) \cap ToSet(arenas[q]) = {}
        /\ \A a \in ArenaIds :
            arena[a].total > 0 <=> a \in ToSet(arenaFreelist) \/ \E p \in Pools : a \in ToSet(arenas[p])
    BY <1>2 DEF Listed
  <2>2. ASSUME NEW a \in ArenaIds PROVE ar[a].total > 0 <=> \E p \in Pools : a \in ToSet(arenas[p])
    <3>1. CASE a \in ToSet(arenaFreelist)
      <4>1. ~(ar[a].total > 0)
        BY <1>3, <3>1
      <4> QED BY <2>1, <3>1, <4>1
    <3>2. CASE a \notin ToSet(arenaFreelist)
      BY <1>3, <2>1, <3>2
    <3> QED BY <3>1, <3>2
  <2>3. NoTwice(<<>>) /\ \A p \in Pools : ToSet(arenas[p]) \cap ToSet(<<>>) = {}
    BY <1>4
  <2>4. \A a \in ArenaIds : ar[a].total > 0 <=> a \in ToSet(<<>>) \/ \E p \in Pools : a \in ToSet(arenas[p])
    BY <1>4, <2>2
  <2> HIDE DEF ar
  <2> QED BY ONLY <1>1, <2>1, <2>3, <2>4 DEF Listed
<1>7. ASSUME NEW p \in Pools PROVE Sound(p, ar, arenas[p], held[p], marks[p])
  <2>1. Domains(arena, arenas[p], held[p], marks[p]) /\ Sound(p, arena, arenas[p], held[p], marks[p])
        /\ ToSet(arenas[p]) \subseteq ArenaIds
    BY <1>2, PoolTyped
  <2>2. \A a \in ToSet(arenas[p]) : ar[a] = arena[a]
    BY <1>2, <1>3, <2>1 DEF Listed
  <2> QED BY ONLY <2>1, <2>2, Elsewhere
<1> QED BY <1>1, <1>5, <1>6, <1>7 DEF PoolInv

\* A sequence without repetition cut after n elements.
Parts(K, s, n, t, gone) ==
    t \in Seq(K) /\ Len(t) = n /\ Begin(s, t) /\ gone = ToSet(s) \ ToSet(t)

LEMMA Cut ==
  ASSUME NEW K, NEW s, s \in Seq(K), NoTwice(s), NEW n, n \in 0..Len(s)
  PROVE  Parts(K, s, n, SubSeq(s, 1, n), ToSet(SubSeq(s, n + 1, Len(s))))
<1> DEFINE t == SubSeq(s, 1, n)
           u == SubSeq(s, n + 1, Len(s))
           l == Len(s)
<1>1. l \in Nat /\ n \in Int /\ 0 <= n /\ n <= l /\ \A i \in 1..l : s[i] \in K
  OBVIOUS
<1>2. t \in Seq(K) /\ Len(t) = n /\ \A i \in 1..n : t[i] = s[i]
  BY PrefixIs
<1> HIDE DEF t
<1>3. u \in Seq(K) /\ Len(u) = l - n /\ \A i \in 1..l - n : u[i] = s[n + i]
  <2>1. n + 1 \in Int /\ l \in Int /\ \A j \in n + 1..l : s[j] \in K
    BY <1>1
  <2>2. /\ u \in Seq(K) /\ Len(u) = IF n + 1 <= l THEN l - (n + 1) + 1 ELSE 0
        /\ \A j \in 1..l - (n + 1) + 1 : u[j] = s[(n + 1) + j - 1]
    BY <2>1, SubSeqProperties
  <2> HIDE DEF u
  <2>3. \A j \in 1..l - n : (n + 1) + j - 1 = n + j /\ j \in 1..l - (n + 1) + 1
    BY <1>1
  <2>4. Len(u) = l - n
    BY <1>1, <2>2
  <2> QED BY ONLY <2>2, <2>3, <2>4
<1>4. /\ \A i \in 1..l : s[i] \in ToSet(s)
      /\ \A x \in ToSet(s) : \E i \in 1..l : s[i] = x
  BY Members
<1>5. /\ \A i \in 1..n : t[i] \in ToSet(t)
      /\ \A x \in ToSet(t) : \E i \in 1..n : t[i] = x
  <2>1. t \in Seq(K)
    BY <1>2
  <2>2. \A i \in 1..Len(t) : t[i] \in ToSet(t)
    BY ONLY <2>1, Members
  <2>3. \A x \in ToSet(t) : \E i \in 1..Len(t) : t[i] = x
    BY ONLY <2>1, Members
  <2> QED BY ONLY <1>2, <2>2, <2>3
<1>6a. /\ \A i \in 1..Len(u) : u[i] \in ToSet(u)
       /\ \A x \in ToSet(u) : \E i \in 1..Len(u) : u[i] = x
  <2> HIDE DEF u
  <2> QED BY <1>3, Members
<1> HIDE DEF u
<1>6. /\ \A i \in 1..l - n : u[i] \in ToSet(u)
      /\ \A x \in ToSet(u) : \E i \in 1..l - n : u[i] = x
  BY <1>3, <1>6a
<1>7. ASSUME NEW x \in ToSet(u) PROVE x \in ToSet(s) /\ x \notin ToSet(t)
  <2>1. PICK i \in 1..l - n : u[i] = x
    BY <1>6
  <2>2. n + i \in 1..l /\ s[n + i] = x
    BY <1>1, <1>3, <2>1
  <2>3. ASSUME NEW j \in 1..n PROVE t[j] # x
    <3>1. j \in 1..l /\ j # n + i /\ t[j] = s[j]
      BY <1>1, <1>2
    <3> QED BY <2>2, <3>1 DEF NoTwice
  <2> QED BY <1>4, <1>5, <2>2, <2>3
<1>8. ASSUME NEW x \in ToSet(s), x \notin ToSet(t) PROVE x \in ToSet(u)
  <2>1. PICK i \in 1..l : s[i] = x
    BY <1>4
  <2>2. ~(i \in 1..n)
    BY <1>2, <1>5, <1>8, <2>1
  <2>3. i - n \in 1..l - n /\ n + (i - n) = i
    BY <1>1, <2>2
  <2> QED BY <1>3, <1>6, <2>1, <2>3
<1>9. ToSet(u) = ToSet(s) \ ToSet(t)
  BY <1>7, <1>8
<1>10. Begin(s, t)
  BY <1>1, <1>2 DEF Begin
<1>11. Parts(K, s, n, t, ToSet(u))
  BY <1>2, <1>9, <1>10 DEF Parts
<1> QED BY <1>11 DEF t, u

LEMMA ReleaseKeeps ==
  ASSUME PoolInv, NEW p \in Pools, ReleaseTo(p)
  PROVE  PoolInv'
<1> DEFINE c == arenas[p]
           h == held[p]
           ms == marks[p]
           m == Last(ms)
           n == Len(ms) - 1
           ms2 == Front(ms)
           keeps == {i \in DOMAIN c : c[i] = m.arena /\ m.avail >= arena[m.arena].base
                                        /\ m.avail <= arena[m.arena].avail}
           kept == IF m.arena = First THEN 0 ELSE Min(keeps)
           gone == ToSet(SubSeq(c, kept + 1, Len(c)))
           h2 == [i \in 1..m.count |-> h[i]]
           c2 == SubSeq(c, 1, kept)
           ar2 == [a \in ArenaIds |-> IF a \in gone THEN Unused
                                      ELSE IF a = m.arena THEN [arena[a] EXCEPT !.avail = m.avail]
                                      ELSE arena[a]]
<1>1. /\ Domains(arena, c, h, ms) /\ Sound(p, arena, c, h, ms)
      /\ arena \in [ArenaIds -> ArenaRecords] /\ c \in Seq(ArenaIds)
      /\ arenaFreelist \in Seq(ArenaIds) /\ h \in Seq(Blocks) /\ ms \in Seq(Cursors)
      /\ NoTwice(c) /\ NoTwice(arenaFreelist) /\ ToSet(c) \cap ToSet(arenaFreelist) = {}
      /\ ToSet(c) \subseteq Mine(p) /\ ToSet(arenaFreelist) \subseteq Mine(p)
      /\ \A x \in Mine(p) : arena[x].total > 0 <=> x \in ToSet(c) \/ x \in ToSet(arenaFreelist)
      /\ Mine(p) \subseteq ArenaIds
  BY PoolFacts
<1>2. /\ ms # <<>> /\ marks' = [marks EXCEPT ![p] = ms2] /\ held' = [held EXCEPT ![p] = h2]
      /\ arenaFreelist' = arenaFreelist
      /\ ~(m.arena # First /\ keeps = {}) => arenas' = [arenas EXCEPT ![p] = c2] /\ arena' = ar2
  BY DEF ReleaseTo
<1>3. /\ n \in Nat /\ Len(ms) = n + 1 /\ m = ms[n + 1] /\ n + 1 \in 1..Len(ms) /\ n \in 0..Len(ms)
      /\ ms2 = SubSeq(ms, 1, n)
  BY <1>1, <1>2 DEF Last, Front
<1> HIDE DEF m, n, ms2, keeps, kept, gone, h2, c2, ar2
<1>4. Divides(p, arena, c, h, m)
  BY <1>1, <1>3 DEF Sound, Marked
<1>5. /\ m.arena \in ArenaIds \cup {First} /\ m.count \in Nat /\ m.avail \in Nat
      /\ Len(c) \in Nat /\ Len(h) \in Nat /\ DOMAIN c = 1..Len(c)
      /\ \A i \in 1..Len(c) : c[i] \in ArenaIds /\ c[i] \in ToSet(c)
      /\ \A x \in ToSet(c) : \E i \in 1..Len(c) : c[i] = x
      /\ First \notin ArenaIds
  <2>1. m \in Cursors
    BY <1>1, <1>3
  <2>2. m.arena \in ArenaIds \cup {First} /\ m.count \in Nat /\ m.avail \in Nat
    BY <2>1 DEF Cursors
  <2>3. Len(h) \in Nat /\ DOMAIN c = 1..Len(c)
    BY <1>1
  <2>4. /\ Len(c) \in Nat /\ \A i \in 1..Len(c) : c[i] \in ArenaIds /\ c[i] \in ToSet(c)
        /\ \A x \in ToSet(c) : \E i \in 1..Len(c) : c[i] = x
    BY <1>1, Typed
  <2> QED BY <2>2, <2>3, <2>4, ArenaPoolAssumption
<1> HIDE DEF c, h, ms
<1>6. /\ kept \in 0..Len(c) /\ ~(m.arena # First /\ keeps = {})
      /\ m.arena = First => kept = 0
      /\ m.arena # First => kept \in 1..Len(c) /\ c[kept] = m.arena
  <2>1. CASE m.arena = First
    BY <1>5, <2>1 DEF kept
  <2>2. CASE m.arena # First
    <3>1. /\ m.arena \in ToSet(c) /\ arena[m.arena].base <= m.avail
          /\ m.avail <= arena[m.arena].avail
      BY <1>4, <2>2 DEF Divides
    <3>2. PICK i \in 1..Len(c) : c[i] = m.arena
      BY <1>5, <3>1
    <3>a. arena[m.arena].base \in Nat
      <4>1. m.arena \in ArenaIds
        BY <1>5, <2>2
      <4> QED BY <1>1, <4>1 DEF ArenaRecords
    <3>3. m.avail >= arena[m.arena].base
      BY <1>5, <3>1, <3>a
    <3>4. i \in keeps
      BY <1>5, <3>1, <3>2, <3>3 DEF keeps
    <3>5. keeps \in SUBSET Nat /\ \A j \in keeps : j \in 1..Len(c) /\ c[j] = m.arena
      BY <1>5 DEF keeps
    <3>6. kept \in keeps
      BY <2>2, <3>4, <3>5, MinIn DEF kept
    <3> QED BY <2>2, <3>4, <3>5, <3>6
  <2> QED BY <2>1, <2>2
<1>7. arenas' = [arenas EXCEPT ![p] = c2] /\ arena' = ar2
  BY <1>2, <1>6
<1>8. /\ c2 \in Seq(ArenaIds) /\ Len(c2) = kept /\ Begin(c, c2)
      /\ gone = ToSet(c) \ ToSet(c2)
  <2>1. c2 = SubSeq(c, 1, kept)
    BY DEF c2
  <2>2. gone = ToSet(SubSeq(c, kept + 1, Len(c)))
    BY DEF gone
  <2>3. c \in Seq(ArenaIds) /\ NoTwice(c) /\ kept \in 0..Len(c)
    BY <1>1, <1>6
  <2>4. Parts(ArenaIds, c, kept, SubSeq(c, 1, kept), ToSet(SubSeq(c, kept + 1, Len(c))))
    BY ONLY <2>3, Cut
  <2> QED BY ONLY <2>1, <2>2, <2>4 DEF Parts
<1>9. /\ ToSet(c2) \subseteq ToSet(c)
      /\ m.arena # First => m.arena \in ToSet(c2) /\ m.arena \in ArenaIds
  <2>1. ToSet(c2) \subseteq ToSet(c)
    BY <1>1, <1>8, PrefixOrder
  <2>2. ASSUME m.arena # First PROVE m.arena \in ToSet(c2)
    <3>1. kept \in 1..Len(c2) /\ c2[kept] = m.arena
      BY <1>6, <1>8, <2>2 DEF Begin
    <3> QED BY <1>8, <3>1, Members
  <2> QED BY <1>5, <2>1, <2>2
<1>10. /\ ar2 \in [ArenaIds -> ArenaRecords]
       /\ \A a \in ArenaIds : a \in gone => ar2[a].total = 0
       /\ \A a \in ArenaIds : a \notin gone => ar2[a].total = arena[a].total
       /\ \A a \in ArenaIds : a \notin gone /\ a # m.arena => ar2[a] = arena[a]
       /\ m.arena # First => /\ ar2[m.arena].base = arena[m.arena].base /\ ar2[m.arena].avail = m.avail
                             /\ ar2[m.arena].back = arena[m.arena].back
  <2>1. Unused \in ArenaRecords /\ Unused.total = 0
    BY DEF Unused, ArenaRecords
  <2>2. ASSUME NEW a \in ArenaIds
        PROVE  /\ [arena[a] EXCEPT !.avail = m.avail] \in ArenaRecords
               /\ [arena[a] EXCEPT !.avail = m.avail].total = arena[a].total
               /\ [arena[a] EXCEPT !.avail = m.avail].base = arena[a].base
               /\ [arena[a] EXCEPT !.avail = m.avail].back = arena[a].back
               /\ [arena[a] EXCEPT !.avail = m.avail].avail = m.avail
    <3>1. arena[a] \in ArenaRecords
      BY <1>1
    <3> QED BY <1>5, <3>1 DEF ArenaRecords
  <2>3. \A a \in ArenaIds : ar2[a] = IF a \in gone THEN Unused
                                      ELSE IF a = m.arena THEN [arena[a] EXCEPT !.avail = m.avail]
                                      ELSE arena[a]
    BY DEF ar2
  <2> HIDE DEF Unused
  <2>4. \A a \in ArenaIds : ar2[a] \in ArenaRecords
    <3>1. \A a \in ArenaIds : arena[a] \in ArenaRecords
      BY <1>1
    <3> QED BY <2>1, <2>2, <2>3, <3>1
  <2>5. ar2 \in [ArenaIds -> ArenaRecords]
    <3>1. ar2 = [a \in ArenaIds |-> ar2[a]]
      BY DEF ar2
    <3> QED BY <2>4, <3>1
  <2>6. m.arena # First => m.arena \notin gone
    BY <1>8, <1>9
  <2>7. \A a \in ArenaIds : a \in gone => ar2[a].total = 0
    BY <2>1, <2>3
  <2>8. \A a \in ArenaIds : a \notin gone => ar2[a].total = arena[a].total
    BY <2>2, <2>3
  <2>9. \A a \in ArenaIds : a \notin gone /\ a # m.arena => ar2[a] = arena[a]
    BY <2>3
  <2>10. m.arena # First => /\ ar2[m.arena].base = arena[m.arena].base /\ ar2[m.arena].avail = m.avail
                            /\ ar2[m.arena].back = arena[m.arena].back
    BY <1>9, <2>2, <2>3, <2>6
  <2> QED BY <2>5, <2>7, <2>8, <2>9, <2>10
<1>11. h2 \in Seq(Blocks) /\ Len(h2) = m.count /\ \A k \in 1..m.count : h2[k] = h[k]
  <2>1. m.count <= Len(h)
    BY <1>4 DEF Divides
  <2>2. \A k \in 1..m.count : h[k] \in Blocks
    BY <1>1, <1>5, <2>1
  <2>3. h2 = [i \in 1..m.count |-> h[i]]
    BY DEF h2
  <2>4. h2 \in [1..m.count -> Blocks]
    BY <2>2, <2>3
  <2> QED BY <1>5, <2>3, <2>4
<1>12. ms2 \in Seq(Cursors) /\ Len(ms2) = n /\ \A x \in 1..n : ms2[x] = ms[x]
  BY <1>1, <1>3, PrefixIs
<1>13. Domains(ar2, c2, h2, ms2)
  BY <1>8, <1>10, <1>11, <1>12 DEF Domains
<1>14. Sound(p, ar2, c2, h2, ms2)
  <2>1. CASE m.arena = First
    <3>1. Len(c2) = 0 /\ Len(h2) = m.count /\ Len(ms) = n + 1 /\ n \in Nat /\ m = ms[n + 1] /\ p \in Pools
      BY <1>3, <1>6, <1>8, <1>11, <2>1
    <3>2. Domains(arena, c, h, ms) /\ Sound(p, arena, c, h, ms)
      BY <1>1
    <3>3. Len(ms2) = n /\ \A x \in 1..n : ms2[x] = ms[x]
      BY <1>12
    <3> QED BY ONLY <2>1, <3>1, <3>2, <3>3, ReleasedAll
  <2>2. CASE m.arena # First
    <3>1. /\ Len(c2) \in 1..Len(c) /\ c[Len(c2)] = m.arena /\ Begin(c, c2)
          /\ Len(ms) = n + 1 /\ n \in Nat /\ m = ms[n + 1] /\ p \in Pools
      BY <1>3, <1>6, <1>8, <2>2
    <3>2. /\ \A x \in ToSet(c2) : x # m.arena => ar2[x] = arena[x]
          /\ ar2[m.arena].total = arena[m.arena].total
      <4>1. \A x \in ToSet(c2) : x \in ArenaIds /\ x \notin gone
        BY <1>1, <1>8, <1>9
      <4> QED BY <1>9, <1>10, <2>2, <4>1
    <3>3. /\ ar2[m.arena].base = arena[m.arena].base /\ ar2[m.arena].avail = m.avail
          /\ ar2[m.arena].back = arena[m.arena].back
      BY <1>10, <2>2
    <3>4. Domains(arena, c, h, ms) /\ Sound(p, arena, c, h, ms)
      BY <1>1
    <3>5. /\ Len(ms2) = n /\ \A x \in 1..n : ms2[x] = ms[x]
          /\ Len(h2) = m.count /\ \A k \in 1..m.count : h2[k] = h[k]
      BY <1>11, <1>12
    <3> QED BY ONLY <1>13, <2>2, <3>5, <3>1, <3>2, <3>3, <3>4, Released
  <2> QED BY <2>1, <2>2
<1>15. /\ ToSet(c2) \cap ToSet(arenaFreelist) = {} /\ ToSet(c2) \subseteq Mine(p)
       /\ \A x \in ArenaIds \ Mine(p) : ar2[x] = arena[x]
       /\ \A x \in Mine(p) : ar2[x].total > 0 <=> x \in ToSet(c2) \/ x \in ToSet(arenaFreelist)
  <2>1. ToSet(c2) \cap ToSet(arenaFreelist) = {} /\ ToSet(c2) \subseteq Mine(p)
    BY <1>1, <1>9
  <2>2. \A x \in ArenaIds \ Mine(p) : ar2[x] = arena[x]
    <3>1. \A x \in ArenaIds \ Mine(p) : x \notin gone /\ x # m.arena
      BY <1>1, <1>5, <1>8, <1>9
    <3> QED BY <1>10, <3>1
  <2>3. ASSUME NEW x \in Mine(p)
        PROVE  ar2[x].total > 0 <=> x \in ToSet(c2) \/ x \in ToSet(arenaFreelist)
    <3>1. CASE x \in gone
      <4>1. ~(ar2[x].total > 0)
        BY <1>1, <1>10, <3>1
      <4> QED BY <1>1, <1>8, <3>1, <4>1
    <3>2. CASE x \notin gone
      <4>1. ar2[x].total = arena[x].total
        BY <1>1, <1>10, <3>2
      <4> QED BY <1>1, <1>8, <1>9, <3>2, <4>1
    <3> QED BY <3>1, <3>2
  <2> QED BY <2>1, <2>2, <2>3
<1>16. StepOf(p, ar2, c2, arenaFreelist, h2, ms2)
  BY ONLY <1>1, <1>2, <1>7, <1>8, <1>10, <1>11, <1>12, <1>14, <1>15 DEF StepOf
<1> QED BY <1>16, StepKeeps

\* The arenas after i is taken out of the chain, before its own is given back.
Mended(ar, p, rest, i) ==
    IF i <= Len(rest) /\ Oversized(p, ar[rest[i]].avail - ar[rest[i]].base)
    THEN [ar EXCEPT ![rest[i]].back = Before(rest, i)] ELSE ar

\* Only the arena that follows changes, and only its back pointer.
OnlyMended(ar, p, rest, i, ar2) ==
    /\ ar2 \in [ArenaIds -> ArenaRecords]
    /\ \A x \in ArenaIds : /\ ar2[x].total = ar[x].total /\ ar2[x].base = ar[x].base
                           /\ ar2[x].avail = ar[x].avail
    /\ \A x \in ArenaIds : ar2[x] = ar[x] \/ (i \in 1..Len(rest) /\ x = rest[i])
    /\ i \in 1..Len(rest) /\ Oversized(p, ar[rest[i]].avail - ar[rest[i]].base)
         => ar2[rest[i]].back = Before(rest, i)

LEMMA RestMended ==
  ASSUME NEW p, NEW ar \in [ArenaIds -> ArenaRecords], NEW rest \in Seq(ArenaIds),
         NEW i \in Nat, i >= 1, i <= Len(rest) + 1
  PROVE  OnlyMended(ar, p, rest, i, Mended(ar, p, rest, i))
<1> DEFINE ar2 == Mended(ar, p, rest, i)
<1>0. ar2 = Mended(ar, p, rest, i)
  OBVIOUS
<1> HIDE DEF ar2
<1> SUFFICES OnlyMended(ar, p, rest, i, ar2)
  BY DEF ar2
<1>1. CASE i <= Len(rest) /\ Oversized(p, ar[rest[i]].avail - ar[rest[i]].base)
  <2> DEFINE y == rest[i]
             z == Before(rest, i)
  <2>1. i \in 1..Len(rest) /\ y \in ArenaIds
    BY <1>1
  <2>2. z \in ArenaIds \cup {First}
    <3>1. i # 1 => i - 1 \in 1..Len(rest)
      BY <2>1
    <3> QED BY <3>1 DEF Before
  <2>3. ar2 = [ar EXCEPT ![y].back = z]
    BY <1>0, <1>1 DEF Mended
  <2> HIDE DEF y, z
  <2>4. /\ ar2 \in [ArenaIds -> ArenaRecords] /\ ar2[y].back = z
        /\ \A x \in ArenaIds : /\ ar2[x].total = ar[x].total /\ ar2[x].base = ar[x].base
                               /\ ar2[x].avail = ar[x].avail
        /\ \A x \in ArenaIds : x # y => ar2[x] = ar[x]
    BY <2>1, <2>2, <2>3 DEF ArenaRecords
  <2> QED BY <2>1, <2>4 DEF y, z, OnlyMended
<1>2. CASE ~(i <= Len(rest) /\ Oversized(p, ar[rest[i]].avail - ar[rest[i]].base))
  <2>1. ar2 = ar /\ (i \in 1..Len(rest) => i <= Len(rest))
    BY <1>0, <1>2 DEF Mended
  <2> QED BY <1>2, <2>1 DEF OnlyMended
<1> QED BY <1>1, <1>2

\* What FreeAllocation does when it takes the arena at i out.
Drops(p, i, k) ==
    /\ arena' = [Mended(arena, p, RemoveAt(arenas[p], i), i) EXCEPT ![arenas[p][i]] = Unused]
    /\ arenas' = [arenas EXCEPT ![p] = RemoveAt(arenas[p], i)]
    /\ held' = [held EXCEPT ![p] = Keeping(held[p], OutsideArena(p, k))]
    /\ arenaFreelist' = arenaFreelist /\ marks' = marks

LEMMA DropKeeps ==
  ASSUME PoolInv, NEW p \in Pools, NEW k \in 1..Len(held[p]), NEW i \in 1..Len(arenas[p]),
         Heads(arena, arenas[p], held[p], marks[p], k, i), Drops(p, i, k)
  PROVE  PoolInv'
<1> DEFINE c == arenas[p]
           h == held[p]
           ms == marks[p]
           a == c[i]
           rest == RemoveAt(c, i)
           K == Outside(h, a)
           h2 == Keeping(h, K)
           fixed == Mended(arena, p, rest, i)
           ar2 == [fixed EXCEPT ![a] = Unused]
<1>1. /\ Domains(arena, c, h, ms) /\ Sound(p, arena, c, h, ms)
      /\ arena \in [ArenaIds -> ArenaRecords] /\ c \in Seq(ArenaIds)
      /\ arenaFreelist \in Seq(ArenaIds) /\ h \in Seq(Blocks) /\ ms \in Seq(Cursors)
      /\ NoTwice(c) /\ NoTwice(arenaFreelist) /\ ToSet(c) \cap ToSet(arenaFreelist) = {}
      /\ ToSet(c) \subseteq Mine(p) /\ ToSet(arenaFreelist) \subseteq Mine(p)
      /\ \A x \in Mine(p) : arena[x].total > 0 <=> x \in ToSet(c) \/ x \in ToSet(arenaFreelist)
      /\ Mine(p) \subseteq ArenaIds
  BY PoolFacts
<1>2. /\ arena' = ar2 /\ arenas' = [arenas EXCEPT ![p] = rest] /\ held' = [held EXCEPT ![p] = h2]
      /\ arenaFreelist' = arenaFreelist /\ marks' = marks
  <2>1. OutsideArena(p, k) = K
    BY OutsideIs DEF Heads
  <2> HIDE DEF K
  <2> QED BY <2>1 DEF Drops
<1>3. /\ Len(c) \in Nat /\ a \in ArenaIds /\ a \in ToSet(c)
      /\ \A j \in 1..Len(c) : c[j] \in ArenaIds
      /\ \A j \in 1..Len(c) : j # i => c[j] # a
  BY <1>1, Typed DEF NoTwice
<1>4. /\ rest \in Seq(ArenaIds) /\ Len(rest) = Len(c) - 1
      /\ \A j \in 1..Len(c) - 1 : rest[j] = IF j < i THEN c[j] ELSE c[j + 1]
  <2>1. c \in Seq(ArenaIds) /\ i \in 1..Len(c)
    BY <1>1
  <2> HIDE DEF c
  <2> QED BY ONLY <2>1, RemovedIs
<1>5. h2 \in Seq(Blocks) /\ Fewer(h, h2, K)
  <2>1. h \in Seq(Blocks) /\ K \subseteq 1..Len(h) /\ h2 = Keeping(h, K)
    BY <1>1 DEF Outside
  <2> HIDE DEF h, K, h2
  <2> QED BY ONLY <2>1, KeepingIs, KeptFewer
<1>o. /\ Heads(arena, c, h, ms, k, i) /\ i \in 1..Len(c) /\ a = c[i] /\ rest = RemoveAt(c, i) /\ p \in Pools
      /\ fixed = Mended(arena, p, rest, i) /\ ar2 = [fixed EXCEPT ![a] = Unused]
      /\ K = Outside(h, c[i]) /\ ms = marks[p]
  OBVIOUS
<1> HIDE DEF c, h, ms, a, rest, K, h2, fixed, ar2
<1>6. NoTwice(rest) /\ ToSet(rest) = ToSet(c) \ {a}
  <2>1. c \in Seq(ArenaIds) /\ NoTwice(c)
    BY <1>1
  <2> QED BY ONLY <1>o, <2>1, RemovedKeeps
<1>7. /\ fixed \in [ArenaIds -> ArenaRecords]
      /\ \A x \in ArenaIds : /\ fixed[x].total = arena[x].total /\ fixed[x].base = arena[x].base
                             /\ fixed[x].avail = arena[x].avail
      /\ \A x \in ArenaIds : fixed[x] = arena[x] \/ (i \in 1..Len(rest) /\ x = rest[i])
      /\ i \in 1..Len(rest) /\ Oversized(p, arena[rest[i]].avail - arena[rest[i]].base)
           => fixed[rest[i]].back = Before(rest, i)
  <2>1. i \in Nat /\ i >= 1 /\ i <= Len(rest) + 1
    BY <1>3, <1>4, <1>o
  <2>2. arena \in [ArenaIds -> ArenaRecords] /\ rest \in Seq(ArenaIds) /\ fixed = Mended(arena, p, rest, i)
    BY <1>1, <1>4, <1>o
  <2>3. OnlyMended(arena, p, rest, i, Mended(arena, p, rest, i))
    BY ONLY <2>1, <2>2, RestMended
  <2> QED BY ONLY <2>2, <2>3 DEF OnlyMended
<1>8. /\ ar2 \in [ArenaIds -> ArenaRecords] /\ ar2[a].total = 0
      /\ \A x \in ArenaIds : x # a => ar2[x] = fixed[x]
  <2>1. Unused \in ArenaRecords /\ Unused.total = 0
    BY DEF Unused, ArenaRecords
  <2> HIDE DEF Unused
  <2> QED BY ONLY <1>3, <1>7, <1>o, <2>1
<1>9. i \in 1..Len(rest) => rest[i] = c[i + 1] /\ i + 1 \in 1..Len(c)
  BY <1>3, <1>4, <1>o
<1>10. Before(rest, i) = Before(c, i)
  <2>1. CASE i = 1
    BY <2>1 DEF Before
  <2>2. CASE i # 1
    <3>1. i - 1 \in 1..Len(c) - 1 /\ i - 1 < i
      BY <1>3, <1>o, <2>2
    <3> QED BY <1>4, <2>2, <3>1 DEF Before
  <2> QED BY <2>1, <2>2
<1>11. Told(arena, ar2, c, i, Before(c, i))
  <2>1. ASSUME NEW j \in 1..Len(c), j # i
        PROVE  /\ ar2[c[j]].total = arena[c[j]].total /\ ar2[c[j]].base = arena[c[j]].base
               /\ ar2[c[j]].avail = arena[c[j]].avail
               /\ arena[c[j]].base = 1 =>
                    ar2[c[j]].back = IF j = i + 1 THEN Before(c, i) ELSE arena[c[j]].back
    <3>1. c[j] \in ArenaIds /\ c[j] # a /\ ar2[c[j]] = fixed[c[j]]
      BY <1>3, <1>8, <2>1
    <3>2. ASSUME arena[c[j]].base = 1
          PROVE  fixed[c[j]].back = IF j = i + 1 THEN Before(c, i) ELSE arena[c[j]].back
      <4>1. CASE j = i + 1
        <5>1. i \in 1..Len(rest) /\ rest[i] = c[j]
          BY <1>3, <1>4, <1>9, <1>o, <4>1
        <5>2. Oversized(p, arena[c[j]].avail - arena[c[j]].base)
          <6>1. Domains(arena, c, h, ms) /\ Sound(p, arena, c, h, ms)
            BY <1>1
          <6> QED BY <3>2, <6>1, BegunOversized
        <5> QED BY <1>7, <1>10, <4>1, <5>1, <5>2
      <4>2. CASE j # i + 1
        <5>1. ~(i \in 1..Len(rest) /\ c[j] = rest[i])
          BY <1>1, <1>9, <4>2 DEF NoTwice
        <5>2. fixed[c[j]] = arena[c[j]]
          BY <1>7, <3>1, <5>1
        <5> QED BY <4>2, <5>2
      <4> QED BY <4>1, <4>2
    <3> QED BY <1>7, <3>1, <3>2
  <2> QED BY ONLY <2>1 DEF Told
<1>12. Domains(ar2, rest, h2, ms)
  BY <1>1, <1>4, <1>5, <1>8 DEF Domains
<1>13. Sound(p, ar2, rest, h2, ms)
  <2>1. Domains(arena, c, h, ms) /\ Sound(p, arena, c, h, ms)
    BY <1>1
  <2>2. Fewer(h, h2, Outside(h, c[i]))
    BY <1>5, <1>o
  <2>3. Heads(arena, c, h, ms, k, i) /\ rest = RemoveAt(c, i) /\ p \in Pools
    BY <1>o
  <2> QED BY ONLY <1>11, <1>12, <2>1, <2>2, <2>3, ArenaDropped
<1>14. /\ ToSet(rest) \cap ToSet(arenaFreelist) = {} /\ ToSet(rest) \subseteq Mine(p)
       /\ \A x \in ArenaIds \ Mine(p) : ar2[x] = arena[x]
       /\ \A x \in Mine(p) : ar2[x].total > 0 <=> x \in ToSet(rest) \/ x \in ToSet(arenaFreelist)
  <2>1. ToSet(rest) \cap ToSet(arenaFreelist) = {} /\ ToSet(rest) \subseteq Mine(p)
    BY <1>1, <1>6
  <2>2. ASSUME NEW x \in ArenaIds \ Mine(p) PROVE ar2[x] = arena[x]
    <3>1. x \notin ToSet(c) /\ x # a
      BY <1>1, <1>3
    <3>2. ~(i \in 1..Len(rest) /\ x = rest[i])
      <4>1. i \in 1..Len(rest) => rest[i] \in ToSet(c)
        <5>1. \A j \in 1..Len(c) : c[j] \in ToSet(c)
          BY <1>1, Typed
        <5> QED BY <1>9, <5>1
      <4> QED BY <3>1, <4>1
    <3> QED BY <1>7, <1>8, <3>1, <3>2
  <2>3. ASSUME NEW x \in Mine(p)
        PROVE  ar2[x].total > 0 <=> x \in ToSet(rest) \/ x \in ToSet(arenaFreelist)
    <3>1. CASE x = a
      <4>1. ~(ar2[x].total > 0)
        BY <1>8, <3>1
      <4> QED BY <1>1, <1>3, <1>6, <3>1, <4>1
    <3>2. CASE x # a
      <4>1. ar2[x].total = arena[x].total
        BY <1>1, <1>7, <1>8, <3>2
      <4> QED BY <1>1, <1>6, <3>2, <4>1
    <3> QED BY <3>1, <3>2
  <2> QED BY <2>1, <2>2, <2>3
<1>15. marks' = [marks EXCEPT ![p] = ms]
  BY <1>2, <1>o, Unchanged DEF PoolInv
<1>16. StepOf(p, ar2, rest, arenaFreelist, h2, ms)
  BY ONLY <1>1, <1>2, <1>4, <1>5, <1>8, <1>13, <1>14, <1>15 DEF StepOf
<1> QED BY <1>16, StepKeeps

\* What FreeAllocation does when only the cursor moves.
DrawsBack(p, k) ==
    /\ arena' = [arena EXCEPT ![held[p][k].arena].avail = held[p][k].off]
    /\ held' = [held EXCEPT ![p] = RemoveAt(held[p], k)]
    /\ arenas' = arenas /\ arenaFreelist' = arenaFreelist /\ marks' = marks

LEMMA DrawBackKeeps ==
  ASSUME PoolInv, NEW p \in Pools, NEW k \in 1..Len(held[p]), NewerThanMarks(p, k),
         NEW a, a = held[p][k].arena, held[p][k].off # arena[a].base,
         arena[a].avail = held[p][k].off + held[p][k].size, DrawsBack(p, k)
  PROVE  PoolInv'
<1> DEFINE c == arenas[p]
           h == held[p]
           ms == marks[p]
           v == h[k].off
           ar2 == [arena EXCEPT ![a].avail = v]
           h2 == RemoveAt(h, k)
<1>1. /\ Domains(arena, c, h, ms) /\ Sound(p, arena, c, h, ms)
      /\ arena \in [ArenaIds -> ArenaRecords] /\ c \in Seq(ArenaIds)
      /\ arenaFreelist \in Seq(ArenaIds) /\ h \in Seq(Blocks) /\ ms \in Seq(Cursors)
      /\ NoTwice(arenaFreelist) /\ ToSet(c) \cap ToSet(arenaFreelist) = {}
      /\ ToSet(c) \subseteq Mine(p) /\ ToSet(arenaFreelist) \subseteq Mine(p)
      /\ \A x \in Mine(p) : arena[x].total > 0 <=> x \in ToSet(c) \/ x \in ToSet(arenaFreelist)
      /\ Mine(p) \subseteq ArenaIds
  BY PoolFacts
<1>2. /\ arena' = ar2 /\ held' = [held EXCEPT ![p] = h2]
      /\ arenas' = arenas /\ arenaFreelist' = arenaFreelist /\ marks' = marks
  BY DEF DrawsBack
<1>3. a \in ToSet(c) /\ a \in ArenaIds
  BY <1>1, Typed DEF Sound, Placed
<1>4. v \in Nat
  BY <1>1, Typed
<1>5. /\ ar2 \in [ArenaIds -> ArenaRecords] /\ ar2[a].avail = v /\ ar2[a].base = arena[a].base
      /\ ar2[a].total = arena[a].total /\ ar2[a].back = arena[a].back
      /\ \A x \in ArenaIds : x # a => ar2[x] = arena[x]
      /\ \A x \in ArenaIds : ar2[x].total = arena[x].total
  <2>1. ar2 = [arena EXCEPT ![a].avail = v]
    OBVIOUS
  <2>2. arena \in [ArenaIds -> ArenaRecords] /\ a \in ArenaIds /\ v \in Nat
    BY <1>1, <1>3, <1>4
  <2> HIDE DEF v, ar2
  <2> QED BY ONLY <2>1, <2>2 DEF ArenaRecords
<1>6. h2 \in Seq(Blocks) /\ Len(h2) = Len(h) - 1 /\ \A j \in 1..Len(h) - 1 : h2[j] = IF j < k THEN h[j] ELSE h[j + 1]
  <2>1. h \in Seq(Blocks) /\ k \in 1..Len(h)
    BY <1>1
  <2> HIDE DEF h
  <2> QED BY ONLY <2>1, RemovedIs
<1> HIDE DEF ar2, h2
<1>7. Domains(ar2, c, h2, ms)
  BY <1>1, <1>5, <1>6 DEF Domains
<1>8. Sound(p, ar2, c, h2, ms)
  <2>1. /\ k \in 1..Len(h) /\ a = h[k].arena /\ arena[a].avail = h[k].off + h[k].size
        /\ h[k].off # arena[a].base /\ p \in Pools
    OBVIOUS
  <2>2. \A x \in 1..Len(ms) : ms[x].count < k
    BY Newer
  <2>3. MovedTo(arena, ar2, a, h[k].off)
    BY <1>5 DEF MovedTo
  <2>4. Domains(arena, c, h, ms) /\ Sound(p, arena, c, h, ms)
    BY <1>1
  <2>5. Len(h2) = Len(h) - 1 /\ \A j \in 1..Len(h) - 1 : h2[j] = IF j < k THEN h[j] ELSE h[j + 1]
    BY <1>6
  <2> HIDE DEF c, h, ms, v
  <2> QED BY ONLY <1>7, <2>1, <2>2, <2>3, <2>4, <2>5, CursorDrawnBack
<1>9. arenas' = [arenas EXCEPT ![p] = c] /\ marks' = [marks EXCEPT ![p] = ms]
  BY <1>2, Unchanged DEF PoolInv
<1> HIDE DEF c, h, ms, v
<1>10. /\ \A x \in ArenaIds \ Mine(p) : ar2[x] = arena[x]
       /\ \A x \in Mine(p) : ar2[x].total > 0 <=> x \in ToSet(c) \/ x \in ToSet(arenaFreelist)
  BY <1>1, <1>3, <1>5
<1>11. StepOf(p, ar2, c, arenaFreelist, h2, ms)
  BY ONLY <1>1, <1>2, <1>5, <1>6, <1>8, <1>9, <1>10 DEF StepOf
<1> QED BY <1>11, StepKeeps

LEMMA FreeKeeps ==
  ASSUME PoolInv, NEW p \in Pools, NEW k \in 1..Len(held[p]), FreeAllocation(p, k)
  PROVE  PoolInv'
<1> DEFINE c == arenas[p]
           h == held[p]
           ms == marks[p]
           block == h[k]
           a == block.arena
           i == IF Oversized(p, block.size)
                THEN IF arena[a].back = First THEN 1
                     ELSE 1 + CHOOSE j \in DOMAIN c : c[j] = arena[a].back
                ELSE CHOOSE j \in DOMAIN c : c[j] = a
           Drop == Oversized(p, block.size)
                     \/ (block.off = arena[a].base /\ arena[a].avail = block.off + block.size)
<1>1. /\ Domains(arena, c, h, ms) /\ Sound(p, arena, c, h, ms)
      /\ c \in Seq(ArenaIds) /\ NoTwice(c) /\ k \in 1..Len(h) /\ p \in Pools
  BY PoolFacts
<1>2. NewerThanMarks(p, k)
  BY DEF FreeAllocation
<1>3. IF Drop THEN Drops(p, i, k) ELSE arena[a].avail = block.off + block.size /\ DrawsBack(p, k)
  BY DEF FreeAllocation, Drops, DrawsBack, Mended
<1>4. \A x \in 1..Len(ms) : ms[x].count < k
  BY <1>2, Newer
<1>5. PICK i0 \in 1..Len(c) : c[i0] = a
  <2>1. a \in ToSet(c)
    BY <1>1 DEF Sound, Placed
  <2> QED BY <1>1, <2>1, Typed
<1>6. CASE Drop
  <2>1. block.off = arena[a].base
    <3>1. CASE Oversized(p, block.size)
      <4>1. a = h[k].arena /\ Oversized(p, h[k].size)
        BY <3>1
      <4>2. block.off = h[k].off
        OBVIOUS
      <4> HIDE DEF c, h, ms, a, block
      <4>3. h[k].off = arena[a].base
        BY ONLY <1>1, <4>1, OversizedBegins
      <4> QED BY <4>2, <4>3
    <3>2. CASE block.off = arena[a].base /\ arena[a].avail = block.off + block.size
      BY <3>2
    <3> QED BY <1>6, <3>1, <3>2
  <2>2. Heads(arena, c, h, ms, k, i0)
    BY <1>1, <1>4, <1>5, <2>1 DEF Heads
  <2>3. i = i0
    <3>1. CASE Oversized(p, block.size)
      <4> DEFINE ap == arena[a].back
      <4>1. ap = Before(c, i0)
        <5>1. a = c[i0] /\ block = h[k]
          BY <1>5
        <5> HIDE DEF c, h, ms, a, block
        <5> QED BY <1>1, <2>2, <3>1, <5>1, Whole
      <4>2. i = IF ap = First THEN 1 ELSE 1 + CHOOSE j \in DOMAIN c : c[j] = ap
        BY <3>1
      <4> HIDE DEF c, ap, i
      <4> QED BY <1>1, <4>1, <4>2, PlaceAfter
    <3>2. CASE ~Oversized(p, block.size)
      <4> DEFINE d == CHOOSE j \in DOMAIN c : c[j] = a
      <4>0. DOMAIN c = 1..Len(c)
        BY <1>1
      <4>1. i = d
        BY <3>2
      <4>2. d \in 1..Len(c) /\ c[d] = a
        <5> HIDE DEF c, a
        <5> QED BY <1>5, <4>0
      <4> HIDE DEF d, i
      <4> QED BY <1>1, <1>5, <4>1, <4>2 DEF NoTwice
    <3> QED BY <3>1, <3>2
  <2> HIDE DEF i, Drop
  <2>4. Drops(p, i0, k)
    BY <1>3, <1>6, <2>3
  <2> QED BY <1>5, <2>2, <2>4, DropKeeps
<1>7. CASE ~Drop
  <2>1. arena[a].avail = block.off + block.size /\ DrawsBack(p, k) /\ block.off # arena[a].base
    BY <1>3, <1>7
  <2> QED BY <1>2, <2>1, DrawBackKeeps
<1> QED BY <1>6, <1>7

----------------------------------------------------------------------------
(* All lists of arenas, one after the other.                               *)

IsFlat(f, s) == f = [i \in 1..Len(s) |-> IF i = 1 THEN s[i] ELSE f[i - 1] \o s[i]]

FlatFirst(f, s, n) == \A i \in 1..n : f[i] = IF i = 1 THEN s[i] ELSE f[i - 1] \o s[i]

LEMMA FlatExists ==
  ASSUME NEW s, Len(s) \in Nat
  PROVE  \E f : IsFlat(f, s)
<1> DEFINE Good(n) == \E f : DOMAIN f = 1..n /\ FlatFirst(f, s, n)
           Bad == {n \in Nat : ~Good(n)}
<1>1. Bad = {}
  <2> SUFFICES ASSUME Bad # {} PROVE FALSE
    OBVIOUS
  <2>1. Bad \in SUBSET Nat
    OBVIOUS
  <2>2. PICK n \in Bad : \A x \in Bad : n <= x
    BY <2>1, SmallestExists
  <2>3. n \in Nat /\ ~Good(n)
    OBVIOUS
  <2>4. n # 0
    <3> DEFINE f == [i \in 1..0 |-> s]
    <3>1. DOMAIN f = 1..0 /\ FlatFirst(f, s, 0)
      BY DEF FlatFirst
    <3> QED BY <2>3, <3>1
  <2>5. n - 1 \in Nat /\ n - 1 \notin Bad
    BY <2>2, <2>3, <2>4
  <2>6. PICK f : DOMAIN f = 1..n - 1 /\ FlatFirst(f, s, n - 1)
    BY <2>5
  <2> HIDE DEF Bad
  <2> DEFINE v == IF n = 1 THEN s[n] ELSE f[n - 1] \o s[n]
             h == [i \in 1..n |-> IF i = n THEN v ELSE f[i]]
  <2>7. FlatFirst(h, s, n)
    <3> SUFFICES ASSUME NEW i \in 1..n PROVE h[i] = IF i = 1 THEN s[i] ELSE h[i - 1] \o s[i]
      BY DEF FlatFirst
    <3>1. CASE i = n
      <4>1. h[i] = v /\ (n # 1 => h[n - 1] = f[n - 1])
        <5>1. n # 1 => n - 1 \in 1..n /\ n - 1 # n
          BY <2>3, <2>4
        <5> HIDE DEF v
        <5> QED BY <3>1, <5>1
      <4> HIDE DEF h
      <4> QED BY <3>1, <4>1
    <3>2. CASE i # n
      <4>1. i \in 1..n - 1 /\ h[i] = f[i]
        BY <2>3, <3>2
      <4>2. i # 1 => h[i - 1] = f[i - 1]
        BY <2>3, <4>1
      <4>3. f[i] = IF i = 1 THEN s[i] ELSE f[i - 1] \o s[i]
        BY <2>6, <4>1 DEF FlatFirst
      <4> HIDE DEF h
      <4> QED BY <4>1, <4>2, <4>3
    <3> QED BY <3>1, <3>2
  <2>8. DOMAIN h = 1..n
    OBVIOUS
  <2> HIDE DEF h
  <2> QED BY <2>3, <2>7, <2>8
<1> DEFINE n == Len(s)
<1>3. PICK f : DOMAIN f = 1..n /\ FlatFirst(f, s, n)
  BY <1>1
<1> DEFINE h == [i \in 1..n |-> f[i]]
<1>4. \A i \in 1..n : h[i] = IF i = 1 THEN s[i] ELSE h[i - 1] \o s[i]
  <2> TAKE i \in 1..n
  <2>1. f[i] = IF i = 1 THEN s[i] ELSE f[i - 1] \o s[i]
    BY <1>3 DEF FlatFirst
  <2>2. h[i] = f[i] /\ (i # 1 => h[i - 1] = f[i - 1])
    <3> HIDE DEF n
    <3> QED BY DEF n
  <2> HIDE DEF h
  <2> QED BY <2>1, <2>2
<1>5. h = [i \in 1..n |-> h[i]]
  OBVIOUS
<1> HIDE DEF h, n
<1>6. h = [i \in 1..n |-> IF i = 1 THEN s[i] ELSE h[i - 1] \o s[i]]
  BY <1>4, <1>5
<1> QED BY <1>6 DEF IsFlat, n

Separate(s) ==
    /\ \A i \in 1..Len(s) : NoTwice(s[i])
    /\ \A i, j \in 1..Len(s) : i # j => ToSet(s[i]) \cap ToSet(s[j]) = {}

LEMMA FlattenIs ==
  ASSUME NEW K, NEW s \in Seq(Seq(K)), Len(s) # 0
  PROVE  /\ FlattenSeq(s) \in Seq(K)
         /\ \A k : k \in ToSet(FlattenSeq(s)) <=> \E i \in 1..Len(s) : k \in ToSet(s[i])
         /\ Separate(s) => NoTwice(FlattenSeq(s))
<1> DEFINE n == Len(s)
           f == CHOOSE h : IsFlat(h, s)
           Good(i) == /\ f[i] \in Seq(K)
                      /\ \A k : k \in ToSet(f[i]) <=> \E j \in 1..i : k \in ToSet(s[j])
                      /\ Separate(s) => NoTwice(f[i])
           Bad == {i \in 1..n : ~Good(i)}
<1>1. IsFlat(f, s)
  <2>1. Len(s) \in Nat
    OBVIOUS
  <2> QED BY <2>1, FlatExists
<1>2. FlattenSeq(s) = f[n]
  BY DEF FlattenSeq, IsFlat
<1> HIDE DEF f
<1>3. n \in Nat /\ 1 <= n /\ \A i \in 1..n : s[i] \in Seq(K)
  OBVIOUS
<1>5. \A i \in 1..n : f[i] = IF i = 1 THEN s[i] ELSE f[i - 1] \o s[i]
  BY <1>1 DEF IsFlat
<1>6. Bad = {}
  <2> SUFFICES ASSUME Bad # {} PROVE FALSE
    OBVIOUS
  <2>1. Bad \in SUBSET Nat
    <3> HIDE DEF Good
    <3> QED BY <1>3
  <2>2. PICK i \in Bad : \A x \in Bad : i <= x
    BY <2>1, SmallestExists
  <2>3. i \in 1..n /\ i \in Nat /\ ~Good(i)
    <3> HIDE DEF Good
    <3> QED BY <1>3
  <2>4. i # 1
    <3>1. f[1] = s[1] /\ 1 \in 1..n
      BY <1>3, <1>5
    <3>2. 1..1 = {1}
      OBVIOUS
    <3>3. Separate(s) => NoTwice(s[1])
      BY <3>1 DEF Separate
    <3>4. s[1] \in Seq(K)
      BY <1>3, <3>1
    <3>5. Good(1)
      BY <3>1, <3>2, <3>3, <3>4
    <3> HIDE DEF Good
    <3> QED BY <2>3, <3>5
  <2>5. i - 1 \in 1..n /\ ~(i <= i - 1)
    BY <1>3, <2>3, <2>4
  <2>6. Good(i - 1)
    <3>1. i - 1 \notin Bad
      <4> HIDE DEF Bad
      <4> QED BY <2>2, <2>5
    <3> HIDE DEF Good
    <3> QED BY <2>5, <3>1
  <2> DEFINE u == f[i - 1]
             q == f[i]
             c == s[i]
  <2>7. q = u \o c /\ c \in Seq(K)
    BY <1>3, <1>5, <2>3, <2>4
  <2>8. /\ u \in Seq(K)
        /\ \A k : k \in ToSet(u) <=> \E j \in 1..i - 1 : k \in ToSet(s[j])
        /\ Separate(s) => NoTwice(u)
    BY <2>6
  <2>9. /\ \A j \in 1..i : j \in 1..i - 1 \/ j = i
        /\ \A j \in 1..i - 1 : j \in 1..i /\ j \in 1..n /\ j # i
        /\ i \in 1..i
    BY <1>3, <2>3, <2>5
  <2>10. Separate(s) => NoTwice(c) /\ ToSet(u) \cap ToSet(c) = {}
    <3> SUFFICES ASSUME Separate(s) PROVE NoTwice(c) /\ ToSet(u) \cap ToSet(c) = {}
      OBVIOUS
    <3>1. NoTwice(c)
      BY <2>3 DEF Separate
    <3>2. ASSUME NEW k \in ToSet(u) \cap ToSet(c) PROVE FALSE
      <4>1. PICK j \in 1..i - 1 : k \in ToSet(s[j])
        BY <2>8, <3>2
      <4>2. j \in 1..n /\ j # i
        BY <2>9
      <4>3. ToSet(s[j]) \cap ToSet(s[i]) = {}
        BY <2>3, <4>2 DEF Separate
      <4> QED BY <3>2, <4>1, <4>3
    <3> QED BY <3>1, <3>2
  <2> HIDE DEF u, q, c, Bad
  <2>11. q \in Seq(K) /\ ToSet(q) = ToSet(u) \cup ToSet(c) /\ (Separate(s) => NoTwice(q))
    <3>1. q \in Seq(K) /\ ToSet(q) = ToSet(u) \cup ToSet(c)
      BY <2>7, <2>8, Joined
    <3>2. NoTwice(u) /\ NoTwice(c) /\ ToSet(u) \cap ToSet(c) = {} => NoTwice(q)
      BY <2>7, <2>8, Joined
    <3> QED BY <2>8, <2>10, <3>1, <3>2
  <2>12. \A k : k \in ToSet(q) <=> \E j \in 1..i : k \in ToSet(s[j])
    BY <2>8, <2>9, <2>11 DEF c
  <2>13. Good(i)
    BY <2>11, <2>12 DEF q
  <2> HIDE DEF Good
  <2> QED BY <2>3, <2>13
<1>7. Good(n)
  <2>1. n \in 1..n
    BY <1>3
  <2> HIDE DEF Good
  <2> QED BY <1>6, <2>1
<1> QED BY <1>2, <1>7

LEMMA SetToSeqIs ==
  ASSUME NEW S, IsFiniteSet(S)
  PROVE  SetToSeq(S) \in Seq(S) /\ NoTwice(SetToSeq(S)) /\ ToSet(SetToSeq(S)) = S
<1> DEFINE n == Cardinality(S)
           m == SetToSeq(S)
           Lists(f) == f \in [1..n -> S] /\ IsInjective(f)
<1>1. n \in Nat /\ ExistsBijection(1..n, S)
  BY FS_CardinalityType
<1>2. \E f : Lists(f)
  <2>1. PICK f : f \in Bijection(1..n, S)
    BY <1>1 DEF ExistsBijection
  <2>2. f \in [1..n -> S] /\ \A a, b \in 1..n : f[a] = f[b] => a = b
    BY <2>1, Fun_BijectionProperties
  <2>3. IsInjective(f)
    BY <2>2 DEF IsInjective
  <2> QED BY <2>2, <2>3
<1>3. Lists(m)
  BY <1>2 DEF SetToSeq
<1> HIDE DEF n, m
<1>4. m \in Seq(S) /\ Len(m) = n /\ DOMAIN m = 1..n
  BY <1>1, <1>3
<1>5. NoTwice(m)
  BY <1>3, <1>4 DEF NoTwice, IsInjective
<1>6. \A x \in S : \E i \in 1..n : m[i] = x
  <2>1. IsFiniteSet(1..n) /\ Cardinality(1..n) = n
    <3>1. 1 \in Int /\ n \in Int /\ (1 > n => n = 0) /\ n - 1 + 1 = n
      BY <1>1
    <3> QED BY <3>1, FS_Interval
  <2>2. m \in Injection(1..n, S)
    <3>1. m \in [1..n -> S] /\ \A a, b \in 1..n : m[a] = m[b] => a = b
      BY <1>3, <1>4 DEF IsInjective
    <3> QED BY <3>1, Fun_IsInj
  <2>3. m \in Surjection(1..n, S)
    BY <2>1, <2>2, FS_Injection DEF n
  <2> QED BY <2>3 DEF Surjection
<1>7. ToSet(m) = S
  BY <1>3, <1>4, <1>6 DEF ToSet
<1> QED BY <1>4, <1>5, <1>7 DEF m

LEMMA JoinedIs ==
  ASSUME NEW K, NEW s \in Seq(K), NEW t \in Seq(K)
  PROVE  /\ s \o t \in Seq(K) /\ Len(s \o t) = Len(s) + Len(t)
         /\ \A i \in 1..Len(s) + Len(t) : (s \o t)[i] = IF i <= Len(s) THEN s[i] ELSE t[i - Len(s)]
OBVIOUS

LEMMA AllLists ==
  ASSUME PoolInv
  PROVE  LET lists == FlattenSeq(<<arenaFreelist>> \o SetToSeq({arenas[p] : p \in Pools}))
         IN IsInjective(lists) /\ ToSet(lists) = Malloced
<1> DEFINE S == {arenas[p] : p \in Pools}
           m == SetToSeq(S)
           f == <<arenaFreelist>>
           s == f \o m
           lists == FlattenSeq(s)
<1>1. /\ NoTwice(arenaFreelist) /\ arenaFreelist \in Seq(ArenaIds)
      /\ \A p \in Pools : arenas[p] \in Seq(ArenaIds) /\ NoTwice(arenas[p])
      /\ \A p \in Pools : ToSet(arenas[p]) \cap ToSet(arenaFreelist) = {}
      /\ \A p, q \in Pools : p # q => ToSet(arenas[p]) \cap ToSet(arenas[q]) = {}
      /\ \A a \in ArenaIds :
          arena[a].total > 0 <=> a \in ToSet(arenaFreelist) \/ \E p \in Pools : a \in ToSet(arenas[p])
  BY DEF PoolInv, Types, Listed, Sound
<1>2. IsFiniteSet(S)
  <2> DEFINE g == [p \in Pools |-> arenas[p]]
  <2>1. g \in [Pools -> S] /\ \A x \in S : \E p \in Pools : g[p] = x
    OBVIOUS
  <2>2. IsFiniteSet(Pools)
    BY ArenaPoolAssumption
  <2> HIDE DEF g, S
  <2>3. g \in Surjection(Pools, S)
    BY <2>1 DEF Surjection
  <2> QED BY <2>2, <2>3, FS_Surjection
<1>3. m \in Seq(S) /\ NoTwice(m) /\ ToSet(m) = S
  <2> HIDE DEF S
  <2> QED BY <1>2, SetToSeqIs
<1> HIDE DEF m
<1>4. \A x \in S : \E p \in Pools : x = arenas[p]
  OBVIOUS
<1>5. \A p \in Pools : arenas[p] \in S
  OBVIOUS
<1> HIDE DEF S
<1>6. m \in Seq(Seq(ArenaIds)) /\ Len(m) \in Nat /\ \A i \in 1..Len(m) : m[i] \in S
  <2>1. S \subseteq Seq(ArenaIds)
    BY <1>1, <1>4
  <2> QED BY <1>3, <2>1
<1>7. /\ s \in Seq(Seq(ArenaIds)) /\ Len(s) = Len(m) + 1 /\ Len(s) # 0
      /\ s[1] = arenaFreelist /\ \A i \in 1..Len(m) : s[i + 1] = m[i]
  <2>1. f \in Seq(Seq(ArenaIds)) /\ Len(f) = 1 /\ f[1] = arenaFreelist
    BY <1>1
  <2> HIDE DEF f
  <2>a. m \in Seq(Seq(ArenaIds))
    BY <1>6
  <2>b. /\ s \in Seq(Seq(ArenaIds)) /\ Len(s) = Len(f) + Len(m)
        /\ \A i \in 1..Len(f) + Len(m) : s[i] = IF i <= Len(f) THEN f[i] ELSE m[i - Len(f)]
    BY ONLY <2>1, <2>a, JoinedIs
  <2>2. /\ s \in Seq(Seq(ArenaIds)) /\ Len(s) = 1 + Len(m)
        /\ \A i \in 1..Len(f) + Len(m) : s[i] = IF i <= Len(f) THEN f[i] ELSE m[i - Len(f)]
    BY <2>1, <2>b
  <2> HIDE DEF s
  <2>3. 1 \in 1..1 + Len(m) /\ \A i \in 1..Len(m) : i + 1 \in 1..1 + Len(m) /\ ~(i + 1 <= 1) /\ (i + 1) - 1 = i
    BY <1>6
  <2> QED BY <1>6, <2>1, <2>2, <2>3
<1> HIDE DEF s, f
<1>8. \A i \in 1..Len(s) : i = 1 \/ (i - 1 \in 1..Len(m) /\ s[i] = m[i - 1])
  <2> TAKE i \in 1..Len(s)
  <2>1. i # 1 => i - 1 \in 1..Len(m) /\ (i - 1) + 1 = i
    BY <1>6, <1>7
  <2> QED BY <1>7, <2>1
<1>9. Separate(s)
  <2>1. ASSUME NEW i \in 1..Len(s) PROVE NoTwice(s[i])
    BY <1>1, <1>4, <1>6, <1>7, <1>8
  <2>2. ASSUME NEW i \in 1..Len(s), i # 1 PROVE \E p \in Pools : s[i] = arenas[p]
    BY <1>4, <1>6, <1>8, <2>2
  <2>3. ASSUME NEW i \in 1..Len(s), NEW j \in 1..Len(s), i # j PROVE ToSet(s[i]) \cap ToSet(s[j]) = {}
    <3>1. CASE i = 1
      <4>1. PICK p \in Pools : s[j] = arenas[p]
        BY <2>2, <2>3, <3>1
      <4> QED BY <1>1, <1>7, <3>1, <4>1
    <3>2. CASE j = 1
      <4>1. PICK p \in Pools : s[i] = arenas[p]
        BY <2>2, <2>3, <3>2
      <4> QED BY <1>1, <1>7, <3>2, <4>1
    <3>3. CASE i # 1 /\ j # 1
      <4>1. PICK p \in Pools : s[i] = arenas[p]
        BY <2>2, <3>3
      <4>2. PICK q \in Pools : s[j] = arenas[q]
        BY <2>2, <3>3
      <4>3. s[i] # s[j]
        <5>1. i - 1 \in 1..Len(m) /\ j - 1 \in 1..Len(m) /\ i - 1 # j - 1
          BY <1>8, <2>3, <3>3
        <5> QED BY <1>3, <1>8, <3>3, <5>1 DEF NoTwice
      <4> QED BY <1>1, <4>1, <4>2, <4>3
    <3> QED BY <3>1, <3>2, <3>3
  <2> QED BY <2>1, <2>3 DEF Separate
<1>10. /\ lists \in Seq(ArenaIds) /\ NoTwice(lists)
       /\ \A a : a \in ToSet(lists) <=> \E i \in 1..Len(s) : a \in ToSet(s[i])
  BY <1>7, <1>9, FlattenIs
<1> HIDE DEF lists
<1>11. IsInjective(lists)
  <2>1. DOMAIN lists = 1..Len(lists)
    BY <1>10
  <2> QED BY <1>10, <2>1 DEF NoTwice, IsInjective
<1>12. \A p \in Pools : \E i \in 1..Len(s) : s[i] = arenas[p]
  <2> TAKE p \in Pools
  <2>1. PICK i \in 1..Len(m) : m[i] = arenas[p]
    BY <1>3, <1>5, Members
  <2>2. i + 1 \in 1..Len(s) /\ s[i + 1] = arenas[p]
    BY <1>6, <1>7, <2>1
  <2> QED BY <2>2
<1>13. ASSUME NEW a PROVE a \in ToSet(lists) <=> a \in ToSet(arenaFreelist) \/ \E p \in Pools : a \in ToSet(arenas[p])
  <2>1. 1 \in 1..Len(s)
    BY <1>6, <1>7
  <2>2. ASSUME a \in ToSet(lists)
        PROVE  a \in ToSet(arenaFreelist) \/ \E p \in Pools : a \in ToSet(arenas[p])
    <3>1. PICK i \in 1..Len(s) : a \in ToSet(s[i])
      BY <1>10, <2>2
    <3>2. CASE i = 1
      BY <1>7, <3>1, <3>2
    <3>3. CASE i # 1
      <4>1. s[i] \in S
        BY <1>6, <1>8, <3>3
      <4>2. PICK p \in Pools : s[i] = arenas[p]
        BY <1>4, <4>1
      <4> QED BY <3>1, <4>2
    <3> QED BY <3>2, <3>3
  <2>3. ASSUME a \in ToSet(arenaFreelist) PROVE a \in ToSet(lists)
    BY <1>7, <1>10, <2>1, <2>3
  <2>4. ASSUME NEW p \in Pools, a \in ToSet(arenas[p]) PROVE a \in ToSet(lists)
    BY <1>10, <1>12, <2>4
  <2> QED BY <2>2, <2>3, <2>4
<1>14. ToSet(lists) \subseteq ArenaIds
  BY <1>10, Members
<1>15. ToSet(lists) = Malloced
  BY <1>1, <1>13, <1>14 DEF Malloced
<1> QED BY <1>11, <1>15 DEF lists, s, f, m, S

LEMMA PoolInvHolds == PoolInv => AllocationsHeld
<1> SUFFICES ASSUME PoolInv PROVE AllocationsHeld
  OBVIOUS
<1>1. ASSUME NEW p \in Pools
      PROVE  /\ Domains(arena, arenas[p], held[p], marks[p])
             /\ Sound(p, arena, arenas[p], held[p], marks[p])
             /\ DOMAIN held[p] = 1..Len(held[p]) /\ DOMAIN arenas[p] = 1..Len(arenas[p])
  <2>1. arenas[p] \in Seq(ArenaIds) /\ held[p] \in Seq(Blocks)
    BY PoolFacts
  <2> QED BY <2>1, PoolFacts
<1>2. ASSUME NEW p \in Pools, NEW k \in DOMAIN held[p]
      PROVE  LET block == held[p][k] IN
             \E i \in DOMAIN arenas[p] :
                 /\ arenas[p][i] = block.arena
                 /\ arena[block.arena].base <= block.off
                 /\ block.off + block.size <= arena[block.arena].avail
                 /\ arena[block.arena].avail <= arena[block.arena].total
                 /\ Oversized(p, block.size) /\ arena[block.arena].base = 1 =>
                      arena[block.arena].back = Before(arenas[p], i)
  <2> DEFINE c == arenas[p]
             h == held[p]
             ms == marks[p]
  <2>1. Domains(arena, c, h, ms) /\ Sound(p, arena, c, h, ms) /\ DOMAIN c = 1..Len(c) /\ k \in 1..Len(h)
    BY <1>1, <1>2
  <2> HIDE DEF c, h, ms
  <2>2. h[k].arena \in ToSet(c) /\ Inside(arena, h[k])
    BY <2>1 DEF Sound, Placed
  <2>3. PICK i \in 1..Len(c) : c[i] = h[k].arena
    BY <2>1, <2>2, Typed
  <2>4. Formed(p, arena[c[i]]) /\ (arena[c[i]].base = 1 => arena[c[i]].back = Before(c, i))
    BY <2>1 DEF Sound, Chained
  <2>5. \E j \in DOMAIN c :
          /\ c[j] = h[k].arena
          /\ arena[h[k].arena].base <= h[k].off
          /\ h[k].off + h[k].size <= arena[h[k].arena].avail
          /\ arena[h[k].arena].avail <= arena[h[k].arena].total
          /\ Oversized(p, h[k].size) /\ arena[h[k].arena].base = 1 =>
               arena[h[k].arena].back = Before(c, j)
    BY <2>1, <2>2, <2>3, <2>4 DEF Inside, Formed
  <2> QED BY <2>5 DEF c, h
<1>3. ASSUME NEW p \in Pools, NEW q \in Pools, NEW i \in DOMAIN held[p], NEW j \in DOMAIN held[q],
             <<p, i>> # <<q, j>>
      PROVE  Bytes(held[p][i]) \cap Bytes(held[q][j]) = {}
  <2> DEFINE x == held[p][i]
             y == held[q][j]
  <2>1. i \in 1..Len(held[p]) /\ j \in 1..Len(held[q])
    BY <1>1
  <2>2. /\ x.arena \in ToSet(arenas[p]) /\ y.arena \in ToSet(arenas[q])
        /\ x.off \in Nat /\ x.size \in Nat /\ y.off \in Nat /\ y.size \in Nat
    <3>1. x.arena \in ToSet(arenas[p]) /\ y.arena \in ToSet(arenas[q])
      BY <1>1, <2>1 DEF Sound, Placed
    <3>2. x.off \in Nat /\ x.size \in Nat
      BY <1>1, <2>1, Typed
    <3>3. y.off \in Nat /\ y.size \in Nat
      BY <1>1, <2>1, Typed
    <3> QED BY <3>1, <3>2, <3>3
  <2>3. Apart(x, y)
    <3>1. CASE p = q
      BY <1>1, <1>3, <2>1, <3>1 DEF Sound, Placed
    <3>2. CASE p # q
      <4>1. ToSet(arenas[p]) \cap ToSet(arenas[q]) = {}
        BY <3>2 DEF PoolInv, Listed
      <4>2. x.arena # y.arena
        BY <2>2, <4>1
      <4> QED BY <4>2 DEF Apart
    <3> QED BY <3>1, <3>2
  <2> HIDE DEF x, y
  <2>4. \A u \in x.off .. x.off + x.size - 1 : ~(u \in y.off .. y.off + y.size - 1) \/ x.arena # y.arena
    BY <2>2, <2>3 DEF Apart
  <2>5. Bytes(x) \cap Bytes(y) = {}
    BY <2>4 DEF Bytes
  <2> QED BY <2>5 DEF x, y
<1>4. LET lists == FlattenSeq(<<arenaFreelist>> \o SetToSeq({arenas[p] : p \in Pools}))
      IN IsInjective(lists) /\ ToSet(lists) = Malloced
  BY AllLists
<1> QED BY <1>2, <1>3, <1>4 DEF AllocationsHeld

LEMMA PoolNext ==
  ASSUME PoolInv, ArenaNext PROVE PoolInv'
<1>1. ASSUME NEW p \in Pools, NEW nb \in 1..MaxAlloc, Allocate(p, nb) PROVE PoolInv'
  <2>1. nb \in Nat /\ nb >= 1
    BY ArenaPoolAssumption
  <2> QED BY <1>1, <2>1, AllocateKeeps
<1>2. ASSUME NEW p \in Pools, NEW k \in DOMAIN held[p] PROVE k \in 1..Len(held[p]) /\ held[p][k].size \in Nat
  <2>1. held[p] \in Seq(Blocks)
    BY PoolFacts
  <2>2. k \in 1..Len(held[p])
    BY <1>2, <2>1
  <2>3. held[p][k] \in Blocks
    BY <2>1, <2>2
  <2> QED BY <2>2, <2>3 DEF Blocks
<1>3. ASSUME NEW p \in Pools, NEW k \in DOMAIN held[p], NEW size \in held[p][k].size + 1 .. MaxAlloc,
             Grow(p, k, size)
      PROVE  PoolInv'
  <2>1. k \in 1..Len(held[p]) /\ held[p][k].size \in Nat
    BY <1>2
  <2>2. size \in Nat /\ size > held[p][k].size
    BY <2>1, ArenaPoolAssumption
  <2> QED BY <1>3, <2>1, <2>2, GrowKeeps
<1>4. ASSUME NEW p \in Pools, NEW k \in DOMAIN held[p], FreeAllocation(p, k) PROVE PoolInv'
  BY <1>2, <1>4, FreeKeeps
<1> QED BY <1>1, <1>3, <1>4, MarkKeeps, ReleaseKeeps, FreePoolKeeps, FinishKeeps DEF ArenaNext

LEMMA PoolStutters == PoolInv /\ UNCHANGED arenaVars => PoolInv'
<1> SUFFICES ASSUME PoolInv, UNCHANGED arenaVars PROVE PoolInv'
  OBVIOUS
<1>1. arena' = arena /\ arenas' = arenas /\ arenaFreelist' = arenaFreelist /\ held' = held /\ marks' = marks
  BY DEF arenaVars
<1>2. Types' /\ Listed'
  BY <1>1 DEF PoolInv, Types, Listed
<1>3. \A p \in Pools : Sound(p, arena', arenas'[p], held'[p], marks'[p])
  BY <1>1 DEF PoolInv
<1> QED BY <1>2, <1>3 DEF PoolInv

\* In every state of the pools each chain, its allocations and its marks fit
\* together, and every arena is in one list or malloc's.
THEOREM PoolInvariant == ArenaSpec => []PoolInv
<1>1. PoolInv /\ [ArenaNext]_arenaVars => PoolInv'
  BY PoolNext, PoolStutters
<1> QED BY <1>1, PoolStart, PTL DEF ArenaSpec

\* What a client holds of a pool stays its own, whatever is allocated, grown,
\* moved, released or freed around it, and no arena is lost or in two lists.
THEOREM AllocationsCorrect == ArenaSpec => []AllocationsHeld
BY PoolInvariant, PoolInvHolds, PTL

=============================================================================
