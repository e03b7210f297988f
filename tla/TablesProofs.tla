----------------------------- MODULE TablesProofs -----------------------------
(***************************************************************************)
(* Theorems about the hash tables: DHash is a set of keys, for every set   *)
(* of keys, hash function and table size; the atom table, on the chained   *)
(* tables of HashChain, has one atom for a key and sweeps none in use, for *)
(* every set of atoms, hash function and depth of compilations.            *)
(***************************************************************************)
EXTENDS DHash, Atoms, FiniteSetTheorems, FunctionTheorems, SequenceTheorems, WellFoundedInduction, TLAPS

----------------------------------------------------------------------------
(* Numbers.                                                                *)

\* Every non-empty set of natural numbers has a least element.
LEMMA SmallestExists ==
  ASSUME NEW T \in SUBSET Nat, T # {}
  PROVE  \E m \in T : \A x \in T : m <= x
<1>1. PICK m \in T : \A x \in T : ~(<<x, m>> \in OpToRel(<, Nat))
  BY NatLessThanWellFounded, WFMin
<1>2. ASSUME NEW x \in T PROVE m <= x
  <2>1. ASSUME x < m PROVE <<x, m>> \in OpToRel(<, Nat)
    BY <2>1 DEF OpToRel
  <2>2. ~(x < m) /\ x \in Nat /\ m \in Nat
    BY <1>1, <2>1
  <2> QED BY ONLY <2>2
<1> QED BY <1>2

\* What Min and Max of the community modules choose.
LEMMA MinIsLeast ==
  ASSUME NEW T \in SUBSET Nat, T # {}
  PROVE  Min(T) \in T /\ \A x \in T : Min(T) <= x
BY SmallestExists DEF Min

LEMMA MaxOfTwo ==
  ASSUME NEW a \in Nat, NEW b \in Nat
  PROVE  Max({a, b}) \in {a, b} /\ a <= Max({a, b}) /\ b <= Max({a, b})
<1>1. \E x \in {a, b} : \A y \in {a, b} : x >= y
  OBVIOUS
<1>2. Max({a, b}) \in {a, b} /\ \A y \in {a, b} : Max({a, b}) >= y
  BY <1>1 DEF Max
<1> QED BY <1>2

\* A set of n elements has 2^n subsets: what the provers know of powers of two.
LEMMA SizeOfSubsets ==
  ASSUME NEW n \in Nat
  PROVE  Size(n) \in Nat /\ Size(n + 1) = 2 * Size(n)
<1> DEFINE S == 0..n - 1
           T == S \cup {n}
           Without == SUBSET S
           With == {X \cup {n} : X \in Without}
<1>1. IsFiniteSet(S) /\ Cardinality(S) = n /\ n \notin S
  BY FS_Interval
<1>2. IsFiniteSet(T) /\ Cardinality(T) = n + 1
  BY <1>1, FS_AddElement
<1>3. IsFiniteSet(Without) /\ Cardinality(Without) = Size(n) /\ Cardinality(SUBSET T) = Size(n + 1)
  BY <1>1, <1>2, FS_SUBSET DEF Size
<1>4. Cardinality(Without) \in Nat
  BY <1>3, FS_CardinalityType
<1>5. IsFiniteSet(With) /\ Cardinality(With) = Cardinality(Without)
  <2> DEFINE f == [X \in Without |-> X \cup {n}]
  <2>1. ASSUME NEW X \in Without, NEW Y \in Without, f[X] = f[Y] PROVE X = Y
    <3>1. X = (X \cup {n}) \ {n} /\ Y = (Y \cup {n}) \ {n}
      BY <1>1
    <3> QED BY <2>1, <3>1
  <2>2. f \in Bijection(Without, With)
    BY <2>1, Fun_IsBij
  <2> HIDE DEF f, Without, With  <2> QED BY <1>3, <2>2, FS_Bijection DEF ExistsBijection
<1>6. SUBSET T = Without \cup With
  <2>1. ASSUME NEW X \in SUBSET T PROVE X \in Without \cup With
    <3>1. CASE n \in X
      <4>1. X = (X \ {n}) \cup {n} /\ X \ {n} \in Without
        BY <3>1
      <4> QED BY <4>1
    <3>2. CASE n \notin X
      BY <3>2
    <3> QED BY <3>1, <3>2
  <2>2. ASSUME NEW X \in Without \cup With PROVE X \in SUBSET T
    OBVIOUS
  <2> QED BY <2>1, <2>2
<1>7. Without \cap With = {}
  BY <1>1
<1>8. Cardinality(Without \cup With) = Cardinality(Without) + Cardinality(With)
  <2>1. Cardinality(Without \cup With)
          = Cardinality(Without) + Cardinality(With) - Cardinality(Without \cap With)
    BY <1>3, <1>5, FS_Union
  <2>2. Cardinality(Without \cap With) = 0
    BY <1>7, FS_EmptySet
  <2> QED BY <1>4, <1>5, <2>1, <2>2
<1>9. Size(n) = Cardinality(Without) /\ Size(n + 1) = Cardinality(Without) + Cardinality(Without)
  BY <1>3, <1>5, <1>6, <1>8
<1> HIDE DEF Without
<1> QED BY ONLY <1>4, <1>9

LEMMA SizeGrows ==
  ASSUME NEW a \in Nat, NEW b \in Nat, a <= b
  PROVE  Size(a) <= Size(b)
<1> DEFINE Bad == {d \in Nat : ~(Size(a) <= Size(a + d))}
<1>1. Bad = {}
  <2> SUFFICES ASSUME Bad # {} PROVE FALSE
    OBVIOUS
  <2>1. Bad \in SUBSET Nat
    OBVIOUS
  <2>2. PICK d \in Bad : \A x \in Bad : d <= x
    BY <2>1, SmallestExists
  <2>3. d \in Nat /\ ~(Size(a) <= Size(a + d))
    OBVIOUS
  <2>4. d # 0
    BY <2>3, SizeOfSubsets
  <2>5. d - 1 \in Nat /\ d - 1 \notin Bad
    BY <2>2, <2>3, <2>4
  <2>6. Size(a) <= Size(a + (d - 1))
    BY <2>5
  <2>7. Size((a + (d - 1)) + 1) = 2 * Size(a + (d - 1)) /\ Size(a + (d - 1)) \in Nat
    BY <2>5, SizeOfSubsets
  <2>8. (a + (d - 1)) + 1 = a + d
    BY <2>3
  <2> HIDE DEF Bad
  <2> QED BY <2>3, <2>6, <2>7, <2>8, SizeOfSubsets
<1>2. b - a \in Nat /\ a + (b - a) = b
  OBVIOUS
<1> QED BY <1>1, <1>2

LEMMA SizePositive ==
  ASSUME NEW n \in Nat
  PROVE  Size(n) \in Nat /\ 1 <= Size(n)
<1>1. Size(0) = 1
  BY DEF Size
<1> QED BY <1>1, SizeGrows, SizeOfSubsets

LEMMA SizeOfFour ==
  ASSUME NEW n \in Nat, 2 <= n
  PROVE  Size(n) \in Nat /\ 4 <= Size(n)
<1>1. Size(2) = 4
  BY DEF Size
<1> QED BY <1>1, SizeGrows, SizeOfSubsets

\* An odd number has no factor in common with a power of two.
LEMMA OddStaysOff ==
  ASSUME NEW d \in Nat, d % 2 = 1, NEW log2 \in Nat, NEW m \in Nat, 1 <= m, m < Size(log2),
         NEW q \in Int
  PROVE  m * d # Size(log2) * q
<1> DEFINE On(l) == \E x \in Nat, y \in Int : 1 <= x /\ x < Size(l) /\ x * d = Size(l) * y
           Bad == {l \in Nat : On(l)}
<1>1. Bad = {}
  <2> SUFFICES ASSUME Bad # {} PROVE FALSE
    OBVIOUS
  <2>1. Bad \in SUBSET Nat
    OBVIOUS
  <2>2. PICK l \in Bad : \A x \in Bad : l <= x
    BY <2>1, SmallestExists
  <2>3. PICK x \in Nat, y \in Int : 1 <= x /\ x < Size(l) /\ x * d = Size(l) * y
    OBVIOUS
  <2>4. l \in Nat /\ l # 0
    <3>1. Size(0) = 1
      BY DEF Size
    <3> QED BY <2>3, <3>1
  <2> DEFINE j == l - 1
             S == Size(j)
             e == d \div 2
             z == S * y - x * e
  <2>5. j \in Nat /\ j \notin Bad
    BY <2>2, <2>4
  <2>6. S \in Nat /\ Size(l) = 2 * S
    <3>1. S \in Nat /\ Size(j + 1) = 2 * S
      BY <2>5, SizeOfSubsets
    <3> QED BY <2>4, <3>1
  <2>7. e \in Nat /\ d = 2 * e + 1
    OBVIOUS
  <2> HIDE DEF S, e, j
  <2>8. S * y \in Int /\ x * e \in Int /\ z \in Int
    BY <2>6, <2>7
  <2>9. x * d = 2 * (x * e) + x
    BY <2>7
  <2>10. x * d = 2 * (S * y)
    BY <2>3, <2>6
  <2>11. x = 2 * z
    BY <2>8, <2>9, <2>10
  <2> HIDE DEF z
  <2>12. z \in Nat /\ 1 <= z /\ z < S
    BY <2>3, <2>6, <2>8, <2>11
  <2>13. 2 * (z * d) = 2 * (S * y)
    BY <2>8, <2>10, <2>11
  <2>14. z * d = S * y
    BY <2>8, <2>13
  <2>15. On(j)
    BY <2>12, <2>14 DEF S
  <2> QED BY <2>5, <2>15
<1> QED BY <1>1

LEMMA QuotientAndRest ==
  ASSUME NEW a \in Int, NEW b \in Nat, b > 0
  PROVE  /\ a % b \in 0..b - 1
         /\ \E q \in Int : a = q * b + (a % b)
<1>1. a % b \in 0..b - 1
  OBVIOUS
<1>2. \E q \in Int : a = q * b + (a % b)
  OBVIOUS
<1> QED BY <1>1, <1>2

\* The probes of one search are all different.
LEMMA StepsDiffer ==
  ASSUME NEW log2 \in Nat, NEW h \in Int, NEW d \in Nat, d % 2 = 1,
         NEW m \in Nat, NEW n \in Nat, m < n, n < Size(log2)
  PROVE  (h - m * d) % Size(log2) # (h - n * d) % Size(log2)
<1> SUFFICES ASSUME (h - m * d) % Size(log2) = (h - n * d) % Size(log2) PROVE FALSE
  OBVIOUS
<1> DEFINE S == Size(log2)
           x == h - m * d
           y == h - n * d
           r == y % S
<1>1. S \in Nat /\ S > 0
  BY SizePositive
<1>2. m * d \in Int /\ n * d \in Int /\ x \in Int /\ y \in Int /\ x % S = y % S
  OBVIOUS
<1> HIDE DEF S, x, y
<1>3. r \in Int
  BY <1>1, <1>2
<1>4. PICK a \in Int : x = a * S + r
  <2>1. PICK a \in Int : x = a * S + (x % S)
    BY <1>1, <1>2, QuotientAndRest
  <2> QED BY <1>2, <2>1
<1>5. PICK b \in Int : y = b * S + r
  BY <1>1, <1>2, QuotientAndRest
<1>6. a * S \in Int /\ b * S \in Int
  BY <1>1
<1> HIDE DEF r
<1>7. n * d - m * d = a * S - b * S
  BY <1>2, <1>3, <1>4, <1>5, <1>6 DEF x, y
<1>8. n * d - m * d = (n - m) * d /\ a * S - b * S = S * (a - b)
  BY <1>1
<1>9. n - m \in Nat /\ 1 <= n - m /\ n - m < S /\ a - b \in Int
  BY <1>1 DEF S
<1>10. (n - m) * d # S * (a - b)
  BY <1>9, OddStaysOff DEF S
<1> QED BY <1>7, <1>8, <1>10

----------------------------------------------------------------------------
(* Probe sequences.                                                         *)

LEMMA HashesRight ==
  ASSUME NEW k \in DHKeys, NEW log2 \in Nat, log2 <= Bits
  PROVE  /\ HASH1(KeyHash[k], log2) \in Int
         /\ HASH2(KeyHash[k], log2) \in Nat
         /\ HASH2(KeyHash[k], log2) % 2 = 1
<1> DEFINE h == KeyHash[k]
           B == Size(Bits)
           C == Size(Bits - log2)
           h2 == ((h * Size(log2)) % B) \div C
<1>1. B \in Nat /\ 1 <= B /\ C \in Nat /\ 1 <= C /\ Size(log2) \in Nat
  BY DHashAssumption, SizePositive DEF DHashAssumption
<1>2. h \in Nat
  BY DHashAssumption, <1>1 DEF DHashAssumption, Size
<1> HIDE DEF h, B, C
<1>3. h \div C \in Int
  BY <1>1, <1>2
<1>4. h * Size(log2) \in Nat
  BY <1>1, <1>2
<1>5. (h * Size(log2)) % B \in Nat
  BY <1>1, <1>4
<1>6. h2 \in Nat
  BY <1>1, <1>5
<1>7. HASH1(h, log2) = h \div C /\ HASH2(h, log2) = IF h2 % 2 = 0 THEN h2 + 1 ELSE h2
  BY DEF HASH1, HASH2, B, C
<1> HIDE DEF h2
<1>8. HASH2(h, log2) \in Nat /\ HASH2(h, log2) % 2 = 1
  BY <1>6, <1>7
<1> QED BY <1>3, <1>7, <1>8 DEF h

LEMMA ProbeInSlots ==
  ASSUME NEW k \in DHKeys, NEW log2 \in Nat, log2 <= Bits, NEW n \in Nat
  PROVE  Probe(k, n, log2) \in Slots(log2)
<1> DEFINE a == HASH1(KeyHash[k], log2) - n * HASH2(KeyHash[k], log2)
<1>1. a \in Int
  BY HashesRight
<1>2. Size(log2) \in Nat /\ 1 <= Size(log2)
  BY SizePositive
<1> HIDE DEF a
<1>3. a % Size(log2) \in 0..Size(log2) - 1
  BY <1>1, <1>2
<1> QED BY <1>3 DEF Probe, Slots, a

LEMMA ProbesDiffer ==
  ASSUME NEW k \in DHKeys, NEW log2 \in Nat, log2 <= Bits,
         NEW m \in Slots(log2), NEW n \in Slots(log2), Probe(k, m, log2) = Probe(k, n, log2)
  PROVE  m = n
<1>1. m \in Nat /\ n \in Nat /\ m < Size(log2) /\ n < Size(log2)
  BY SizePositive DEF Slots
<1>2. ~(m < n)
  BY <1>1, HashesRight, StepsDiffer DEF Probe
<1>3. ~(n < m)
  BY <1>1, HashesRight, StepsDiffer DEF Probe
<1> QED BY <1>1, <1>2, <1>3

\* A search would come to every slot.
LEMMA ProbesCover ==
  ASSUME NEW k \in DHKeys, NEW log2 \in Nat, log2 <= Bits, NEW i \in Slots(log2)
  PROVE  \E n \in Slots(log2) : Probe(k, n, log2) = i
<1> DEFINE f == [n \in Slots(log2) |-> Probe(k, n, log2)]
<1>1. \A n \in Slots(log2) : n \in Nat
  BY SizePositive DEF Slots
<1>2. f \in [Slots(log2) -> Slots(log2)]
  BY <1>1, ProbeInSlots
<1>3. \A m, n \in Slots(log2) : f[m] = f[n] => m = n
  BY ProbesDiffer
<1>4. f \in Injection(Slots(log2), Slots(log2))
  BY <1>2, <1>3, Fun_IsInj
<1>5. IsFiniteSet(Slots(log2))
  BY SizePositive, FS_Interval DEF Slots
<1>6. f \in Surjection(Slots(log2), Slots(log2))
  BY <1>4, <1>5, FS_Injection
<1>7. \A j \in Slots(log2) : \E n \in Slots(log2) : f[n] = j
  BY <1>6, Fun_SurjectionProperties
<1> QED BY <1>7

----------------------------------------------------------------------------
(* What a store is between two calls.                                       *)

LiveEntries == [state : {"live"}, key : DHKeys, collided : BOOLEAN]
TableEntries == {FREE, REMOVED} \cup LiveEntries

KeysIn(st) == {st[i].key : i \in LiveIn(st)}
RemovedIn(st) == {i \in DOMAIN st : st[i] = REMOVED}
HasFree(st) == \E i \in DOMAIN st : st[i] = FREE

\* A slot that a removal will not free.
Passable(e) == e # FREE /\ (ENTRY_IS_LIVE(e) => e.collided)

Reached(st, i, k, n, log2) ==
    /\ Probe(k, n, log2) = i
    /\ \A m \in 0..n - 1 : Passable(st[Probe(k, m, log2)])

\* No key has two entries, and what lies before an entry on the way to it stays taken.
Sound(st, log2) ==
    /\ st \in [Slots(log2) -> TableEntries]
    /\ \A i, j \in LiveIn(st) : st[i].key = st[j].key => i = j
    /\ \A i \in LiveIn(st) : \E n \in Slots(log2) : Reached(st, i, st[i].key, n, log2)

LEMMA EntryKinds ==
  ASSUME NEW e \in TableEntries
  PROVE  /\ e = FREE \/ e = REMOVED \/ ENTRY_IS_LIVE(e)
         /\ FREE # REMOVED /\ ~ENTRY_IS_LIVE(FREE) /\ ~ENTRY_IS_LIVE(REMOVED)
         /\ ENTRY_IS_LIVE(e) => /\ e.key \in DHKeys /\ e.collided \in BOOLEAN
                                /\ e # FREE /\ e # REMOVED
<1>1. FREE.state = "free" /\ REMOVED.state = "removed"
  BY DEF FREE, REMOVED
<1>2. e \in LiveEntries => e.state = "live" /\ e.key \in DHKeys /\ e.collided \in BOOLEAN
  BY DEF LiveEntries
<1> QED BY <1>1, <1>2 DEF TableEntries, ENTRY_IS_LIVE

LEMMA NewEntry ==
  ASSUME NEW k \in DHKeys, NEW flag \in BOOLEAN
  PROVE  /\ LiveSlot(k, flag) \in TableEntries /\ ENTRY_IS_LIVE(LiveSlot(k, flag))
         /\ LiveSlot(k, flag).key = k /\ LiveSlot(k, flag).collided = flag
BY DEF LiveSlot, TableEntries, LiveEntries, ENTRY_IS_LIVE

LEMMA SlotsFinite ==
  ASSUME NEW log2 \in Nat
  PROVE  /\ IsFiniteSet(Slots(log2)) /\ Cardinality(Slots(log2)) = Size(log2)
         /\ \A n \in Slots(log2) : n \in Nat /\ \A m \in 0..n - 1 : m \in Nat /\ m \in Slots(log2)
<1>1. Size(log2) \in Nat /\ 1 <= Size(log2)
  BY SizePositive
<1>2. IsFiniteSet(0..Size(log2) - 1) /\ Cardinality(0..Size(log2) - 1) = Size(log2)
  <2> DEFINE b == Size(log2) - 1
  <2>1. b \in Int /\ ~(0 > b) /\ b - 0 + 1 = Size(log2) /\ 0 \in Int
    BY <1>1
  <2>2. IsFiniteSet(0..b) /\ Cardinality(0..b) = IF 0 > b THEN 0 ELSE b - 0 + 1
    BY ONLY <2>1, FS_Interval
  <2> QED BY <2>1, <2>2
<1> QED BY <1>1, <1>2 DEF Slots

LEMMA StoreFinite ==
  ASSUME NEW log2 \in Nat, NEW st \in [Slots(log2) -> TableEntries]
  PROVE  /\ IsFiniteSet(LiveIn(st)) /\ Cardinality(LiveIn(st)) \in Nat
         /\ IsFiniteSet(RemovedIn(st)) /\ Cardinality(RemovedIn(st)) \in Nat
         /\ LiveIn(st) \in SUBSET Slots(log2)
<1>1. LiveIn(st) \subseteq Slots(log2) /\ RemovedIn(st) \subseteq Slots(log2)
  BY DEF LiveIn, RemovedIn
<1> QED BY <1>1, SlotsFinite, FS_Subset, FS_CardinalityType

\* As long as there are fewer entries, live or removed, than slots, a slot is free.
LEMMA FreeLeft ==
  ASSUME NEW log2 \in Nat, NEW st \in [Slots(log2) -> TableEntries],
         Cardinality(LiveIn(st)) + Cardinality(RemovedIn(st)) < Size(log2)
  PROVE  HasFree(st)
<1> SUFFICES ASSUME ~HasFree(st) PROVE FALSE
  OBVIOUS
<1>1. Slots(log2) = LiveIn(st) \cup RemovedIn(st)
  BY EntryKinds DEF LiveIn, RemovedIn, HasFree
<1>2. LiveIn(st) \cap RemovedIn(st) = {}
  BY EntryKinds DEF LiveIn, RemovedIn
<1>3. Cardinality(LiveIn(st) \cap RemovedIn(st)) = 0
  BY <1>2, FS_EmptySet
<1>4. Cardinality(LiveIn(st) \cup RemovedIn(st)) =
        Cardinality(LiveIn(st)) + Cardinality(RemovedIn(st)) - Cardinality(LiveIn(st) \cap RemovedIn(st))
  BY StoreFinite, FS_Union
<1>5. Cardinality(LiveIn(st)) + Cardinality(RemovedIn(st)) = Size(log2)
  <2>1. Cardinality(LiveIn(st) \cup RemovedIn(st)) = Size(log2)
    BY <1>1, SlotsFinite
  <2> QED BY <1>3, <1>4, <2>1, StoreFinite
<1> QED BY <1>5, SizePositive

----------------------------------------------------------------------------
(* Searches.                                                                *)

LEMMA SearchStops ==
  ASSUME NEW log2 \in Nat, log2 <= Bits, NEW k \in DHKeys,
         NEW st \in [Slots(log2) -> TableEntries], HasFree(st)
  PROVE  /\ SearchEnds(st, k, log2)
         /\ Passes(st, k, log2) \in Slots(log2) /\ Stops(st, k, Passes(st, k, log2), log2)
         /\ Search(st, k, log2) \in Slots(log2)
         /\ \A n \in Slots(log2) : Stops(st, k, n, log2) => Passes(st, k, log2) <= n
<1> DEFINE T == {n \in Slots(log2) : Stops(st, k, n, log2)}
<1>1. T # {}
  <2>1. PICK i \in Slots(log2) : st[i] = FREE
    BY DEF HasFree
  <2>2. PICK n \in Slots(log2) : Probe(k, n, log2) = i
    BY ProbesCover
  <2> QED BY <2>1, <2>2 DEF Stops
<1>2. T \in SUBSET Nat
  BY SlotsFinite
<1>3. Passes(st, k, log2) \in T /\ \A n \in T : Passes(st, k, log2) <= n
  BY <1>1, <1>2, MinIsLeast DEF Passes
<1>4. Search(st, k, log2) \in Slots(log2)
  BY <1>2, <1>3, ProbeInSlots DEF Search
<1> QED BY <1>1, <1>3, <1>4 DEF SearchEnds

\* What a search has passed is taken, and not by the key.
LEMMA PassedTaken ==
  ASSUME NEW log2 \in Nat, log2 <= Bits, NEW k \in DHKeys,
         NEW st \in [Slots(log2) -> TableEntries], HasFree(st),
         NEW m \in 0..Passes(st, k, log2) - 1
  PROVE  /\ m \in Slots(log2) /\ Probe(k, m, log2) \in Slots(log2)
         /\ st[Probe(k, m, log2)] # FREE /\ ~Matches(st[Probe(k, m, log2)], k)
<1>1. Passes(st, k, log2) \in Slots(log2) /\ Passes(st, k, log2) \in Nat
  BY SearchStops, SlotsFinite
<1>2. m \in Slots(log2) /\ m \in Nat /\ m < Passes(st, k, log2)
  BY <1>1, SlotsFinite
<1>3. ~Stops(st, k, m, log2)
  BY <1>1, <1>2, SearchStops
<1> QED BY <1>2, <1>3, ProbeInSlots DEF Stops

\* A key with an entry is found there.
LEMMA FindsEntry ==
  ASSUME NEW log2 \in Nat, log2 <= Bits, NEW st, Sound(st, log2), HasFree(st), NEW i \in LiveIn(st)
  PROVE  /\ Search(st, st[i].key, log2) = i
         /\ Matches(st[i], st[i].key)
         /\ Finds(st, st[i].key, log2)
<1> DEFINE k == st[i].key
<1>1. st \in [Slots(log2) -> TableEntries] /\ i \in Slots(log2) /\ ENTRY_IS_LIVE(st[i]) /\ k \in DHKeys
  BY EntryKinds DEF Sound, LiveIn
<1>2. PICK n \in Slots(log2) : Reached(st, i, k, n, log2)
  BY DEF Sound
<1>3. Matches(st[i], k) /\ Probe(k, n, log2) = i
  BY <1>1, <1>2 DEF Matches, Reached
<1>4. Finds(st, k, log2)
  BY <1>2, <1>3 DEF Finds, Reached, Passable
<1> DEFINE p == Passes(st, k, log2)
<1>5. p \in Slots(log2) /\ Stops(st, k, p, log2) /\ p <= n /\ p \in Nat /\ n \in Nat
  BY <1>1, <1>3, SearchStops, SlotsFinite DEF Stops
<1> HIDE DEF k, p
<1>6. p = n
  <2> SUFFICES ASSUME p < n PROVE FALSE
    BY <1>5
  <2>1. p \in 0..n - 1
    BY <1>5
  <2>2. st[Probe(k, p, log2)] # FREE
    BY <1>2, <2>1 DEF Reached, Passable
  <2>3. Matches(st[Probe(k, p, log2)], k) /\ Probe(k, p, log2) \in Slots(log2)
    BY <1>1, <1>5, <2>2, ProbeInSlots DEF Stops
  <2>4. Probe(k, p, log2) \in LiveIn(st) /\ st[Probe(k, p, log2)].key = k
    BY <1>1, <2>3 DEF Matches, LiveIn
  <2>5. Probe(k, p, log2) = i
    BY <2>4 DEF Sound, k
  <2>6. p = n
    BY <1>1, <1>3, <1>5, <2>5, ProbesDiffer
  <2> QED BY <1>5, <2>6
<1> QED BY <1>3, <1>4, <1>6 DEF Search, p, k

\* A key without one is not.
LEMMA MissesOthers ==
  ASSUME NEW log2 \in Nat, log2 <= Bits, NEW st, Sound(st, log2), HasFree(st),
         NEW k \in DHKeys, k \notin KeysIn(st)
  PROVE  st[Search(st, k, log2)] = FREE /\ ~Finds(st, k, log2)
<1>1. st \in [Slots(log2) -> TableEntries]
  BY DEF Sound
<1>2. \A i \in Slots(log2) : ~Matches(st[i], k)
  BY <1>1 DEF KeysIn, LiveIn, Matches
<1>3. \A n \in Slots(log2) : Probe(k, n, log2) \in Slots(log2)
  BY ProbeInSlots, SlotsFinite
<1> QED BY <1>1, <1>2, <1>3, SearchStops DEF Search, Stops, Finds

LEMMA FoundKeys ==
  ASSUME NEW log2 \in Nat, log2 <= Bits, NEW st, Sound(st, log2), HasFree(st)
  PROVE  {k \in DHKeys : Finds(st, k, log2)} = KeysIn(st)
<1>1. ASSUME NEW k \in KeysIn(st) PROVE k \in DHKeys /\ Finds(st, k, log2)
  <2>1. PICK i \in LiveIn(st) : k = st[i].key
    BY DEF KeysIn
  <2> QED BY <2>1, FindsEntry, EntryKinds DEF Sound, LiveIn
<1>2. ASSUME NEW k \in DHKeys, Finds(st, k, log2) PROVE k \in KeysIn(st)
  BY <1>2, MissesOthers
<1> QED BY <1>1, <1>2

----------------------------------------------------------------------------
(* Additions.                                                               *)

LEMMA FlagPasses ==
  ASSUME NEW log2 \in Nat, log2 <= Bits, NEW st, Sound(st, log2), HasFree(st), NEW k \in DHKeys,
         NEW fl, fl = Flagged(st, k, log2)
  PROVE  /\ fl \in [Slots(log2) -> TableEntries]
         /\ \A i \in Slots(log2) : /\ ~ENTRY_IS_LIVE(st[i]) => fl[i] = st[i]
                                   /\ ENTRY_IS_LIVE(st[i]) => ENTRY_IS_LIVE(fl[i]) /\ fl[i].key = st[i].key
                                   /\ Passable(st[i]) => Passable(fl[i])
         /\ \A m \in 0..Passes(st, k, log2) - 1 : Passable(fl[Probe(k, m, log2)])
<1>1. st \in [Slots(log2) -> TableEntries]
  BY DEF Sound
<1> DEFINE passed == {Probe(k, m, log2) : m \in 0..Passes(st, k, log2) - 1}
<1>2. fl = [i \in Slots(log2) |-> IF ENTRY_IS_LIVE(st[i]) /\ i \in passed
                                  THEN LiveSlot(st[i].key, TRUE) ELSE st[i]]
  BY <1>1 DEF Flagged
<1> HIDE DEF passed
<1>3. ASSUME NEW i \in Slots(log2)
      PROVE  /\ fl[i] \in TableEntries
             /\ ~ENTRY_IS_LIVE(st[i]) => fl[i] = st[i]
             /\ ENTRY_IS_LIVE(st[i]) => ENTRY_IS_LIVE(fl[i]) /\ fl[i].key = st[i].key
             /\ Passable(st[i]) => Passable(fl[i])
             /\ i \in passed /\ st[i] # FREE => Passable(fl[i])
  <2>1. st[i] \in TableEntries
    BY <1>1
  <2>2. CASE ENTRY_IS_LIVE(st[i]) /\ i \in passed
    <3>1. st[i].key \in DHKeys
      BY <2>1, <2>2, EntryKinds
    <3>2. fl[i] = LiveSlot(st[i].key, TRUE)
      BY <1>2, <2>2
    <3>3. fl[i] \in TableEntries /\ ENTRY_IS_LIVE(fl[i]) /\ fl[i].key = st[i].key /\ fl[i].collided
      BY <3>1, <3>2, NewEntry
    <3> QED BY <2>2, <3>3, EntryKinds DEF Passable
  <2>3. CASE ~(ENTRY_IS_LIVE(st[i]) /\ i \in passed)
    <3>1. fl[i] = st[i]
      BY <1>2, <2>3
    <3> QED BY <2>1, <2>3, <3>1, EntryKinds DEF Passable
  <2> QED BY <2>2, <2>3
<1>4. ASSUME NEW m \in 0..Passes(st, k, log2) - 1 PROVE Passable(fl[Probe(k, m, log2)])
  <2>1. Probe(k, m, log2) \in Slots(log2) /\ st[Probe(k, m, log2)] # FREE
    BY <1>1, PassedTaken
  <2>2. Probe(k, m, log2) \in passed
    BY DEF passed
  <2> QED BY <1>3, <2>1, <2>2
<1>5. fl \in [Slots(log2) -> TableEntries]
  BY <1>2, <1>3
<1> QED BY <1>3, <1>4, <1>5

LEMMA FlaggedSound ==
  ASSUME NEW log2 \in Nat, log2 <= Bits, NEW st, Sound(st, log2), HasFree(st), NEW k \in DHKeys,
         NEW fl, fl = Flagged(st, k, log2)
  PROVE  /\ Sound(fl, log2)
         /\ LiveIn(fl) = LiveIn(st) /\ RemovedIn(fl) = RemovedIn(st) /\ KeysIn(fl) = KeysIn(st)
<1>1. /\ st \in [Slots(log2) -> TableEntries] /\ fl \in [Slots(log2) -> TableEntries]
      /\ \A i \in Slots(log2) : /\ ~ENTRY_IS_LIVE(st[i]) => fl[i] = st[i]
                                /\ ENTRY_IS_LIVE(st[i]) => ENTRY_IS_LIVE(fl[i]) /\ fl[i].key = st[i].key
                                /\ Passable(st[i]) => Passable(fl[i])
  BY FlagPasses DEF Sound
<1>2. LiveIn(fl) = LiveIn(st)
  BY <1>1 DEF LiveIn
<1>3. RemovedIn(fl) = RemovedIn(st)
  <2>1. ASSUME NEW i \in Slots(log2) PROVE fl[i] = REMOVED <=> st[i] = REMOVED
    BY <1>1, EntryKinds
  <2> QED BY <1>1, <2>1 DEF RemovedIn
<1>4. \A i \in LiveIn(st) : i \in Slots(log2) /\ fl[i].key = st[i].key /\ st[i].key \in DHKeys
  BY <1>1, EntryKinds DEF LiveIn
<1>5. KeysIn(fl) = KeysIn(st)
  BY <1>2, <1>4 DEF KeysIn
<1>6. ASSUME NEW i \in LiveIn(fl) PROVE \E n \in Slots(log2) : Reached(fl, i, fl[i].key, n, log2)
  <2>1. PICK n \in Slots(log2) : Reached(st, i, st[i].key, n, log2)
    BY <1>2 DEF Sound
  <2>2. ASSUME NEW m \in 0..n - 1 PROVE Passable(fl[Probe(st[i].key, m, log2)])
    <3>1. m \in Nat
      BY SlotsFinite
    <3>2. Probe(st[i].key, m, log2) \in Slots(log2)
      BY <1>2, <1>4, <3>1, ProbeInSlots
    <3> QED BY <1>1, <2>1, <3>2 DEF Reached
  <2> QED BY <1>2, <1>4, <2>1, <2>2 DEF Reached
<1> QED BY <1>1, <1>2, <1>3, <1>4, <1>5, <1>6 DEF Sound

\* Where a new key is to go.
LEMMA RoomToAdd ==
  ASSUME NEW log2 \in Nat, log2 <= Bits, NEW st, Sound(st, log2), HasFree(st),
         NEW k \in DHKeys, k \notin KeysIn(st), NEW i, i = SearchToAdd(st, k, log2)
  PROVE  /\ i \in Slots(log2) /\ (st[i] = FREE \/ st[i] = REMOVED)
         /\ \E n \in Slots(log2) : n <= Passes(st, k, log2) /\ Probe(k, n, log2) = i
<1>1. st \in [Slots(log2) -> TableEntries]
  BY DEF Sound
<1>2. st[Search(st, k, log2)] = FREE /\ ~Matches(FREE, k)
  BY MissesOthers, EntryKinds DEF Matches, TableEntries
<1>3. Passes(st, k, log2) \in Slots(log2) /\ Passes(st, k, log2) \in Nat
  BY <1>1, SearchStops, SlotsFinite
<1>4. CASE Recyclable(st, k, log2) = {}
  <2>1. i = Search(st, k, log2)
    BY <1>4 DEF SearchToAdd
  <2>2. i = Probe(k, Passes(st, k, log2), log2) /\ i \in Slots(log2)
    BY <1>3, <2>1, ProbeInSlots DEF Search
  <2> QED BY <1>2, <1>3, <2>1, <2>2
<1>5. CASE Recyclable(st, k, log2) # {}
  <2> DEFINE n == Min(Recyclable(st, k, log2))
  <2>1. Recyclable(st, k, log2) \in SUBSET Nat
    BY <1>3 DEF Recyclable
  <2>2. n \in Recyclable(st, k, log2)
    BY <1>5, <2>1, MinIsLeast
  <2>3. i = Probe(k, n, log2)
    BY <1>2, <1>5 DEF SearchToAdd
  <2> HIDE DEF n
  <2>4. n \in 0..Passes(st, k, log2) - 1 /\ st[i] = REMOVED
    BY <2>2, <2>3 DEF Recyclable
  <2>5. n \in Slots(log2) /\ i \in Slots(log2) /\ n <= Passes(st, k, log2)
    BY <1>1, <1>3, <2>3, <2>4, PassedTaken
  <2> QED BY <2>3, <2>4, <2>5
<1> QED BY <1>4, <1>5

LEMMA EnterSound ==
  ASSUME NEW log2 \in Nat, log2 <= Bits, NEW st, Sound(st, log2), HasFree(st),
         NEW k \in DHKeys, k \notin KeysIn(st),
         NEW i, i = SearchToAdd(st, k, log2), NEW en, en = Enter(st, k, log2)
  PROVE  /\ Sound(en, log2)
         /\ LiveIn(en) = LiveIn(st) \cup {i} /\ i \notin LiveIn(st)
         /\ KeysIn(en) = KeysIn(st) \cup {k}
         /\ RemovedIn(en) = RemovedIn(st) \ {i}
<1> DEFINE fl == Flagged(st, k, log2)
           entry == LiveSlot(k, st[i] = REMOVED)
<1>1. /\ st \in [Slots(log2) -> TableEntries] /\ fl \in [Slots(log2) -> TableEntries]
      /\ \A j \in Slots(log2) : ~ENTRY_IS_LIVE(st[j]) => fl[j] = st[j]
      /\ \A m \in 0..Passes(st, k, log2) - 1 : Passable(fl[Probe(k, m, log2)])
  BY FlagPasses DEF Sound
<1>2. /\ Sound(fl, log2)
      /\ LiveIn(fl) = LiveIn(st) /\ RemovedIn(fl) = RemovedIn(st) /\ KeysIn(fl) = KeysIn(st)
  BY FlaggedSound
<1>3. en = [fl EXCEPT ![i] = entry]
  BY DEF Enter
<1>4. /\ i \in Slots(log2) /\ (st[i] = FREE \/ st[i] = REMOVED)
      /\ \E n \in Slots(log2) : n <= Passes(st, k, log2) /\ Probe(k, n, log2) = i
  BY RoomToAdd
<1>5. /\ entry \in TableEntries /\ ENTRY_IS_LIVE(entry) /\ entry.key = k
      /\ entry.collided = (st[i] = REMOVED)
  BY NewEntry
<1>6. fl[i] = st[i] /\ ~ENTRY_IS_LIVE(st[i]) /\ FREE # REMOVED /\ entry # REMOVED /\ entry # FREE
  BY <1>1, <1>4, <1>5, EntryKinds
<1> HIDE DEF fl, entry
<1>7. /\ en \in [Slots(log2) -> TableEntries] /\ en[i] = entry
      /\ \A j \in Slots(log2) : j # i => en[j] = fl[j]
  BY <1>1, <1>3, <1>4, <1>5
<1>8. LiveIn(en) = LiveIn(st) \cup {i} /\ i \notin LiveIn(st)
  <2>1. LiveIn(en) = LiveIn(fl) \cup {i}
    BY <1>1, <1>4, <1>5, <1>7 DEF LiveIn
  <2> QED BY <1>2, <1>6, <2>1 DEF LiveIn
<1>9. RemovedIn(en) = RemovedIn(st) \ {i}
  <2>1. RemovedIn(en) = RemovedIn(fl) \ {i}
    BY <1>1, <1>6, <1>7 DEF RemovedIn
  <2> QED BY <1>2, <2>1
<1>10. \A j \in LiveIn(st) : j \in Slots(log2) /\ j # i /\ en[j] = fl[j] /\ fl[j].key \in KeysIn(fl)
  BY <1>1, <1>2, <1>7, <1>8 DEF LiveIn, KeysIn
<1>11. KeysIn(en) = KeysIn(st) \cup {k}
  <2>1. KeysIn(en) = {en[j].key : j \in LiveIn(st)} \cup {en[i].key}
    BY <1>8 DEF KeysIn
  <2>2. {en[j].key : j \in LiveIn(st)} = {fl[j].key : j \in LiveIn(fl)}
    BY <1>2, <1>10
  <2> QED BY <1>2, <1>5, <1>7, <2>1, <2>2 DEF KeysIn
<1>12. ASSUME NEW j \in LiveIn(en), NEW l \in LiveIn(en), en[j].key = en[l].key PROVE j = l
  <2>1. \A x \in LiveIn(st) : en[x].key # k
    BY <1>2, <1>10
  <2>2. CASE j = i \/ l = i
    BY <1>5, <1>7, <1>8, <1>12, <2>1, <2>2
  <2>3. CASE j # i /\ l # i
    <3>1. j \in LiveIn(fl) /\ l \in LiveIn(fl) /\ fl[j].key = fl[l].key
      BY <1>2, <1>8, <1>10, <1>12, <2>3
    <3> QED BY <1>2, <3>1 DEF Sound
  <2> QED BY <2>2, <2>3
\* What could be passed before still can: a recycled entry is marked.
<1>13. ASSUME NEW j \in Slots(log2), Passable(fl[j]) PROVE Passable(en[j])
  <2>1. CASE j # i
    BY <1>7, <1>13, <2>1
  <2>2. CASE j = i
    <3>1. st[i] = REMOVED
      BY <1>4, <1>6, <1>13, <2>2 DEF Passable
    <3> QED BY <1>5, <1>6, <1>7, <2>2, <3>1 DEF Passable
  <2> QED BY <2>1, <2>2
<1>14. ASSUME NEW j \in LiveIn(en) PROVE \E n \in Slots(log2) : Reached(en, j, en[j].key, n, log2)
  <2>1. CASE j = i
    <3>1. PICK n \in Slots(log2) : n <= Passes(st, k, log2) /\ Probe(k, n, log2) = i
      BY <1>4
    <3>2. Passes(st, k, log2) \in Nat /\ n \in Nat
      BY <1>1, SearchStops, SlotsFinite
    <3>3. ASSUME NEW m \in 0..n - 1 PROVE Passable(en[Probe(k, m, log2)])
      <4>1. m \in 0..Passes(st, k, log2) - 1 /\ m \in Nat
        BY <3>1, <3>2
      <4>2. Passable(fl[Probe(k, m, log2)]) /\ Probe(k, m, log2) \in Slots(log2)
        BY <1>1, <4>1, ProbeInSlots
      <4> QED BY <1>13, <4>2
    <3> QED BY <1>5, <1>7, <2>1, <3>1, <3>3 DEF Reached
  <2>2. CASE j # i
    <3>1. j \in LiveIn(fl) /\ j \in LiveIn(st)
      BY <1>2, <1>8, <2>2
    <3>2. PICK n \in Slots(log2) : Reached(fl, j, fl[j].key, n, log2)
      BY <1>2, <3>1 DEF Sound
    <3>3. fl[j] \in TableEntries /\ ENTRY_IS_LIVE(fl[j])
      BY <1>1, <3>1 DEF LiveIn
    <3>4. fl[j].key \in DHKeys
      BY <3>3, EntryKinds
    <3>5. ASSUME NEW m \in 0..n - 1 PROVE Passable(en[Probe(fl[j].key, m, log2)])
      <4>1. m \in Nat
        BY SlotsFinite
      <4>2. Probe(fl[j].key, m, log2) \in Slots(log2)
        BY <3>4, <4>1, ProbeInSlots
      <4> QED BY <1>13, <3>2, <4>2 DEF Reached
    <3> QED BY <1>10, <3>1, <3>2, <3>5 DEF Reached
  <2> QED BY <2>1, <2>2
<1> QED BY <1>7, <1>8, <1>9, <1>11, <1>12, <1>14 DEF Sound

----------------------------------------------------------------------------
(* Removals.                                                                *)

LEMMA RawRemovedSound ==
  ASSUME NEW log2 \in Nat, log2 <= Bits, NEW st, Sound(st, log2),
         NEW gone \in SUBSET LiveIn(st), NEW rr, rr = RawRemoved(st, gone)
  PROVE  /\ Sound(rr, log2)
         /\ HasFree(st) => HasFree(rr)
         /\ LiveIn(rr) = LiveIn(st) \ gone
         /\ KeysIn(rr) = KeysIn(st) \ {st[i].key : i \in gone}
         /\ RemovedIn(rr) = RemovedIn(st) \cup {i \in gone : st[i].collided}
         /\ RemovedIn(st) \cap {i \in gone : st[i].collided} = {}
<1>1. st \in [Slots(log2) -> TableEntries]
  BY DEF Sound
<1>2. rr = [i \in Slots(log2) |-> IF i \notin gone THEN st[i]
                                  ELSE IF st[i].collided THEN REMOVED ELSE FREE]
  BY <1>1 DEF RawRemoved
<1>3. rr \in [Slots(log2) -> TableEntries]
  BY <1>1, <1>2 DEF TableEntries
<1>4. \A i \in LiveIn(st) : i \in Slots(log2) /\ ENTRY_IS_LIVE(st[i]) /\ st[i].key \in DHKeys
                              /\ st[i] # FREE /\ st[i] # REMOVED
  BY <1>1, EntryKinds DEF LiveIn
<1>5. FREE # REMOVED /\ ~ENTRY_IS_LIVE(FREE) /\ ~ENTRY_IS_LIVE(REMOVED)
  BY EntryKinds DEF TableEntries
<1>6. LiveIn(rr) = LiveIn(st) \ gone
  BY <1>1, <1>2, <1>5 DEF LiveIn
<1>7. RemovedIn(rr) = RemovedIn(st) \cup {i \in gone : st[i].collided}
  BY <1>1, <1>2, <1>4, <1>5 DEF RemovedIn
<1>8. \A i \in LiveIn(rr) : rr[i] = st[i] /\ i \in LiveIn(st) /\ i \notin gone
  BY <1>2, <1>4, <1>6
<1>9. KeysIn(rr) = KeysIn(st) \ {st[i].key : i \in gone}
  <2>1. ASSUME NEW i \in LiveIn(rr), NEW j \in gone PROVE st[i].key # st[j].key
    BY <1>8 DEF Sound
  <2> QED BY <1>6, <1>8, <2>1 DEF KeysIn
<1>10. \A i, j \in LiveIn(rr) : rr[i].key = rr[j].key => i = j
  BY <1>8 DEF Sound
<1>11. ASSUME NEW i \in Slots(log2), Passable(st[i]) PROVE Passable(rr[i])
  BY <1>2, <1>4, <1>5, <1>11 DEF Passable
<1>12. ASSUME NEW i \in LiveIn(rr) PROVE \E n \in Slots(log2) : Reached(rr, i, rr[i].key, n, log2)
  <2>1. PICK n \in Slots(log2) : Reached(st, i, st[i].key, n, log2)
    BY <1>8 DEF Sound
  <2>2. ASSUME NEW m \in 0..n - 1 PROVE Passable(rr[Probe(st[i].key, m, log2)])
    <3>1. m \in Nat /\ st[i].key \in DHKeys
      BY <1>4, <1>8, SlotsFinite
    <3>2. Probe(st[i].key, m, log2) \in Slots(log2)
      BY <3>1, ProbeInSlots
    <3> QED BY <1>11, <2>1, <3>2 DEF Reached
  <2> QED BY <1>8, <2>1, <2>2 DEF Reached
<1>13. HasFree(st) => HasFree(rr)
  BY <1>1, <1>2, <1>4 DEF HasFree
<1>14. RemovedIn(st) \cap {i \in gone : st[i].collided} = {}
  BY <1>4 DEF RemovedIn
<1> QED BY <1>3, <1>6, <1>7, <1>9, <1>10, <1>12, <1>13, <1>14 DEF Sound

----------------------------------------------------------------------------
(* Changing the table.                                                      *)

\* Moving the entry of slot n - 1, if it is live.
MoveOne(st, to, n, log2) ==
    IF ENTRY_IS_LIVE(st[n - 1]) THEN Enter(to, st[n - 1].key, log2) ELSE to

IsMove(st, moved, limit, log2) ==
    moved = [n \in 0..limit |->
                IF n = 0 THEN EmptyStore(log2) ELSE MoveOne(st, moved[n - 1], n, log2)]

LEMMA MovesExist ==
  ASSUME NEW st, NEW log2, NEW limit \in Nat
  PROVE  \E moved : IsMove(st, moved, limit, log2)
<1> DEFINE Bad == {n \in Nat : ~\E moved : IsMove(st, moved, n, log2)}
<1>1. Bad = {}
  <2> SUFFICES ASSUME Bad # {} PROVE FALSE
    OBVIOUS
  <2>1. Bad \in SUBSET Nat
    OBVIOUS
  <2>2. PICK n \in Bad : \A x \in Bad : n <= x
    BY <2>1, SmallestExists
  <2>3. n \in Nat /\ ~\E moved : IsMove(st, moved, n, log2)
    OBVIOUS
  <2>4. n # 0
    <3>1. IsMove(st, [x \in 0..0 |-> EmptyStore(log2)], 0, log2)
      BY DEF IsMove
    <3> QED BY <2>3, <3>1
  <2>5. n - 1 \in Nat /\ n - 1 \notin Bad
    BY <2>2, <2>3, <2>4
  <2>6. PICK g : IsMove(st, g, n - 1, log2)
    BY <2>5
  <2> HIDE DEF Bad
  <2> DEFINE h == [x \in 0..n |-> IF x = n THEN MoveOne(st, g[n - 1], n, log2) ELSE g[x]]
  <2>7. \A x \in 0..n - 1 : g[x] = IF x = 0 THEN EmptyStore(log2) ELSE MoveOne(st, g[x - 1], x, log2)
    BY <2>5, <2>6 DEF IsMove
  <2>8. \A x \in 0..n : h[x] = IF x = 0 THEN EmptyStore(log2) ELSE MoveOne(st, h[x - 1], x, log2)
    <3> TAKE x \in 0..n
    <3>1. CASE x = n
      <4>1. h[x] = MoveOne(st, g[n - 1], n, log2) /\ h[n - 1] = g[n - 1]
        BY <2>3, <2>4, <3>1
      <4> QED BY <2>4, <3>1, <4>1
    <3>2. CASE x # n
      <4>1. x \in 0..n - 1 /\ h[x] = g[x]
        BY <2>3, <3>2
      <4>2. x # 0 => h[x - 1] = g[x - 1]
        BY <2>3, <4>1
      <4> HIDE DEF h
      <4> QED BY <2>7, <4>1, <4>2
    <3> QED BY <3>1, <3>2
  <2>9. IsMove(st, h, n, log2)
    <3> DEFINE b == [x \in 0..n |-> IF x = 0 THEN EmptyStore(log2) ELSE MoveOne(st, h[x - 1], x, log2)]
    <3>1. \A x \in 0..n : h[x] = b[x]
      BY <2>8
    <3>2. h = b
      BY <3>1
    <3> HIDE DEF h
    <3> QED BY <3>2 DEF IsMove
  <2> QED BY <2>3, <2>9
<1> QED BY <1>1

LEMMA MovedByMoves ==
  ASSUME NEW st, NEW log2, Cardinality(DOMAIN st) \in Nat
  PROVE  \E moved : IsMove(st, moved, Cardinality(DOMAIN st), log2)
                      /\ Moved(st, log2) = moved[Cardinality(DOMAIN st)]
<1> DEFINE N == Cardinality(DOMAIN st)
           moved == CHOOSE f : IsMove(st, f, N, log2)
<1>1. IsMove(st, moved, N, log2)
  BY MovesExist
<1>2. Moved(st, log2) = moved[N]
  BY DEF Moved, IsMove, MoveOne
<1> HIDE DEF moved, N
<1>3. \E f : IsMove(st, f, N, log2) /\ Moved(st, log2) = f[N]
  BY <1>1, <1>2
<1> QED BY <1>3 DEF N

LEMMA EmptySound ==
  ASSUME NEW log2 \in Nat
  PROVE  /\ Sound(EmptyStore(log2), log2)
         /\ LiveIn(EmptyStore(log2)) = {} /\ RemovedIn(EmptyStore(log2)) = {}
         /\ KeysIn(EmptyStore(log2)) = {}
<1>1. FREE \in TableEntries /\ ~ENTRY_IS_LIVE(FREE) /\ FREE # REMOVED
  BY EntryKinds DEF TableEntries
<1>2. LiveIn(EmptyStore(log2)) = {} /\ RemovedIn(EmptyStore(log2)) = {}
  BY <1>1 DEF LiveIn, RemovedIn, EmptyStore
<1>3. EmptyStore(log2) \in [Slots(log2) -> TableEntries]
  BY <1>1 DEF EmptyStore
<1> QED BY <1>2, <1>3 DEF Sound, KeysIn

LEMMA MovedSound ==
  ASSUME NEW old \in Nat, old <= Bits, NEW log2 \in Nat, log2 <= Bits, NEW st, Sound(st, old),
         Cardinality(LiveIn(st)) < Size(log2), NEW to, to = Moved(st, log2)
  PROVE  /\ Sound(to, log2) /\ HasFree(to)
         /\ KeysIn(to) = KeysIn(st) /\ RemovedIn(to) = {}
         /\ Cardinality(LiveIn(to)) = Cardinality(LiveIn(st))
<1> DEFINE Part(n) == {i \in LiveIn(st) : i < n}
           Done(s, n) == /\ Sound(s, log2)
                         /\ KeysIn(s) = {st[i].key : i \in Part(n)} /\ RemovedIn(s) = {}
                         /\ Cardinality(LiveIn(s)) = Cardinality(Part(n))
           N == Size(old)
<1>1. /\ st \in [Slots(old) -> TableEntries]
      /\ N \in Nat /\ Cardinality(DOMAIN st) = N
      /\ IsFiniteSet(LiveIn(st)) /\ Cardinality(LiveIn(st)) \in Nat
      /\ \A i \in LiveIn(st) : i \in Nat /\ i < N /\ st[i].key \in DHKeys
  <2>1. st \in [Slots(old) -> TableEntries] /\ N \in Nat /\ Cardinality(DOMAIN st) = N
    BY SlotsFinite, SizePositive DEF Sound
  <2>2. \A i \in LiveIn(st) : i \in Nat /\ i < N /\ st[i].key \in DHKeys
    BY <2>1, EntryKinds DEF LiveIn, Slots
  <2> QED BY <2>1, <2>2, StoreFinite
<1>2. PICK moved : IsMove(st, moved, N, log2) /\ to = moved[N]
  BY <1>1, MovedByMoves
<1>3. \A n \in 0..N : moved[n] = IF n = 0 THEN EmptyStore(log2) ELSE MoveOne(st, moved[n - 1], n, log2)
  BY <1>2 DEF IsMove
<1> HIDE DEF N
<1>4. ASSUME NEW n \in Nat
      PROVE  /\ IsFiniteSet(Part(n)) /\ Cardinality(Part(n)) \in Nat
             /\ Cardinality(Part(n)) <= Cardinality(LiveIn(st))
  BY <1>1, FS_Subset, FS_CardinalityType
<1>5. Done(moved[0], 0)
  <2>1. Part(0) = {}
    BY <1>1
  <2>2. moved[0] = EmptyStore(log2)
    BY <1>1, <1>3
  <2> QED BY <2>1, <2>2, EmptySound, FS_EmptySet
<1>6. ASSUME NEW n \in Nat, n < N, Done(moved[n], n) PROVE Done(moved[n + 1], n + 1)
  <2> DEFINE s == moved[n]
  <2>1. moved[n + 1] = MoveOne(st, s, n + 1, log2)
    <3>1. n + 1 \in 0..N /\ n + 1 # 0 /\ (n + 1) - 1 = n
      BY <1>1, <1>6
    <3> QED BY <1>3, <3>1
  <2>2. (n + 1) - 1 = n /\ n \in DOMAIN st
    BY <1>1, <1>6 DEF Slots, N
  <2>3. CASE ~ENTRY_IS_LIVE(st[n])
    <3>1. moved[n + 1] = s
      BY <2>1, <2>2, <2>3 DEF MoveOne
    <3>2. Part(n + 1) = Part(n)
      BY <1>1, <2>3 DEF LiveIn
    <3> QED BY <1>6, <3>1, <3>2
  <2>4. CASE ENTRY_IS_LIVE(st[n])
    <3> DEFINE k == st[n].key
               i == SearchToAdd(s, k, log2)
    <3>1. moved[n + 1] = Enter(s, k, log2)
      BY <2>1, <2>2, <2>4 DEF MoveOne
    <3>2. n \in LiveIn(st) /\ k \in DHKeys
      BY <1>1, <2>2, <2>4 DEF LiveIn
    <3>3. Part(n + 1) = Part(n) \cup {n} /\ n \notin Part(n)
      <4>1. \A j \in LiveIn(st) : j < n + 1 <=> (j < n \/ j = n)
        BY <1>1
      <4>2. ~(n < n)
        OBVIOUS
      <4> HIDE DEF k, i, s
      <4> QED BY <3>2, <4>1, <4>2
    <3>4. k \notin KeysIn(s)
      <4>1. \A j \in Part(n) : st[j].key # k
        BY <3>2, <3>3 DEF Sound
      <4> QED BY <1>6, <4>1
    <3>5. s \in [Slots(log2) -> TableEntries] /\ Sound(s, log2) /\ RemovedIn(s) = {}
      BY <1>6 DEF Sound
    <3>6. HasFree(s)
      <4>1. Cardinality(RemovedIn(s)) = 0
        BY <3>5, FS_EmptySet
      <4>2. Cardinality(LiveIn(s)) + Cardinality(RemovedIn(s)) < Size(log2)
        <5>1. Cardinality(LiveIn(s)) = Cardinality(Part(n))
          BY <1>6
        <5> HIDE DEF s, Part
        <5> QED BY <1>1, <1>4, <4>1, <5>1, SizePositive
      <4> QED BY <3>5, <4>2, FreeLeft
    <3> HIDE DEF s, k, i
    <3>7. /\ Sound(Enter(s, k, log2), log2)
          /\ LiveIn(Enter(s, k, log2)) = LiveIn(s) \cup {i} /\ i \notin LiveIn(s)
          /\ KeysIn(Enter(s, k, log2)) = KeysIn(s) \cup {k}
          /\ RemovedIn(Enter(s, k, log2)) = RemovedIn(s) \ {i}
      BY <3>2, <3>4, <3>5, <3>6, EnterSound DEF i
    <3>8. Cardinality(LiveIn(Enter(s, k, log2))) = Cardinality(Part(n + 1))
      <4>1. Cardinality(LiveIn(s) \cup {i}) = Cardinality(LiveIn(s)) + 1
        BY <3>5, <3>7, StoreFinite, FS_AddElement
      <4>2. Cardinality(Part(n) \cup {n}) = Cardinality(Part(n)) + 1
        BY <1>4, <3>3, FS_AddElement
      <4>3. Cardinality(LiveIn(s)) = Cardinality(Part(n))
        BY <1>6 DEF s
      <4> HIDE DEF Part
      <4> QED BY <3>3, <3>7, <4>1, <4>2, <4>3
    <3>9. KeysIn(s) \cup {k} = {st[j].key : j \in Part(n + 1)}
      <4>1. {st[j].key : j \in Part(n) \cup {n}} = {st[j].key : j \in Part(n)} \cup {st[n].key}
        OBVIOUS
      <4>2. KeysIn(s) = {st[j].key : j \in Part(n)}
        BY <1>6 DEF s
      <4> HIDE DEF Part
      <4> QED BY <3>3, <4>1, <4>2 DEF k
    <3> HIDE DEF Part
    <3> QED BY <3>1, <3>5, <3>7, <3>8, <3>9
  <2> QED BY <2>3, <2>4
<1> DEFINE Bad == {n \in Nat : n <= N /\ ~Done(moved[n], n)}
<1> HIDE DEF Done
<1>7. Bad = {}
  <2> SUFFICES ASSUME Bad # {} PROVE FALSE
    OBVIOUS
  <2>1. Bad \in SUBSET Nat
    OBVIOUS
  <2>2. PICK n \in Bad : \A x \in Bad : n <= x
    BY <2>1, SmallestExists
  <2>3. n \in Nat /\ n <= N /\ ~Done(moved[n], n)
    OBVIOUS
  <2>4. n # 0
    BY <1>5, <2>3
  <2>5. n - 1 \in Nat /\ n - 1 < N /\ n - 1 \notin Bad /\ (n - 1) + 1 = n
    BY <1>1, <2>2, <2>3, <2>4
  <2>6. Done(moved[n - 1], n - 1)
    BY <1>1, <2>5
  <2>7. Done(moved[(n - 1) + 1], (n - 1) + 1)
    BY <1>6, <2>5, <2>6
  <2> QED BY <2>3, <2>5, <2>7
<1>8. Done(to, N)
  BY <1>1, <1>2, <1>7
<1>9. Part(N) = LiveIn(st)
  BY <1>1
<1>10. /\ Sound(to, log2) /\ KeysIn(to) = KeysIn(st) /\ RemovedIn(to) = {}
       /\ Cardinality(LiveIn(to)) = Cardinality(LiveIn(st))
  BY <1>8, <1>9 DEF Done, KeysIn
<1>11. HasFree(to)
  <2>1. Cardinality(RemovedIn(to)) = 0
    BY <1>10, FS_EmptySet
  <2>2. Cardinality(LiveIn(to)) + Cardinality(RemovedIn(to)) < Size(log2)
    BY <1>1, <1>10, <2>1, SizePositive
  <2> QED BY <1>10, <2>2, FreeLeft DEF Sound
<1> QED BY <1>10, <1>11

----------------------------------------------------------------------------
(* The inductive invariant.                                                 *)

TableState(st, log2, entries, removed) ==
    /\ log2 \in Nat /\ MinLog2 <= log2 /\ log2 < LimitLog2
    /\ Sound(st, log2)
    /\ entries = Cardinality(LiveIn(st)) /\ removed = Cardinality(RemovedIn(st))
    /\ entries + removed < Size(log2)

DHInv == TableState(store, sizeLog2, entryCount, removedCount)

LEMMA StateFacts ==
  ASSUME NEW st, NEW log2, NEW entries, NEW removed, TableState(st, log2, entries, removed)
  PROVE  /\ log2 \in Nat /\ log2 <= Bits /\ Size(log2) \in Nat /\ 4 <= Size(log2)
         /\ entries \in Nat /\ removed \in Nat
         /\ st \in [Slots(log2) -> TableEntries]
         /\ HasFree(st)
<1>1. log2 \in Nat /\ log2 <= Bits /\ 2 <= log2
  BY DHashAssumption DEF DHashAssumption, TableState
<1>2. st \in [Slots(log2) -> TableEntries]
  BY DEF TableState, Sound
<1>3. entries \in Nat /\ removed \in Nat
  BY <1>1, <1>2, StoreFinite DEF TableState
<1>4. HasFree(st)
  BY <1>1, <1>2, FreeLeft DEF TableState
<1> QED BY <1>1, <1>2, <1>3, <1>4, SizeOfFour

LEMMA StateExact ==
  ASSUME NEW st, NEW log2, NEW entries, NEW removed, TableState(st, log2, entries, removed)
  PROVE  /\ entries = Cardinality(LiveIn(st))
         /\ removed = Cardinality({i \in DOMAIN st : st[i] = REMOVED})
         /\ \A i, j \in LiveIn(st) : st[i].key = st[j].key => i = j
         /\ \A k \in DHKeys : SearchEnds(st, k, log2)
         /\ {k \in DHKeys : Finds(st, k, log2)} = KeysIn(st)
<1>1. \A k \in DHKeys : SearchEnds(st, k, log2)
  BY StateFacts, SearchStops
<1>2. {k \in DHKeys : Finds(st, k, log2)} = KeysIn(st)
  BY StateFacts, FoundKeys DEF TableState
<1> QED BY <1>1, <1>2 DEF TableState, RemovedIn, Sound

\* An addition to a store with two free slots.
LEMMA AddToAdds ==
  ASSUME NEW st, NEW log2, NEW removed, NEW k \in DHKeys,
         TableState(st, log2, entryCount, removed), entryCount + removed + 1 < Size(log2),
         AddTo(st, removed, log2, k)
  PROVE  /\ TableState(store', log2, entryCount', removedCount') /\ sizeLog2' = log2
         /\ KeysIn(store') = KeysIn(st) \cup {k}
         /\ Says("add", {k}, TRUE)
<1> DEFINE i == SearchToAdd(st, k, log2)
<1>1. /\ log2 \in Nat /\ log2 <= Bits /\ Size(log2) \in Nat
      /\ entryCount \in Nat /\ removed \in Nat /\ st \in [Slots(log2) -> TableEntries] /\ HasFree(st)
      /\ Sound(st, log2) /\ entryCount = Cardinality(LiveIn(st)) /\ removed = Cardinality(RemovedIn(st))
  BY StateFacts DEF TableState
<1>2. /\ Says("add", {k}, TRUE) /\ sizeLog2' = log2
      /\ IF Matches(st[i], k)
         THEN store' = Flagged(st, k, log2) /\ removedCount' = removed /\ entryCount' = entryCount
         ELSE /\ store' = Enter(st, k, log2)
              /\ removedCount' = IF st[i] = REMOVED THEN removed - 1 ELSE removed
              /\ entryCount' = entryCount + 1
  BY DEF AddTo
<1>3. CASE k \in KeysIn(st)
  <2>1. PICK j \in LiveIn(st) : k = st[j].key
    BY <1>3 DEF KeysIn
  <2>2. Matches(st[Search(st, k, log2)], k)
    BY <1>1, <2>1, FindsEntry
  <2>3. Matches(st[i], k)
    BY <2>2 DEF SearchToAdd
  <2>4. store' = Flagged(st, k, log2) /\ removedCount' = removed /\ entryCount' = entryCount
    BY <1>2, <2>3
  <2>5. /\ Sound(store', log2) /\ LiveIn(store') = LiveIn(st) /\ RemovedIn(store') = RemovedIn(st)
        /\ KeysIn(store') = KeysIn(st)
    BY <1>1, <2>4, FlaggedSound
  <2>6. TableState(store', log2, entryCount', removedCount')
    BY <2>4, <2>5 DEF TableState
  <2> QED BY <1>2, <1>3, <2>5, <2>6
<1>4. CASE k \notin KeysIn(st)
  <2>1. i \in Slots(log2) /\ (st[i] = FREE \/ st[i] = REMOVED)
    BY <1>1, <1>4, RoomToAdd
  <2>2. ~ENTRY_IS_LIVE(st[i])
    BY <1>1, <2>1, EntryKinds
  <2>3. /\ store' = Enter(st, k, log2)
        /\ removedCount' = IF st[i] = REMOVED THEN removed - 1 ELSE removed
        /\ entryCount' = entryCount + 1
    BY <1>2, <2>2 DEF Matches
  <2>4. /\ Sound(store', log2)
        /\ LiveIn(store') = LiveIn(st) \cup {i} /\ i \notin LiveIn(st)
        /\ KeysIn(store') = KeysIn(st) \cup {k}
        /\ RemovedIn(store') = RemovedIn(st) \ {i}
    BY <1>1, <1>4, <2>3, EnterSound
  <2>5. Cardinality(LiveIn(store')) = entryCount + 1
    BY <1>1, <2>4, StoreFinite, FS_AddElement
  <2>6. Cardinality(RemovedIn(store')) = IF i \in RemovedIn(st) THEN removed - 1 ELSE removed
    BY <1>1, <2>4, StoreFinite, FS_RemoveElement
  <2>7. i \in RemovedIn(st) <=> st[i] = REMOVED
    BY <1>1, <2>1 DEF RemovedIn
  <2> HIDE DEF i
  <2>8. entryCount' = Cardinality(LiveIn(store')) /\ removedCount' = Cardinality(RemovedIn(store'))
    BY <2>3, <2>5, <2>6, <2>7
  <2>9. entryCount' + removedCount' < Size(log2)
    BY <1>1, <2>3
  <2>10. TableState(store', log2, entryCount', removedCount')
    BY <2>4, <2>8, <2>9 DEF TableState
  <2> QED BY <1>2, <2>4, <2>10
<1> QED BY <1>3, <1>4

\* The table after ChangeTable, the store having been left as st.
LEMMA ChangeTableState ==
  ASSUME NEW st, NEW old \in Nat, old <= Bits, Sound(st, old),
         NEW log2 \in Nat, MinLog2 <= log2, log2 < LimitLog2,
         Cardinality(LiveIn(st)) < Size(log2)
  PROVE  /\ TableState(Moved(st, log2), log2, Cardinality(LiveIn(st)), 0)
         /\ KeysIn(Moved(st, log2)) = KeysIn(st)
<1>1. log2 <= Bits
  BY DHashAssumption DEF DHashAssumption
<1>2. /\ Sound(Moved(st, log2), log2) /\ KeysIn(Moved(st, log2)) = KeysIn(st)
      /\ RemovedIn(Moved(st, log2)) = {}
      /\ Cardinality(LiveIn(Moved(st, log2))) = Cardinality(LiveIn(st))
  BY <1>1, MovedSound
<1>3. Cardinality(RemovedIn(Moved(st, log2))) = 0
  BY <1>2, FS_EmptySet
<1>4. Cardinality(LiveIn(st)) \in Nat
  BY StoreFinite DEF Sound
<1> QED BY <1>2, <1>3, <1>4 DEF TableState

\* The table without some of its entries, before any change of size.
LEMMA AfterRemoval ==
  ASSUME DHInv, NEW gone \in SUBSET LiveIn(store), NEW rr, rr = RawRemoved(store, gone)
  PROVE  /\ TableState(rr, sizeLog2, entryCount - Cardinality(gone), RemovedNow(gone))
         /\ KeysIn(rr) = KeysIn(store) \ {store[i].key : i \in gone}
         /\ Cardinality(LiveIn(rr)) = entryCount - Cardinality(gone)
         /\ entryCount - Cardinality(gone) \in Nat /\ entryCount - Cardinality(gone) <= entryCount
<1> DEFINE left == {i \in gone : store[i].collided}
<1>1. /\ sizeLog2 \in Nat /\ sizeLog2 <= Bits /\ Size(sizeLog2) \in Nat /\ MinLog2 <= sizeLog2
      /\ sizeLog2 < LimitLog2 /\ Sound(store, sizeLog2)
      /\ entryCount = Cardinality(LiveIn(store)) /\ removedCount = Cardinality(RemovedIn(store))
      /\ entryCount \in Nat /\ removedCount \in Nat /\ entryCount + removedCount < Size(sizeLog2)
      /\ store \in [Slots(sizeLog2) -> TableEntries]
  BY StateFacts DEF DHInv, TableState
<1>2. /\ Sound(rr, sizeLog2)
      /\ LiveIn(rr) = LiveIn(store) \ gone
      /\ KeysIn(rr) = KeysIn(store) \ {store[i].key : i \in gone}
      /\ RemovedIn(rr) = RemovedIn(store) \cup left
      /\ RemovedIn(store) \cap left = {}
  BY <1>1, RawRemovedSound
<1>3. /\ IsFiniteSet(LiveIn(store)) /\ IsFiniteSet(RemovedIn(store)) /\ IsFiniteSet(gone)
      /\ IsFiniteSet(left) /\ Cardinality(left) <= Cardinality(gone)
      /\ Cardinality(gone) \in Nat /\ Cardinality(left) \in Nat
      /\ Cardinality(gone) <= entryCount
  <2>1. IsFiniteSet(LiveIn(store)) /\ IsFiniteSet(RemovedIn(store))
    BY <1>1, StoreFinite
  <2>2. IsFiniteSet(gone) /\ Cardinality(gone) <= entryCount
    BY <1>1, <2>1, FS_Subset
  <2>3. left \in SUBSET gone
    OBVIOUS
  <2>4. IsFiniteSet(left) /\ Cardinality(left) <= Cardinality(gone)
    BY <2>2, <2>3, FS_Subset
  <2> QED BY <2>1, <2>2, <2>4, FS_CardinalityType
<1> HIDE DEF left
<1>4. Cardinality(LiveIn(rr)) = entryCount - Cardinality(gone)
  <2>1. LiveIn(store) \cap gone = gone
    OBVIOUS
  <2>2. Cardinality(LiveIn(store) \ gone) = Cardinality(LiveIn(store)) - Cardinality(LiveIn(store) \cap gone)
    BY <1>3, FS_Difference
  <2> QED BY <1>1, <1>2, <2>1, <2>2
<1>5. Cardinality(RemovedIn(rr)) = RemovedNow(gone)
  <2>1. Cardinality(RemovedIn(store) \cup left)
          = Cardinality(RemovedIn(store)) + Cardinality(left) - Cardinality(RemovedIn(store) \cap left)
    BY <1>3, FS_Union
  <2>2. Cardinality(RemovedIn(store) \cap left) = 0
    BY <1>2, FS_EmptySet
  <2>3. RemovedNow(gone) = removedCount + Cardinality(left)
    BY DEF RemovedNow, left
  <2> QED BY <1>1, <1>2, <1>3, <2>1, <2>2, <2>3
<1>6. RemovedNow(gone) = removedCount + Cardinality(left)
  BY DEF RemovedNow, left
<1>7. /\ entryCount - Cardinality(gone) \in Nat /\ entryCount - Cardinality(gone) <= entryCount
      /\ (entryCount - Cardinality(gone)) + RemovedNow(gone) < Size(sizeLog2)
  BY <1>1, <1>3, <1>6
<1> QED BY <1>1, <1>2, <1>4, <1>5, <1>7 DEF TableState

----------------------------------------------------------------------------
(* The calls.                                                               *)

\* A call leaves a sound table with the keys it should have.
Leaves(keys) == DHInv' /\ KeysIn(store') = keys

LEMMA AddLeaves ==
  ASSUME DHInv, NEW k \in DHKeys, DHAdd(k) \/ DHAddTight(k)
  PROVE  Leaves(KeysIn(store) \cup {k}) /\ Says("add", {k}, TRUE)
<1>1. /\ Size(sizeLog2) \in Nat /\ 4 <= Size(sizeLog2) /\ entryCount \in Nat /\ removedCount \in Nat
      /\ entryCount + removedCount < Size(sizeLog2)
  BY StateFacts DEF DHInv, TableState
<1>2. AddTo(store, removedCount, sizeLog2, k)
  BY DEF DHAdd, DHAddTight
<1>3. entryCount + removedCount + 1 < Size(sizeLog2)
  <2>1. CASE DHAdd(k)
    <3>1. ~(entryCount + removedCount >= (192 * Size(sizeLog2)) \div 256)
      BY <2>1 DEF DHAdd, Overloaded, MAX_LOAD
    <3> QED BY <1>1, <3>1
  <2>2. CASE DHAddTight(k)
    <3>1. entryCount + removedCount # Size(sizeLog2) - 1
      BY <2>2 DEF DHAddTight, LastFree
    <3> QED BY <1>1, <3>1
  <2> QED BY <2>1, <2>2
<1>4. /\ TableState(store', sizeLog2, entryCount', removedCount') /\ sizeLog2' = sizeLog2
      /\ KeysIn(store') = KeysIn(store) \cup {k} /\ Says("add", {k}, TRUE)
  BY <1>2, <1>3, AddToAdds DEF DHInv
<1> QED BY <1>4 DEF Leaves, DHInv

LEMMA AddGrowingLeaves ==
  ASSUME DHInv, NEW k \in DHKeys, DHAddGrowing(k)
  PROVE  Leaves(KeysIn(store) \cup {k}) /\ Says("add", {k}, TRUE)
<1> DEFINE log2 == GrownLog2
           st == Moved(store, log2)
<1>1. /\ sizeLog2 \in Nat /\ sizeLog2 <= Bits /\ MinLog2 <= sizeLog2 /\ sizeLog2 < LimitLog2
      /\ Size(sizeLog2) \in Nat /\ 4 <= Size(sizeLog2) /\ entryCount \in Nat /\ removedCount \in Nat
      /\ entryCount + removedCount < Size(sizeLog2)
      /\ Sound(store, sizeLog2) /\ entryCount = Cardinality(LiveIn(store))
  BY StateFacts DEF DHInv, TableState
<1>2. AddTo(st, 0, log2, k) /\ log2 < LimitLog2
  BY DEF DHAddGrowing
<1>3. log2 \in Nat /\ MinLog2 <= log2 /\ entryCount + 1 < Size(log2) /\ Size(log2) \in Nat
  <2>1. CASE removedCount >= Size(sizeLog2) \div 4
    <3>1. log2 = sizeLog2
      BY <2>1 DEF GrownLog2
    <3>2. 1 <= removedCount
      BY <1>1, <2>1
    <3> QED BY <1>1, <3>1, <3>2
  <2>2. CASE ~(removedCount >= Size(sizeLog2) \div 4)
    <3>1. log2 = sizeLog2 + 1
      BY <2>2 DEF GrownLog2
    <3>2. Size(sizeLog2 + 1) = 2 * Size(sizeLog2)
      BY <1>1, SizeOfSubsets
    <3> QED BY <1>1, <3>1, <3>2, DHashAssumption DEF DHashAssumption
  <2> QED BY <2>1, <2>2
<1> HIDE DEF log2, st
<1>4. Cardinality(LiveIn(store)) < Size(log2)
  BY <1>1, <1>3
<1>5. TableState(st, log2, entryCount, 0) /\ KeysIn(st) = KeysIn(store)
  BY <1>1, <1>2, <1>3, <1>4, ChangeTableState DEF st
<1>6. entryCount + 0 + 1 < Size(log2)
  BY <1>1, <1>3
<1>7. /\ TableState(store', log2, entryCount', removedCount') /\ sizeLog2' = log2
      /\ KeysIn(store') = KeysIn(st) \cup {k} /\ Says("add", {k}, TRUE)
  BY <1>2, <1>5, <1>6, AddToAdds
<1> QED BY <1>5, <1>7 DEF Leaves, DHInv

LEMMA AddFailsLeaves ==
  ASSUME DHInv, NEW k \in DHKeys, DHAddFails(k)
  PROVE  Leaves(KeysIn(store)) /\ Says("add", {k}, FALSE)
BY DEF DHAddFails, Leaves, DHInv

LEMMA RemoveLeaves ==
  ASSUME DHInv, NEW k \in DHKeys, DHRemove(k)
  PROVE  Leaves(KeysIn(store) \ {k}) /\ Says("remove", {k}, TRUE)
<1> DEFINE i == Search(store, k, sizeLog2)
           rr == RawRemoved(store, {i})
<1>1. /\ sizeLog2 \in Nat /\ sizeLog2 <= Bits /\ MinLog2 <= sizeLog2 /\ sizeLog2 < LimitLog2
      /\ MinLog2 \in Nat /\ HasFree(store)
      /\ Size(sizeLog2) \in Nat /\ Sound(store, sizeLog2)
      /\ store \in [Slots(sizeLog2) -> TableEntries]
  BY StateFacts, DHashAssumption DEF DHInv, TableState, DHashAssumption
<1>2. Says("remove", {k}, TRUE)
  BY DEF DHRemove
<1>3. CASE k \notin KeysIn(store)
  <2>1. store[i] = FREE
    BY <1>1, <1>3, MissesOthers
  <2>2. ~Matches(store[i], k)
    BY <2>1, EntryKinds DEF Matches, TableEntries
  <2>3. UNCHANGED <<sizeLog2, store, entryCount, removedCount>>
    BY <2>2 DEF DHRemove
  <2> QED BY <1>2, <1>3, <2>3 DEF Leaves, DHInv
<1>4. CASE k \in KeysIn(store)
  <2>1. PICK j \in LiveIn(store) : k = store[j].key
    BY <1>4 DEF KeysIn
  <2>2. i = j /\ Matches(store[i], k)
    BY <1>1, <2>1, FindsEntry
  <2>3. /\ entryCount' = entryCount - 1
        /\ \/ Underloaded(entryCount - 1) /\ ChangeTable(rr, sizeLog2 - 1)
           \/ KeepTable(rr, RemovedNow({i}))
    BY <2>2 DEF DHRemove
  <2>4. {i} \in SUBSET LiveIn(store) /\ Cardinality({i}) = 1 /\ {store[l].key : l \in {i}} = {k}
    BY <2>1, <2>2, FS_Singleton
  <2> HIDE DEF i
  <2>5. /\ TableState(rr, sizeLog2, entryCount - 1, RemovedNow({i}))
        /\ KeysIn(rr) = KeysIn(store) \ {k}
        /\ Cardinality(LiveIn(rr)) = entryCount - 1 /\ entryCount - 1 \in Nat
    BY <2>4, AfterRemoval
  <2> HIDE DEF rr
  <2>6. CASE Underloaded(entryCount - 1) /\ ChangeTable(rr, sizeLog2 - 1)
    <3> DEFINE log2 == sizeLog2 - 1
    <3>1. /\ sizeLog2 > MinLog2 /\ entryCount - 1 <= (64 * Size(sizeLog2)) \div 256
          /\ log2 < LimitLog2 /\ sizeLog2' = log2 /\ store' = Moved(rr, log2) /\ removedCount' = 0
      BY <2>6 DEF Underloaded, ChangeTable, MIN_LOAD
    <3>2. log2 \in Nat /\ MinLog2 <= log2 /\ log2 + 1 = sizeLog2
      BY <1>1, <3>1
    <3>3. Size(sizeLog2) = 2 * Size(log2) /\ Size(log2) \in Nat /\ 1 <= Size(log2)
      BY <3>2, SizeOfSubsets, SizePositive
    <3> HIDE DEF log2
    <3>4. Cardinality(LiveIn(rr)) < Size(log2)
      BY <1>1, <2>5, <3>1, <3>3
    <3>5. Sound(rr, sizeLog2)
      BY <2>5 DEF TableState
    <3>6. /\ TableState(store', log2, entryCount - 1, 0)
          /\ KeysIn(store') = KeysIn(rr)
      BY <1>1, <2>5, <3>1, <3>2, <3>4, <3>5, ChangeTableState
    <3> QED BY <1>2, <2>3, <2>5, <3>1, <3>6 DEF Leaves, DHInv
  <2>7. CASE KeepTable(rr, RemovedNow({i}))
    BY <1>2, <2>3, <2>5, <2>7 DEF Leaves, DHInv, KeepTable
  <2> QED BY <2>3, <2>6, <2>7
<1> QED BY <1>3, <1>4

\* The size an enumeration shrinks the table to leaves a slot free.
LEMMA ShrunkRoom ==
  ASSUME NEW count \in Nat, NEW log2 \in Nat, log2 < LimitLog2, count < Size(log2)
  PROVE  /\ ShrunkLog2(count) \in Nat /\ MinLog2 <= ShrunkLog2(count)
         /\ count < Size(ShrunkLog2(count))
<1> DEFINE least == Size(MinLog2)
           room == count + count \div 2
           n == Max({room, least})
           T == {l \in 0..Bits : Size(l) >= n}
           s == ShrunkLog2(count)
<1>1. MinLog2 \in Nat /\ LimitLog2 \in Nat /\ Bits \in Nat /\ 2 <= MinLog2 /\ MinLog2 < LimitLog2
      /\ LimitLog2 <= Bits
  BY DHashAssumption DEF DHashAssumption
<1>2. least \in Nat /\ 4 <= least
  BY <1>1, SizeOfFour
<1>3. room \in Nat /\ count <= room /\ (2 <= count => count < room)
  OBVIOUS
<1> HIDE DEF room, least
<1>4. n \in {room, least} /\ room <= n /\ least <= n
  BY <1>2, <1>3, MaxOfTwo
<1> HIDE DEF n
<1>5. n \in Nat
  BY <1>2, <1>3, <1>4
<1>6. Bits \in T
  <2>1. Size(Bits) \in Nat /\ Size(log2) \in Nat
    BY <1>1, SizePositive
  <2>2. Size(log2 + 1) = 2 * Size(log2)
    BY SizeOfSubsets
  <2>3. Size(log2 + 1) <= Size(Bits) /\ Size(MinLog2) <= Size(Bits)
    BY <1>1, SizeGrows
  <2>4. room <= Size(Bits)
    BY <2>1, <2>2, <2>3 DEF room
  <2>5. n <= Size(Bits)
    BY <1>4, <2>3, <2>4 DEF least
  <2> QED BY <1>1, <1>5, <2>1, <2>5
<1>7. T \in SUBSET Nat
  BY <1>1
<1>8. s = Min(T)
  BY DEF ShrunkLog2, CeilingLog2, n, room, least
<1>9. s \in T
  BY <1>6, <1>7, <1>8, MinIsLeast
<1>10. s \in Nat /\ Size(s) >= n /\ Size(s) \in Nat
  BY <1>1, <1>9, SizePositive
<1> HIDE DEF s, T
<1>11. count < Size(s)
  BY <1>2, <1>3, <1>4, <1>5, <1>10
<1>12. MinLog2 <= s
  <2> SUFFICES ASSUME s < MinLog2 PROVE FALSE
    BY <1>1, <1>10
  <2>1. Size(s + 1) = 2 * Size(s)
    BY <1>10, SizeOfSubsets
  <2>2. Size(s + 1) <= least
    BY <1>1, <1>10, SizeGrows DEF least
  <2> QED BY <1>2, <1>4, <1>5, <1>10, <2>1, <2>2
<1> QED BY <1>10, <1>11, <1>12 DEF s

LEMMA EnumerateLeaves ==
  ASSUME DHInv, NEW R \in SUBSET DHKeys, DHEnumerate(R)
  PROVE  /\ Leaves(KeysIn(store) \ R) /\ Says("enumerate", R, TRUE)
         /\ R \subseteq KeysIn(store)
<1> DEFINE gone == {i \in LiveIn(store) : store[i].key \in R}
           count == entryCount - Cardinality(gone)
           rr == RawRemoved(store, gone)
           log2 == ShrunkLog2(count)
<1>1. /\ sizeLog2 \in Nat /\ sizeLog2 <= Bits /\ sizeLog2 < LimitLog2 /\ Size(sizeLog2) \in Nat
      /\ entryCount \in Nat /\ removedCount \in Nat /\ entryCount + removedCount < Size(sizeLog2)
  BY StateFacts DEF DHInv, TableState
<1>2. /\ Says("enumerate", R, TRUE)
      /\ \A k \in R : \E i \in gone : store[i].key = k
      /\ entryCount' = count
      /\ ChangeTable(rr, log2) \/ KeepTable(rr, RemovedNow(gone))
  BY DEF DHEnumerate
<1>3. {store[i].key : i \in gone} = R
  BY <1>2
<1>4. R \subseteq KeysIn(store)
  BY <1>2 DEF KeysIn
<1>5. gone \in SUBSET LiveIn(store)
  OBVIOUS
<1> HIDE DEF gone
<1>6. /\ TableState(rr, sizeLog2, count, RemovedNow(gone))
      /\ KeysIn(rr) = KeysIn(store) \ R
      /\ Cardinality(LiveIn(rr)) = count /\ count \in Nat /\ count <= entryCount
  BY <1>3, <1>5, AfterRemoval
<1> HIDE DEF rr, count, log2
<1>7. CASE ChangeTable(rr, log2)
  <2>1. log2 < LimitLog2 /\ sizeLog2' = log2 /\ store' = Moved(rr, log2) /\ removedCount' = 0
    BY <1>7 DEF ChangeTable
  <2>2. count < Size(sizeLog2)
    BY <1>1, <1>6
  <2>3. log2 \in Nat /\ MinLog2 <= log2 /\ count < Size(log2)
    BY <1>1, <1>6, <2>2, ShrunkRoom DEF log2
  <2>4. Sound(rr, sizeLog2)
    BY <1>6 DEF TableState
  <2>5. TableState(store', log2, count, 0) /\ KeysIn(store') = KeysIn(rr)
    BY <1>1, <1>6, <2>1, <2>3, <2>4, ChangeTableState
  <2> QED BY <1>2, <1>4, <1>6, <2>1, <2>5 DEF Leaves, DHInv
<1>8. CASE KeepTable(rr, RemovedNow(gone))
  BY <1>2, <1>4, <1>6, <1>8 DEF Leaves, DHInv, KeepTable
<1> QED BY <1>2, <1>7, <1>8

LEMMA ReturnLeaves ==
  ASSUME DHInv, DHReturn
  PROVE  Leaves(KeysIn(store)) /\ dhAnswer # Idle /\ dhAnswer' = Idle
BY DEF DHReturn, Leaves, DHInv

----------------------------------------------------------------------------
LEMMA TableStarts == DHInit => DHInv /\ KeysIn(store) = {}
<1> SUFFICES ASSUME DHInit PROVE DHInv /\ KeysIn(store) = {}
  OBVIOUS
<1>1. MinLog2 \in Nat /\ MinLog2 < LimitLog2
  BY DHashAssumption DEF DHashAssumption
<1>2. /\ sizeLog2 = MinLog2 /\ store = EmptyStore(MinLog2) /\ entryCount = 0 /\ removedCount = 0
  BY DEF DHInit
<1>3. /\ Sound(store, sizeLog2) /\ LiveIn(store) = {} /\ RemovedIn(store) = {} /\ KeysIn(store) = {}
  BY <1>1, <1>2, EmptySound
<1>4. Cardinality({}) = 0 /\ 1 <= Size(MinLog2) /\ Size(MinLog2) \in Nat
  BY <1>1, FS_EmptySet, SizePositive
<1> QED BY <1>1, <1>2, <1>3, <1>4 DEF DHInv, TableState

LEMMA TableKept == DHInv /\ [DHNext]_dhVars => DHInv'
<1> SUFFICES ASSUME DHInv, [DHNext]_dhVars PROVE DHInv'
  OBVIOUS
<1>1. CASE UNCHANGED dhVars
  BY <1>1 DEF dhVars, DHInv
<1>2. CASE DHReturn
  BY <1>2, ReturnLeaves DEF Leaves
<1>3. CASE \E k \in DHKeys : DHAdd(k) \/ DHAddGrowing(k) \/ DHAddTight(k) \/ DHAddFails(k)
  BY <1>3, AddLeaves, AddGrowingLeaves, AddFailsLeaves DEF Leaves
<1>4. CASE \E k \in DHKeys : DHRemove(k)
  BY <1>4, RemoveLeaves DEF Leaves
<1>5. CASE \E R \in SUBSET DHKeys : DHEnumerate(R)
  BY <1>5, EnumerateLeaves DEF Leaves
<1> QED BY <1>1, <1>2, <1>3, <1>4, <1>5 DEF DHNext

(***************************************************************************)
(* The counts are those of the store, no key has two entries, every entry  *)
(* can be reached past slots that no removal frees, and a slot is free.    *)
(***************************************************************************)
THEOREM TableInvariant == DHSpec => []DHInv
<1>1. DHInit => DHInv
  BY TableStarts
<1> QED BY <1>1, TableKept, PTL DEF DHSpec

LEMMA InvExact == DHInv => TableExact
BY StateExact DEF DHInv, TableExact

\* What lookups find, now and after a step.
LEMMA FoundNow ==
  ASSUME DHInv
  PROVE  {k \in DHKeys : Finds(store, k, sizeLog2)} = KeysIn(store)
BY StateExact DEF DHInv

LEMMA FoundThen ==
  ASSUME DHInv'
  PROVE  {k \in DHKeys : Finds(store', k, sizeLog2')} = KeysIn(store')
BY StateExact DEF DHInv

LEMMA StepIsOfKeySet ==
  ASSUME DHInv, DHNext
  PROVE  KS!KeySetNext
<1>1. DHInv'
  BY TableKept
<1> DEFINE now == {k \in DHKeys : Finds(store, k, sizeLog2)}
           then == {k \in DHKeys : Finds(store', k, sizeLog2')}
<1>2. now = KeysIn(store) /\ then = KeysIn(store')
  BY <1>1, FoundNow, FoundThen
<1> HIDE DEF now, then
<1>3. CASE DHReturn
  <2>1. dhAnswer # Idle /\ dhAnswer' = Idle /\ then = now
    BY <1>2, <1>3, ReturnLeaves DEF Leaves
  <2>2. KS!Return
    BY <2>1 DEF KS!Return, KS!Idle, Idle, now, then
  <2> QED BY <2>2 DEF KS!KeySetNext
<1>4. ASSUME NEW k \in DHKeys, DHAdd(k) \/ DHAddGrowing(k) \/ DHAddTight(k) \/ DHAddFails(k)
      PROVE  KS!KeySetNext
  <2>1. \/ then = now \cup {k} /\ Says("add", {k}, TRUE)
        \/ then = now /\ Says("add", {k}, FALSE)
    BY <1>2, <1>4, AddLeaves, AddGrowingLeaves, AddFailsLeaves DEF Leaves
  <2>2. KS!Add(k)
    BY <2>1 DEF KS!Add, KS!Answers, KS!Idle, Idle, Says, now, then
  <2> QED BY <2>2 DEF KS!KeySetNext
<1>5. ASSUME NEW k \in DHKeys, DHRemove(k) PROVE KS!KeySetNext
  <2>1. then = now \ {k} /\ Says("remove", {k}, TRUE)
    BY <1>2, <1>5, RemoveLeaves DEF Leaves
  <2>2. KS!Remove(k)
    BY <2>1 DEF KS!Remove, KS!Answers, KS!Idle, Idle, Says, now, then
  <2> QED BY <2>2 DEF KS!KeySetNext
<1>6. ASSUME NEW R \in SUBSET DHKeys, DHEnumerate(R) PROVE KS!KeySetNext
  <2>1. then = now \ R /\ Says("enumerate", R, TRUE) /\ R \subseteq now
    BY <1>2, <1>6, EnumerateLeaves DEF Leaves
  <2>2. dhAnswer'.keys = R
    BY <2>1 DEF Says
  <2>3. KS!EnumerateRemoving
    BY <2>1, <2>2 DEF KS!EnumerateRemoving, KS!Answers, KS!Idle, Idle, Says, now, then
  <2> QED BY <2>3 DEF KS!KeySetNext
<1> QED BY <1>3, <1>4, <1>5, <1>6 DEF DHNext

(***************************************************************************)
(* Every call on the table is a step of the set of the keys that lookups   *)
(* find, for every set of keys, every hash function and every size up to   *)
(* the limit: each search ends, no removal, recycled sentinel, compression,*)
(* growth or refused memory hides a key or brings one back (jsdhash.c      *)
(* JS_DHashTableOperate, ChangeTable, JS_DHashTableEnumerate).             *)
(***************************************************************************)
THEOREM TableCorrect == DHSpec => DHashIsKeySet
<1>1. DHInit => KS!KeySetInit
  <2> SUFFICES ASSUME DHInit PROVE KS!KeySetInit
    OBVIOUS
  <2>1. {k \in DHKeys : Finds(store, k, sizeLog2)} = {}
    BY TableStarts, FoundNow
  <2>2. dhAnswer = Idle
    BY DEF DHInit
  <2> QED BY <2>1, <2>2 DEF KS!KeySetInit, KS!Idle, Idle
<1>2. DHInv /\ [DHNext]_dhVars => [TableExact' /\ (UNCHANGED dhVars \/ KS!KeySetNext)]_dhVars
  <2> SUFFICES ASSUME DHInv, [DHNext]_dhVars
               PROVE  [TableExact' /\ (UNCHANGED dhVars \/ KS!KeySetNext)]_dhVars
    OBVIOUS
  <2>1. DHInv'
    BY TableKept
  <2>2. TableExact'
    BY <2>1, StateExact DEF DHInv, TableExact
  <2>3. DHNext => KS!KeySetNext
    BY StepIsOfKeySet
  <2> QED BY <2>2, <2>3
<1> QED BY <1>1, <1>2, TableInvariant, PTL DEF DHSpec, DHashIsKeySet

----------------------------------------------------------------------------
(* Chained hash tables: numbers.                                           *)

LEMMA BucketsDouble ==
  ASSUME NEW n \in Nat
  PROVE  NBuckets(n) \in Nat /\ NBuckets(n + 1) = 2 * NBuckets(n)
BY SizeOfSubsets DEF Size, NBuckets

LEMMA BucketsPositive ==
  ASSUME NEW n \in Nat
  PROVE  NBuckets(n) \in Nat /\ 1 <= NBuckets(n)
BY SizePositive DEF Size, NBuckets

LEMMA Quotient ==
  ASSUME NEW h \in Nat, NEW d \in Nat, 1 <= d, NEW n \in Nat, h < n * d
  PROVE  h \div d \in 0..n - 1
<1> DEFINE q == h \div d
           r == h % d
<1>1. q \in Int /\ r \in Int /\ 0 <= r /\ r < d /\ h = q * d + r
  <2>1. q \in Int
    OBVIOUS
  <2>2. r \in 0..d - 1
    OBVIOUS
  <2>3. h = q * d + r
    OBVIOUS
  <2> QED BY <2>1, <2>2, <2>3
<1> HIDE DEF q, r
<1>2. ASSUME n <= q PROVE FALSE
  <2>1. n * d <= q * d
    BY <1>1, <1>2
  <2> DEFINE x == q * d
             y == n * d
  <2>2. x \in Int /\ y \in Int /\ y <= x /\ h = x + r /\ h < y
    BY <1>1, <2>1
  <2> HIDE DEF x, y
  <2> QED BY <1>1, <2>2
<1>3. ASSUME q <= -1 PROVE FALSE
  <2>1. q * d <= -1 * d
    BY <1>1, <1>3
  <2> DEFINE x == q * d
  <2>2. x \in Int /\ x <= -1 * d /\ h = x + r
    BY <1>1, <2>1
  <2> HIDE DEF x
  <2> QED BY <1>1, <2>2
<1>4. 0 <= q /\ q < n
  BY <1>1, <1>2, <1>3
<1> QED BY <1>1, <1>4 DEF q

LEMMA PowersAdd ==
  ASSUME NEW a \in Nat, NEW b \in Nat
  PROVE  NBuckets(a + b) = NBuckets(a) * NBuckets(b)
<1> DEFINE Bad == {d \in Nat : NBuckets(d + b) # NBuckets(d) * NBuckets(b)}
<1>1. Bad = {}
  <2> SUFFICES ASSUME Bad # {} PROVE FALSE
    OBVIOUS
  <2>1. Bad \in SUBSET Nat
    OBVIOUS
  <2>2. PICK d \in Bad : \A x \in Bad : d <= x
    BY <2>1, SmallestExists
  <2>3. d \in Nat /\ NBuckets(d + b) # NBuckets(d) * NBuckets(b)
    OBVIOUS
  <2>4. d # 0
    <3>1. NBuckets(0) = 1 /\ NBuckets(b) \in Nat /\ 0 + b = b
      BY BucketsDouble DEF NBuckets
    <3> QED BY <2>3, <3>1
  <2>5. d - 1 \in Nat /\ d - 1 \notin Bad
    BY <2>2, <2>3, <2>4
  <2>6. NBuckets((d - 1) + b) = NBuckets(d - 1) * NBuckets(b)
    BY <2>5
  <2>7. /\ NBuckets((d - 1) + 1) = 2 * NBuckets(d - 1) /\ NBuckets(d - 1) \in Nat
        /\ NBuckets(((d - 1) + b) + 1) = 2 * NBuckets((d - 1) + b) /\ NBuckets(b) \in Nat
    BY <2>5, BucketsDouble
  <2>8. (d - 1) + 1 = d /\ ((d - 1) + b) + 1 = d + b
    BY <2>3
  <2> DEFINE x == NBuckets(d - 1)
             y == NBuckets(b)
  <2>9. NBuckets(d + b) = 2 * (x * y) /\ NBuckets(d) = 2 * x /\ x \in Nat /\ y \in Nat
    BY <2>6, <2>7, <2>8
  <2> HIDE DEF x
  <2>10. 2 * (x * y) = (2 * x) * y
    BY <2>9
  <2> QED BY <2>3, <2>9, <2>10
<1> QED BY <1>1

\* A key's hash code, cut down to its first bits, names a bucket.
LEMMA BucketIs ==
  ASSUME NEW k \in Keys, NEW log2 \in 0..HashBits
  PROVE  BucketOf(k, log2) \in 0..NBuckets(log2) - 1
<1> DEFINE h == HashCode[k]
           d == NBuckets(HashBits - log2)
           n == NBuckets(log2)
           q == h \div d
<1>1. HashBits \in Nat /\ log2 \in Nat /\ HashBits - log2 \in Nat /\ log2 + (HashBits - log2) = HashBits
  BY HashChainAssumption DEF HashChainAssumption
<1>2. d \in Nat /\ 1 <= d /\ n \in Nat /\ 1 <= n /\ NBuckets(HashBits) = n * d
  BY <1>1, BucketsPositive, PowersAdd
<1>3. h \in Nat /\ h < n * d
  <2>1. h \in 0..NBuckets(HashBits) - 1 /\ NBuckets(HashBits) \in Nat
    BY <1>1, BucketsPositive, HashChainAssumption DEF HashChainAssumption, Keys, NBuckets
  <2> QED BY <1>2, <2>1
<1> HIDE DEF h, d, n
<1>5. q \in 0..n - 1
  BY <1>2, <1>3, Quotient
<1>6. BucketOf(k, log2) = q
  BY DEF BucketOf, h, d, q
<1> QED BY <1>5, <1>6 DEF n

----------------------------------------------------------------------------
(* Recursion over numbers.                                                 *)

\* f is base, then what g makes of it, step after step.
IsIterated(f, base, g, n) ==
    \A i \in 0..n : f[i] = IF i = 0 THEN base ELSE g[<<f[i - 1], i>>]

LEMMA IteratedExists ==
  ASSUME NEW n \in Nat, NEW T, NEW base \in T, NEW g \in [T \X Nat -> T]
  PROVE  \E f \in [0..n -> T] : IsIterated(f, base, g, n)
<1> DEFINE Good(m) == \E f \in [0..m -> T] : IsIterated(f, base, g, m)
           Bad == {m \in Nat : ~Good(m)}
<1>1. Bad = {}
  <2> SUFFICES ASSUME Bad # {} PROVE FALSE
    OBVIOUS
  <2>1. Bad \in SUBSET Nat
    OBVIOUS
  <2>2. PICK m \in Bad : \A x \in Bad : m <= x
    BY <2>1, SmallestExists
  <2>3. m \in Nat /\ ~Good(m)
    OBVIOUS
  <2>4. m # 0
    <3> DEFINE f == [i \in 0..0 |-> base]
    <3>1. f \in [0..0 -> T] /\ IsIterated(f, base, g, 0)
      BY DEF IsIterated
    <3> QED BY <2>3, <3>1
  <2>5. m - 1 \in Nat /\ m - 1 \notin Bad
    BY <2>2, <2>3, <2>4
  <2>6. PICK f \in [0..m - 1 -> T] : IsIterated(f, base, g, m - 1)
    BY <2>5
  <2> HIDE DEF Bad
  <2> DEFINE v == g[<<f[m - 1], m>>]
             h == [i \in 0..m |-> IF i = m THEN v ELSE f[i]]
  <2>7. v \in T
    <3>1. f[m - 1] \in T
      BY <2>5
    <3> QED BY <2>3, <3>1
  <2>8. h \in [0..m -> T]
    BY <2>3, <2>7
  <2>9. IsIterated(h, base, g, m)
    <3> SUFFICES ASSUME NEW i \in 0..m PROVE h[i] = IF i = 0 THEN base ELSE g[<<h[i - 1], i>>]
      BY DEF IsIterated
    <3>1. CASE i = m
      <4>1. h[i] = v /\ h[m - 1] = f[m - 1]
        BY <2>3, <2>4, <3>1
      <4> QED BY <2>4, <3>1, <4>1
    <3>2. CASE i # m
      <4>1. i \in 0..m - 1 /\ h[i] = f[i]
        BY <2>3, <3>2
      <4>2. i # 0 => h[i - 1] = f[i - 1]
        BY <2>3, <4>1
      <4>3. f[i] = IF i = 0 THEN base ELSE g[<<f[i - 1], i>>]
        BY <2>6, <4>1 DEF IsIterated
      <4> HIDE DEF h
      <4> QED BY <4>1, <4>2, <4>3
    <3> QED BY <3>1, <3>2
  <2> HIDE DEF h
  <2> QED BY <2>3, <2>8, <2>9
<1> QED BY <1>1

----------------------------------------------------------------------------
(* Sequences without repetition.                                           *)

\* No element comes twice.
NoTwice(s) == \A i, j \in 1..Len(s) : s[i] = s[j] => i = j

LEMMA Members ==
  ASSUME NEW K, NEW s \in Seq(K)
  PROVE  /\ ToSet(s) = {s[i] : i \in 1..Len(s)} /\ ToSet(s) \in SUBSET K /\ Len(s) \in Nat
         /\ \A i \in 1..Len(s) : s[i] \in ToSet(s)
         /\ \A x \in ToSet(s) : \E i \in 1..Len(s) : s[i] = x
<1>1. Len(s) \in Nat /\ DOMAIN s = 1..Len(s) /\ \A i \in 1..Len(s) : s[i] \in K
  OBVIOUS
<1> QED BY <1>1 DEF ToSet

LEMMA Appended ==
  ASSUME NEW K, NEW s \in Seq(K), NEW x \in K
  PROVE  /\ Append(s, x) \in Seq(K) /\ ToSet(Append(s, x)) = ToSet(s) \cup {x}
         /\ NoTwice(s) /\ x \notin ToSet(s) => NoTwice(Append(s, x))
<1> DEFINE t == Append(s, x)
           n == Len(s)
<1>1. /\ t \in Seq(K) /\ Len(t) = n + 1 /\ n \in Nat
      /\ t[n + 1] = x /\ \A i \in 1..n : t[i] = s[i]
  OBVIOUS
<1>2. \A i \in 1..n : s[i] \in ToSet(s)
  BY Members
<1>3. \A y \in ToSet(s) : \E i \in 1..n : s[i] = y
  BY Members
<1>4. \A y \in ToSet(t) : \E i \in 1..n + 1 : t[i] = y
  <2> HIDE DEF t
  <2>1. \A y \in ToSet(t) : \E i \in 1..Len(t) : t[i] = y
    BY <1>1, Members
  <2> QED BY <1>1, <2>1
<1>5. \A i \in 1..n + 1 : t[i] \in ToSet(t)
  BY <1>1, Members
<1> HIDE DEF t, n
<1>6. ASSUME NEW y \in ToSet(t) PROVE y \in ToSet(s) \cup {x}
  <2>1. PICK i \in 1..n + 1 : t[i] = y
    BY <1>4
  <2>2. CASE i = n + 1
    BY <1>1, <2>1, <2>2
  <2>3. CASE i # n + 1
    <3>1. i \in 1..n
      BY <1>1, <2>3
    <3> QED BY <1>1, <1>2, <2>1, <3>1
  <2> QED BY <2>2, <2>3
<1>7. ASSUME NEW y \in ToSet(s) \cup {x} PROVE y \in ToSet(t)
  <2>1. CASE y = x
    <3>1. n + 1 \in 1..n + 1
      BY <1>1
    <3> QED BY <1>1, <1>5, <2>1, <3>1
  <2>2. CASE y \in ToSet(s)
    <3>1. PICK i \in 1..n : s[i] = y
      BY <1>3, <2>2
    <3>2. i \in 1..n + 1
      BY <1>1
    <3> QED BY <1>1, <1>5, <3>1, <3>2
  <2> QED BY <2>1, <2>2
<1>8. ASSUME NoTwice(s), x \notin ToSet(s) PROVE NoTwice(t)
  <2> SUFFICES ASSUME NEW i \in 1..n + 1, NEW j \in 1..n + 1, t[i] = t[j] PROVE i = j
    BY <1>1 DEF NoTwice
  <2>1. CASE i = n + 1 /\ j # n + 1
    <3>1. j \in 1..n
      BY <1>1, <2>1
    <3> QED BY <1>1, <1>2, <1>8, <2>1, <3>1
  <2>2. CASE j = n + 1 /\ i # n + 1
    <3>1. i \in 1..n
      BY <1>1, <2>2
    <3> QED BY <1>1, <1>2, <1>8, <2>2, <3>1
  <2>3. CASE i # n + 1 /\ j # n + 1
    <3>1. i \in 1..n /\ j \in 1..n
      BY <1>1, <2>3
    <3>2. s[i] = s[j]
      BY <1>1, <3>1
    <3> QED BY <1>8, <3>1, <3>2 DEF NoTwice, n
  <2> QED BY <2>1, <2>2, <2>3
<1> QED BY <1>1, <1>6, <1>7, <1>8 DEF t

LEMMA Joined ==
  ASSUME NEW K, NEW s \in Seq(K), NEW t \in Seq(K)
  PROVE  /\ s \o t \in Seq(K) /\ ToSet(s \o t) = ToSet(s) \cup ToSet(t)
         /\ NoTwice(s) /\ NoTwice(t) /\ ToSet(s) \cap ToSet(t) = {} => NoTwice(s \o t)
<1> DEFINE u == s \o t
           n == Len(s)
           m == Len(t)
<1>1. /\ u \in Seq(K) /\ Len(u) = n + m /\ n \in Nat /\ m \in Nat
      /\ \A i \in 1..n + m : u[i] = IF i <= n THEN s[i] ELSE t[i - n]
  OBVIOUS
<1>2. /\ \A i \in 1..n : s[i] \in ToSet(s)
      /\ \A y \in ToSet(s) : \E i \in 1..n : s[i] = y
  BY Members
<1>3. /\ \A i \in 1..m : t[i] \in ToSet(t)
      /\ \A y \in ToSet(t) : \E i \in 1..m : t[i] = y
  BY Members
<1>4a. \A y \in ToSet(u) : \E i \in 1..n + m : u[i] = y
  <2>1. \A y \in ToSet(u) : \E i \in 1..Len(u) : u[i] = y
    BY <1>1, Members
  <2> HIDE DEF u
  <2> QED BY <1>1, <2>1
<1>4b. \A i \in 1..n + m : u[i] \in ToSet(u)
  BY <1>1, Members
<1>4. /\ \A i \in 1..n + m : u[i] \in ToSet(u)
      /\ \A y \in ToSet(u) : \E i \in 1..n + m : u[i] = y
  BY <1>4a, <1>4b
<1> HIDE DEF u, n, m
<1>5. \A i \in 1..n : i \in 1..n + m /\ u[i] = s[i]
  <2> TAKE i \in 1..n
  <2>1. i \in 1..n + m /\ i <= n
    BY <1>1
  <2> QED BY <1>1, <2>1
<1>6. \A i \in 1..m : n + i \in 1..n + m /\ u[n + i] = t[i]
  <2> TAKE i \in 1..m
  <2>1. n + i \in 1..n + m /\ ~(n + i <= n) /\ (n + i) - n = i
    BY <1>1
  <2> QED BY <1>1, <2>1
<1>7. \A i \in 1..n + m : i \in 1..n \/ (i - n \in 1..m /\ n + (i - n) = i)
  BY <1>1
<1>8. ASSUME NEW y \in ToSet(u) PROVE y \in ToSet(s) \cup ToSet(t)
  <2>1. PICK i \in 1..n + m : u[i] = y
    BY <1>4
  <2>2. CASE i \in 1..n
    BY <1>2, <1>5, <2>1, <2>2
  <2>3. CASE i - n \in 1..m /\ n + (i - n) = i
    <3>1. u[n + (i - n)] = t[i - n] /\ t[i - n] \in ToSet(t)
      BY <1>3, <1>6, <2>3
    <3> QED BY <2>1, <2>3, <3>1
  <2> QED BY <1>7, <2>2, <2>3
<1>9. ToSet(s) \cup ToSet(t) \subseteq ToSet(u)
  BY <1>2, <1>3, <1>4, <1>5, <1>6
<1>10. ASSUME NoTwice(s), NoTwice(t), ToSet(s) \cap ToSet(t) = {} PROVE NoTwice(u)
  <2> SUFFICES ASSUME NEW i \in 1..n + m, NEW j \in 1..n + m, u[i] = u[j] PROVE i = j
    BY <1>1 DEF NoTwice
  <2>1. ASSUME NEW x \in 1..n, NEW y \in 1..n, u[x] = u[y] PROVE x = y
    BY <1>5, <1>10, <2>1 DEF NoTwice, n
  <2>2. ASSUME NEW x \in 1..m, NEW y \in 1..m, u[n + x] = u[n + y] PROVE x = y
    BY <1>6, <1>10, <2>2 DEF NoTwice, m
  <2>3. ASSUME NEW x \in 1..n, NEW y \in 1..m PROVE u[x] # u[n + y]
    BY <1>2, <1>3, <1>5, <1>6, <1>10
  <2>4. CASE i \in 1..n /\ j \in 1..n
    BY <2>1, <2>4
  <2>5. CASE i \in 1..n /\ ~(j \in 1..n)
    BY <1>7, <2>3, <2>5
  <2>6. CASE ~(i \in 1..n) /\ j \in 1..n
    BY <1>7, <2>3, <2>6
  <2>7. CASE ~(i \in 1..n) /\ ~(j \in 1..n)
    <3>1. i - n \in 1..m /\ j - n \in 1..m /\ n + (i - n) = i /\ n + (j - n) = j
      BY <1>7, <2>7
    <3>2. i - n = j - n
      BY <2>2, <3>1
    <3> QED BY <3>1, <3>2
  <2> QED BY <2>4, <2>5, <2>6, <2>7
<1> QED BY <1>1, <1>8, <1>9, <1>10 DEF u

LEMMA CountOf ==
  ASSUME NEW K, NEW s \in Seq(K), NoTwice(s)
  PROVE  IsFiniteSet(ToSet(s)) /\ Len(s) = Cardinality(ToSet(s))
<1>1. Len(s) \in Nat
  OBVIOUS
<1>2. IsFiniteSet(1..Len(s)) /\ Cardinality(1..Len(s)) = Len(s)
  <2>1. 1 \in Int /\ Len(s) \in Int /\ (1 > Len(s) => Len(s) = 0) /\ Len(s) - 1 + 1 = Len(s)
    BY <1>1
  <2> QED BY <2>1, FS_Interval
<1> DEFINE f == [i \in 1..Len(s) |-> s[i]]
<1>3. \A i \in 1..Len(s) : s[i] \in ToSet(s)
  BY Members
<1>4. \A x \in ToSet(s) : \E i \in 1..Len(s) : s[i] = x
  BY Members
<1>5. /\ f \in [1..Len(s) -> ToSet(s)]
      /\ \A i, j \in 1..Len(s) : f[i] = f[j] => i = j
      /\ \A x \in ToSet(s) : \E i \in 1..Len(s) : f[i] = x
  BY <1>3, <1>4 DEF NoTwice
<1> HIDE DEF f
<1>6. f \in Bijection(1..Len(s), ToSet(s))
  BY <1>5, Fun_IsBij
<1> QED BY <1>2, <1>6, FS_Bijection DEF ExistsBijection

----------------------------------------------------------------------------
(* Recursive functions of the model, as iterations.                        *)

\* What a chain keeps of its first keys, one step of it.
OnlyStep(c, S) ==
    [p \in Seq(Keys) \X Nat |->
        IF p[2] \in 1..Len(c) /\ c[p[2]] \in S THEN Append(p[1], c[p[2]]) ELSE p[1]]

\* What Only computes: what it keeps of the first i keys.
IsOnly(f, c, S) ==
    f = [i \in 0..Len(c) |->
            IF i = 0 THEN <<>>
            ELSE IF c[i] \in S THEN Append(f[i - 1], c[i]) ELSE f[i - 1]]

LEMMA OnlyExists ==
  ASSUME NEW c \in Seq(Keys), NEW S
  PROVE  \E f : IsOnly(f, c, S)
<1> DEFINE g == OnlyStep(c, S)
           n == Len(c)
<1>1. n \in Nat /\ <<>> \in Seq(Keys) /\ \A i \in 1..n : c[i] \in Keys
  OBVIOUS
<1>2. g \in [Seq(Keys) \X Nat -> Seq(Keys)]
  <2> SUFFICES ASSUME NEW p \in Seq(Keys) \X Nat
               PROVE (IF p[2] \in 1..Len(c) /\ c[p[2]] \in S
                      THEN Append(p[1], c[p[2]]) ELSE p[1]) \in Seq(Keys)
    BY DEF OnlyStep
  <2>1. p[1] \in Seq(Keys)
    OBVIOUS
  <2> QED BY <1>1, <2>1
<1> HIDE DEF n
<1>3. PICK f \in [0..n -> Seq(Keys)] : IsIterated(f, <<>>, g, n)
  <2> HIDE DEF g
  <2> QED BY <1>1, <1>2, IteratedExists
<1>4. ASSUME NEW i \in 0..n
      PROVE f[i] = IF i = 0 THEN <<>>
                   ELSE IF c[i] \in S THEN Append(f[i - 1], c[i]) ELSE f[i - 1]
  <2>1. f[i] = IF i = 0 THEN <<>> ELSE g[<<f[i - 1], i>>]
    BY <1>3 DEF IsIterated
  <2>2. CASE i = 0
    BY <2>1, <2>2
  <2>3. CASE i # 0
    <3>1. i - 1 \in 0..n /\ i \in 1..n /\ i \in Nat
      BY <1>1, <2>3
    <3>2. f[i - 1] \in Seq(Keys)
      BY <3>1
    <3>3. g[<<f[i - 1], i>>] = IF i \in 1..Len(c) /\ c[i] \in S THEN Append(f[i - 1], c[i]) ELSE f[i - 1]
      BY <3>1, <3>2 DEF OnlyStep
    <3> QED BY <2>1, <2>3, <3>1, <3>3 DEF n
  <2> QED BY <2>2, <2>3
<1>5. f = [i \in 0..n |-> f[i]]
  OBVIOUS
<1>6. f = [i \in 0..n |-> IF i = 0 THEN <<>>
                          ELSE IF c[i] \in S THEN Append(f[i - 1], c[i]) ELSE f[i - 1]]
  BY <1>4, <1>5
<1> QED BY <1>6 DEF IsOnly, n

\* The keys of a chain that are in S: no other, none twice, and all in order if all are in S.
LEMMA OnlyIs ==
  ASSUME NEW c \in Seq(Keys), NEW S
  PROVE  /\ Only(c, S) \in Seq(Keys) /\ ToSet(Only(c, S)) = ToSet(c) \cap S
         /\ NoTwice(c) => NoTwice(Only(c, S))
         /\ ToSet(c) \subseteq S => Only(c, S) = c
<1> DEFINE n == Len(c)
           f == CHOOSE h : IsOnly(h, c, S)
           First(i) == {c[j] : j \in 1..i}
           Good(i) == /\ f[i] \in Seq(Keys)
                      /\ ToSet(f[i]) = First(i) \cap S
                      /\ NoTwice(c) => NoTwice(f[i])
                      /\ ToSet(c) \subseteq S => Len(f[i]) = i /\ \A j \in 1..i : f[i][j] = c[j]
           Bad == {i \in 0..n : ~Good(i)}
<1>1. IsOnly(f, c, S)
  BY OnlyExists
<1>2. Only(c, S) = f[n]
  BY DEF Only, IsOnly
<1> HIDE DEF f
<1>3. n \in Nat /\ \A i \in 1..n : c[i] \in Keys /\ c[i] \in ToSet(c)
  BY Members
<1>4. First(n) = ToSet(c)
  BY Members
<1>5. \A i \in 0..n : f[i] = IF i = 0 THEN <<>>
                             ELSE IF c[i] \in S THEN Append(f[i - 1], c[i]) ELSE f[i - 1]
  BY <1>1 DEF IsOnly
<1> HIDE DEF n
<1>6. Bad = {}
  <2> SUFFICES ASSUME Bad # {} PROVE FALSE
    OBVIOUS
  <2>1. Bad \in SUBSET Nat
    BY <1>3
  <2>2. PICK i \in Bad : \A x \in Bad : i <= x
    BY <2>1, SmallestExists
  <2>3. i \in 0..n /\ i \in Nat /\ ~Good(i)
    BY <1>3
  <2>4. i # 0
    <3>1. f[0] = <<>> /\ 0 \in 0..n
      BY <1>3, <1>5
    <3>2. First(0) = {} /\ Len(<<>>) = 0
      OBVIOUS
    <3>3. <<>> \in Seq(Keys) /\ ToSet(<<>>) = {} /\ NoTwice(<<>>)
      BY DEF ToSet, NoTwice
    <3>4. Good(0)
      <4> HIDE DEF First
      <4> QED BY <3>1, <3>2, <3>3
    <3> HIDE DEF Good
    <3> QED BY <2>3, <3>4
  <2>5. i - 1 \in 0..n /\ i \in 1..n /\ i - 1 \notin Bad
    <3>1. i - 1 \in 0..n /\ i \in 1..n /\ ~(i <= i - 1)
      BY <1>3, <2>3, <2>4
    <3> HIDE DEF Bad
    <3> QED BY <2>2, <3>1
  <2>6. Good(i - 1)
    BY <2>5
  <2>7. First(i) = First(i - 1) \cup {c[i]}
    <3>1. \A j \in 1..i : j \in 1..i - 1 \/ j = i
      BY <2>5
    <3>2. \A j \in 1..i - 1 : j \in 1..i
      BY <2>5
    <3>3. i \in 1..i
      BY <2>5
    <3> QED BY <3>1, <3>2, <3>3
  <2> DEFINE p == f[i - 1]
             q == f[i]
  <2>8. q = IF c[i] \in S THEN Append(p, c[i]) ELSE p
    BY <1>5, <2>3, <2>4
  <2>9. /\ p \in Seq(Keys) /\ ToSet(p) = First(i - 1) \cap S
        /\ NoTwice(c) => NoTwice(p)
        /\ ToSet(c) \subseteq S => Len(p) = i - 1 /\ \A j \in 1..i - 1 : p[j] = c[j]
    BY <2>6
  <2>10. NoTwice(c) => c[i] \notin First(i - 1)
    <3> SUFFICES ASSUME NoTwice(c), NEW j \in 1..i - 1, c[j] = c[i] PROVE FALSE
      OBVIOUS
    <3>1. j \in 1..n /\ j # i /\ i \in 1..n
      BY <1>3, <2>5
    <3> QED BY <3>1 DEF NoTwice, n
  <2> HIDE DEF First, p, q, Bad
  <2>11. Good(i)
    <3>1. q \in Seq(Keys) /\ ToSet(q) = First(i) \cap S /\ (NoTwice(c) => NoTwice(q))
      <4>1. CASE c[i] \in S
        <5>1. c[i] \in Keys /\ q = Append(p, c[i])
          BY <1>3, <2>5, <2>8, <4>1
        <5>2. q \in Seq(Keys) /\ ToSet(q) = ToSet(p) \cup {c[i]}
          BY <2>9, <5>1, Appended
        <5>3. NoTwice(c) => NoTwice(q)
          BY <2>9, <2>10, <5>1, Appended
        <5> QED BY <2>7, <2>9, <4>1, <5>2, <5>3
      <4>2. CASE c[i] \notin S
        BY <2>7, <2>8, <2>9, <4>2
      <4> QED BY <4>1, <4>2
    <3>2. ASSUME ToSet(c) \subseteq S PROVE Len(q) = i /\ \A j \in 1..i : q[j] = c[j]
      <4>1. c[i] \in Keys /\ q = Append(p, c[i])
        BY <1>3, <2>5, <2>8, <3>2
      <4>2. Len(q) = Len(p) + 1 /\ q[Len(p) + 1] = c[i] /\ \A j \in 1..Len(p) : q[j] = p[j]
        BY <2>9, <4>1
      <4>3. Len(p) = i - 1 /\ \A j \in 1..i - 1 : p[j] = c[j]
        BY <2>9, <3>2
      <4>4. \A j \in 1..i : j = i \/ j \in 1..i - 1
        BY <2>5
      <4>5. (i - 1) + 1 = i
        BY <2>5
      <4> QED BY <4>2, <4>3, <4>4, <4>5
    <3> QED BY <3>1, <3>2 DEF p, q
  <2> HIDE DEF Good
  <2> QED BY <2>3, <2>11
<1>7. Good(n)
  <2>1. n \in 0..n
    BY <1>3
  <2> HIDE DEF Good
  <2> QED BY <1>6, <2>1
<1>8. ASSUME ToSet(c) \subseteq S PROVE f[n] = c
  <2>1. f[n] \in Seq(Keys) /\ Len(f[n]) = n /\ \A j \in 1..n : f[n][j] = c[j]
    BY <1>7, <1>8
  <2> QED BY <2>1 DEF n
<1> QED BY <1>2, <1>4, <1>7, <1>8

\* What FlattenSeq computes: the first i sequences joined.
IsFlat(f, s) == f = [i \in 1..Len(s) |-> IF i = 1 THEN s[i] ELSE f[i - 1] \o s[i]]

FlatStep(s) ==
    [p \in Seq(Keys) \X Nat |-> IF p[2] + 1 \in 1..Len(s) THEN p[1] \o s[p[2] + 1] ELSE p[1]]

LEMMA FlatExists ==
  ASSUME NEW s \in Seq(Seq(Keys)), Len(s) # 0
  PROVE  \E f : IsFlat(f, s)
<1> DEFINE g == FlatStep(s)
           n == Len(s)
           base == s[1]
<1>1. n \in Nat /\ 1 <= n /\ n - 1 \in Nat /\ \A i \in 1..n : s[i] \in Seq(Keys)
  OBVIOUS
<1>2. base \in Seq(Keys)
  BY <1>1
<1>3. g \in [Seq(Keys) \X Nat -> Seq(Keys)]
  <2> SUFFICES ASSUME NEW p \in Seq(Keys) \X Nat
               PROVE (IF p[2] + 1 \in 1..Len(s) THEN p[1] \o s[p[2] + 1] ELSE p[1]) \in Seq(Keys)
    BY DEF FlatStep
  <2>1. p[1] \in Seq(Keys)
    OBVIOUS
  <2>2. p[2] + 1 \in 1..Len(s) => s[p[2] + 1] \in Seq(Keys)
    BY <1>1
  <2> QED BY <2>1, <2>2
<1> HIDE DEF n, base
<1>4. PICK h \in [0..n - 1 -> Seq(Keys)] : IsIterated(h, base, g, n - 1)
  <2> HIDE DEF g
  <2> QED BY <1>1, <1>2, <1>3, IteratedExists
<1> DEFINE f == [i \in 1..n |-> h[i - 1]]
<1>5. ASSUME NEW i \in 1..n
      PROVE f[i] = IF i = 1 THEN s[i] ELSE f[i - 1] \o s[i]
  <2>1. i - 1 \in 0..n - 1 /\ f[i] = h[i - 1]
    BY <1>1
  <2>2. h[i - 1] = IF i - 1 = 0 THEN base ELSE g[<<h[(i - 1) - 1], i - 1>>]
    BY <1>4, <2>1 DEF IsIterated
  <2>3. CASE i = 1
    BY <2>1, <2>2, <2>3 DEF base
  <2>4. CASE i # 1
    <3>1. /\ i - 1 \in 1..n /\ i - 1 # 0 /\ i - 1 \in Nat /\ (i - 1) - 1 \in 0..n - 1
          /\ (i - 1) + 1 = i /\ f[i - 1] = h[(i - 1) - 1]
      BY <1>1, <2>4
    <3>2. h[(i - 1) - 1] \in Seq(Keys)
      BY <3>1
    <3>3. g[<<h[(i - 1) - 1], i - 1>>]
            = IF (i - 1) + 1 \in 1..Len(s) THEN h[(i - 1) - 1] \o s[(i - 1) + 1] ELSE h[(i - 1) - 1]
      BY <3>1, <3>2 DEF FlatStep
    <3> HIDE DEF f, g
    <3>4. g[<<h[(i - 1) - 1], i - 1>>] = h[(i - 1) - 1] \o s[i]
      BY <3>1, <3>3 DEF n
    <3> QED BY <2>1, <2>2, <2>4, <3>1, <3>4
  <2> QED BY <2>3, <2>4
<1>6. f = [i \in 1..n |-> f[i]]
  OBVIOUS
<1> HIDE DEF f
<1>7. f = [i \in 1..n |-> IF i = 1 THEN s[i] ELSE f[i - 1] \o s[i]]
  BY <1>5, <1>6
<1> QED BY <1>7 DEF IsFlat, n

\* Sequences without repetition that share no element.
Separate(s) ==
    /\ \A i \in 1..Len(s) : NoTwice(s[i])
    /\ \A i, j \in 1..Len(s) : i # j => ToSet(s[i]) \cap ToSet(s[j]) = {}

\* What the chains hold, one after the other.
LEMMA FlattenIs ==
  ASSUME NEW s \in Seq(Seq(Keys)), Len(s) # 0
  PROVE  /\ FlattenSeq(s) \in Seq(Keys)
         /\ \A k : k \in ToSet(FlattenSeq(s)) <=> \E i \in 1..Len(s) : k \in ToSet(s[i])
         /\ Separate(s) => NoTwice(FlattenSeq(s))
<1> DEFINE n == Len(s)
           f == CHOOSE h : IsFlat(h, s)
           Good(i) == /\ f[i] \in Seq(Keys)
                      /\ \A k : k \in ToSet(f[i]) <=> \E j \in 1..i : k \in ToSet(s[j])
                      /\ Separate(s) => NoTwice(f[i])
           Bad == {i \in 1..n : ~Good(i)}
<1>1. IsFlat(f, s)
  BY FlatExists
<1>2. FlattenSeq(s) = f[n]
  BY DEF FlattenSeq, IsFlat
<1> HIDE DEF f
<1>3. n \in Nat /\ 1 <= n /\ \A i \in 1..n : s[i] \in Seq(Keys)
  OBVIOUS
<1>5. \A i \in 1..n : f[i] = IF i = 1 THEN s[i] ELSE f[i - 1] \o s[i]
  BY <1>1 DEF IsFlat
<1>6. Bad = {}
  <2> SUFFICES ASSUME Bad # {} PROVE FALSE
    OBVIOUS
  <2>1. Bad \in SUBSET Nat
    <3> HIDE DEF Good
    <3> QED BY <1>3
  <2>2. PICK i \in Bad : \A x \in Bad : i <= x
    BY <2>1, SmallestExists
  <2>3. i \in 1..n /\ i \in Nat /\ ~Good(i)
    <3> HIDE DEF Good
    <3> QED BY <1>3
  <2>4. i # 1
    <3>1. f[1] = s[1] /\ 1 \in 1..n
      BY <1>3, <1>5
    <3>2. 1..1 = {1}
      OBVIOUS
    <3>3. Separate(s) => NoTwice(s[1])
      BY <3>1 DEF Separate
    <3>4. s[1] \in Seq(Keys)
      BY <1>3, <3>1
    <3>5. Good(1)
      BY <3>1, <3>2, <3>3, <3>4
    <3> HIDE DEF Good
    <3> QED BY <2>3, <3>5
  <2>5. i - 1 \in 1..n /\ ~(i <= i - 1)
    BY <1>3, <2>3, <2>4
  <2>6. Good(i - 1)
    <3>1. i - 1 \notin Bad
      <4> HIDE DEF Bad
      <4> QED BY <2>2, <2>5
    <3> HIDE DEF Good
    <3> QED BY <2>5, <3>1
  <2> DEFINE p == f[i - 1]
             q == f[i]
             c == s[i]
  <2>7. q = p \o c /\ c \in Seq(Keys)
    BY <1>3, <1>5, <2>3, <2>4
  <2>8. /\ p \in Seq(Keys)
        /\ \A k : k \in ToSet(p) <=> \E j \in 1..i - 1 : k \in ToSet(s[j])
        /\ Separate(s) => NoTwice(p)
    BY <2>6
  <2>9. /\ \A j \in 1..i : j \in 1..i - 1 \/ j = i
        /\ \A j \in 1..i - 1 : j \in 1..i /\ j \in 1..n /\ j # i
        /\ i \in 1..i
    BY <1>3, <2>3, <2>5
  <2>10. Separate(s) => NoTwice(c) /\ ToSet(p) \cap ToSet(c) = {}
    <3> SUFFICES ASSUME Separate(s) PROVE NoTwice(c) /\ ToSet(p) \cap ToSet(c) = {}
      OBVIOUS
    <3>1. NoTwice(c)
      BY <2>3 DEF Separate
    <3>2. ASSUME NEW k \in ToSet(p) \cap ToSet(c) PROVE FALSE
      <4>1. PICK j \in 1..i - 1 : k \in ToSet(s[j])
        BY <2>8, <3>2
      <4>2. j \in 1..n /\ j # i
        BY <2>9
      <4>3. ToSet(s[j]) \cap ToSet(s[i]) = {}
        BY <2>3, <4>2 DEF Separate
      <4> QED BY <3>2, <4>1, <4>3
    <3> QED BY <3>1, <3>2
  <2> HIDE DEF p, q, c, Bad
  <2>11. q \in Seq(Keys) /\ ToSet(q) = ToSet(p) \cup ToSet(c) /\ (Separate(s) => NoTwice(q))
    <3>1. q \in Seq(Keys) /\ ToSet(q) = ToSet(p) \cup ToSet(c)
      BY <2>7, <2>8, Joined
    <3>2. NoTwice(p) /\ NoTwice(c) /\ ToSet(p) \cap ToSet(c) = {} => NoTwice(q)
      BY <2>7, <2>8, Joined
    <3> QED BY <2>8, <2>10, <3>1, <3>2
  <2>12. \A k : k \in ToSet(q) <=> \E j \in 1..i : k \in ToSet(s[j])
    BY <2>8, <2>9, <2>11 DEF c
  <2>13. Good(i)
    BY <2>11, <2>12 DEF q
  <2> HIDE DEF Good
  <2> QED BY <2>3, <2>13
<1>7. Good(n)
  <2>1. n \in 1..n
    BY <1>3
  <2> HIDE DEF Good
  <2> QED BY <1>6, <2>1
<1> QED BY <1>2, <1>7

----------------------------------------------------------------------------
(* Tables.                                                                 *)

TableOf(log2, n, chains) == [log2 |-> log2, n |-> n, chains |-> chains]

\* Every chain holds keys of its bucket, each once.
InPlace(log2, chains) ==
    \A b \in 0..NBuckets(log2) - 1 :
        /\ NoTwice(chains[b])
        /\ \A k \in ToSet(chains[b]) : BucketOf(k, log2) = b

Shaped(t) ==
    /\ t = TableOf(t.log2, t.n, t.chains)
    /\ t.log2 \in MinBucketsLog2..HashBits /\ t.n \in Nat
    /\ t.chains \in [0..NBuckets(t.log2) - 1 -> Seq(Keys)]
    /\ InPlace(t.log2, t.chains)

\* The keys a lookup finds.
Held(t) == {k \in Keys : HasKey(t, k)}

LEMMA Fields ==
  ASSUME NEW l, NEW n, NEW c
  PROVE  /\ TableOf(l, n, c).log2 = l /\ TableOf(l, n, c).n = n /\ TableOf(l, n, c).chains = c
BY DEF TableOf

LEMMA Sizes ==
  ASSUME NEW l \in MinBucketsLog2..HashBits
  PROVE  l \in Nat /\ l \in 0..HashBits /\ NBuckets(l) \in Nat /\ 1 <= NBuckets(l)
<1>1. HashBits \in Nat /\ MinBucketsLog2 \in 0..HashBits
  BY HashChainAssumption DEF HashChainAssumption
<1>2. l \in Nat /\ l \in 0..HashBits
  BY <1>1
<1> QED BY <1>2, BucketsPositive

\* An enumeration meets every key of the table once.
LEMMA EntriesAre ==
  ASSUME NEW t, Shaped(t)
  PROVE  /\ Entries(t) \in Seq(Keys) /\ NoTwice(Entries(t)) /\ ToSet(Entries(t)) = Held(t)
         /\ IsFiniteSet(Held(t)) /\ Len(Entries(t)) = Cardinality(Held(t))
<1> DEFINE l == t.log2
           c == t.chains
           n == NBuckets(l)
           s == [b \in 1..n |-> c[b - 1]]
<1>1. l \in MinBucketsLog2..HashBits /\ c \in [0..n - 1 -> Seq(Keys)] /\ InPlace(l, c)
  BY DEF Shaped
<1>2. n \in Nat /\ 1 <= n /\ l \in 0..HashBits
  BY <1>1, Sizes
<1>3. \A k \in Keys : BucketOf(k, l) \in 0..n - 1
  BY <1>2, BucketIs
<1>4. \A b \in 0..n - 1 : NoTwice(c[b]) /\ \A k \in ToSet(c[b]) : BucketOf(k, l) = b
  BY <1>1 DEF InPlace
<1>5. Entries(t) = FlattenSeq(s)
  BY DEF Entries
<1>6. \A k \in Keys : HasKey(t, k) <=> k \in ToSet(c[BucketOf(k, l)])
  BY DEF HasKey, Chain
<1> HIDE DEF l, c, n
<1>7. \A i \in 1..n : i - 1 \in 0..n - 1 /\ s[i] = c[i - 1] /\ s[i] \in Seq(Keys)
  BY <1>1, <1>2
<1>8. s \in Seq(Seq(Keys)) /\ Len(s) = n
  BY <1>2, <1>7
<1>9. Separate(s)
  <2>1. ASSUME NEW i \in 1..Len(s) PROVE NoTwice(s[i])
    BY <1>4, <1>7, <1>8
  <2>2. ASSUME NEW i \in 1..Len(s), NEW j \in 1..Len(s), i # j, NEW k \in ToSet(s[i]) \cap ToSet(s[j])
        PROVE FALSE
    <3>1. BucketOf(k, l) = i - 1 /\ BucketOf(k, l) = j - 1
      BY <1>4, <1>7, <1>8, <2>2
    <3> QED BY <1>8, <2>2, <3>1
  <2> HIDE DEF s
  <2> QED BY <2>1, <2>2 DEF Separate
<1>10. ASSUME NEW k \in Keys
       PROVE (\E i \in 1..n : k \in ToSet(s[i])) <=> k \in ToSet(c[BucketOf(k, l)])
  <2>1. ASSUME NEW i \in 1..n, k \in ToSet(s[i]) PROVE k \in ToSet(c[BucketOf(k, l)])
    BY <1>4, <1>7, <2>1
  <2>2. ASSUME k \in ToSet(c[BucketOf(k, l)]) PROVE \E i \in 1..n : k \in ToSet(s[i])
    <3> DEFINE b == BucketOf(k, l)
    <3>1. b \in 0..n - 1
      BY <1>3
    <3> HIDE DEF b
    <3>2. b + 1 \in 1..n /\ (b + 1) - 1 = b
      BY <1>2, <3>1
    <3>3. s[b + 1] = c[b]
      BY <1>7, <3>2
    <3> QED BY <2>2, <3>2, <3>3 DEF b
  <2> QED BY <2>1, <2>2
<1> HIDE DEF s
<1>11. Len(s) # 0
  BY <1>2, <1>8
<1>12. /\ FlattenSeq(s) \in Seq(Keys)
       /\ \A k : k \in ToSet(FlattenSeq(s)) <=> \E i \in 1..n : k \in ToSet(s[i])
       /\ NoTwice(FlattenSeq(s))
  BY <1>8, <1>9, <1>11, FlattenIs
<1>13. ToSet(FlattenSeq(s)) \in SUBSET Keys
  BY <1>12, Members
<1>14. ToSet(Entries(t)) = Held(t)
  BY <1>5, <1>6, <1>10, <1>12, <1>13 DEF Held
<1>15. IsFiniteSet(ToSet(Entries(t))) /\ Len(Entries(t)) = Cardinality(ToSet(Entries(t)))
  BY <1>5, <1>12, CountOf
<1> QED BY <1>5, <1>12, <1>14, <1>15

\* Moving the entries to a new array of buckets loses none.
LEMMA RehashedIs ==
  ASSUME NEW t, Shaped(t), NEW l \in MinBucketsLog2..HashBits
  PROVE  /\ Shaped(Rehashed(t, l)) /\ Rehashed(t, l).log2 = l /\ Rehashed(t, l).n = t.n
         /\ Held(Rehashed(t, l)) = Held(t)
<1> DEFINE e == Entries(t)
           n == NBuckets(l)
           Of(b) == {k \in Keys : BucketOf(k, l) = b}
           c == [b \in 0..n - 1 |-> Only(e, Of(b))]
           u == TableOf(l, t.n, c)
<1>1. Rehashed(t, l) = u
  <2>1. t = TableOf(t.log2, t.n, t.chains)
    BY DEF Shaped
  <2> HIDE DEF Of
  <2>2. Rehashed(t, l) = [t EXCEPT !.log2 = l, !.chains = c]
    BY DEF Rehashed, Of
  <2> HIDE DEF c
  <2> QED BY <2>1, <2>2 DEF TableOf
<1>2. e \in Seq(Keys) /\ NoTwice(e) /\ ToSet(e) = Held(t)
  BY EntriesAre
<1>3. n \in Nat /\ 1 <= n /\ \A k \in Keys : BucketOf(k, l) \in 0..n - 1
  BY Sizes, BucketIs
<1> HIDE DEF e, n, Of
<1>4. ASSUME NEW b \in 0..n - 1
      PROVE c[b] \in Seq(Keys) /\ ToSet(c[b]) = ToSet(e) \cap Of(b) /\ NoTwice(c[b])
  BY <1>2, OnlyIs
<1>5. c \in [0..n - 1 -> Seq(Keys)]
  BY <1>4
<1>6. InPlace(l, c)
  BY <1>4 DEF InPlace, n, Of
<1> HIDE DEF c
<1>7. u.log2 = l /\ u.n = t.n /\ u.chains = c
  BY Fields
<1> HIDE DEF u
<1>8. Shaped(u)
  <2>1. u = TableOf(u.log2, u.n, u.chains) /\ u.n \in Nat
    BY <1>7 DEF Shaped, u
  <2> QED BY <1>5, <1>6, <1>7, <2>1 DEF Shaped, n
<1>9. ASSUME NEW k \in Keys PROVE HasKey(u, k) <=> HasKey(t, k)
  <2>1. HasKey(u, k) <=> k \in ToSet(c[BucketOf(k, l)])
    BY <1>7 DEF HasKey, Chain
  <2>2. ToSet(c[BucketOf(k, l)]) = ToSet(e) \cap Of(BucketOf(k, l)) /\ k \in Of(BucketOf(k, l))
    BY <1>3, <1>4 DEF Of
  <2> QED BY <1>2, <2>1, <2>2 DEF Held
<1> QED BY <1>1, <1>7, <1>8, <1>9 DEF Held

\* One chain gets a key, or gets it in another place.
LEMMA ChainReplaced ==
  ASSUME NEW t, Shaped(t), NEW k \in Keys, NEW d \in Seq(Keys), NoTwice(d), NEW n \in Nat,
         ToSet(d) = ToSet(Chain(t, k)) \cup {k},
         NEW w, w = TableOf(t.log2, n, [t.chains EXCEPT ![BucketOf(k, t.log2)] = d])
  PROVE  Shaped(w) /\ w.n = n /\ w.log2 = t.log2 /\ Held(w) = Held(t) \cup {k}
<1> DEFINE l == t.log2
           b == BucketOf(k, l)
           c == t.chains
           v == [c EXCEPT ![b] = d]
           u == TableOf(l, n, v)
<1>1. /\ l \in MinBucketsLog2..HashBits
      /\ c \in [0..NBuckets(l) - 1 -> Seq(Keys)] /\ InPlace(l, c)
  BY DEF Shaped
<1>2. l \in 0..HashBits /\ \A j \in Keys : BucketOf(j, l) \in 0..NBuckets(l) - 1
  BY <1>1, Sizes, BucketIs
<1>3. b \in 0..NBuckets(l) - 1
  BY <1>2
<1>4. ToSet(d) = ToSet(c[b]) \cup {k}
  BY DEF Chain
<1>5. BucketOf(k, l) = b
  OBVIOUS
<1>6. u.log2 = l /\ u.n = n /\ u.chains = v
  BY Fields
<1>7. u = TableOf(u.log2, u.n, u.chains)
  <2> HIDE DEF u
  <2> QED BY <1>6 DEF u
<1>8. \A j \in Keys : HasKey(u, j) <=> j \in ToSet(v[BucketOf(j, l)])
  <2> HIDE DEF u
  <2> QED BY <1>6 DEF HasKey, Chain
<1>9. \A j \in Keys : HasKey(t, j) <=> j \in ToSet(c[BucketOf(j, l)])
  BY DEF HasKey, Chain
<1> HIDE DEF l, b, c, u
<1>10. /\ v \in [0..NBuckets(l) - 1 -> Seq(Keys)]
       /\ \A x \in 0..NBuckets(l) - 1 : v[x] = IF x = b THEN d ELSE c[x]
  BY <1>1, <1>3
<1> HIDE DEF v
<1>11. InPlace(l, v)
  <2> SUFFICES ASSUME NEW x \in 0..NBuckets(l) - 1
               PROVE NoTwice(v[x]) /\ \A j \in ToSet(v[x]) : BucketOf(j, l) = x
    BY DEF InPlace
  <2>1. NoTwice(c[x]) /\ \A j \in ToSet(c[x]) : BucketOf(j, l) = x
    BY <1>1 DEF InPlace
  <2>2. CASE x = b
    BY <1>4, <1>5, <1>10, <2>1, <2>2
  <2>3. CASE x # b
    BY <1>10, <2>1, <2>3
  <2> QED BY <2>2, <2>3
<1>12. ASSUME NEW j \in Keys PROVE HasKey(u, j) <=> HasKey(t, j) \/ j = k
  <2> DEFINE x == BucketOf(j, l)
  <2>1. x \in 0..NBuckets(l) - 1
    BY <1>2
  <2>2. j = k => x = b
    BY <1>5
  <2>3. (HasKey(u, j) <=> j \in ToSet(v[x])) /\ (HasKey(t, j) <=> j \in ToSet(c[x]))
    BY <1>8, <1>9
  <2> HIDE DEF x
  <2>4. v[x] = IF x = b THEN d ELSE c[x]
    BY <1>10, <2>1
  <2>5. CASE x = b
    BY <1>4, <2>3, <2>4, <2>5
  <2>6. CASE x # b
    BY <2>2, <2>3, <2>4, <2>6
  <2> QED BY <2>5, <2>6
<1>13. Shaped(u)
  BY <1>1, <1>6, <1>7, <1>10, <1>11 DEF Shaped
<1>14. Held(u) = Held(t) \cup {k}
  BY <1>12 DEF Held
<1> QED BY <1>6, <1>13, <1>14 DEF u, v, l, b, c

\* The load limit never falls as the table grows.
LEMMA LoadLimit ==
  ASSUME NEW t, Shaped(t), t.n >= OVERLOADED(NBuckets(t.log2)), t.n < OVERLOADED(NBuckets(HashBits))
  PROVE  t.log2 + 1 \in MinBucketsLog2..HashBits
<1>1. t.log2 \in MinBucketsLog2..HashBits /\ HashBits \in Nat /\ MinBucketsLog2 \in 0..HashBits
  BY HashChainAssumption DEF HashChainAssumption, Shaped
<1>2. t.log2 # HashBits
  <2> SUFFICES ASSUME t.log2 = HashBits PROVE FALSE
    OBVIOUS
  <2> DEFINE x == OVERLOADED(NBuckets(HashBits))
  <2>1. NBuckets(HashBits) \in Nat
    BY <1>1, BucketsPositive
  <2>2. x \in Int /\ t.n \in Nat
    BY <2>1 DEF OVERLOADED, Shaped
  <2>3. t.n >= x /\ t.n < x
    OBVIOUS
  <2> HIDE DEF x
  <2> QED BY ONLY <2>2, <2>3
<1> QED BY <1>1, <1>2

\* A new entry goes to the end of its chain, in the array grown for it or not.
LEMMA RawAddIs ==
  ASSUME NEW t, Shaped(t), NEW k \in Keys, ~HasKey(t, k), t.n < OVERLOADED(NBuckets(HashBits))
  PROVE  /\ Shaped(RawAdd(t, k)) /\ RawAdd(t, k).n = t.n + 1
         /\ Held(RawAdd(t, k)) = Held(t) \cup {k}
<1> DEFINE full == t.n >= OVERLOADED(NBuckets(t.log2))
           room == IF full THEN Rehashed(t, t.log2 + 1) ELSE t
           b == BucketOf(k, room.log2)
           d == Append(Chain(room, k), k)
           u == TableOf(room.log2, room.n + 1, [room.chains EXCEPT ![b] = d])
<1>1. Shaped(room) /\ room.n = t.n /\ Held(room) = Held(t)
  <2>1. CASE full
    <3>1. t.log2 + 1 \in MinBucketsLog2..HashBits
      BY <2>1, LoadLimit
    <3> QED BY <2>1, <3>1, RehashedIs
  <2>2. CASE ~full
    BY <2>2
  <2> QED BY <2>1, <2>2
<1>2. RawAdd(t, k) = [room EXCEPT !.n = @ + 1, !.chains[BucketOf(k, room.log2)] = Append(@, k)]
  BY DEF RawAdd
<1> HIDE DEF room
<1>3. Chain(room, k) = room.chains[b]
  BY DEF Chain
<1>4. RawAdd(t, k) = u
  <2>1. room = TableOf(room.log2, room.n, room.chains)
    BY <1>1 DEF Shaped
  <2> HIDE DEF b
  <2>2. RawAdd(t, k) = [room EXCEPT !.n = @ + 1, !.chains[b] = Append(@, k)]
    BY <1>2 DEF b
  <2> QED BY <1>3, <2>1, <2>2 DEF TableOf
<1>5. Chain(room, k) \in Seq(Keys) /\ NoTwice(Chain(room, k))
  <2>1. /\ room.log2 \in MinBucketsLog2..HashBits
        /\ room.chains \in [0..NBuckets(room.log2) - 1 -> Seq(Keys)]
        /\ InPlace(room.log2, room.chains)
    BY <1>1 DEF Shaped
  <2>2. b \in 0..NBuckets(room.log2) - 1
    BY <2>1, Sizes, BucketIs
  <2> HIDE DEF b
  <2> QED BY <1>3, <2>1, <2>2 DEF InPlace
<1>6. k \notin ToSet(Chain(room, k))
  <2>1. ~HasKey(room, k)
    BY <1>1 DEF Held
  <2> QED BY <2>1 DEF HasKey
<1>7. d \in Seq(Keys) /\ NoTwice(d) /\ ToSet(d) = ToSet(Chain(room, k)) \cup {k}
  BY <1>5, <1>6, Appended
<1>8. room.n + 1 \in Nat
  BY <1>1 DEF Shaped
<1>10. u = TableOf(room.log2, room.n + 1, [room.chains EXCEPT ![BucketOf(k, room.log2)] = d])
  OBVIOUS
<1> HIDE DEF d, u
<1>9. Shaped(u) /\ u.n = room.n + 1 /\ Held(u) = Held(room) \cup {k}
  BY <1>1, <1>7, <1>8, <1>10, ChainReplaced
<1> QED BY <1>1, <1>4, <1>9

\* What a lookup finds comes first in its chain, and nothing else moves out of it.
LEMMA FoundFirstIs ==
  ASSUME NEW t, Shaped(t), NEW k \in Keys, HasKey(t, k)
  PROVE  /\ Shaped(FoundFirst(t, k)) /\ FoundFirst(t, k).n = t.n
         /\ Held(FoundFirst(t, k)) = Held(t)
<1> DEFINE b == BucketOf(k, t.log2)
           c == Chain(t, k)
           rest == Only(c, Keys \ {k})
           d == <<k>> \o rest
           u == TableOf(t.log2, t.n, [t.chains EXCEPT ![b] = d])
<1>1. c = t.chains[b]
  BY DEF Chain
<1>2. FoundFirst(t, k) = u
  <2>1. t = TableOf(t.log2, t.n, t.chains)
    BY DEF Shaped
  <2> HIDE DEF b, c
  <2>2. FoundFirst(t, k) = [t EXCEPT !.chains[b] = <<k>> \o Only(@, Keys \ {k})]
    BY DEF FoundFirst, b
  <2> QED BY <1>1, <2>1, <2>2 DEF TableOf
<1>3. c \in Seq(Keys) /\ NoTwice(c) /\ t.n \in Nat
  <2>1. /\ t.log2 \in MinBucketsLog2..HashBits /\ t.n \in Nat
        /\ t.chains \in [0..NBuckets(t.log2) - 1 -> Seq(Keys)]
        /\ InPlace(t.log2, t.chains)
    BY DEF Shaped
  <2>2. b \in 0..NBuckets(t.log2) - 1
    BY <2>1, Sizes, BucketIs
  <2> HIDE DEF b, c
  <2> QED BY <1>1, <2>1, <2>2 DEF InPlace
<1>4. k \in ToSet(c)
  BY DEF HasKey
<1> HIDE DEF c
<1>5. rest \in Seq(Keys) /\ NoTwice(rest) /\ ToSet(rest) = ToSet(c) \cap (Keys \ {k})
  BY <1>3, OnlyIs
<1>6. <<k>> \in Seq(Keys) /\ NoTwice(<<k>>) /\ ToSet(<<k>>) = {k}
  <2>1. <<k>> \in Seq(Keys) /\ Len(<<k>>) = 1 /\ DOMAIN <<k>> = {1} /\ <<k>>[1] = k
    OBVIOUS
  <2>2. NoTwice(<<k>>)
    BY DEF NoTwice
  <2>3. ToSet(<<k>>) = {k}
    BY <2>1 DEF ToSet
  <2> QED BY <2>1, <2>2, <2>3
<1>7. ToSet(c) \subseteq Keys
  BY <1>3, Members
<1> HIDE DEF rest
<1>8. d \in Seq(Keys) /\ NoTwice(d) /\ ToSet(d) = ToSet(c) \cup {k}
  <2>1. d \in Seq(Keys) /\ ToSet(d) = {k} \cup ToSet(rest)
    <3>1. d \in Seq(Keys) /\ ToSet(d) = ToSet(<<k>>) \cup ToSet(rest)
      <4>1. <<k>> \in Seq(Keys) /\ rest \in Seq(Keys)
        BY <1>5, <1>6
      <4> QED BY <4>1, Joined
    <3> QED BY <1>6, <3>1
  <2>2. ToSet(<<k>>) \cap ToSet(rest) = {}
    BY <1>5, <1>6
  <2>3. NoTwice(d)
    BY <1>5, <1>6, <2>2, Joined
  <2> QED BY <1>4, <1>5, <1>7, <2>1, <2>3
<1>11. u = TableOf(t.log2, t.n, [t.chains EXCEPT ![BucketOf(k, t.log2)] = d])
  OBVIOUS
<1>12. ToSet(d) = ToSet(Chain(t, k)) \cup {k}
  BY <1>8 DEF c
<1> HIDE DEF d, u, b
<1>9. Shaped(u) /\ u.n = t.n /\ Held(u) = Held(t) \cup {k}
  <2>1. t.n \in Nat /\ d \in Seq(Keys) /\ NoTwice(d)
    BY <1>3, <1>8
  <2>2. Shaped(t) /\ k \in Keys
    OBVIOUS
  <2> QED BY ONLY <2>1, <2>2, <1>11, <1>12, ChainReplaced
<1>10. Held(t) \cup {k} = Held(t)
  BY DEF Held
<1> QED BY <1>2, <1>9, <1>10

----------------------------------------------------------------------------
(* Enumerations.                                                           *)

\* What ShrunkBuckets computes: the size after i entries have gone.
IsShrink(f, t, gone) ==
    f = [i \in 0..gone |->
            IF i = 0 THEN t.log2
            ELSE IF t.n - i < UNDERLOADED(NBuckets(f[i - 1])) THEN f[i - 1] - 1
            ELSE f[i - 1]]

ShrinkStep(t) ==
    [p \in Int \X Nat |-> IF t.n - p[2] < UNDERLOADED(NBuckets(p[1])) THEN p[1] - 1 ELSE p[1]]

LEMMA ShrinkExists ==
  ASSUME NEW t, t.log2 \in Int, NEW gone \in Nat
  PROVE  \E f : f \in [0..gone -> Int] /\ IsShrink(f, t, gone)
<1> DEFINE g == ShrinkStep(t)
<1>1. g \in [Int \X Nat -> Int]
  <2> SUFFICES ASSUME NEW p \in Int \X Nat
               PROVE (IF t.n - p[2] < UNDERLOADED(NBuckets(p[1])) THEN p[1] - 1 ELSE p[1]) \in Int
    BY DEF ShrinkStep
  <2>1. p[1] \in Int
    OBVIOUS
  <2> QED BY <2>1
<1>2. PICK f \in [0..gone -> Int] : IsIterated(f, t.log2, g, gone)
  <2> HIDE DEF g
  <2> QED BY <1>1, IteratedExists
<1>3. ASSUME NEW i \in 0..gone
      PROVE f[i] = IF i = 0 THEN t.log2
                   ELSE IF t.n - i < UNDERLOADED(NBuckets(f[i - 1])) THEN f[i - 1] - 1
                   ELSE f[i - 1]
  <2>1. f[i] = IF i = 0 THEN t.log2 ELSE g[<<f[i - 1], i>>]
    BY <1>2 DEF IsIterated
  <2>2. CASE i = 0
    BY <2>1, <2>2
  <2>3. CASE i # 0
    <3>1. i - 1 \in 0..gone /\ i \in Nat
      BY <2>3
    <3>2. f[i - 1] \in Int
      BY <3>1
    <3>3. g[<<f[i - 1], i>>] = IF t.n - i < UNDERLOADED(NBuckets(f[i - 1])) THEN f[i - 1] - 1 ELSE f[i - 1]
      BY <3>1, <3>2 DEF ShrinkStep
    <3> QED BY <2>1, <2>3, <3>3
  <2> QED BY <2>2, <2>3
<1>4. f = [i \in 0..gone |-> f[i]]
  OBVIOUS
<1>5. IsShrink(f, t, gone)
  BY <1>3, <1>4 DEF IsShrink
<1> QED BY <1>5

\* The table never shrinks below its first size, and not at all if nothing goes.
LEMMA ShrunkIs ==
  ASSUME NEW t, Shaped(t), NEW gone \in Nat, gone <= t.n
  PROVE  /\ ShrunkBuckets(t, gone) \in MinBucketsLog2..HashBits
         /\ gone = 0 => ShrunkBuckets(t, gone) = t.log2
<1> DEFINE f == CHOOSE h : IsShrink(h, t, gone)
           Bad == {i \in 0..gone : ~(f[i] \in MinBucketsLog2..HashBits)}
<1>1. t.log2 \in MinBucketsLog2..HashBits /\ t.n \in Nat
  BY DEF Shaped
<1>2. HashBits \in Nat /\ MinBucketsLog2 \in 0..HashBits
  BY HashChainAssumption DEF HashChainAssumption
<1>3. IsShrink(f, t, gone)
  <2>1. t.log2 \in Int
    BY <1>1, <1>2
  <2>2. \E h : IsShrink(h, t, gone)
    BY <2>1, ShrinkExists
  <2> QED BY <2>2
<1>4. ShrunkBuckets(t, gone) = f[gone]
  BY DEF ShrunkBuckets, IsShrink
<1> HIDE DEF f
<1>5. \A i \in 0..gone : f[i] = IF i = 0 THEN t.log2
                                ELSE IF t.n - i < UNDERLOADED(NBuckets(f[i - 1])) THEN f[i - 1] - 1
                                ELSE f[i - 1]
  BY <1>3 DEF IsShrink
<1>6. Bad = {}
  <2> SUFFICES ASSUME Bad # {} PROVE FALSE
    OBVIOUS
  <2>1. Bad \in SUBSET Nat
    OBVIOUS
  <2>2. PICK i \in Bad : \A x \in Bad : i <= x
    BY <2>1, SmallestExists
  <2>3. i \in 0..gone /\ i \in Nat /\ ~(f[i] \in MinBucketsLog2..HashBits)
    OBVIOUS
  <2>4. i # 0
    BY <1>1, <1>5, <2>3
  <2>5. i - 1 \in 0..gone /\ ~(i <= i - 1)
    BY <2>3, <2>4
  <2> DEFINE p == f[i - 1]
  <2>6. p \in MinBucketsLog2..HashBits
    BY <2>2, <2>5
  <2>7. f[i] = IF t.n - i < UNDERLOADED(NBuckets(p)) THEN p - 1 ELSE p
    BY <1>5, <2>3, <2>4
  <2> HIDE DEF p, Bad
  <2>8. CASE p = MinBucketsLog2
    <3>1. UNDERLOADED(NBuckets(p)) = 0
      <4>1. NBuckets(p) \in Nat
        BY <2>6, Sizes
      <4>2. ~(NBuckets(p) > NBuckets(MinBucketsLog2))
        BY <2>8, <4>1
      <4> QED BY <4>2 DEF UNDERLOADED
    <3>2. ~(t.n - i < 0)
      BY <1>1, <2>3
    <3> QED BY <2>3, <2>6, <2>7, <3>1, <3>2
  <2>9. CASE p # MinBucketsLog2
    <3>1. p \in MinBucketsLog2..HashBits /\ p - 1 \in MinBucketsLog2..HashBits
      BY <1>2, <2>6, <2>9
    <3> QED BY <2>3, <2>7, <3>1
  <2> QED BY <2>8, <2>9
<1>7. f[gone] \in MinBucketsLog2..HashBits
  BY <1>6
<1>8. gone = 0 => f[gone] = t.log2
  BY <1>5
<1> QED BY <1>4, <1>7, <1>8

\* The entry count of a table says nothing of what its chains hold.
LEMMA Recounted ==
  ASSUME NEW t, Shaped(t), NEW n \in Nat, NEW w, w = TableOf(t.log2, n, t.chains)
  PROVE  Shaped(w) /\ w.n = n /\ w.log2 = t.log2 /\ Held(w) = Held(t)
<1>1. w.log2 = t.log2 /\ w.n = n /\ w.chains = t.chains
  BY Fields
<1>2. Shaped(w)
  BY <1>1 DEF Shaped
<1>3. \A k : HasKey(w, k) <=> HasKey(t, k)
  BY <1>1 DEF HasKey, Chain
<1> QED BY <1>1, <1>2, <1>3 DEF Held

\* The chains without the entries whose removal the enumerator asks for.
Unlinked(t, Kept) == [t EXCEPT !.chains = [b \in DOMAIN t.chains |-> Only(t.chains[b], Kept)]]

LEMMA UnlinkedIs ==
  ASSUME NEW t, Shaped(t), NEW Kept
  PROVE  /\ Shaped(Unlinked(t, Kept)) /\ Held(Unlinked(t, Kept)) = Held(t) \cap Kept
         /\ Unlinked(t, Kept).log2 = t.log2
         /\ Held(t) \subseteq Kept => Unlinked(t, Kept) = t
<1> DEFINE l == t.log2
           c == t.chains
           n == NBuckets(l)
           v == [b \in DOMAIN c |-> Only(c[b], Kept)]
           u == TableOf(l, t.n, v)
<1>1. /\ t = TableOf(l, t.n, c) /\ t.n \in Nat
      /\ l \in MinBucketsLog2..HashBits
      /\ c \in [0..n - 1 -> Seq(Keys)] /\ InPlace(l, c)
  BY DEF Shaped
<1>2. \A k \in Keys : BucketOf(k, l) \in 0..n - 1
  BY <1>1, Sizes, BucketIs
<1>3. Unlinked(t, Kept) = u
  <2>1. Unlinked(t, Kept) = [t EXCEPT !.chains = v]
    BY DEF Unlinked
  <2> HIDE DEF v
  <2> QED BY <1>1, <2>1 DEF TableOf
<1>4. u.log2 = l /\ u.n = t.n /\ u.chains = v
  <2> HIDE DEF v, l
  <2> QED BY Fields
<1>5. \A k \in Keys : HasKey(t, k) <=> k \in ToSet(c[BucketOf(k, l)])
  BY DEF HasKey, Chain
<1>6. \A k \in Keys : HasKey(u, k) <=> k \in ToSet(v[BucketOf(k, l)])
  <2> HIDE DEF u, v, l
  <2> QED BY <1>4 DEF HasKey, Chain
<1>7. u = TableOf(u.log2, u.n, u.chains)
  <2> HIDE DEF u
  <2> QED BY <1>4 DEF u
<1> HIDE DEF l, c, u
<1>8. DOMAIN c = 0..n - 1
  BY <1>1
<1>9. ASSUME NEW b \in 0..n - 1
      PROVE /\ v[b] = Only(c[b], Kept) /\ v[b] \in Seq(Keys)
            /\ ToSet(v[b]) = ToSet(c[b]) \cap Kept /\ NoTwice(v[b])
            /\ ToSet(c[b]) \subseteq Kept => v[b] = c[b]
  <2>1. c[b] \in Seq(Keys) /\ NoTwice(c[b]) /\ v[b] = Only(c[b], Kept)
    BY <1>1, <1>8 DEF InPlace
  <2> QED BY <2>1, OnlyIs
<1>10. v \in [0..n - 1 -> Seq(Keys)]
  <2>1. v = [b \in 0..n - 1 |-> v[b]]
    BY <1>8
  <2> HIDE DEF v
  <2> QED BY <1>9, <2>1
<1> HIDE DEF v
<1>11. InPlace(l, v)
  BY <1>1, <1>9 DEF InPlace, n
<1>12. Shaped(u)
  BY <1>1, <1>4, <1>7, <1>10, <1>11 DEF Shaped, n
<1>13. Held(u) = Held(t) \cap Kept
  <2>1. ASSUME NEW k \in Keys PROVE HasKey(u, k) <=> HasKey(t, k) /\ k \in Kept
    BY <1>2, <1>5, <1>6, <1>9
  <2> QED BY <2>1 DEF Held
<1>14. ASSUME Held(t) \subseteq Kept PROVE u = t
  <2>1. ASSUME NEW b \in 0..n - 1 PROVE v[b] = c[b]
    <3>1. ASSUME NEW k \in ToSet(c[b]) PROVE k \in Kept
      <4>1. k \in Keys /\ BucketOf(k, l) = b
        <5>1. c[b] \in Seq(Keys)
          BY <1>1
        <5>2. k \in Keys
          BY <3>1, <5>1, Members
        <5> QED BY <1>1, <3>1, <5>2 DEF InPlace, n
      <4>2. k \in Held(t)
        BY <1>5, <3>1, <4>1 DEF Held
      <4> QED BY <1>14, <4>2
    <3> QED BY <1>9, <3>1
  <2>2. v = c
    <3>1. c \in [0..n - 1 -> Seq(Keys)]
      BY <1>1
    <3>2. v = [b \in 0..n - 1 |-> v[b]] /\ c = [b \in 0..n - 1 |-> c[b]]
      BY <1>10, <3>1
    <3> HIDE DEF n
    <3> QED BY ONLY <2>1, <3>2
  <2> QED BY <1>1, <2>2 DEF u
<1>15. u.log2 = t.log2
  BY <1>4 DEF l
<1> QED BY <1>3, <1>12, <1>13, <1>14, <1>15

\* A table with the right count.
Counted(t) == Shaped(t) /\ t.n = Cardinality(Held(t))

\* An enumeration leaves what it was told to keep, and the table alone if that is everything.
LEMMA EnumerateIs ==
  ASSUME NEW t, Counted(t), NEW Kept, NEW memory \in BOOLEAN
  PROVE  /\ Counted(EnumerateKeeping(t, Kept, memory))
         /\ Held(EnumerateKeeping(t, Kept, memory)) = Held(t) \cap Kept
         /\ Held(t) \subseteq Kept => EnumerateKeeping(t, Kept, memory) = t
<1> DEFINE left == Unlinked(t, Kept)
           gone == t.n - Len(Entries(left))
           log2 == IF memory THEN ShrunkBuckets(t, gone) ELSE t.log2
           counted == TableOf(left.log2, t.n - gone, left.chains)
           u == IF log2 = t.log2 THEN counted ELSE Rehashed(counted, log2)
<1>1. Shaped(t) /\ t.n = Cardinality(Held(t)) /\ t.n \in Nat /\ t.log2 \in MinBucketsLog2..HashBits
  BY DEF Counted, Shaped
<1>2. /\ Shaped(left) /\ Held(left) = Held(t) \cap Kept /\ left.log2 = t.log2
      /\ Held(t) \subseteq Kept => left = t
  BY <1>1, UnlinkedIs
<1>3. EnumerateKeeping(t, Kept, memory) = u
  <2>1. left = TableOf(left.log2, left.n, left.chains)
    BY <1>2 DEF Shaped
  <2>2. ASSUME NEW m PROVE [left EXCEPT !.n = m] = TableOf(left.log2, m, left.chains)
    <3> HIDE DEF left
    <3> QED BY <2>1 DEF TableOf
  <2> HIDE DEF gone
  <2>3. [left EXCEPT !.n = t.n - gone] = counted
    BY <2>2
  <2>4. EnumerateKeeping(t, Kept, memory)
          = IF log2 = t.log2 THEN [left EXCEPT !.n = t.n - gone]
            ELSE Rehashed([left EXCEPT !.n = t.n - gone], log2)
    BY DEF EnumerateKeeping, Unlinked, gone
  <2> QED BY <2>3, <2>4
<1> HIDE DEF left
<1>4. IsFiniteSet(Held(left)) /\ Len(Entries(left)) = Cardinality(Held(left))
  BY <1>2, EntriesAre
<1>5. /\ IsFiniteSet(Held(t)) /\ IsFiniteSet(Held(left))
      /\ Cardinality(Held(left)) \in Nat /\ Cardinality(Held(left)) <= t.n
  <2>1. IsFiniteSet(Held(t)) /\ Held(left) \in SUBSET Held(t)
    BY <1>1, <1>2, EntriesAre
  <2> QED BY <1>1, <1>4, <2>1, FS_Subset, FS_CardinalityType
<1> DEFINE m == Cardinality(Held(left))
<1>6. gone = t.n - m /\ m \in Nat /\ m <= t.n
  BY <1>4, <1>5
<1> HIDE DEF gone, m
<1>7. gone \in Nat /\ gone <= t.n /\ t.n - gone = m /\ (m = t.n => gone = 0)
  BY <1>1, <1>6
<1>8. log2 \in MinBucketsLog2..HashBits /\ (gone = 0 => log2 = t.log2)
  BY <1>1, <1>7, ShrunkIs
<1> HIDE DEF log2
<1>9. Shaped(counted) /\ counted.n = m /\ counted.log2 = t.log2 /\ Held(counted) = Held(left)
  <2>1. counted = TableOf(left.log2, m, left.chains)
    BY <1>7
  <2> HIDE DEF counted
  <2> QED BY <1>2, <1>6, <2>1, Recounted
<1>10. Shaped(u) /\ u.n = m /\ Held(u) = Held(left)
  <2> HIDE DEF counted
  <2>1. CASE log2 = t.log2
    BY <1>9, <2>1
  <2>2. CASE log2 # t.log2
    BY <1>8, <1>9, <2>2, RehashedIs
  <2> QED BY <2>1, <2>2
<1>11. ASSUME Held(t) \subseteq Kept PROVE u = t
  <2>1. left = t
    BY <1>2, <1>11
  <2>2. gone = 0 /\ t.n - gone = t.n
    BY <1>1, <1>7, <2>1 DEF m
  <2>3. counted = TableOf(t.log2, t.n, t.chains)
    BY <2>1, <2>2
  <2>4. log2 = t.log2
    BY <1>8, <2>2
  <2> QED BY <1>1, <2>3, <2>4 DEF Shaped
<1> HIDE DEF u
<1> QED BY <1>2, <1>3, <1>10, <1>11 DEF Counted, m

\* An empty table.
LEMMA NewTableIs == Counted(NewTable) /\ Held(NewTable) = {}
<1> DEFINE l == MinBucketsLog2
           c == [b \in 0..NBuckets(l) - 1 |-> <<>>]
           t == TableOf(l, 0, c)
<1>1. NewTable = t
  BY DEF NewTable, TableOf
<1>2. l \in MinBucketsLog2..HashBits
  BY HashChainAssumption DEF HashChainAssumption
<1>3. \A k \in Keys : BucketOf(k, l) \in 0..NBuckets(l) - 1
  BY <1>2, Sizes, BucketIs
<1>4. c \in [0..NBuckets(l) - 1 -> Seq(Keys)] /\ \A b \in 0..NBuckets(l) - 1 : c[b] = <<>>
  OBVIOUS
<1> HIDE DEF c
<1>5. t.log2 = l /\ t.n = 0 /\ t.chains = c
  BY Fields
<1>6. NoTwice(<<>>) /\ ToSet(<<>>) = {}
  BY DEF NoTwice, ToSet
<1>7. InPlace(l, c)
  BY <1>4, <1>6 DEF InPlace
<1>8. t = TableOf(t.log2, t.n, t.chains)
  <2> HIDE DEF t
  <2> QED BY <1>5 DEF t
<1> HIDE DEF t
<1>9. Shaped(t)
  BY <1>2, <1>4, <1>5, <1>7, <1>8 DEF Shaped
<1>10. Held(t) = {}
  <2>1. ASSUME NEW k \in Keys PROVE ~HasKey(t, k)
    BY <1>3, <1>4, <1>5, <1>6 DEF HasKey, Chain
  <2> QED BY <2>1 DEF Held
<1>11. Cardinality({}) = 0
  BY FS_EmptySet
<1> QED BY <1>1, <1>5, <1>9, <1>10, <1>11 DEF Counted

----------------------------------------------------------------------------
(* The atoms every runtime has.                                            *)

LEMMA SetToSeqIs ==
  ASSUME NEW S, IsFiniteSet(S)
  PROVE  SetToSeq(S) \in Seq(S) /\ NoTwice(SetToSeq(S)) /\ ToSet(SetToSeq(S)) = S
<1> DEFINE n == Cardinality(S)
           m == SetToSeq(S)
           Lists(f) == f \in [1..n -> S] /\ IsInjective(f)
<1>1. n \in Nat /\ ExistsBijection(1..n, S)
  BY FS_CardinalityType
<1>2. \E f : Lists(f)
  <2>1. PICK f : f \in Bijection(1..n, S)
    BY <1>1 DEF ExistsBijection
  <2>2. f \in [1..n -> S] /\ \A a, b \in 1..n : f[a] = f[b] => a = b
    BY <2>1, Fun_BijectionProperties
  <2>3. IsInjective(f)
    BY <2>2 DEF IsInjective
  <2> QED BY <2>2, <2>3
<1>3. Lists(m)
  BY <1>2 DEF SetToSeq
<1> HIDE DEF n, m
<1>4. m \in Seq(S) /\ Len(m) = n /\ DOMAIN m = 1..n
  BY <1>1, <1>3
<1>5. NoTwice(m)
  BY <1>3, <1>4 DEF NoTwice, IsInjective
<1>6. \A x \in S : \E i \in 1..n : m[i] = x
  <2>1. IsFiniteSet(1..n) /\ Cardinality(1..n) = n
    <3>1. 1 \in Int /\ n \in Int /\ (1 > n => n = 0) /\ n - 1 + 1 = n
      BY <1>1
    <3> QED BY <3>1, FS_Interval
  <2>2. m \in Injection(1..n, S)
    <3>1. m \in [1..n -> S] /\ \A a, b \in 1..n : m[a] = m[b] => a = b
      BY <1>3, <1>4 DEF IsInjective
    <3> QED BY <3>1, Fun_IsInj
  <2>3. m \in Surjection(1..n, S)
    BY <2>1, <2>2, FS_Injection DEF n
  <2> QED BY <2>3 DEF Surjection
<1>7. ToSet(m) = S
  BY <1>3, <1>4, <1>6 DEF ToSet
<1> QED BY <1>4, <1>5, <1>7 DEF m

\* What WithPinned computes: the table after the first i names.
IsPinning(f, t, m) == f = [i \in 0..Len(m) |-> IF i = 0 THEN t ELSE RawAdd(f[i - 1], m[i])]

PinsFirst(f, t, m, n) == \A i \in 0..n : f[i] = IF i = 0 THEN t ELSE RawAdd(f[i - 1], m[i])

LEMMA PinningExists ==
  ASSUME NEW t, NEW m \in Seq(Keys)
  PROVE  \E f : IsPinning(f, t, m)
<1> DEFINE Good(n) == \E f : DOMAIN f = 0..n /\ PinsFirst(f, t, m, n)
           Bad == {n \in Nat : ~Good(n)}
<1>1. Bad = {}
  <2> SUFFICES ASSUME Bad # {} PROVE FALSE
    OBVIOUS
  <2>1. Bad \in SUBSET Nat
    OBVIOUS
  <2>2. PICK n \in Bad : \A x \in Bad : n <= x
    BY <2>1, SmallestExists
  <2>3. n \in Nat /\ ~Good(n)
    OBVIOUS
  <2>4. n # 0
    <3> DEFINE f == [i \in 0..0 |-> t]
    <3>1. DOMAIN f = 0..0 /\ PinsFirst(f, t, m, 0)
      BY DEF PinsFirst
    <3> QED BY <2>3, <3>1
  <2>5. n - 1 \in Nat /\ n - 1 \notin Bad
    BY <2>2, <2>3, <2>4
  <2>6. PICK f : DOMAIN f = 0..n - 1 /\ PinsFirst(f, t, m, n - 1)
    BY <2>5
  <2> HIDE DEF Bad
  <2> DEFINE v == RawAdd(f[n - 1], m[n])
             h == [i \in 0..n |-> IF i = n THEN v ELSE f[i]]
  <2>7. PinsFirst(h, t, m, n)
    <3> SUFFICES ASSUME NEW i \in 0..n PROVE h[i] = IF i = 0 THEN t ELSE RawAdd(h[i - 1], m[i])
      BY DEF PinsFirst
    <3>1. CASE i = n
      <4>1. h[i] = v /\ h[n - 1] = f[n - 1]
        BY <2>3, <2>4, <3>1
      <4> HIDE DEF h
      <4> QED BY <2>4, <3>1, <4>1
    <3>2. CASE i # n
      <4>1. i \in 0..n - 1 /\ h[i] = f[i]
        BY <2>3, <3>2
      <4>2. i # 0 => h[i - 1] = f[i - 1]
        BY <2>3, <4>1
      <4>3. f[i] = IF i = 0 THEN t ELSE RawAdd(f[i - 1], m[i])
        BY <2>6, <4>1 DEF PinsFirst
      <4> HIDE DEF h
      <4> QED BY <4>1, <4>2, <4>3
    <3> QED BY <3>1, <3>2
  <2>8. DOMAIN h = 0..n
    OBVIOUS
  <2> HIDE DEF h
  <2> QED BY <2>3, <2>7, <2>8
<1>2. Len(m) \in Nat
  OBVIOUS
<1> DEFINE n == Len(m)
<1>3. PICK f : DOMAIN f = 0..n /\ PinsFirst(f, t, m, n)
  BY <1>1, <1>2
<1> DEFINE h == [i \in 0..n |-> f[i]]
<1>4. \A i \in 0..n : h[i] = IF i = 0 THEN t ELSE RawAdd(h[i - 1], m[i])
  <2> TAKE i \in 0..n
  <2>1. f[i] = IF i = 0 THEN t ELSE RawAdd(f[i - 1], m[i])
    BY <1>3 DEF PinsFirst
  <2>2. h[i] = f[i] /\ (i # 0 => h[i - 1] = f[i - 1])
    <3> HIDE DEF n
    <3> QED BY <1>2 DEF n
  <2> HIDE DEF h
  <2> QED BY <2>1, <2>2
<1>5. h = [i \in 0..n |-> h[i]]
  OBVIOUS
<1> HIDE DEF h, n
<1>6. h = [i \in 0..n |-> IF i = 0 THEN t ELSE RawAdd(h[i - 1], m[i])]
  BY <1>4, <1>5
<1> QED BY <1>6 DEF IsPinning, n

\* A table that lacks the key of some atom has room for one more.
LEMMA HasRoom ==
  ASSUME NEW t, Counted(t), Held(t) \subseteq AtomKeys, NEW k \in AtomKeys, k \notin Held(t)
  PROVE  t.n < OVERLOADED(NBuckets(HashBits)) /\ k \in Keys /\ ~HasKey(t, k)
<1> DEFINE limit == OVERLOADED(NBuckets(HashBits))
<1>1. /\ IsFiniteSet(AtomKeys) /\ AtomKeys \subseteq Keys /\ Cardinality(AtomKeys) <= limit
  BY AtomsAssumption DEF AtomsAssumption
<1>2. limit \in Int
  <2>1. NBuckets(HashBits) \in Nat
    BY BucketsPositive, HashChainAssumption DEF HashChainAssumption
  <2> QED BY <2>1 DEF OVERLOADED
<1>3. Held(t) \in SUBSET AtomKeys /\ Held(t) # AtomKeys
  OBVIOUS
<1>4. /\ Cardinality(Held(t)) <= Cardinality(AtomKeys)
      /\ Cardinality(Held(t)) # Cardinality(AtomKeys)
      /\ Cardinality(Held(t)) \in Nat /\ Cardinality(AtomKeys) \in Nat
  BY <1>1, <1>3, FS_Subset, FS_CardinalityType
<1>5. t.n = Cardinality(Held(t))
  BY DEF Counted
<1> HIDE DEF limit
<1>6. t.n < limit
  BY <1>1, <1>2, <1>4, <1>5
<1>7. k \in Keys /\ ~HasKey(t, k)
  BY <1>1 DEF Held
<1> QED BY <1>6, <1>7 DEF limit

LEMMA AddedIs ==
  ASSUME NEW t, Counted(t), Held(t) \subseteq AtomKeys, NEW k \in AtomKeys, k \notin Held(t)
  PROVE  Counted(RawAdd(t, k)) /\ Held(RawAdd(t, k)) = Held(t) \cup {k}
<1>1. Shaped(t) /\ k \in Keys /\ ~HasKey(t, k) /\ t.n < OVERLOADED(NBuckets(HashBits))
  BY HasRoom DEF Counted
<1>2. /\ Shaped(RawAdd(t, k)) /\ RawAdd(t, k).n = t.n + 1
      /\ Held(RawAdd(t, k)) = Held(t) \cup {k}
  BY <1>1, RawAddIs
<1>3. IsFiniteSet(Held(t))
  BY <1>1, EntriesAre
<1>4. Cardinality(Held(t) \cup {k}) = Cardinality(Held(t)) + 1
  BY <1>3, FS_AddElement
<1> QED BY <1>2, <1>4 DEF Counted

\* Pinning adds the names that are missing.
LEMMA WithPinnedIs ==
  ASSUME NEW t, Counted(t), Held(t) \subseteq AtomKeys
  PROVE  Counted(WithPinned(t)) /\ Held(WithPinned(t)) = Held(t) \cup PinnedKeys
<1> DEFINE missing == {k \in PinnedKeys : ~HasKey(t, k)}
           m == SetToSeq(missing)
           n == Len(m)
           f == CHOOSE h : IsPinning(h, t, m)
           First(i) == {m[j] : j \in 1..i}
           Good(i) == Counted(f[i]) /\ Held(f[i]) = Held(t) \cup First(i)
           Bad == {i \in 0..n : ~Good(i)}
<1>1. /\ missing \subseteq AtomKeys /\ AtomKeys \subseteq Keys
      /\ IsFiniteSet(missing) /\ PinnedKeys \subseteq Keys
  <2>1. IsFiniteSet(AtomKeys) /\ AtomKeys \subseteq Keys /\ PinnedKeys \subseteq AtomKeys
    BY AtomsAssumption DEF AtomsAssumption
  <2>2. missing \in SUBSET AtomKeys
    BY <2>1
  <2> QED BY <2>1, <2>2, FS_Subset
<1>2. missing \cap Held(t) = {} /\ PinnedKeys \subseteq missing \cup Held(t) /\ missing \subseteq PinnedKeys
  BY <1>1 DEF Held
<1>3. WithPinned(t) = (CHOOSE h : IsPinning(h, t, m))[n]
  BY DEF WithPinned, IsPinning
<1> HIDE DEF missing
<1>4. m \in Seq(missing) /\ NoTwice(m) /\ ToSet(m) = missing
  BY <1>1, SetToSeqIs
<1> HIDE DEF m
<1>5. m \in Seq(Keys)
  BY <1>1, <1>4
<1>6. IsPinning(f, t, m)
  <2>1. \E h : IsPinning(h, t, m)
    BY <1>5, PinningExists
  <2> QED BY <2>1
<1>7. WithPinned(t) = f[n]
  BY <1>3
<1> HIDE DEF f
<1>8. n \in Nat /\ \A i \in 1..n : m[i] \in missing
  BY <1>4
<1>9. First(n) = missing
  BY <1>4, Members
<1>10. \A i \in 0..n : f[i] = IF i = 0 THEN t ELSE RawAdd(f[i - 1], m[i])
  BY <1>6 DEF IsPinning
<1> HIDE DEF n
<1>11. Bad = {}
  <2> SUFFICES ASSUME Bad # {} PROVE FALSE
    OBVIOUS
  <2>1. Bad \in SUBSET Nat
    <3> HIDE DEF Good
    <3> QED BY <1>8
  <2>2. PICK i \in Bad : \A x \in Bad : i <= x
    BY <2>1, SmallestExists
  <2>3. i \in 0..n /\ i \in Nat /\ ~Good(i)
    <3> HIDE DEF Good
    <3> QED BY <1>8
  <2>4. i # 0
    <3>1. f[0] = t /\ 0 \in 0..n
      BY <1>8, <1>10
    <3>2. First(0) = {}
      OBVIOUS
    <3> HIDE DEF First
    <3> QED BY <2>3, <3>1, <3>2
  <2>5. i - 1 \in 0..n /\ ~(i <= i - 1) /\ i \in 1..n
    BY <1>8, <2>3, <2>4
  <2>6. Good(i - 1)
    <3>1. i - 1 \notin Bad
      <4> HIDE DEF Bad
      <4> QED BY <2>2, <2>5
    <3> HIDE DEF Good
    <3> QED BY <2>5, <3>1
  <2>7. First(i) = First(i - 1) \cup {m[i]}
    <3>1. \A j \in 1..i : j \in 1..i - 1 \/ j = i
      BY <2>5
    <3>2. \A j \in 1..i - 1 : j \in 1..i
      BY <2>5
    <3>3. i \in 1..i
      BY <2>5
    <3> QED BY <3>1, <3>2, <3>3
  <2>8. m[i] \notin First(i - 1)
    <3> SUFFICES ASSUME NEW j \in 1..i - 1, m[j] = m[i] PROVE FALSE
      OBVIOUS
    <3>1. j \in 1..n /\ j # i /\ i \in 1..n
      BY <1>8, <2>5
    <3> QED BY <1>4, <3>1 DEF NoTwice, n
  <2>9. First(i - 1) \subseteq missing
    <3>1. \A j \in 1..i - 1 : j \in 1..n
      BY <1>8, <2>5
    <3> QED BY <1>8, <3>1
  <2>10. m[i] \in missing
    BY <1>8, <2>5
  <2>11. f[i] = RawAdd(f[i - 1], m[i])
    BY <1>10, <2>3, <2>4
  <2> HIDE DEF First, Bad
  <2> DEFINE p == f[i - 1]
             k == m[i]
  <2>12. /\ Counted(p) /\ Held(p) \subseteq AtomKeys /\ k \in AtomKeys /\ k \notin Held(p)
    BY <1>1, <1>2, <2>6, <2>8, <2>9, <2>10
  <2>13. Held(p) = Held(t) \cup First(i - 1) /\ f[i] = RawAdd(p, k) /\ First(i) = First(i - 1) \cup {k}
    BY <2>6, <2>7, <2>11
  <2> HIDE DEF p, k
  <2>14. Counted(RawAdd(p, k)) /\ Held(RawAdd(p, k)) = Held(p) \cup {k}
    BY <2>12, AddedIs
  <2>15. Good(i)
    BY <2>13, <2>14
  <2> HIDE DEF Good
  <2> QED BY <2>3, <2>15
<1>12. Good(n)
  <2>1. n \in 0..n
    BY <1>8
  <2> HIDE DEF Good
  <2> QED BY <1>11, <2>1
<1> QED BY <1>2, <1>7, <1>9, <1>12

----------------------------------------------------------------------------
(* The invariant.                                                          *)

\* The types, which hold more than types: a table whose count is right, and
\* who names atoms names atoms of the table.
Names ==
    /\ pinned \subseteq Held(atomTable) /\ interned \subseteq Held(atomTable)
    /\ scriptAtoms \subseteq Held(atomTable)
    /\ lastAtom # NoAtom => lastAtom \in Held(atomTable)
    /\ compiles \in Seq(SUBSET AtomKeys)
    /\ \A i \in 1..Len(compiles) : compiles[i] \subseteq Held(atomTable)

\* An atomization under way still lacks its atom, whose place is where it was.
\* A runtime without pinned names, between two contexts, atomizes nothing.
Unfinished ==
    pending # NoPending =>
        /\ pinned # {}
        /\ pending.key \in AtomKeys /\ pending.key \notin Held(atomTable)
        /\ pending.hep = Hep(atomTable, pending.key)

AtomsInv ==
    /\ Counted(atomTable) /\ Held(atomTable) \subseteq AtomKeys
    /\ Names
    /\ gcKeepAtoms = Len(compiles)
    /\ Unfinished

LEMMA PresentIs ==
  ASSUME AtomsInv
  PROVE  Present = Held(atomTable) /\ Entries(atomTable) \in Seq(Keys) /\ NoTwice(Entries(atomTable))
<1>1. Shaped(atomTable)
  BY DEF AtomsInv, Counted
<1> QED BY <1>1, EntriesAre DEF Present

LEMMA PinnedAreAtoms == PinnedKeys \subseteq AtomKeys /\ AtomKeys \subseteq Keys /\ NoAtom \notin AtomKeys
BY AtomsAssumption DEF AtomsAssumption

\* What a compilation holds is in the table when what it holds newly is.
LEMMA Holding ==
  ASSUME NEW k \in AtomKeys, NEW H, NEW G, H \subseteq G, k \in G, Hold(k),
         compiles \in Seq(SUBSET AtomKeys), \A i \in 1..Len(compiles) : compiles[i] \subseteq H
  PROVE  /\ compiles' \in Seq(SUBSET AtomKeys) /\ Len(compiles') = Len(compiles)
         /\ \A i \in 1..Len(compiles') : compiles'[i] \subseteq G
<1> DEFINE n == Len(compiles)
<1>1. n \in Nat /\ \A i \in 1..n : compiles[i] \in SUBSET AtomKeys
  OBVIOUS
<1>2. CASE compiles = <<>>
  BY <1>2 DEF Hold
<1>3. CASE compiles # <<>>
  <2>1. compiles' = [compiles EXCEPT ![n] = compiles[n] \cup {k}] /\ n \in 1..n
    BY <1>3 DEF Hold
  <2>2. compiles[n] \cup {k} \in SUBSET AtomKeys
    BY <1>1, <2>1
  <2> DEFINE d == compiles[n] \cup {k}
  <2>3. d \subseteq G /\ d \in SUBSET AtomKeys
    BY <2>1, <2>2
  <2>4. compiles' = [compiles EXCEPT ![n] = d]
    BY <2>1
  <2> DEFINE T == SUBSET AtomKeys
  <2>6. d \in T /\ compiles \in Seq(T)
    BY <2>3
  <2> HIDE DEF d, T
  <2>5. /\ compiles' \in Seq(T) /\ Len(compiles') = n
        /\ \A i \in 1..n : compiles'[i] = IF i = n THEN d ELSE compiles[i]
    <3>1. /\ [compiles EXCEPT ![n] = d] \in Seq(T) /\ Len([compiles EXCEPT ![n] = d]) = n
          /\ \A i \in 1..n : [compiles EXCEPT ![n] = d][i] = IF i = n THEN d ELSE compiles[i]
      BY <2>1, <2>6, ExceptSeq
    <3> HIDE DEF n
    <3> QED BY <2>4, <3>1
  <2> USE DEF T
  <2> QED BY <2>3, <2>5
<1> QED BY <1>2, <1>3

LEMMA AtomsStart == ATInit => AtomsInv
<1> SUFFICES ASSUME ATInit PROVE AtomsInv
  OBVIOUS
<1>1. Counted(NewTable) /\ Held(NewTable) = {}
  BY NewTableIs
<1>2. Counted(WithPinned(NewTable)) /\ Held(WithPinned(NewTable)) = PinnedKeys
  BY <1>1, WithPinnedIs
<1>3. Counted(atomTable) /\ Held(atomTable) = PinnedKeys
  BY <1>2 DEF ATInit
<1>4. <<>> \in Seq(SUBSET AtomKeys) /\ Len(<<>>) = 0
  OBVIOUS
<1>5. Names
  BY <1>3, <1>4 DEF ATInit, Names
<1>6. Unfinished
  BY DEF ATInit, Unfinished
<1> QED BY <1>3, <1>4, <1>5, <1>6, PinnedAreAtoms DEF AtomsInv, ATInit

LEMMA FoundKeeps ==
  ASSUME AtomsInv, NEW k \in AtomKeys, NEW intern \in BOOLEAN, AtomizeFound(k, intern)
  PROVE  AtomsInv'
<1>1. /\ Counted(atomTable) /\ Shaped(atomTable) /\ Held(atomTable) \subseteq AtomKeys /\ Names
      /\ gcKeepAtoms = Len(compiles)
  BY DEF AtomsInv, Counted
<1>2. HasKey(atomTable, k) /\ atomTable' = FoundFirst(atomTable, k) /\ k \in Keys /\ k \in Held(atomTable)
  BY PinnedAreAtoms DEF AtomizeFound, Held
<1>3. Counted(atomTable') /\ Held(atomTable') = Held(atomTable)
  BY <1>1, <1>2, FoundFirstIs DEF Counted
<1>4. /\ interned' \subseteq interned \cup {k} /\ lastAtom' = k /\ Hold(k)
      /\ pinned' = pinned /\ gcKeepAtoms' = gcKeepAtoms /\ scriptAtoms' = scriptAtoms
      /\ pending' = NoPending
  BY DEF AtomizeFound
<1>5. /\ compiles' \in Seq(SUBSET AtomKeys) /\ Len(compiles') = Len(compiles)
      /\ \A i \in 1..Len(compiles') : compiles'[i] \subseteq Held(atomTable)
  BY <1>1, <1>2, <1>4, Holding DEF Names
<1>6. Names'
  BY <1>1, <1>2, <1>3, <1>4, <1>5 DEF Names
<1>7. Unfinished'
  BY <1>4 DEF Unfinished, NoPending
<1> QED BY <1>1, <1>3, <1>4, <1>5, <1>6, <1>7 DEF AtomsInv

LEMMA NewKeeps ==
  ASSUME AtomsInv, pinned # {}, NEW k \in AtomKeys, NEW intern \in BOOLEAN, AtomizeNew(k, intern)
  PROVE  AtomsInv'
<1>1. /\ Counted(atomTable) /\ Held(atomTable) \subseteq AtomKeys /\ Names
      /\ gcKeepAtoms = Len(compiles)
  BY DEF AtomsInv
<1>2. /\ ~HasKey(atomTable, k)
      /\ pending' = [key |-> k, intern |-> intern, hep |-> Hep(atomTable, k)]
      /\ atomTable' = atomTable /\ pinned' = pinned /\ interned' = interned /\ lastAtom' = lastAtom
      /\ gcKeepAtoms' = gcKeepAtoms /\ compiles' = compiles /\ scriptAtoms' = scriptAtoms
  BY DEF AtomizeNew, holders
<1>3. Names'
  BY <1>1, <1>2 DEF Names
<1>4. pending'.key = k /\ pending'.hep = Hep(atomTable, k) /\ k \notin Held(atomTable)
  BY <1>2 DEF Held
<1>5. Unfinished'
  BY <1>2, <1>4 DEF Unfinished
<1> QED BY <1>1, <1>2, <1>3, <1>5 DEF AtomsInv

LEMMA AddKeeps ==
  ASSUME AtomsInv, AtomizeAdd
  PROVE  AtomsInv'
<1> DEFINE k == pending.key
<1>1. /\ Counted(atomTable) /\ Held(atomTable) \subseteq AtomKeys /\ Names
      /\ gcKeepAtoms = Len(compiles)
  BY DEF AtomsInv
<1>2. k \in AtomKeys /\ k \notin Held(atomTable)
  BY DEF AtomsInv, Unfinished, AtomizeAdd
<1>3. /\ atomTable' = RawAdd(atomTable, k)
      /\ interned' \subseteq interned \cup {k} /\ lastAtom' = k /\ Hold(k)
      /\ pinned' = pinned /\ gcKeepAtoms' = gcKeepAtoms /\ scriptAtoms' = scriptAtoms
      /\ pending' = NoPending
  BY DEF AtomizeAdd
<1> HIDE DEF k
<1>4. Counted(atomTable') /\ Held(atomTable') = Held(atomTable) \cup {k}
  BY <1>1, <1>2, <1>3, AddedIs
<1>5. /\ compiles' \in Seq(SUBSET AtomKeys) /\ Len(compiles') = Len(compiles)
      /\ \A i \in 1..Len(compiles') : compiles'[i] \subseteq Held(atomTable')
  <2>1. Held(atomTable) \subseteq Held(atomTable') /\ k \in Held(atomTable')
    BY <1>4
  <2> QED BY <1>1, <1>2, <1>3, <2>1, Holding DEF Names
<1>6. Names'
  BY <1>1, <1>2, <1>3, <1>4, <1>5 DEF Names
<1>7. Unfinished'
  BY <1>3 DEF Unfinished, NoPending
<1> QED BY <1>1, <1>2, <1>3, <1>4, <1>5, <1>6, <1>7 DEF AtomsInv

LEMMA FailsKeeps ==
  ASSUME AtomsInv, AtomizeFails
  PROVE  AtomsInv'
<1>1. pending' = NoPending
  BY DEF AtomizeFails
<1>2. Unfinished'
  BY <1>1 DEF Unfinished, NoPending
<1>3. Names'
  BY DEF AtomsInv, Names, AtomizeFails, holders
<1> QED BY <1>2, <1>3 DEF AtomsInv, AtomizeFails, holders

LEMMA BeginKeeps ==
  ASSUME AtomsInv, BeginCompile
  PROVE  AtomsInv'
<1>1. /\ atomTable' = atomTable /\ pinned' = pinned /\ interned' = interned /\ lastAtom' = lastAtom
      /\ scriptAtoms' = scriptAtoms /\ pending' = pending
      /\ gcKeepAtoms' = gcKeepAtoms + 1 /\ compiles' = Append(compiles, {}) /\ pending = NoPending
  BY DEF BeginCompile
<1>2. Names /\ gcKeepAtoms = Len(compiles)
  BY DEF AtomsInv
<1>3. /\ compiles' \in Seq(SUBSET AtomKeys) /\ Len(compiles') = Len(compiles) + 1
      /\ \A i \in 1..Len(compiles') : compiles'[i] \subseteq Held(atomTable)
  <2>1. compiles \in Seq(SUBSET AtomKeys) /\ \A i \in 1..Len(compiles) : compiles[i] \subseteq Held(atomTable)
    BY <1>2 DEF Names
  <2>2. {} \in SUBSET AtomKeys
    OBVIOUS
  <2>3. /\ compiles' \in Seq(SUBSET AtomKeys) /\ Len(compiles') = Len(compiles) + 1
        /\ compiles'[Len(compiles) + 1] = {}
        /\ \A i \in 1..Len(compiles) : compiles'[i] = compiles[i]
    BY <1>1, <2>1, <2>2
  <2>4. \A i \in 1..Len(compiles) + 1 : i \in 1..Len(compiles) \/ i = Len(compiles) + 1
    <3>1. Len(compiles) \in Nat
      BY <2>1
    <3> QED BY <3>1
  <2> DEFINE n == Len(compiles)
             m == Len(compiles')
             G == Held(atomTable)
  <2>5. \A i \in 1..m : compiles'[i] \subseteq G
    <3>1. /\ m = n + 1 /\ compiles'[n + 1] = {} /\ \A i \in 1..n : compiles'[i] = compiles[i]
          /\ \A i \in 1..n : compiles[i] \subseteq G
          /\ \A i \in 1..n + 1 : i \in 1..n \/ i = n + 1
      BY <2>1, <2>3, <2>4
    <3> HIDE DEF n, m, G
    <3> QED BY ONLY <3>1
  <2> QED BY <2>3, <2>5
<1>4. Names'
  BY <1>1, <1>2, <1>3 DEF Names
<1>5. Unfinished'
  BY <1>1 DEF Unfinished
<1> QED BY <1>1, <1>2, <1>3, <1>4, <1>5 DEF AtomsInv

LEMMA EndKeeps ==
  ASSUME AtomsInv, EndCompile
  PROVE  AtomsInv'
<1> DEFINE n == Len(compiles)
<1>1. /\ atomTable' = atomTable /\ pinned' = pinned /\ interned' = interned /\ lastAtom' = lastAtom
      /\ pending' = pending /\ pending = NoPending
      /\ gcKeepAtoms' = gcKeepAtoms - 1 /\ compiles' = Front(compiles) /\ compiles # <<>>
      /\ scriptAtoms' = scriptAtoms \cup Last(compiles) \/ scriptAtoms' = scriptAtoms
  BY DEF EndCompile
<1>2. Names /\ gcKeepAtoms = Len(compiles)
  BY DEF AtomsInv
<1>3. compiles \in Seq(SUBSET AtomKeys) /\ \A i \in 1..n : compiles[i] \subseteq Held(atomTable)
  BY <1>2 DEF Names
<1>4. n \in Nat /\ n \in 1..n
  BY <1>1, <1>3
<1>5. /\ compiles' \in Seq(SUBSET AtomKeys) /\ Len(compiles') = n - 1
      /\ \A i \in 1..n - 1 : compiles'[i] = compiles[i]
  <2>1. compiles' = SubSeq(compiles, 1, n - 1)
    BY <1>1 DEF Front
  <2>2. n - 1 \in Nat /\ n - 1 \in 0..n /\ \A i \in 1..n - 1 : i \in 1..n
    BY <1>4
  <2>3. SubSeq(compiles, 1, n - 1) = [i \in 1..n - 1 |-> compiles[i]]
    <3>1. SubSeq(compiles, 1, n - 1) = [i \in 1..(1 + (n - 1) - 1) |-> compiles[1 + i - 1]]
      BY <1>3, <1>4
    <3> QED BY <1>4, <3>1
  <2>4. \A i \in 1..n : compiles[i] \in SUBSET AtomKeys
    BY <1>3
  <2> HIDE DEF n
  <2> QED BY <2>1, <2>2, <2>3, <2>4
<1>6. scriptAtoms' \subseteq Held(atomTable)
  BY <1>1, <1>2, <1>3, <1>4 DEF Last, Names
<1>7. \A i \in 1..n - 1 : i \in 1..n
  BY <1>4
<1> HIDE DEF n
<1>8. Names'
  BY <1>1, <1>2, <1>3, <1>5, <1>6, <1>7 DEF Names
<1>9. Unfinished'
  BY <1>1 DEF Unfinished
<1> QED BY <1>1, <1>2, <1>5, <1>8, <1>9 DEF AtomsInv, n

LEMMA DropKeeps ==
  ASSUME AtomsInv, DropScripts
  PROVE  AtomsInv'
<1>1. Names' /\ Unfinished'
  BY DEF AtomsInv, Names, Unfinished, DropScripts
<1> QED BY <1>1 DEF AtomsInv, DropScripts

LEMMA SweepIs ==
  ASSUME AtomsInv, NEW K, Sweep(K)
  PROVE  /\ Counted(atomTable') /\ Held(atomTable') = Held(atomTable) \cap K
         /\ Held(atomTable) \subseteq K => atomTable' = atomTable
<1>1. PICK memory \in BOOLEAN : atomTable' = EnumerateKeeping(atomTable, K, memory)
  BY DEF Sweep
<1>2. Counted(atomTable)
  BY DEF AtomsInv
<1> QED BY <1>1, <1>2, EnumerateIs

LEMMA LastDitchKeepsAll ==
  ASSUME AtomsInv, CollectLastDitch
  PROVE  AtomsInv'
<1>1. Sweep(Held(atomTable))
  BY PresentIs DEF CollectLastDitch, Marked, LastDitchKeeps
<1>2. atomTable' = atomTable
  BY <1>1, SweepIs
<1>3. Names' /\ Unfinished'
  BY <1>2 DEF AtomsInv, Names, Unfinished, CollectLastDitch, holders
<1> QED BY <1>2, <1>3 DEF AtomsInv, CollectLastDitch, holders

LEMMA CollectKeeps ==
  ASSUME AtomsInv, Collect
  PROVE  AtomsInv'
<1> DEFINE K == Marked(gcKeepAtoms > 0, lastAtom')
           H == Held(atomTable)
           H1 == Held(atomTable')
<1>1. /\ pinned' = pinned /\ interned' = interned /\ gcKeepAtoms' = gcKeepAtoms
      /\ compiles' = compiles /\ scriptAtoms' = scriptAtoms /\ pending' = pending /\ pending = NoPending
      /\ lastAtom' = lastAtom \/ lastAtom' = NoAtom
      /\ Sweep(K)
  BY DEF Collect, holders
<1>2. /\ H \subseteq AtomKeys /\ gcKeepAtoms = Len(compiles)
      /\ Names
  BY DEF AtomsInv
<1>3. /\ K = IF gcKeepAtoms > 0 THEN H
             ELSE (pinned \cup interned \cup scriptAtoms \cup {lastAtom'}) \cap H
  BY PresentIs DEF Marked
<1>4. Counted(atomTable') /\ H1 = H \cap K
  BY <1>1, SweepIs
<1> HIDE DEF K
<1>5. /\ pinned \subseteq H /\ interned \subseteq H /\ scriptAtoms \subseteq H
      /\ lastAtom # NoAtom => lastAtom \in H
      /\ compiles \in Seq(SUBSET AtomKeys)
      /\ \A i \in 1..Len(compiles) : compiles[i] \subseteq H
  BY <1>2 DEF Names
<1>6. H1 \subseteq H
  BY <1>4
<1>7. /\ pinned \subseteq H1 /\ interned \subseteq H1 /\ scriptAtoms \subseteq H1
      /\ lastAtom' # NoAtom => lastAtom' \in H1
  BY <1>1, <1>3, <1>4, <1>5
<1>8. \A i \in 1..Len(compiles) : compiles[i] \subseteq H1
  <2>1. CASE gcKeepAtoms > 0
    BY <1>3, <1>4, <1>5, <2>1
  <2>2. CASE ~(gcKeepAtoms > 0)
    <3>1. Len(compiles) = 0
      <4>1. Len(compiles) \in Nat
        BY <1>5
      <4> QED BY <1>2, <2>2, <4>1
    <3> QED BY <3>1
  <2> QED BY <2>1, <2>2
<1>9. Names'
  BY <1>1, <1>5, <1>7, <1>8 DEF Names
<1>10. Unfinished'
  BY <1>1 DEF Unfinished
<1> QED BY <1>1, <1>2, <1>4, <1>6, <1>9, <1>10 DEF AtomsInv

LEMMA UnpinKeeps ==
  ASSUME AtomsInv, UnpinAndCollect
  PROVE  AtomsInv'
<1>1. /\ pinned' = {} /\ interned' = interned /\ gcKeepAtoms' = gcKeepAtoms
      /\ compiles' = compiles /\ scriptAtoms' = scriptAtoms /\ pending' = pending
      /\ pending = NoPending /\ compiles = <<>> /\ scriptAtoms = {} /\ lastAtom' = NoAtom
      /\ Sweep(interned)
  BY DEF UnpinAndCollect, holders
<1>2. Names /\ gcKeepAtoms = Len(compiles) /\ Held(atomTable) \subseteq AtomKeys
  BY DEF AtomsInv
<1>3. Counted(atomTable') /\ Held(atomTable') = Held(atomTable) \cap interned
  BY <1>1, SweepIs
<1>4. Len(compiles) = 0 /\ compiles \in Seq(SUBSET AtomKeys)
  BY <1>1
<1>5. Names'
  BY <1>1, <1>2, <1>3, <1>4 DEF Names
<1>6. Unfinished'
  BY <1>1 DEF Unfinished
<1> QED BY <1>1, <1>2, <1>3, <1>5, <1>6 DEF AtomsInv

LEMMA PinKeeps ==
  ASSUME AtomsInv, PinAgain
  PROVE  AtomsInv'
<1>1. /\ pinned = {} /\ pinned' = PinnedKeys /\ interned' = interned /\ lastAtom' = lastAtom
      /\ gcKeepAtoms' = gcKeepAtoms /\ compiles' = compiles /\ scriptAtoms' = scriptAtoms
      /\ pending' = pending /\ atomTable' = WithPinned(atomTable)
  BY DEF PinAgain, holders
<1>2. /\ Names /\ gcKeepAtoms = Len(compiles) /\ Held(atomTable) \subseteq AtomKeys
      /\ Counted(atomTable) /\ Unfinished
  BY DEF AtomsInv
<1>3. Counted(atomTable') /\ Held(atomTable') = Held(atomTable) \cup PinnedKeys
  BY <1>1, <1>2, WithPinnedIs
<1>4. pending = NoPending
  BY <1>1, <1>2 DEF Unfinished
<1>5. Names'
  BY <1>1, <1>2, <1>3 DEF Names
<1>6. Unfinished'
  BY <1>1, <1>4 DEF Unfinished, NoPending
<1> QED BY <1>1, <1>2, <1>3, <1>5, <1>6, PinnedAreAtoms DEF AtomsInv

LEMMA AtomsStutter ==
  ASSUME AtomsInv, UNCHANGED atomVars
  PROVE  AtomsInv'
<1>1. Names' /\ Unfinished'
  BY DEF AtomsInv, Names, Unfinished, atomVars
<1> QED BY <1>1 DEF AtomsInv, atomVars

LEMMA AtomsKept == AtomsInv /\ [ATNext]_atomVars => AtomsInv'
<1> SUFFICES ASSUME AtomsInv, [ATNext]_atomVars PROVE AtomsInv'
  OBVIOUS
<1>1. CASE PinAgain
  BY <1>1, PinKeeps
<1>2. ASSUME pinned # {}, Working PROVE AtomsInv'
  <2>1. ASSUME NEW k \in AtomKeys, NEW intern \in BOOLEAN,
               AtomizeFound(k, intern) \/ AtomizeNew(k, intern)
        PROVE  AtomsInv'
    BY <1>2, <2>1, FoundKeeps, NewKeeps
  <2>2. CASE AtomizeAdd
    BY <2>2, AddKeeps
  <2>3. CASE AtomizeFails
    BY <2>3, FailsKeeps
  <2>4. CASE BeginCompile
    BY <2>4, BeginKeeps
  <2>5. CASE EndCompile
    BY <2>5, EndKeeps
  <2>6. CASE DropScripts
    BY <2>6, DropKeeps
  <2>7. CASE CollectLastDitch
    BY <2>7, LastDitchKeepsAll
  <2>8. CASE Collect
    BY <2>8, CollectKeeps
  <2>9. CASE UnpinAndCollect
    BY <2>9, UnpinKeeps
  <2> QED BY <1>2, <2>1, <2>2, <2>3, <2>4, <2>5, <2>6, <2>7, <2>8, <2>9 DEF Working
<1>3. CASE UNCHANGED atomVars
  BY <1>3, AtomsStutter
<1> QED BY <1>1, <1>2, <1>3 DEF ATNext

LEMMA AtomsInvExact == AtomsInv => AtomsExact
<1> SUFFICES ASSUME AtomsInv PROVE AtomsExact
  OBVIOUS
<1> DEFINE H == Held(atomTable)
           e == Entries(atomTable)
<1>1. Counted(atomTable) /\ Shaped(atomTable) /\ Names /\ Unfinished
  BY DEF AtomsInv, Counted
<1>2. ToSet(e) = H /\ Len(e) = Cardinality(H) /\ atomTable.n = Cardinality(H)
  BY <1>1, EntriesAre DEF Counted
<1>3. \A k \in H : HasKey(atomTable, k)
  BY DEF Held
<1>4. pending # NoPending => pending.key \notin H /\ pending.hep = Hep(atomTable, pending.key)
  BY <1>1 DEF Unfinished
<1> HIDE DEF H
<1>5. UNION ToSet(compiles) \subseteq H
  <2>1. compiles \in Seq(SUBSET AtomKeys) /\ \A i \in 1..Len(compiles) : compiles[i] \subseteq H
    BY <1>1 DEF Names, H
  <2>2. DOMAIN compiles = 1..Len(compiles)
    BY <2>1
  <2> QED BY <2>1, <2>2 DEF ToSet
<1>6. scriptAtoms \cup pinned \cup interned \cup ({lastAtom} \ {NoAtom}) \subseteq H
  BY <1>1 DEF Names, H
<1> QED BY <1>2, <1>3, <1>4, <1>5, <1>6 DEF AtomsExact

\* The table's count is right, whoever names an atom names one of the table,
\* and an atomization under way has its place (js_AtomizeString, jsatom.c).
THEOREM AtomsInvariant == ATSpec => []AtomsInv
<1>1. ATInit => AtomsInv
  BY AtomsStart
<1>2. AtomsInv /\ [ATNext]_atomVars => AtomsInv'
  BY AtomsKept
<1> QED BY <1>1, <1>2, PTL DEF ATSpec

\* One atom for a key, and none swept that someone can name.
THEOREM AtomsCorrect == ATSpec => []AtomsExact
BY AtomsInvariant, AtomsInvExact, PTL
=============================================================================
