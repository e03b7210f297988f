--------------------------- MODULE PropTreeProofs ---------------------------
(***************************************************************************)
(* Theorems about PropTree, for any scopes, ids, attributes, number of     *)
(* nodes and threshold for tables: every scope is an ordered map of its    *)
(* own, that is, PropTree implements OrderedProps.                         *)
(*                                                                         *)
(* The invariant says of the tree that its parent links are a forest, and  *)
(* of a scope that was not torn that it counts some set of the nodes of    *)
(* its line (Counts).  Each call is taken apart into what it does to the   *)
(* tree, which at most grows (Extends) or, when it is swept, loses nodes   *)
(* no scope counts (Shrinks), and what it does to the list of pairs of the *)
(* one scope it is for.                                                    *)
(***************************************************************************)
EXTENDS PropTree, FiniteSetTheorems, FunctionTheorems, SequenceTheorems, WellFoundedInduction, TLAPS

----------------------------------------------------------------------------
(* Least numbers, iteration and sequences.                                 *)

\* A set of naturals that is not empty has a least one.
LEMMA SmallestExists ==
  ASSUME NEW T \in SUBSET Nat, T # {}
  PROVE  \E m \in T : \A x \in T : m <= x
<1>1. PICK m \in T : \A x \in T : ~(<<x, m>> \in OpToRel(<, Nat))
  BY NatLessThanWellFounded, WFMin
<1>2. ASSUME NEW x \in T PROVE m <= x
  <2>1. ASSUME x < m PROVE <<x, m>> \in OpToRel(<, Nat)
    BY <2>1 DEF OpToRel
  <2>2. ~(x < m) /\ x \in Nat /\ m \in Nat
    BY <1>1, <2>1
  <2> QED BY ONLY <2>2
<1> QED BY <1>2

LEMMA MinIsLeast ==
  ASSUME NEW T \in SUBSET Nat, T # {}
  PROVE  Min(T) \in T /\ \A x \in T : Min(T) <= x
BY SmallestExists DEF Min

IsIterated(f, base, g, n) ==
    \A i \in 0..n : f[i] = IF i = 0 THEN base ELSE g[<<f[i - 1], i>>]

\* A recursion over 0..n has a solution.
LEMMA IteratedExists ==
  ASSUME NEW n \in Nat, NEW T, NEW base \in T, NEW g \in [T \X Nat -> T]
  PROVE  \E f \in [0..n -> T] : IsIterated(f, base, g, n)
<1> DEFINE Good(m) == \E f \in [0..m -> T] : IsIterated(f, base, g, m)
           Bad == {m \in Nat : ~Good(m)}
<1>1. Bad = {}
  <2> SUFFICES ASSUME Bad # {} PROVE FALSE
    OBVIOUS
  <2>1. Bad \in SUBSET Nat
    OBVIOUS
  <2>2. PICK m \in Bad : \A x \in Bad : m <= x
    BY <2>1, SmallestExists
  <2>3. m \in Nat /\ ~Good(m)
    OBVIOUS
  <2>4. m # 0
    <3> DEFINE f == [i \in 0..0 |-> base]
    <3>1. f \in [0..0 -> T] /\ IsIterated(f, base, g, 0)
      BY DEF IsIterated
    <3> QED BY <2>3, <3>1
  <2>5. m - 1 \in Nat /\ m - 1 \notin Bad
    BY <2>2, <2>3, <2>4
  <2>6. PICK f \in [0..m - 1 -> T] : IsIterated(f, base, g, m - 1)
    BY <2>5
  <2> HIDE DEF Bad
  <2> DEFINE v == g[<<f[m - 1], m>>]
             h == [i \in 0..m |-> IF i = m THEN v ELSE f[i]]
  <2>7. v \in T
    <3>1. f[m - 1] \in T
      BY <2>5
    <3> QED BY <2>3, <3>1
  <2>8. h \in [0..m -> T]
    BY <2>3, <2>7
  <2>9. IsIterated(h, base, g, m)
    <3> SUFFICES ASSUME NEW i \in 0..m PROVE h[i] = IF i = 0 THEN base ELSE g[<<h[i - 1], i>>]
      BY DEF IsIterated
    <3>1. CASE i = m
      <4>1. h[i] = v /\ h[m - 1] = f[m - 1]
        BY <2>3, <2>4, <3>1
      <4> QED BY <2>4, <3>1, <4>1
    <3>2. CASE i # m
      <4>1. i \in 0..m - 1 /\ h[i] = f[i]
        BY <2>3, <3>2
      <4>2. i # 0 => h[i - 1] = f[i - 1]
        BY <2>3, <4>1
      <4>3. f[i] = IF i = 0 THEN base ELSE g[<<f[i - 1], i>>]
        BY <2>6, <4>1 DEF IsIterated
      <4> HIDE DEF h
      <4> QED BY <4>1, <4>2, <4>3
    <3> QED BY <3>1, <3>2
  <2> HIDE DEF h
  <2> QED BY <2>3, <2>8, <2>9
<1> QED BY <1>1

NoTwice(s) == \A i, j \in 1..Len(s) : s[i] = s[j] => i = j

\* The members of a sequence are what it holds at its places.
LEMMA Members ==
  ASSUME NEW K, NEW s \in Seq(K)
  PROVE  /\ ToSet(s) = {s[i] : i \in 1..Len(s)} /\ ToSet(s) \in SUBSET K /\ Len(s) \in Nat
         /\ \A i \in 1..Len(s) : s[i] \in ToSet(s)
         /\ \A x \in ToSet(s) : \E i \in 1..Len(s) : s[i] = x
<1>1. Len(s) \in Nat /\ DOMAIN s = 1..Len(s) /\ \A i \in 1..Len(s) : s[i] \in K
  OBVIOUS
<1> QED BY <1>1 DEF ToSet

\* ... and of a longer one, these and the new one.
LEMMA Appended ==
  ASSUME NEW K, NEW s \in Seq(K), NEW x \in K
  PROVE  /\ Append(s, x) \in Seq(K) /\ ToSet(Append(s, x)) = ToSet(s) \cup {x}
         /\ NoTwice(s) /\ x \notin ToSet(s) => NoTwice(Append(s, x))
<1> DEFINE t == Append(s, x)
           n == Len(s)
<1>1. /\ t \in Seq(K) /\ Len(t) = n + 1 /\ n \in Nat
      /\ t[n + 1] = x /\ \A i \in 1..n : t[i] = s[i]
  OBVIOUS
<1>2. \A i \in 1..n : s[i] \in ToSet(s)
  BY Members
<1>3. \A y \in ToSet(s) : \E i \in 1..n : s[i] = y
  BY Members
<1>4. \A y \in ToSet(t) : \E i \in 1..n + 1 : t[i] = y
  <2> HIDE DEF t
  <2>1. \A y \in ToSet(t) : \E i \in 1..Len(t) : t[i] = y
    BY <1>1, Members
  <2> QED BY <1>1, <2>1
<1>5. \A i \in 1..n + 1 : t[i] \in ToSet(t)
  BY <1>1, Members
<1> HIDE DEF t, n
<1>6. ASSUME NEW y \in ToSet(t) PROVE y \in ToSet(s) \cup {x}
  <2>1. PICK i \in 1..n + 1 : t[i] = y
    BY <1>4
  <2>2. CASE i = n + 1
    BY <1>1, <2>1, <2>2
  <2>3. CASE i # n + 1
    <3>1. i \in 1..n
      BY <1>1, <2>3
    <3> QED BY <1>1, <1>2, <2>1, <3>1
  <2> QED BY <2>2, <2>3
<1>7. ASSUME NEW y \in ToSet(s) \cup {x} PROVE y \in ToSet(t)
  <2>1. CASE y = x
    <3>1. n + 1 \in 1..n + 1
      BY <1>1
    <3> QED BY <1>1, <1>5, <2>1, <3>1
  <2>2. CASE y \in ToSet(s)
    <3>1. PICK i \in 1..n : s[i] = y
      BY <1>3, <2>2
    <3>2. i \in 1..n + 1
      BY <1>1
    <3> QED BY <1>1, <1>5, <3>1, <3>2
  <2> QED BY <2>1, <2>2
<1>8. ASSUME NoTwice(s), x \notin ToSet(s) PROVE NoTwice(t)
  <2> SUFFICES ASSUME NEW i \in 1..n + 1, NEW j \in 1..n + 1, t[i] = t[j] PROVE i = j
    BY <1>1 DEF NoTwice
  <2>1. CASE i = n + 1 /\ j # n + 1
    <3>1. j \in 1..n
      BY <1>1, <2>1
    <3> QED BY <1>1, <1>2, <1>8, <2>1, <3>1
  <2>2. CASE j = n + 1 /\ i # n + 1
    <3>1. i \in 1..n
      BY <1>1, <2>2
    <3> QED BY <1>1, <1>2, <1>8, <2>2, <3>1
  <2>3. CASE i # n + 1 /\ j # n + 1
    <3>1. i \in 1..n /\ j \in 1..n
      BY <1>1, <2>3
    <3>2. s[i] = s[j]
      BY <1>1, <3>1
    <3> QED BY <1>8, <3>1, <3>2 DEF NoTwice, n
  <2> QED BY <2>1, <2>2, <2>3
<1> QED BY <1>1, <1>6, <1>7, <1>8 DEF t

----------------------------------------------------------------------------
(* The tree.                                                               *)

NodeRecords == {FreeNode} \cup [id : PTIds, attrs : PTAttrs, parent : PTNodes \cup {NoNode}]

\* Parents come before their kids in some order.
Ranking(t, r, b) ==
    /\ r \in [PTNodes -> 0..b]
    /\ \A n \in PTNodes : t.nodes[n].parent # NoNode => r[t.nodes[n].parent] < r[n]

\* ... in an order of so many ranks.
Ranked(t) == \E b \in Nat : \E r : Ranking(t, r, b)

Treelike(t) == t.nodes \in [PTNodes -> NodeRecords] /\ Ranked(t)

\* The parent of a node in use is in use, and so is a root, which has none.
TreeOK(t) ==
    /\ Treelike(t) /\ t = [nodes |-> t.nodes, roots |-> t.roots]
    /\ \A n \in NodesInUse(t) : t.nodes[n].parent \in NodesInUse(t) \cup {NoNode}
    /\ \A n \in t.roots : n \in NodesInUse(t) /\ t.nodes[n].parent = NoNode

\* The nodes of n's line.
On(t, n) == ToSet(Line(t, n))

\* What a node that is in use holds, and one that is not.
LEMMA NodeFacts ==
  ASSUME NEW t, Treelike(t)
  PROVE  /\ NoNode \notin PTNodes /\ NodesInUse(t) \subseteq PTNodes
         /\ \A n \in PTNodes : t.nodes[n].parent \in PTNodes \cup {NoNode}
         /\ \A n \in NodesInUse(t) : t.nodes[n].id \in PTIds /\ t.nodes[n].attrs \in PTAttrs
         /\ \A n \in PTNodes \ NodesInUse(t) : t.nodes[n] = FreeNode
<1>1. NoNode \notin PTNodes /\ \A n \in PTNodes : t.nodes[n] \in NodeRecords
  BY PropTreeAssumption DEF PTNodes, Treelike
<1> QED BY <1>1 DEF NodeRecords, FreeNode, NodesInUse

\* What holds of no node, and of each node if of its parent, holds of all.
LEMMA NodeInduction ==
  ASSUME NEW t, Treelike(t), NEW G, NoNode \in G,
         \A n \in PTNodes : t.nodes[n].parent \in G => n \in G
  PROVE  PTNodes \subseteq G
<1> SUFFICES ASSUME ~(PTNodes \subseteq G) PROVE FALSE
  OBVIOUS
<1>1. PICK b \in Nat : \E r : Ranking(t, r, b)
  BY DEF Treelike, Ranked
<1>2. PICK r : Ranking(t, r, b)
  BY <1>1
<1>3. \A n \in PTNodes : r[n] \in Nat
  BY <1>2 DEF Ranking
<1> DEFINE T == {r[n] : n \in PTNodes \ G}
<1>4. T \in SUBSET Nat /\ T # {}
  BY <1>3
<1>5. PICK k \in T : \A x \in T : k <= x
  BY <1>4, SmallestExists
<1>6. PICK n \in PTNodes \ G : r[n] = k
  BY <1>5
<1>7. t.nodes[n].parent \notin G /\ t.nodes[n].parent \in PTNodes
  BY <1>6, NodeFacts
<1>8. r[t.nodes[n].parent] < r[n] /\ r[t.nodes[n].parent] \in T
  BY <1>2, <1>6, <1>7 DEF Ranking
<1>9. r[n] <= r[t.nodes[n].parent] /\ r[n] \in Nat /\ r[t.nodes[n].parent] \in Nat
  BY <1>3, <1>5, <1>6, <1>7, <1>8
<1> QED BY ONLY <1>8, <1>9

----------------------------------------------------------------------------
(* Lines.                                                                  *)

\* What LineIn chooses.
IsLine(f, t, S) ==
    f = [m \in PTNodes \cup {NoNode} |->
            IF m = NoNode THEN <<>>
            ELSE IF m \in S THEN Append(f[t.nodes[m].parent], m)
            ELSE f[t.nodes[m].parent]]

\* The recursion of LineIn is over parents, which end.
LEMMA LineExists ==
  ASSUME NEW t, Treelike(t), NEW S
  PROVE  \E f : IsLine(f, t, S)
<1>1. PICK b \in Nat : \E r : Ranking(t, r, b)
  BY DEF Treelike, Ranked
<1>2. PICK r : Ranking(t, r, b)
  BY <1>1
<1>3. \A n \in PTNodes : r[n] \in 0..b /\ r[n] \in Nat /\ n # NoNode
  BY <1>2, NodeFacts DEF Ranking
<1> DEFINE D == PTNodes \cup {NoNode}
           Next1(f, m) == IF m = NoNode THEN <<>>
                          ELSE IF m \in S THEN Append(f[t.nodes[m].parent], m)
                          ELSE f[t.nodes[m].parent]
           Upto(k, f) == \A m \in D : m = NoNode \/ r[m] < k => f[m] = Next1(f, m)
           Bad == {k \in Nat : ~\E f : Upto(k, f)}
<1>4. Bad = {}
  <2> SUFFICES ASSUME Bad # {} PROVE FALSE
    OBVIOUS
  <2>1. Bad \in SUBSET Nat
    OBVIOUS
  <2>2. PICK k \in Bad : \A x \in Bad : k <= x
    BY <2>1, SmallestExists
  <2>3. k \in Nat /\ ~\E f : Upto(k, f)
    OBVIOUS
  <2>4. k # 0
    <3> SUFFICES ASSUME k = 0 PROVE FALSE
      OBVIOUS
    <3> DEFINE f == [m \in D |-> <<>>]
    <3>1. Upto(0, f)
      BY <1>3
    <3> HIDE DEF f, Upto
    <3> QED BY <2>3, <3>1
  <2>5. k - 1 \in Nat /\ k - 1 \notin Bad
    BY <2>2, <2>3, <2>4
  <2>6. PICK f : Upto(k - 1, f)
    BY <2>5
  <2> HIDE DEF Bad
  <2> DEFINE h == [m \in D |-> Next1(f, m)]
  <2>7. ASSUME NEW m \in D, m = NoNode \/ r[m] < k - 1 PROVE h[m] = f[m]
    BY <2>6, <2>7
  <2>8. ASSUME NEW m \in D, m = NoNode \/ r[m] < k PROVE h[m] = Next1(h, m)
    <3>1. CASE m = NoNode
      BY <3>1
    <3>2. CASE m # NoNode
      <4>1. m \in PTNodes /\ t.nodes[m].parent \in D
        BY <3>2, NodeFacts
      <4>2. t.nodes[m].parent # NoNode => r[t.nodes[m].parent] < r[m] /\ r[t.nodes[m].parent] \in Nat /\ r[m] \in Nat
        BY <1>2, <1>3, <4>1 DEF Ranking
      <4>3. t.nodes[m].parent # NoNode => r[t.nodes[m].parent] < k - 1
        BY <2>3, <2>8, <3>2, <4>2
      <4>4. h[t.nodes[m].parent] = f[t.nodes[m].parent]
        BY <2>7, <4>1, <4>3
      <4>5. h[m] = Next1(f, m)
        OBVIOUS
      <4> HIDE DEF h
      <4> QED BY <3>2, <4>4, <4>5
    <3> QED BY <3>1, <3>2
  <2> HIDE DEF h, Next1
  <2> QED BY <2>3, <2>8
<1>5. b + 1 \in Nat /\ \A n \in PTNodes : r[n] < b + 1
  BY <1>3
<1>6. PICK f : Upto(b + 1, f)
  BY <1>4, <1>5
<1> DEFINE h == [m \in D |-> f[m]]
<1>7. \A m \in D : h[m] = Next1(h, m)
  <2> TAKE m \in D
  <2>1. m # NoNode => t.nodes[m].parent \in D
    BY NodeFacts
  <2>2. h[m] = f[m] /\ (m # NoNode => h[t.nodes[m].parent] = f[t.nodes[m].parent])
    BY <2>1
  <2>3. f[m] = Next1(f, m)
    BY <1>5, <1>6
  <2> HIDE DEF h
  <2> QED BY <2>2, <2>3
<1>8. h = [m \in D |-> h[m]]
  OBVIOUS
<1> HIDE DEF h, Next1
<1>9. h = [m \in D |-> Next1(h, m)]
  BY <1>7, <1>8
<1> QED BY <1>9 DEF IsLine, Next1

\* A line is its node's parent's line, and the node if it is of the set.
LEMMA LineUnfold ==
  ASSUME NEW t, Treelike(t), NEW S
  PROVE  /\ LineIn(t, NoNode, S) = <<>>
         /\ \A n \in PTNodes : LineIn(t, n, S) = IF n \in S THEN Append(LineIn(t, t.nodes[n].parent, S), n)
                                                 ELSE LineIn(t, t.nodes[n].parent, S)
<1> DEFINE f == CHOOSE h : IsLine(h, t, S)
<1>1. IsLine(f, t, S)
  BY LineExists
<1>2. \A n : LineIn(t, n, S) = f[n]
  BY DEF LineIn, IsLine
<1> HIDE DEF f
<1>3. \A m \in PTNodes \cup {NoNode} :
        f[m] = IF m = NoNode THEN <<>>
               ELSE IF m \in S THEN Append(f[t.nodes[m].parent], m) ELSE f[t.nodes[m].parent]
  BY <1>1 DEF IsLine
<1>4. NoNode \notin PTNodes
  BY NodeFacts
<1>5. f[NoNode] = <<>>
  BY <1>3
<1>6. \A n \in PTNodes : f[n] = IF n \in S THEN Append(f[t.nodes[n].parent], n) ELSE f[t.nodes[n].parent]
  BY <1>3, <1>4
<1> QED BY <1>2, <1>5, <1>6

LEMMA LineNone ==
  ASSUME NEW t, Treelike(t), NEW S
  PROVE  LineIn(t, NoNode, S) = <<>>
BY LineUnfold

LEMMA LineStep ==
  ASSUME NEW t, Treelike(t), NEW S, NEW n \in PTNodes
  PROVE  LineIn(t, n, S) = IF n \in S THEN Append(LineIn(t, t.nodes[n].parent, S), n)
                           ELSE LineIn(t, t.nodes[n].parent, S)
<1>1. \A m \in PTNodes : LineIn(t, m, S) = IF m \in S THEN Append(LineIn(t, t.nodes[m].parent, S), m)
                                           ELSE LineIn(t, t.nodes[m].parent, S)
  BY LineUnfold
<1> QED BY <1>1

\* Lines are sequences of nodes.
LEMMA LineTyped ==
  ASSUME NEW t, Treelike(t), NEW S
  PROVE  \A n \in PTNodes \cup {NoNode} : LineIn(t, n, S) \in Seq(PTNodes)
<1> DEFINE G == {n \in PTNodes \cup {NoNode} : LineIn(t, n, S) \in Seq(PTNodes)}
<1>1. NoNode \in G
  <2>1. LineIn(t, NoNode, S) = <<>>
    BY LineNone
  <2>2. <<>> \in Seq(PTNodes)
    OBVIOUS
  <2> QED BY <2>1, <2>2
<1>2. ASSUME NEW n \in PTNodes, t.nodes[n].parent \in G PROVE n \in G
  <2>1. LineIn(t, t.nodes[n].parent, S) \in Seq(PTNodes)
    BY <1>2
  <2>2. Append(LineIn(t, t.nodes[n].parent, S), n) \in Seq(PTNodes)
    BY <2>1
  <2>3. LineIn(t, n, S) = IF n \in S THEN Append(LineIn(t, t.nodes[n].parent, S), n)
                          ELSE LineIn(t, t.nodes[n].parent, S)
    BY LineStep
  <2> QED BY <2>1, <2>2, <2>3
<1> HIDE DEF G
<1>3. PTNodes \subseteq G
  BY <1>1, <1>2, NodeInduction
<1> QED BY <1>1, <1>3 DEF G

\* The nodes on a line: a node and those on the line of its parent, where it is not.
LEMMA OnIs ==
  ASSUME NEW t, Treelike(t)
  PROVE  /\ On(t, NoNode) = {}
         /\ \A n \in PTNodes : On(t, n) = On(t, t.nodes[n].parent) \cup {n} /\ n \notin On(t, t.nodes[n].parent)
         /\ \A n \in PTNodes \cup {NoNode} : On(t, n) \subseteq PTNodes
<1>1. On(t, NoNode) = {}
  <2>1. Line(t, NoNode) = <<>>
    BY LineNone DEF Line
  <2> QED BY <2>1 DEF On, ToSet
<1>2. ASSUME NEW n \in PTNodes PROVE On(t, n) = On(t, t.nodes[n].parent) \cup {n}
  <2>1. Line(t, n) = Append(Line(t, t.nodes[n].parent), n)
    BY LineStep DEF Line
  <2>2. t.nodes[n].parent \in PTNodes \cup {NoNode}
    BY NodeFacts
  <2>3. Line(t, t.nodes[n].parent) \in Seq(PTNodes)
    BY <2>2, LineTyped DEF Line
  <2> QED BY <2>1, <2>3, Appended DEF On
<1>3. \A n \in PTNodes \cup {NoNode} : On(t, n) \subseteq PTNodes
  <2> TAKE n \in PTNodes \cup {NoNode}
  <2>1. Line(t, n) \in Seq(PTNodes)
    BY LineTyped DEF Line
  <2> QED BY <2>1, Members DEF On
<1>4. PICK b \in Nat : \E r : Ranking(t, r, b)
  BY DEF Treelike, Ranked
<1>5. PICK r : Ranking(t, r, b)
  BY <1>4
<1>6. \A n \in PTNodes : r[n] \in Nat
  BY <1>5 DEF Ranking
<1> DEFINE G == {n \in PTNodes \cup {NoNode} : \A m \in On(t, n) : r[m] <= r[n]}
<1>7. NoNode \in G
  BY <1>1
<1>8. ASSUME NEW n \in PTNodes, t.nodes[n].parent \in G
      PROVE n \in G /\ \A m \in On(t, t.nodes[n].parent) : r[m] < r[n]
  <2>1. \A m \in On(t, t.nodes[n].parent) : r[m] < r[n]
    <3> TAKE m \in On(t, t.nodes[n].parent)
    <3>1. t.nodes[n].parent \in PTNodes /\ m \in PTNodes
      BY <1>1, <1>3, NodeFacts
    <3>2. r[m] <= r[t.nodes[n].parent]
      BY <1>8
    <3>3. r[t.nodes[n].parent] < r[n]
      BY <1>5, <3>1, NodeFacts DEF Ranking
    <3>4. r[m] \in Nat /\ r[n] \in Nat /\ r[t.nodes[n].parent] \in Nat
      BY <1>6, <3>1
    <3> QED BY ONLY <3>2, <3>3, <3>4
  <2>2. \A m \in On(t, n) : r[m] <= r[n]
    <3> TAKE m \in On(t, n)
    <3>1. CASE m = n
      BY <1>6, <3>1
    <3>2. CASE m # n
      <4>1. m \in On(t, t.nodes[n].parent) /\ m \in PTNodes
        BY <1>2, <1>3, <3>2
      <4>2. r[m] < r[n] /\ r[m] \in Nat /\ r[n] \in Nat
        BY <1>6, <2>1, <4>1
      <4> QED BY ONLY <4>2
    <3> QED BY <3>1, <3>2
  <2> QED BY <2>1, <2>2
<1>9. PTNodes \subseteq G
  <2> HIDE DEF G
  <2> QED BY <1>7, <1>8, NodeInduction
<1>10. ASSUME NEW n \in PTNodes PROVE n \notin On(t, t.nodes[n].parent)
  <2>1. t.nodes[n].parent \in G
    <3> HIDE DEF G
    <3> QED BY <1>7, <1>9, NodeFacts
  <2>2. \A m \in On(t, t.nodes[n].parent) : r[m] < r[n]
    <3> HIDE DEF G
    <3> QED BY <1>8, <2>1
  <2>3. r[n] \in Nat
    BY <1>6
  <2> QED BY <2>2, <2>3
<1> QED BY <1>1, <1>2, <1>3, <1>10

\* The part of a line that is in S.
LEMMA LineIs ==
  ASSUME NEW t, Treelike(t), NEW S, NEW n \in PTNodes \cup {NoNode}
  PROVE  ToSet(LineIn(t, n, S)) = On(t, n) \cap S /\ NoTwice(LineIn(t, n, S))
<1> DEFINE G == {m \in PTNodes \cup {NoNode} :
                    ToSet(LineIn(t, m, S)) = On(t, m) \cap S /\ NoTwice(LineIn(t, m, S))}
<1>1. NoNode \in G
  <2>1. LineIn(t, NoNode, S) = <<>>
    BY LineNone
  <2>2. ToSet(<<>>) = {} /\ NoTwice(<<>>)
    BY DEF ToSet, NoTwice
  <2> QED BY <2>1, <2>2, OnIs
<1>2. ASSUME NEW m \in PTNodes, t.nodes[m].parent \in G PROVE m \in G
  <2> DEFINE l == LineIn(t, t.nodes[m].parent, S)
  <2>1. l \in Seq(PTNodes) /\ ToSet(l) = On(t, t.nodes[m].parent) \cap S /\ NoTwice(l)
    BY <1>2, LineTyped
  <2>2. LineIn(t, m, S) = IF m \in S THEN Append(l, m) ELSE l
    BY LineStep
  <2>3. On(t, m) = On(t, t.nodes[m].parent) \cup {m} /\ m \notin On(t, t.nodes[m].parent)
    BY OnIs
  <2> HIDE DEF l
  <2>4. CASE m \in S
    <3>1. ToSet(Append(l, m)) = ToSet(l) \cup {m} /\ NoTwice(Append(l, m))
      BY <2>1, <2>3, Appended
    <3> QED BY <2>1, <2>2, <2>3, <2>4, <3>1
  <2>5. CASE m \notin S
    BY <2>1, <2>2, <2>3, <2>5
  <2> QED BY <2>4, <2>5
<1> HIDE DEF G
<1>3. PTNodes \subseteq G
  BY <1>1, <1>2, NodeInduction
<1> QED BY <1>1, <1>3 DEF G

\* No node of the line of a node in use is free.
LEMMA OnInUse ==
  ASSUME NEW t, TreeOK(t), NEW n \in NodesInUse(t) \cup {NoNode}
  PROVE  On(t, n) \subseteq NodesInUse(t)
<1>1. Treelike(t)
  BY DEF TreeOK
<1> DEFINE G == {x \in PTNodes \cup {NoNode} : x \in NodesInUse(t) \cup {NoNode} => On(t, x) \subseteq NodesInUse(t)}
<1>2. NoNode \in G
  BY <1>1, OnIs
<1>3. ASSUME NEW x \in PTNodes, t.nodes[x].parent \in G PROVE x \in G
  <2> SUFFICES ASSUME x \in NodesInUse(t) PROVE On(t, x) \subseteq NodesInUse(t)
    BY <1>1, NodeFacts
  <2>1. t.nodes[x].parent \in NodesInUse(t) \cup {NoNode}
    BY DEF TreeOK
  <2>2. On(t, t.nodes[x].parent) \subseteq NodesInUse(t)
    BY <1>3, <2>1
  <2> QED BY <1>1, <2>2, OnIs
<1> HIDE DEF G
<1>4. PTNodes \subseteq G
  BY <1>1, <1>2, <1>3, NodeInduction
<1>5. n \in G
  BY <1>1, <1>2, <1>4, NodeFacts
<1> QED BY <1>5 DEF G

\* A line is the same for two sets that agree on its nodes.
LEMMA LineSame ==
  ASSUME NEW t, Treelike(t), NEW S, NEW R, NEW n \in PTNodes \cup {NoNode}, On(t, n) \cap S = On(t, n) \cap R
  PROVE  LineIn(t, n, S) = LineIn(t, n, R)
<1> DEFINE G == {x \in PTNodes \cup {NoNode} :
                    On(t, x) \cap S = On(t, x) \cap R => LineIn(t, x, S) = LineIn(t, x, R)}
<1>1. NoNode \in G
  BY LineNone
<1>2. ASSUME NEW x \in PTNodes, t.nodes[x].parent \in G PROVE x \in G
  <2> SUFFICES ASSUME On(t, x) \cap S = On(t, x) \cap R PROVE LineIn(t, x, S) = LineIn(t, x, R)
    OBVIOUS
  <2>1. On(t, x) = On(t, t.nodes[x].parent) \cup {x}
    BY OnIs
  <2>2. On(t, t.nodes[x].parent) \cap S = On(t, t.nodes[x].parent) \cap R /\ (x \in S <=> x \in R)
    BY <2>1
  <2>3. LineIn(t, t.nodes[x].parent, S) = LineIn(t, t.nodes[x].parent, R)
    BY <1>2, <2>2
  <2>4. LineIn(t, x, S) = IF x \in S THEN Append(LineIn(t, t.nodes[x].parent, S), x) ELSE LineIn(t, t.nodes[x].parent, S)
    BY LineStep
  <2>5. LineIn(t, x, R) = IF x \in R THEN Append(LineIn(t, t.nodes[x].parent, R), x) ELSE LineIn(t, t.nodes[x].parent, R)
    BY LineStep
  <2> QED BY <2>2, <2>3, <2>4, <2>5
<1> HIDE DEF G
<1>3. PTNodes \subseteq G
  BY <1>1, <1>2, NodeInduction
<1> QED BY <1>1, <1>3 DEF G

\* Lines stay where all their nodes keep their parents.
LEMMA LineKept ==
  ASSUME NEW t, Treelike(t), NEW t2, Treelike(t2), NEW S, NEW W \in SUBSET PTNodes,
         \A n \in W : t2.nodes[n].parent = t.nodes[n].parent /\ t.nodes[n].parent \in W \cup {NoNode},
         NEW n \in W \cup {NoNode}
  PROVE  LineIn(t2, n, S) = LineIn(t, n, S)
<1> DEFINE G == {x \in PTNodes \cup {NoNode} : x \in W \cup {NoNode} => LineIn(t2, x, S) = LineIn(t, x, S)}
<1>1. NoNode \in G
  BY LineNone
<1>2. ASSUME NEW x \in PTNodes, t.nodes[x].parent \in G PROVE x \in G
  <2> SUFFICES ASSUME x \in W PROVE LineIn(t2, x, S) = LineIn(t, x, S)
    BY <1>1
  <2>1. t2.nodes[x].parent = t.nodes[x].parent /\ t.nodes[x].parent \in W \cup {NoNode}
    OBVIOUS
  <2>2. LineIn(t2, t.nodes[x].parent, S) = LineIn(t, t.nodes[x].parent, S)
    BY <1>2, <2>1
  <2>3. LineIn(t, x, S) = IF x \in S THEN Append(LineIn(t, t.nodes[x].parent, S), x) ELSE LineIn(t, t.nodes[x].parent, S)
    BY LineStep
  <2>4. LineIn(t2, x, S) = IF x \in S THEN Append(LineIn(t2, t2.nodes[x].parent, S), x) ELSE LineIn(t2, t2.nodes[x].parent, S)
    BY LineStep
  <2> QED BY <2>1, <2>2, <2>3, <2>4
<1> HIDE DEF G
<1>3. PTNodes \subseteq G
  BY <1>1, <1>2, NodeInduction
<1> QED BY <1>1, <1>3 DEF G

\* The last node of the set on a line, likewise by parents.
LEMMA LastUnfold ==
  ASSUME NEW t, Treelike(t), NEW S
  PROVE  /\ LastIn(t, NoNode, S) = NoNode
         /\ \A n \in PTNodes : LastIn(t, n, S) = IF n \in S THEN n ELSE LastIn(t, t.nodes[n].parent, S)
<1>1. LastIn(t, NoNode, S) = NoNode
  BY LineNone DEF LastIn
<1>2. ASSUME NEW n \in PTNodes PROVE LastIn(t, n, S) = IF n \in S THEN n ELSE LastIn(t, t.nodes[n].parent, S)
  <2> DEFINE l == LineIn(t, t.nodes[n].parent, S)
  <2>1. l \in Seq(PTNodes)
    BY LineTyped, NodeFacts
  <2>2. LineIn(t, n, S) = IF n \in S THEN Append(l, n) ELSE l
    BY LineStep
  <2> HIDE DEF l
  <2>3. Append(l, n) # <<>> /\ Last(Append(l, n)) = n
    BY <2>1 DEF Last
  <2> QED BY <2>2, <2>3 DEF LastIn, l
<1> QED BY <1>1, <1>2

\* The last node of S on a line: up to there the line holds what it holds of S.
LEMMA PopTo ==
  ASSUME NEW t, Treelike(t), NEW S, NEW n \in PTNodes \cup {NoNode}, NEW q, q = LastIn(t, n, S)
  PROVE  /\ q = NoNode \/ q \in S \cap On(t, n)
         /\ q \in PTNodes \cup {NoNode}
         /\ On(t, q) \subseteq On(t, n) /\ On(t, n) \cap S \subseteq On(t, q)
         /\ LineIn(t, q, S) = LineIn(t, n, S)
<1> DEFINE Good(x, y) == /\ y = NoNode \/ y \in S \cap On(t, x)
                         /\ y \in PTNodes \cup {NoNode}
                         /\ On(t, y) \subseteq On(t, x) /\ On(t, x) \cap S \subseteq On(t, y)
                         /\ LineIn(t, y, S) = LineIn(t, x, S)
           G == {x \in PTNodes \cup {NoNode} : Good(x, LastIn(t, x, S))}
<1>1. NoNode \in G
  BY LastUnfold, OnIs
<1>2. ASSUME NEW x \in PTNodes, t.nodes[x].parent \in G PROVE x \in G
  <2>1. On(t, x) = On(t, t.nodes[x].parent) \cup {x}
    BY OnIs
  <2>2. LineIn(t, x, S) = IF x \in S THEN Append(LineIn(t, t.nodes[x].parent, S), x) ELSE LineIn(t, t.nodes[x].parent, S)
    BY LineStep
  <2>3. LastIn(t, x, S) = IF x \in S THEN x ELSE LastIn(t, t.nodes[x].parent, S)
    BY LastUnfold
  <2>4. CASE x \in S
    BY <2>1, <2>3, <2>4
  <2>5. CASE x \notin S
    BY <1>2, <2>1, <2>2, <2>3, <2>5
  <2> QED BY <2>4, <2>5
<1> HIDE DEF G
<1>3. PTNodes \subseteq G
  BY <1>1, <1>2, NodeInduction
<1> QED BY <1>1, <1>3 DEF G

----------------------------------------------------------------------------
(* What a scope lists.                                                     *)

\* The pairs of the nodes of C on n's line.
Pair(t, n) == <<t.nodes[n].id, t.nodes[n].attrs>>

PairsAt(t, n, C) == [i \in DOMAIN LineIn(t, n, C) |-> Pair(t, LineIn(t, n, C)[i])]

\* Lists of pairs grow with the line.
LEMMA PairsNone ==
  ASSUME NEW t, Treelike(t), NEW C
  PROVE  PairsAt(t, NoNode, C) = <<>>
<1>1. LineIn(t, NoNode, C) = <<>>
  BY LineNone
<1>2. DOMAIN <<>> = {} /\ [i \in {} |-> Pair(t, <<>>[i])] = <<>>
  OBVIOUS
<1>3. PairsAt(t, NoNode, C) = [i \in DOMAIN <<>> |-> Pair(t, <<>>[i])]
  BY <1>1 DEF PairsAt
<1>4. [i \in DOMAIN <<>> |-> Pair(t, <<>>[i])] = <<>>
  OBVIOUS
<1> QED BY <1>3, <1>4

\* The pairs of a sequence of nodes, one longer.
LEMMA PairsAppended ==
  ASSUME NEW t, NEW l \in Seq(PTNodes), NEW n \in PTNodes
  PROVE  [i \in DOMAIN Append(l, n) |-> Pair(t, Append(l, n)[i])]
           = Append([i \in DOMAIN l |-> Pair(t, l[i])], Pair(t, n))
<1> DEFINE m == Append(l, n)
           f == [i \in DOMAIN m |-> Pair(t, m[i])]
           h == [i \in DOMAIN l |-> Pair(t, l[i])]
           g == Append(h, Pair(t, n))
           k == Len(l)
<1>1. k \in Nat /\ DOMAIN l = 1..k /\ DOMAIN m = 1..k + 1 /\ m[k + 1] = n /\ \A i \in 1..k : m[i] = l[i]
  OBVIOUS
<1> HIDE DEF m
<1>2. h \in Seq({Pair(t, l[i]) : i \in DOMAIN l}) /\ Len(h) = k
  BY <1>1
<1>3. DOMAIN g = 1..k + 1 /\ g[k + 1] = Pair(t, n) /\ \A i \in 1..k : g[i] = h[i]
  <2> DEFINE K == {Pair(t, l[i]) : i \in DOMAIN l} \cup {Pair(t, n)}
  <2>1. h \in Seq(K) /\ Pair(t, n) \in K /\ Len(h) = k
    BY <1>1, <1>2
  <2> HIDE DEF h, K
  <2> QED BY <1>1, <2>1
<1>4. g = [i \in 1..k + 1 |-> g[i]]
  <2> DEFINE K == {Pair(t, l[i]) : i \in DOMAIN l} \cup {Pair(t, n)}
  <2>1. h \in Seq(K) /\ Pair(t, n) \in K
    BY <1>1, <1>2
  <2>2. g \in Seq(K)
    <3> HIDE DEF h, K
    <3> QED BY <2>1
  <2> HIDE DEF g, K
  <2> QED BY <1>3, <2>2
<1>5. \A i \in 1..k + 1 : f[i] = g[i]
  <2> TAKE i \in 1..k + 1
  <2>1. CASE i = k + 1
    BY <1>1, <1>3, <2>1
  <2>2. CASE i # k + 1
    <3>1. i \in 1..k
      BY <1>1, <2>2
    <3> QED BY <1>1, <1>3, <3>1
  <2> QED BY <2>1, <2>2
<1>6. f = [i \in 1..k + 1 |-> f[i]]
  BY <1>1
<1> HIDE DEF f, g, h, k
<1>7. f = g
  BY <1>4, <1>5, <1>6
<1> QED BY <1>7 DEF f, g, h, m

LEMMA PairsStep ==
  ASSUME NEW t, Treelike(t), NEW C, NEW n \in PTNodes
  PROVE  PairsAt(t, n, C) = IF n \in C THEN Append(PairsAt(t, t.nodes[n].parent, C), Pair(t, n))
                            ELSE PairsAt(t, t.nodes[n].parent, C)
<1> DEFINE l == LineIn(t, t.nodes[n].parent, C)
<1>1. l \in Seq(PTNodes)
  BY LineTyped, NodeFacts
<1>2. LineIn(t, n, C) = IF n \in C THEN Append(l, n) ELSE l
  BY LineStep
<1>3. PairsAt(t, t.nodes[n].parent, C) = [i \in DOMAIN l |-> Pair(t, l[i])]
  BY DEF PairsAt
<1> HIDE DEF l
<1>4. CASE n \in C
  <2>1. PairsAt(t, n, C) = [i \in DOMAIN Append(l, n) |-> Pair(t, Append(l, n)[i])]
    BY <1>2, <1>4 DEF PairsAt
  <2> QED BY <1>1, <1>3, <1>4, <2>1, PairsAppended
<1>5. CASE n \notin C
  BY <1>2, <1>3, <1>5 DEF PairsAt
<1> QED BY <1>4, <1>5

\* The pairs are as many as the nodes, and are pairs if the nodes are in use.
LEMMA PairsTyped ==
  ASSUME NEW t, Treelike(t), NEW C, NEW n \in PTNodes \cup {NoNode}, On(t, n) \cap C \subseteq NodesInUse(t)
  PROVE  /\ PairsAt(t, n, C) \in Seq(PTIds \X PTAttrs)
         /\ Len(PairsAt(t, n, C)) = Len(LineIn(t, n, C))
         /\ DOMAIN PairsAt(t, n, C) = 1..Len(LineIn(t, n, C)) /\ Len(LineIn(t, n, C)) \in Nat
<1> DEFINE l == LineIn(t, n, C)
           k == Len(l)
<1>1. l \in Seq(PTNodes) /\ k \in Nat /\ DOMAIN l = 1..k
  BY LineTyped
<1>2. \A i \in 1..k : l[i] \in NodesInUse(t)
  <2>1. ToSet(l) = On(t, n) \cap C
    BY LineIs
  <2> HIDE DEF l
  <2> QED BY <1>1, <2>1, Members
<1>3. PairsAt(t, n, C) = [i \in 1..k |-> Pair(t, l[i])]
  BY <1>1 DEF PairsAt
<1> HIDE DEF l, k
<1>4. \A i \in 1..k : Pair(t, l[i]) \in PTIds \X PTAttrs
  BY <1>2, NodeFacts DEF Pair
<1>5. [i \in 1..k |-> Pair(t, l[i])] \in Seq(PTIds \X PTAttrs) /\ Len([i \in 1..k |-> Pair(t, l[i])]) = k
  BY <1>1, <1>4
<1>6. DOMAIN [i \in 1..k |-> Pair(t, l[i])] = 1..k
  OBVIOUS
<1> QED BY <1>1, <1>3, <1>5, <1>6 DEF l, k

\* What Without computes: what it keeps of the first i pairs.
IsKept(f, l, id) ==
    f = [i \in 0..Len(l) |->
            IF i = 0 THEN <<>>
            ELSE IF l[i][1] = id THEN f[i - 1] ELSE Append(f[i - 1], l[i])]

KeptStep(K, l, id) ==
    [p \in Seq(K) \X Nat |->
        IF p[2] \in 1..Len(l) /\ l[p[2]][1] # id THEN Append(p[1], l[p[2]]) ELSE p[1]]

\* Without's recursion has a solution, which the next two lemmas unfold.
LEMMA KeptExists ==
  ASSUME NEW K, NEW l \in Seq(K), NEW id
  PROVE  \E f : IsKept(f, l, id)
<1> DEFINE g == KeptStep(K, l, id)
           n == Len(l)
<1>1. n \in Nat /\ <<>> \in Seq(K) /\ \A i \in 1..n : l[i] \in K
  OBVIOUS
<1>2. g \in [Seq(K) \X Nat -> Seq(K)]
  <2> SUFFICES ASSUME NEW p \in Seq(K) \X Nat
               PROVE (IF p[2] \in 1..Len(l) /\ l[p[2]][1] # id
                      THEN Append(p[1], l[p[2]]) ELSE p[1]) \in Seq(K)
    BY DEF KeptStep
  <2>1. p[1] \in Seq(K)
    OBVIOUS
  <2> QED BY <1>1, <2>1
<1> HIDE DEF n
<1>3. PICK f \in [0..n -> Seq(K)] : IsIterated(f, <<>>, g, n)
  <2> HIDE DEF g
  <2> QED BY <1>1, <1>2, IteratedExists
<1>4. ASSUME NEW i \in 0..n
      PROVE f[i] = IF i = 0 THEN <<>>
                   ELSE IF l[i][1] = id THEN f[i - 1] ELSE Append(f[i - 1], l[i])
  <2>1. f[i] = IF i = 0 THEN <<>> ELSE g[<<f[i - 1], i>>]
    BY <1>3 DEF IsIterated
  <2>2. CASE i = 0
    BY <2>1, <2>2
  <2>3. CASE i # 0
    <3>1. i - 1 \in 0..n /\ i \in 1..n /\ i \in Nat
      BY <1>1, <2>3
    <3>2. f[i - 1] \in Seq(K)
      BY <3>1
    <3>3. g[<<f[i - 1], i>>] = IF i \in 1..Len(l) /\ l[i][1] # id THEN Append(f[i - 1], l[i]) ELSE f[i - 1]
      BY <3>1, <3>2 DEF KeptStep
    <3> QED BY <2>1, <2>3, <3>1, <3>3 DEF n
  <2> QED BY <2>2, <2>3
<1>5. f = [i \in 0..n |-> f[i]]
  OBVIOUS
<1>6. f = [i \in 0..n |-> IF i = 0 THEN <<>>
                          ELSE IF l[i][1] = id THEN f[i - 1] ELSE Append(f[i - 1], l[i])]
  BY <1>4, <1>5
<1> QED BY <1>6 DEF IsKept, n

LEMMA WithoutNone == \A id : OP!Without(<<>>, id) = <<>>
<1> TAKE id
<1> DEFINE f == CHOOSE h : IsKept(h, <<>>, id)
<1>1. IsKept(f, <<>>, id)
  <2>1. <<>> \in Seq({})
    OBVIOUS
  <2> QED BY <2>1, KeptExists
<1>2. OP!Without(<<>>, id) = f[Len(<<>>)]
  BY DEF OP!Without, IsKept
<1> HIDE DEF f
<1>3. Len(<<>>) = 0 /\ 0 \in 0..Len(<<>>)
  OBVIOUS
<1>4. f[0] = <<>>
  BY <1>1, <1>3 DEF IsKept
<1> QED BY <1>2, <1>3, <1>4

LEMMA WithoutStep ==
  ASSUME NEW K, NEW l \in Seq(K), NEW e \in K, NEW id
  PROVE  OP!Without(Append(l, e), id) = IF e[1] = id THEN OP!Without(l, id) ELSE Append(OP!Without(l, id), e)
<1> DEFINE m == Append(l, e)
           f == CHOOSE h : IsKept(h, l, id)
           h == CHOOSE x : IsKept(x, m, id)
           k == Len(l)
<1>1. m \in Seq(K) /\ k \in Nat /\ Len(m) = k + 1 /\ m[k + 1] = e /\ \A i \in 1..k : m[i] = l[i]
  OBVIOUS
<1> HIDE DEF m
<1>2. IsKept(f, l, id) /\ IsKept(h, m, id)
  BY <1>1, KeptExists
<1>3. OP!Without(l, id) = f[k] /\ OP!Without(m, id) = h[k + 1]
  BY <1>1 DEF OP!Without, IsKept
<1> HIDE DEF f, h
<1>4. \A i \in 0..k : f[i] = IF i = 0 THEN <<>>
                             ELSE IF l[i][1] = id THEN f[i - 1] ELSE Append(f[i - 1], l[i])
  BY <1>2 DEF IsKept
<1>5. \A i \in 0..k + 1 : h[i] = IF i = 0 THEN <<>>
                                 ELSE IF m[i][1] = id THEN h[i - 1] ELSE Append(h[i - 1], m[i])
  BY <1>1, <1>2 DEF IsKept
<1> HIDE DEF k
<1> DEFINE Bad == {i \in 0..k : h[i] # f[i]}
<1>6. Bad = {}
  <2> SUFFICES ASSUME Bad # {} PROVE FALSE
    OBVIOUS
  <2>1. Bad \in SUBSET Nat
    BY <1>1
  <2>2. PICK i \in Bad : \A x \in Bad : i <= x
    BY <2>1, SmallestExists
  <2>3. i \in 0..k /\ i \in Nat /\ i \in 0..k + 1 /\ h[i] # f[i]
    BY <1>1
  <2>4. i # 0
    BY <1>4, <1>5, <2>3
  <2>5. i - 1 \in 0..k /\ i \in 1..k /\ ~(i <= i - 1)
    BY <1>1, <2>3, <2>4
  <2>6. h[i - 1] = f[i - 1]
    BY <2>2, <2>5
  <2>7. m[i] = l[i]
    BY <1>1, <2>5
  <2> HIDE DEF Bad
  <2> QED BY <1>4, <1>5, <2>3, <2>4, <2>6, <2>7
<1>7. k \in 0..k /\ k + 1 \in 0..k + 1 /\ k + 1 # 0 /\ (k + 1) - 1 = k
  BY <1>1
<1>8. h[k] = f[k]
  BY <1>6, <1>7
<1>9. h[k + 1] = IF m[k + 1][1] = id THEN h[k] ELSE Append(h[k], m[k + 1])
  BY <1>5, <1>7
<1> QED BY <1>1, <1>3, <1>8, <1>9 DEF m

\* x is the one node of C on the line that has the id, or there is none.
Names(t, n, C, x, id) == \A m \in C \cap On(t, n) : t.nodes[m].id = id <=> m = x

LeavesOut(t, n, C, x, id) == PairsAt(t, n, C \ {x}) = OP!Without(PairsAt(t, n, C), id)

\* To list all but what has the id is to leave its pair out.
LEMMA PairsWithout ==
  ASSUME NEW t, Treelike(t), NEW C \in SUBSET NodesInUse(t), NEW x, NEW id, NEW n \in PTNodes \cup {NoNode},
         Names(t, n, C, x, id)
  PROVE  LeavesOut(t, n, C, x, id)
<1> DEFINE G == {y \in PTNodes \cup {NoNode} :
                   (\A m \in C \cap On(t, y) : t.nodes[m].id = id <=> m = x)
                     => PairsAt(t, y, C \ {x}) = OP!Without(PairsAt(t, y, C), id)}
<1>1. NoNode \in G
  BY PairsNone, WithoutNone
<1>2. ASSUME NEW y \in PTNodes, t.nodes[y].parent \in G PROVE y \in G
  <2> SUFFICES ASSUME \A m \in C \cap On(t, y) : t.nodes[m].id = id <=> m = x
               PROVE PairsAt(t, y, C \ {x}) = OP!Without(PairsAt(t, y, C), id)
    OBVIOUS
  <2> DEFINE p == t.nodes[y].parent
             l == PairsAt(t, p, C)
             e == Pair(t, y)
             K == PTIds \X PTAttrs
  <2>1. On(t, y) = On(t, p) \cup {y} /\ p \in PTNodes \cup {NoNode}
    BY OnIs, NodeFacts
  <2>2. PairsAt(t, p, C \ {x}) = OP!Without(l, id)
    BY <1>2, <2>1
  <2>3. l \in Seq(K)
    BY <2>1, PairsTyped
  <2>4. PairsAt(t, y, C) = IF y \in C THEN Append(l, e) ELSE l
    BY PairsStep
  <2>5. PairsAt(t, y, C \ {x}) = IF y \in C \ {x} THEN Append(PairsAt(t, p, C \ {x}), e) ELSE PairsAt(t, p, C \ {x})
    BY PairsStep
  <2>6. y \in C => e \in K /\ e[1] = t.nodes[y].id /\ (e[1] = id <=> y = x)
    BY <2>1, NodeFacts DEF Pair
  <2> HIDE DEF l, e, K, p
  <2>7. CASE y \in C
    <3>1. OP!Without(Append(l, e), id) = IF e[1] = id THEN OP!Without(l, id) ELSE Append(OP!Without(l, id), e)
      BY <2>3, <2>6, <2>7, WithoutStep
    <3> QED BY <2>2, <2>4, <2>5, <2>6, <2>7, <3>1
  <2>8. CASE y \notin C
    BY <2>2, <2>4, <2>5, <2>8
  <2> QED BY <2>7, <2>8
<1> HIDE DEF G
<1>3. PTNodes \subseteq G
  BY <1>1, <1>2, NodeInduction
<1> QED BY <1>1, <1>3 DEF G, Names, LeavesOut

LEMMA PairsSame ==
  ASSUME NEW t, Treelike(t), NEW S, NEW R, NEW n \in PTNodes \cup {NoNode}, On(t, n) \cap S = On(t, n) \cap R
  PROVE  PairsAt(t, n, S) = PairsAt(t, n, R)
BY LineSame DEF PairsAt

\* One node fewer on the line.
LEMMA LineShorter ==
  ASSUME NEW t, Treelike(t), NEW C, NEW n \in PTNodes \cup {NoNode}, NEW x \in C \cap On(t, n)
  PROVE  Len(LineIn(t, n, C)) = Len(LineIn(t, n, C \ {x})) + 1 /\ Len(LineIn(t, n, C \ {x})) \in Nat
<1> DEFINE Many(y, S) == Len(LineIn(t, y, S))
           G == {y \in PTNodes \cup {NoNode} :
                   Many(y, C) = IF x \in On(t, y) THEN Many(y, C \ {x}) + 1 ELSE Many(y, C \ {x})}
<1>1. NoNode \in G
  BY LineNone, OnIs
<1>2. ASSUME NEW y \in PTNodes, t.nodes[y].parent \in G PROVE y \in G
  <2> DEFINE p == t.nodes[y].parent
  <2>1. On(t, y) = On(t, p) \cup {y} /\ p \in PTNodes \cup {NoNode} /\ y \notin On(t, p)
    BY OnIs, NodeFacts
  <2>2. Many(p, C) = IF x \in On(t, p) THEN Many(p, C \ {x}) + 1 ELSE Many(p, C \ {x})
    BY <1>2
  <2>3. \A S : Many(y, S) = (IF y \in S THEN Many(p, S) + 1 ELSE Many(p, S)) /\ Many(p, S) \in Nat
    <3> TAKE S
    <3>1. LineIn(t, p, S) \in Seq(PTNodes)
      BY <2>1, LineTyped
    <3>2. LineIn(t, y, S) = IF y \in S THEN Append(LineIn(t, p, S), y) ELSE LineIn(t, p, S)
      BY LineStep
    <3> HIDE DEF p
    <3>3. Len(Append(LineIn(t, p, S), y)) = Len(LineIn(t, p, S)) + 1 /\ Len(LineIn(t, p, S)) \in Nat
      BY <3>1
    <3> QED BY <3>2, <3>3
  <2> HIDE DEF Many, p
  <2>4. Many(y, C) = (IF y \in C THEN Many(p, C) + 1 ELSE Many(p, C)) /\ Many(p, C) \in Nat
    BY <2>3
  <2>5. Many(y, C \ {x}) = (IF y \in C \ {x} THEN Many(p, C \ {x}) + 1 ELSE Many(p, C \ {x})) /\ Many(p, C \ {x}) \in Nat
    BY <2>3
  <2>6. CASE y = x
    BY <2>1, <2>2, <2>4, <2>5, <2>6
  <2>7. CASE y # x
    BY <2>1, <2>2, <2>4, <2>5, <2>7
  <2> QED BY <2>6, <2>7
<1>3. PTNodes \subseteq G
  <2> HIDE DEF G
  <2> QED BY <1>1, <1>2, NodeInduction
<1>4. LineIn(t, n, C \ {x}) \in Seq(PTNodes)
  BY LineTyped
<1>5. n \in G
  <2> HIDE DEF G
  <2> QED BY <1>1, <1>3
<1> QED BY <1>4, <1>5

----------------------------------------------------------------------------
(* One scope.                                                              *)

Tables == [PTIds -> PTNodes \cup {NoNode}]

ScopeRecords ==
    [lastProp : PTNodes \cup {NoNode}, table : {NoTable} \cup Tables, middle : BOOLEAN, entryCount : Nat]

\* n is what is found for the id among the nodes of C.
Finds(t, C, id, n) ==
    IF n = NoNode THEN \A m \in C : t.nodes[m].id # id ELSE n \in C /\ t.nodes[n].id = id

\* The table finds each id among the nodes of C.
TableFor(t, C, tab) == tab \in Tables /\ \A id \in PTIds : Finds(t, C, id, tab[id])

DistinctIds(t, C) == \A m, n \in C : t.nodes[m].id = t.nodes[n].id => m = n

\* The nodes of its line that a scope counts are those of C: all of them, or
\* those in its table; and the last one is among them.
Counts(t, sc, C) ==
    /\ sc \in ScopeRecords /\ sc.lastProp \in NodesInUse(t) \cup {NoNode}
    /\ DistinctIds(t, On(t, sc.lastProp)) /\ C \subseteq On(t, sc.lastProp)
    /\ sc.table # NoTable => TableFor(t, C, sc.table)
    /\ sc.table = NoTable => ~sc.middle
    /\ ~sc.middle => C = On(t, sc.lastProp)
    /\ sc.lastProp # NoNode => sc.lastProp \in C
    /\ sc.entryCount = Len(LineIn(t, sc.lastProp, C))

LEMMA NoTableIsNone == NoTable \notin Tables
BY PropTreeAssumption DEF Tables, PTNodes

\* What Counts says of the nodes of a scope.
LEMMA CountsFacts ==
  ASSUME NEW t, TreeOK(t), NEW sc, NEW C, Counts(t, sc, C)
  PROVE  /\ Treelike(t) /\ NoNode \notin PTNodes /\ NodesInUse(t) \subseteq PTNodes
         /\ sc \in ScopeRecords /\ sc.lastProp \in PTNodes \cup {NoNode}
         /\ On(t, sc.lastProp) \subseteq NodesInUse(t) /\ C \subseteq NodesInUse(t) /\ C \subseteq PTNodes
         /\ \A n \in NodesInUse(t) : t.nodes[n].id \in PTIds
         /\ DistinctIds(t, On(t, sc.lastProp)) /\ DistinctIds(t, C) /\ C \subseteq On(t, sc.lastProp)
<1>1. Treelike(t)
  BY DEF TreeOK
<1>2. sc.lastProp \in NodesInUse(t) \cup {NoNode}
  BY DEF Counts
<1>3. On(t, sc.lastProp) \subseteq NodesInUse(t)
  BY <1>2, OnInUse
<1>4. C \subseteq On(t, sc.lastProp) /\ DistinctIds(t, On(t, sc.lastProp)) /\ sc \in ScopeRecords
  BY DEF Counts
<1>5. DistinctIds(t, C)
  BY <1>4 DEF DistinctIds
<1>6. NoNode \notin PTNodes /\ NodesInUse(t) \subseteq PTNodes /\ \A n \in NodesInUse(t) : t.nodes[n].id \in PTIds
  BY <1>1, NodeFacts
<1> QED BY <1>1, <1>2, <1>3, <1>4, <1>5, <1>6

\* A search finds the node that counts for the id, if there is one.
LEMMA SearchFinds ==
  ASSUME NEW t, TreeOK(t), NEW sc, NEW C, Counts(t, sc, C), NEW id \in PTIds
  PROVE  Finds(t, C, id, SearchScope(t, sc, id)) /\ SearchScope(t, sc, id) \in C \cup {NoNode}
<1>1. Finds(t, C, id, SearchScope(t, sc, id))
  <2>1. CASE sc.table # NoTable
    BY <2>1 DEF Counts, TableFor, SearchScope
  <2>2. CASE sc.table = NoTable
    <3> DEFINE S == {n \in PTNodes : t.nodes[n].id = id}
               q == LastIn(t, sc.lastProp, S)
    <3>1. C = On(t, sc.lastProp) /\ SearchScope(t, sc, id) = q
      BY <2>2 DEF Counts, SearchScope
    <3>2. Treelike(t) /\ sc.lastProp \in PTNodes \cup {NoNode} /\ C \subseteq PTNodes /\ NoNode \notin PTNodes
      BY CountsFacts
    <3> HIDE DEF q, S
    <3>3. (q = NoNode \/ q \in S \cap On(t, sc.lastProp)) /\ On(t, sc.lastProp) \cap S \subseteq On(t, q)
      BY <3>2, PopTo DEF q
    <3>4. CASE q = NoNode
      <4>1. On(t, q) = {}
        BY <3>2, <3>4, OnIs
      <4>2. \A m \in C : t.nodes[m].id # id
        BY <3>1, <3>2, <3>3, <4>1 DEF S
      <4> QED BY <3>1, <3>4, <4>2 DEF Finds
    <3>5. CASE q # NoNode
      BY <3>1, <3>3, <3>5 DEF S, Finds
    <3> QED BY <3>4, <3>5
  <2> QED BY <2>1, <2>2
<1> QED BY <1>1 DEF Finds

\* A node of the line is found for its id if and only if it counts.
LEMMA FoundIs ==
  ASSUME NEW t, TreeOK(t), NEW sc, NEW C, Counts(t, sc, C), NEW n \in On(t, sc.lastProp)
  PROVE  /\ SearchScope(t, sc, t.nodes[n].id) = IF n \in C THEN n ELSE NoNode
         /\ t.nodes[n].id \in PTIds /\ n \in NodesInUse(t) /\ n # NoNode
<1>1. /\ n \in NodesInUse(t) /\ t.nodes[n].id \in PTIds /\ n # NoNode
      /\ DistinctIds(t, On(t, sc.lastProp)) /\ C \subseteq On(t, sc.lastProp)
  BY CountsFacts
<1>2. Finds(t, C, t.nodes[n].id, SearchScope(t, sc, t.nodes[n].id))
  BY <1>1, SearchFinds
<1> HIDE DEF DistinctIds
<1>3. SearchScope(t, sc, t.nodes[n].id) = IF n \in C THEN n ELSE NoNode
  BY <1>1, <1>2 DEF Finds, DistinctIds
<1> QED BY <1>1, <1>3

\* What a scope lists, and binds, is what it counts.
LEMMA ListedAre ==
  ASSUME NEW t, TreeOK(t), NEW sc, NEW C, Counts(t, sc, C)
  PROVE  /\ On(t, sc.lastProp) \cap Listed(t, sc) = C
         /\ LineIn(t, sc.lastProp, Listed(t, sc)) = LineIn(t, sc.lastProp, C)
         /\ LineIn(t, sc.lastProp, {n \in NodesInUse(t) : SearchScope(t, sc, t.nodes[n].id) # NoNode})
              = LineIn(t, sc.lastProp, C)
<1> DEFINE S == {n \in NodesInUse(t) : SearchScope(t, sc, t.nodes[n].id) # NoNode}
           O == On(t, sc.lastProp)
<1>1. \A n \in O : n \in NodesInUse(t) /\ n # NoNode /\ SearchScope(t, sc, t.nodes[n].id) = IF n \in C THEN n ELSE NoNode
  BY FoundIs
<1>2. C \subseteq O /\ (~sc.middle => C = O)
  BY DEF Counts
<1>3. O \cap Listed(t, sc) = C
  BY <1>1, <1>2 DEF Listed, HasProperty
<1>4. O \cap S = C
  BY <1>1, <1>2
<1>5. Treelike(t) /\ sc.lastProp \in PTNodes \cup {NoNode}
  BY CountsFacts
<1> HIDE DEF S
<1>6. O \cap C = C
  BY <1>2
<1>7. LineIn(t, sc.lastProp, Listed(t, sc)) = LineIn(t, sc.lastProp, C)
  BY <1>3, <1>5, <1>6, LineSame
<1>8. LineIn(t, sc.lastProp, S) = LineIn(t, sc.lastProp, C)
  BY <1>4, <1>5, <1>6, LineSame
<1> QED BY <1>3, <1>7, <1>8 DEF S

\* js_CreateScopeTable enters what a search of the line finds.
LEMMA TableCreated ==
  ASSUME NEW t, TreeOK(t), NEW sc, NEW C, Counts(t, sc, C)
  PROVE  TableFor(t, C, [id \in PTIds |-> SearchScope(t, sc, id)])
<1>1. \A id \in PTIds : Finds(t, C, id, SearchScope(t, sc, id)) /\ SearchScope(t, sc, id) \in PTNodes \cup {NoNode}
  BY SearchFinds, CountsFacts
<1> QED BY <1>1 DEF TableFor, Tables

LEMMA TableRemoved ==
  ASSUME NEW t, NEW C, NEW tab, TableFor(t, C, tab), DistinctIds(t, C), NEW x \in C, t.nodes[x].id \in PTIds
  PROVE  TableFor(t, C \ {x}, [tab EXCEPT ![t.nodes[x].id] = NoNode])
<1> DEFINE new == [tab EXCEPT ![t.nodes[x].id] = NoNode]
<1>1. tab \in Tables /\ new \in Tables
  BY DEF TableFor, Tables
<1>2. \A id \in PTIds : new[id] = IF id = t.nodes[x].id THEN NoNode ELSE tab[id]
  BY <1>1 DEF Tables
<1> HIDE DEF new
<1>3. ASSUME NEW id \in PTIds PROVE Finds(t, C \ {x}, id, new[id])
  <2>1. Finds(t, C, id, tab[id])
    BY DEF TableFor
  <2>2. CASE id = t.nodes[x].id
    BY <1>2, <2>2 DEF Finds, DistinctIds
  <2>3. CASE id # t.nodes[x].id
    BY <1>2, <2>1, <2>3 DEF Finds
  <2> QED BY <2>2, <2>3
<1> QED BY <1>1, <1>3 DEF TableFor, new

LEMMA TableAdded ==
  ASSUME NEW t, NEW C, NEW tab, TableFor(t, C, tab), NEW x \in PTNodes, t.nodes[x].id \in PTIds,
         NoNode \notin PTNodes, \A m \in C : t.nodes[m].id # t.nodes[x].id
  PROVE  TableFor(t, C \cup {x}, [tab EXCEPT ![t.nodes[x].id] = x])
<1> DEFINE new == [tab EXCEPT ![t.nodes[x].id] = x]
<1>1. tab \in Tables /\ new \in Tables
  BY DEF TableFor, Tables
<1>2. \A id \in PTIds : new[id] = IF id = t.nodes[x].id THEN x ELSE tab[id]
  BY <1>1 DEF Tables
<1> HIDE DEF new
<1>3. ASSUME NEW id \in PTIds PROVE Finds(t, C \cup {x}, id, new[id])
  <2>1. Finds(t, C, id, tab[id])
    BY DEF TableFor
  <2>2. CASE id = t.nodes[x].id
    BY <1>2, <2>2 DEF Finds
  <2>3. CASE id # t.nodes[x].id
    BY <1>2, <2>1, <2>3 DEF Finds
  <2> QED BY <2>2, <2>3
<1> QED BY <1>1, <1>3 DEF TableFor, new

----------------------------------------------------------------------------
(* Taking a property off a scope.                                          *)

\* When the last node goes the scope ends where it last counts another one.
LEMMA UnlinkLast ==
  ASSUME NEW t, TreeOK(t), NEW sc, NEW C, Counts(t, sc, C), sc.lastProp # NoNode
  PROVE  /\ Counts(t, Unlink(t, sc, sc.lastProp), C \ {sc.lastProp})
         /\ PairsAt(t, Unlink(t, sc, sc.lastProp).lastProp, C \ {sc.lastProp})
              = PairsAt(t, sc.lastProp, C \ {sc.lastProp})
         /\ On(t, Unlink(t, sc, sc.lastProp).lastProp) \subseteq On(t, t.nodes[sc.lastProp].parent)
         /\ Unlink(t, sc, sc.lastProp).lastProp = t.nodes[sc.lastProp].parent
              \/ Unlink(t, sc, sc.lastProp).middle
<1> DEFINE x == sc.lastProp
           id == t.nodes[x].id
           p == t.nodes[x].parent
           off == Store([sc EXCEPT !.entryCount = @ - 1], id, NoNode)
           L == Listed(t, off)
           q == LastIn(t, p, L)
           u == [off EXCEPT !.lastProp = q]
           D == C \ {x}
<1>1. /\ Treelike(t) /\ NoNode \notin PTNodes /\ NodesInUse(t) \subseteq PTNodes /\ sc \in ScopeRecords
      /\ On(t, x) \subseteq NodesInUse(t) /\ C \subseteq NodesInUse(t) /\ C \subseteq On(t, x)
      /\ DistinctIds(t, On(t, x)) /\ DistinctIds(t, C)
  BY CountsFacts
<1>2. x \in C /\ x \in PTNodes /\ x \in NodesInUse(t) /\ id \in PTIds
  BY <1>1, FoundIs DEF Counts
<1>4. On(t, x) = On(t, p) \cup {x} /\ x \notin On(t, p) /\ p \in PTNodes \cup {NoNode}
  BY <1>1, <1>2, OnIs, NodeFacts
<1>5. Len(LineIn(t, x, C)) = Len(LineIn(t, x, D)) + 1 /\ Len(LineIn(t, x, D)) \in Nat
  BY <1>1, <1>2, LineShorter
<1>6. sc.table \in Tables => [sc.table EXCEPT ![id] = NoNode] \in Tables
  BY DEF Tables
<1>7. /\ off.lastProp = x /\ off.middle = sc.middle /\ off.entryCount = sc.entryCount - 1
      /\ off.table = IF sc.table = NoTable THEN NoTable ELSE [sc.table EXCEPT ![id] = NoNode]
      /\ off = [lastProp |-> off.lastProp, table |-> off.table, middle |-> off.middle, entryCount |-> off.entryCount]
  BY <1>1 DEF Store, ScopeRecords
<1>3. Unlink(t, sc, sc.lastProp) = u
  <2>1. Unlink(t, sc, sc.lastProp) = PopLast(t, off)
    BY DEF Unlink
  <2> HIDE DEF off
  <2> QED BY <1>7, <2>1 DEF PopLast
<1>8. sc.table # NoTable => sc.table \in Tables /\ off.table # NoTable /\ TableFor(t, D, off.table)
  <2> SUFFICES ASSUME sc.table # NoTable PROVE sc.table \in Tables /\ off.table # NoTable /\ TableFor(t, D, off.table)
    OBVIOUS
  <2>1. TableFor(t, C, sc.table)
    BY DEF Counts
  <2>2. TableFor(t, C \ {x}, [sc.table EXCEPT ![t.nodes[x].id] = NoNode])
    BY <1>1, <1>2, <2>1, TableRemoved
  <2> QED BY <1>7, <2>1, <2>2, NoTableIsNone DEF TableFor
<1>9. (sc.table = NoTable => ~sc.middle) /\ (~sc.middle => C = On(t, x))
  BY DEF Counts
<1> HIDE DEF off
<1>10. On(t, p) \cap L = D
  <2>1. \A m \in On(t, p) : m \in NodesInUse(t) /\ m # x /\ m # NoNode /\ t.nodes[m].id \in PTIds
    BY <1>1, <1>4, NodeFacts
  <2>2. CASE ~sc.middle
    <3>1. On(t, p) \subseteq L
      BY <1>7, <2>1, <2>2 DEF Listed
    <3> QED BY <1>4, <1>9, <2>2, <3>1
  <2>3. CASE sc.middle
    <3>1. TableFor(t, D, off.table) /\ off.table # NoTable
      BY <1>8, <1>9, <2>3
    <3>2. \A m \in On(t, p) : m \in L <=> off.table[t.nodes[m].id] = m
      BY <1>7, <2>1, <2>3, <3>1 DEF Listed, HasProperty, SearchScope
    <3>3. \A m \in On(t, p) : Finds(t, D, t.nodes[m].id, off.table[t.nodes[m].id])
      BY <2>1, <3>1 DEF TableFor
    <3>4. DistinctIds(t, D)
      BY <1>1 DEF DistinctIds
    <3>5. ASSUME NEW m \in On(t, p) PROVE off.table[t.nodes[m].id] = m <=> m \in D
      <4>1. Finds(t, D, t.nodes[m].id, off.table[t.nodes[m].id]) /\ m # NoNode
        BY <2>1, <3>3
      <4> QED BY <3>4, <4>1 DEF Finds, DistinctIds
    <3>6. D \subseteq On(t, p)
      BY <1>1, <1>4
    <3> QED BY <3>2, <3>5, <3>6
  <2> QED BY <2>2, <2>3
<1> HIDE DEF L
<1>11. /\ q = NoNode \/ q \in L \cap On(t, p)
       /\ q \in PTNodes \cup {NoNode}
       /\ On(t, q) \subseteq On(t, p) /\ On(t, p) \cap L \subseteq On(t, q)
       /\ LineIn(t, q, L) = LineIn(t, p, L)
  BY <1>1, <1>4, PopTo
<1> HIDE DEF q
<1>12. /\ On(t, q) \cap L = On(t, q) \cap D
       /\ On(t, p) \cap L = On(t, p) \cap D
       /\ On(t, x) \cap D = On(t, x) \cap D
       /\ D \subseteq On(t, q) /\ (q # NoNode => q \in D)
  BY <1>10, <1>11
<1>13. LineIn(t, q, D) = LineIn(t, p, D)
  <2>1. LineIn(t, q, L) = LineIn(t, q, D)
    BY <1>1, <1>11, <1>12, LineSame
  <2>2. LineIn(t, p, L) = LineIn(t, p, D)
    BY <1>1, <1>4, <1>12, LineSame
  <2> QED BY <1>11, <2>1, <2>2
<1>14. LineIn(t, x, D) = LineIn(t, p, D)
  BY <1>1, <1>2, LineStep
<1>15. PairsAt(t, q, D) = PairsAt(t, x, D)
  BY <1>13, <1>14 DEF PairsAt
<1>16. ~sc.middle => D = On(t, q) /\ q = p
  <2> SUFFICES ASSUME ~sc.middle PROVE D = On(t, q) /\ q = p
    OBVIOUS
  <2>1. D = On(t, p)
    BY <1>4, <1>9
  <2>2. D = On(t, q)
    BY <1>11, <1>12, <2>1
  <2>3. p # NoNode => p \in On(t, p) /\ q \in PTNodes
    <3> SUFFICES ASSUME p # NoNode PROVE p \in On(t, p) /\ q \in PTNodes
      OBVIOUS
    <3>1. p \in On(t, p)
      BY <1>1, <1>4, OnIs
    <3>2. On(t, NoNode) = {}
      BY <1>1, OnIs
    <3> QED BY <1>11, <2>1, <2>2, <3>1, <3>2
  <2>4. CASE p = NoNode
    <3>1. On(t, p) = {}
      BY <1>1, <2>4, OnIs
    <3> QED BY <1>11, <2>2, <2>4, <3>1
  <2>5. CASE p # NoNode
    <3>1. LastIn(t, p, L) = IF p \in L THEN p ELSE LastIn(t, t.nodes[p].parent, L)
      BY <1>1, <1>4, <2>5, LastUnfold
    <3>2. p \in L
      BY <1>10, <2>1, <2>3, <2>5
    <3> QED BY <2>2, <3>1, <3>2 DEF q
  <2> QED BY <2>4, <2>5
<1>17. /\ u.lastProp = q /\ u.middle = sc.middle /\ u.table = off.table /\ u.entryCount = Len(LineIn(t, q, D))
       /\ u \in ScopeRecords
  <2>1. u = [lastProp |-> q, table |-> off.table, middle |-> sc.middle, entryCount |-> sc.entryCount - 1]
    BY <1>7
  <2>2. sc.entryCount = Len(LineIn(t, x, C))
    BY DEF Counts
  <2>3. sc.entryCount - 1 = Len(LineIn(t, q, D)) /\ sc.entryCount - 1 \in Nat
    BY <1>5, <1>13, <1>14, <2>2
  <2>4. off.table \in {NoTable} \cup Tables
    BY <1>7, <1>8 DEF TableFor
  <2>5. sc.middle \in BOOLEAN
    BY <1>1 DEF ScopeRecords
  <2> QED BY <1>11, <2>1, <2>3, <2>4, <2>5 DEF ScopeRecords
<1> HIDE DEF u
<1>18. Counts(t, u, D)
  <2>1. u.lastProp \in NodesInUse(t) \cup {NoNode}
    BY <1>1, <1>12, <1>17
  <2>2. DistinctIds(t, On(t, q))
    BY <1>1, <1>4, <1>11 DEF DistinctIds
  <2>3. u.table # NoTable => TableFor(t, D, u.table)
    BY <1>7, <1>8, <1>17
  <2>4. u.table = NoTable => ~u.middle
    BY <1>8, <1>9, <1>17
  <2> QED BY <1>12, <1>16, <1>17, <2>1, <2>2, <2>3, <2>4 DEF Counts
<1>19. u.middle \/ u.lastProp = p
  BY <1>16, <1>17
<1> QED BY <1>3, <1>11, <1>15, <1>17, <1>18, <1>19

LEMMA MiddleOn ==
  ASSUME NEW a, NEW b, NEW c, NEW d, NEW sc,
         sc = [lastProp |-> a, table |-> b, middle |-> c, entryCount |-> d]
  PROVE  [sc EXCEPT !.middle = TRUE] = [lastProp |-> a, table |-> b, middle |-> TRUE, entryCount |-> d]
<1> DEFINE on == TRUE
<1> HIDE DEF on
<1>1. [sc EXCEPT !.middle = on] = [lastProp |-> a, table |-> b, middle |-> on, entryCount |-> d]
  OBVIOUS
<1> QED BY <1>1, Zenon DEF on

\* A node in the middle only leaves the table; the scope is marked.
LEMMA UnlinkOther ==
  ASSUME NEW t, TreeOK(t), NEW sc, NEW C, Counts(t, sc, C), NEW x \in C, x # sc.lastProp
  PROVE  /\ Counts(t, Unlink(t, sc, x), C \ {x})
         /\ Unlink(t, sc, x).lastProp = sc.lastProp /\ Unlink(t, sc, x).middle
<1> DEFINE id == t.nodes[x].id
           hashed == IF x = sc.lastProp \/ sc.table # NoTable THEN sc ELSE CreateScopeTable(t, sc)
           off == Store([hashed EXCEPT !.entryCount = @ - 1], id, NoNode)
           u == [off EXCEPT !.middle = TRUE]
           D == C \ {x}
<1>1. /\ Treelike(t) /\ NoNode \notin PTNodes /\ NodesInUse(t) \subseteq PTNodes /\ sc \in ScopeRecords
      /\ On(t, sc.lastProp) \subseteq NodesInUse(t) /\ C \subseteq NodesInUse(t) /\ C \subseteq On(t, sc.lastProp)
      /\ DistinctIds(t, On(t, sc.lastProp)) /\ DistinctIds(t, C) /\ sc.lastProp \in PTNodes \cup {NoNode}
  BY CountsFacts
<1>2. x \in NodesInUse(t) /\ id \in PTIds
  BY <1>1, FoundIs
<1>3. Unlink(t, sc, x) = u
  BY DEF Unlink
<1>4. hashed.table # NoTable /\ TableFor(t, C, hashed.table)
  <2>1. CASE sc.table # NoTable
    BY <2>1 DEF Counts
  <2>2. CASE sc.table = NoTable
    <3>1. hashed.table = [i \in PTIds |-> SearchScope(t, sc, i)]
      BY <1>1, <2>2 DEF CreateScopeTable, ScopeRecords
    <3>2. TableFor(t, C, hashed.table)
      BY <3>1, TableCreated
    <3> QED BY <3>2, NoTableIsNone DEF TableFor
  <2> QED BY <2>1, <2>2
<1>5. /\ hashed.lastProp = sc.lastProp /\ hashed.middle = sc.middle /\ hashed.entryCount = sc.entryCount
      /\ hashed = [lastProp |-> hashed.lastProp, table |-> hashed.table, middle |-> hashed.middle,
                   entryCount |-> hashed.entryCount]
  BY <1>1 DEF CreateScopeTable, ScopeRecords
<1> HIDE DEF hashed
<1>6. TableFor(t, D, [hashed.table EXCEPT ![id] = NoNode])
  BY <1>1, <1>2, <1>4, TableRemoved
<1>7. u = [lastProp |-> sc.lastProp, table |-> [hashed.table EXCEPT ![id] = NoNode], middle |-> TRUE,
           entryCount |-> sc.entryCount - 1]
  <2> DEFINE less == [hashed EXCEPT !.entryCount = @ - 1]
  <2>1. less = [lastProp |-> sc.lastProp, table |-> hashed.table, middle |-> sc.middle, entryCount |-> sc.entryCount - 1]
    BY <1>5
  <2> HIDE DEF less
  <2>2. off = [less EXCEPT !.table[id] = NoNode]
    BY <1>4, <2>1 DEF Store, less
  <2>3. off = [lastProp |-> sc.lastProp, table |-> [hashed.table EXCEPT ![id] = NoNode], middle |-> sc.middle,
               entryCount |-> sc.entryCount - 1]
    BY <2>1, <2>2
  <2> DEFINE tb == [hashed.table EXCEPT ![id] = NoNode]
             k == sc.entryCount - 1
  <2>4. off = [lastProp |-> sc.lastProp, table |-> tb, middle |-> sc.middle, entryCount |-> k]
    BY <2>3
  <2> HIDE DEF off, tb, k
  <2>5. u = [lastProp |-> sc.lastProp, table |-> tb, middle |-> TRUE, entryCount |-> k]
    BY <2>4, MiddleOn
  <2> HIDE DEF u
  <2> QED BY <2>5 DEF tb, k
<1>8. Len(LineIn(t, sc.lastProp, C)) = Len(LineIn(t, sc.lastProp, D)) + 1 /\ Len(LineIn(t, sc.lastProp, D)) \in Nat
  <2>1. x \in C \cap On(t, sc.lastProp)
    BY <1>1
  <2> QED BY <1>1, <2>1, LineShorter
<1>9. sc.entryCount = Len(LineIn(t, sc.lastProp, C)) /\ sc.lastProp \in NodesInUse(t) \cup {NoNode}
      /\ (sc.lastProp # NoNode => sc.lastProp \in C)
  BY DEF Counts
<1> DEFINE tab == [hashed.table EXCEPT ![id] = NoNode]
<1>10. tab \in Tables /\ tab # NoTable
  BY <1>6, NoTableIsNone DEF TableFor
<1> HIDE DEF u, tab
<1>11. /\ u.lastProp = sc.lastProp /\ u.table = tab /\ u.middle = TRUE /\ u.entryCount = Len(LineIn(t, sc.lastProp, D))
       /\ u \in ScopeRecords
  <2>1. u = [lastProp |-> sc.lastProp, table |-> tab, middle |-> TRUE, entryCount |-> Len(LineIn(t, sc.lastProp, D))]
    BY <1>7, <1>8, <1>9 DEF tab
  <2> QED BY <1>1, <1>8, <1>10, <2>1 DEF ScopeRecords
<1>12. Counts(t, u, D)
  <2>1. TableFor(t, D, u.table)
    BY <1>6, <1>11 DEF tab
  <2>2. u.lastProp # NoNode => u.lastProp \in D
    BY <1>9, <1>11
  <2> QED BY <1>1, <1>9, <1>10, <1>11, <2>1, <2>2 DEF Counts
<1> QED BY <1>3, <1>11, <1>12

\* A removal leaves the pair out of the list, and the rest in order.
LEMMA UnlinkCounts ==
  ASSUME NEW t, TreeOK(t), NEW sc, NEW C, Counts(t, sc, C), NEW x \in C
  PROVE  /\ Counts(t, Unlink(t, sc, x), C \ {x})
         /\ PairsAt(t, Unlink(t, sc, x).lastProp, C \ {x}) = OP!Without(PairsAt(t, sc.lastProp, C), t.nodes[x].id)
<1>1. Treelike(t) /\ C \in SUBSET NodesInUse(t) /\ DistinctIds(t, C) /\ NoNode \notin C
      /\ sc.lastProp \in PTNodes \cup {NoNode} /\ C \subseteq On(t, sc.lastProp)
  BY CountsFacts
<1>2. \A m \in C \cap On(t, sc.lastProp) : t.nodes[m].id = t.nodes[x].id <=> m = x
  BY <1>1 DEF DistinctIds
<1>3. PairsAt(t, sc.lastProp, C \ {x}) = OP!Without(PairsAt(t, sc.lastProp, C), t.nodes[x].id)
  <2> DEFINE id == t.nodes[x].id
             n == sc.lastProp
  <2>1. \A m \in C \cap On(t, n) : t.nodes[m].id = id <=> m = x
    BY <1>2
  <2>2. Treelike(t) /\ C \in SUBSET NodesInUse(t) /\ n \in PTNodes \cup {NoNode}
    BY <1>1
  <2> HIDE DEF id, n
  <2>3. Names(t, n, C, x, id)
    BY <2>1 DEF Names
  <2>4. LeavesOut(t, n, C, x, id)
    BY ONLY <2>2, <2>3, PairsWithout
  <2> QED BY <2>4 DEF LeavesOut, id, n
<1>4. CASE x = sc.lastProp
  <2>1. sc.lastProp # NoNode
    BY <1>1, <1>4
  <2> QED BY <1>3, <1>4, <2>1, UnlinkLast
<1>5. CASE x # sc.lastProp
  <2>1. Counts(t, Unlink(t, sc, x), C \ {x}) /\ Unlink(t, sc, x).lastProp = sc.lastProp
    BY <1>5, UnlinkOther
  <2> QED BY <1>3, <2>1
<1> QED BY <1>4, <1>5

----------------------------------------------------------------------------
(* Finding or making a child.                                              *)

\* The nodes in use stay as they are.
Extends(t, t2) == \A n \in NodesInUse(t) : n \in NodesInUse(t2) /\ t2.nodes[n] = t.nodes[n]

\* A new node is below its parent, and no other changes.
LEMMA NodeMade ==
  ASSUME NEW t, TreeOK(t), NEW p \in NodesInUse(t) \cup {NoNode}, NEW id \in PTIds, NEW attrs \in PTAttrs,
         NodesInUse(t) # PTNodes
  PROVE  /\ TreeOK(NewNode(t, p, id, attrs).tree) /\ Extends(t, NewNode(t, p, id, attrs).tree)
         /\ NewNode(t, p, id, attrs).got \in NodesInUse(NewNode(t, p, id, attrs).tree)
         /\ NewNode(t, p, id, attrs).tree.nodes[NewNode(t, p, id, attrs).got] = [id |-> id, attrs |-> attrs, parent |-> p]
<1> DEFINE n == Min(PTNodes \ NodesInUse(t))
           new == [id |-> id, attrs |-> attrs, parent |-> p]
           nodes == [t.nodes EXCEPT ![n] = new]
           roots == IF p = NoNode THEN t.roots \cup {n} ELSE t.roots
           t2 == [nodes |-> nodes, roots |-> roots]
<1>1. /\ Treelike(t) /\ NoNode \notin PTNodes /\ NodesInUse(t) \subseteq PTNodes
      /\ t.nodes \in [PTNodes -> NodeRecords] /\ NoNode \notin PTIds
      /\ \A m \in PTNodes \ NodesInUse(t) : t.nodes[m] = FreeNode
      /\ \A m \in PTNodes : t.nodes[m].parent \in PTNodes \cup {NoNode}
  BY NodeFacts, PropTreeAssumption DEF TreeOK, Treelike
<1>2. n \in PTNodes /\ n \notin NodesInUse(t)
  <2>1. PTNodes \ NodesInUse(t) # {}
    BY <1>1
  <2>2. PTNodes \in SUBSET Nat
    BY DEF PTNodes
  <2> QED BY <2>1, <2>2, MinIsLeast
<1>3. NewNode(t, p, id, attrs) = [tree |-> t2, got |-> n]
  BY DEF NewNode
<1> HIDE DEF n
<1>4. new \in NodeRecords /\ new # FreeNode /\ new.parent = p
  BY <1>1 DEF NodeRecords, FreeNode
<1> HIDE DEF new
<1>5. nodes \in [PTNodes -> NodeRecords] /\ nodes[n] = new /\ \A m \in PTNodes : m # n => nodes[m] = t.nodes[m]
  BY <1>1, <1>2, <1>4
<1> HIDE DEF nodes
<1>6. t2.nodes = nodes /\ t2.roots = roots /\ t2 = [nodes |-> t2.nodes, roots |-> t2.roots]
  OBVIOUS
<1> HIDE DEF t2
<1>7. NodesInUse(t2) = NodesInUse(t) \cup {n}
  BY <1>1, <1>2, <1>4, <1>5, <1>6 DEF NodesInUse
<1>8. \A m \in NodesInUse(t) : t.nodes[m].parent \in NodesInUse(t) \cup {NoNode}
  BY DEF TreeOK
<1>9. Ranked(t2)
  <2>1. PICK b \in Nat : \E r : Ranking(t, r, b)
    BY <1>1 DEF Treelike, Ranked
  <2>2. PICK r : Ranking(t, r, b)
    BY <2>1
  <2> DEFINE r2 == [r EXCEPT ![n] = b + 1]
  <2>3. r \in [PTNodes -> 0..b]
    BY <2>2 DEF Ranking
  <2>4. r2[n] = b + 1 /\ \A m \in PTNodes : m # n => r2[m] = r[m]
    BY <1>2, <2>3
  <2>5. r2 \in [PTNodes -> 0..b + 1]
    <3>1. 0..b \subseteq 0..b + 1 /\ b + 1 \in 0..b + 1
      BY <2>1
    <3> QED BY <2>3, <3>1
  <2> HIDE DEF r2
  <2>6. ASSUME NEW m \in PTNodes, t2.nodes[m].parent # NoNode PROVE r2[t2.nodes[m].parent] < r2[m]
    <3>1. CASE m = n
      <4>1. t2.nodes[m].parent = p /\ p \in PTNodes /\ p # n
        BY <1>1, <1>2, <1>4, <1>5, <1>6, <2>6, <3>1
      <4>2. r[p] \in 0..b
        BY <2>3, <4>1
      <4> QED BY <2>1, <2>4, <3>1, <4>1, <4>2
    <3>2. CASE m # n
      <4>1. t2.nodes[m].parent = t.nodes[m].parent
        BY <1>5, <1>6, <3>2
      <4>2. m \in NodesInUse(t)
        BY <1>1, <2>6, <4>1 DEF FreeNode
      <4>3. t.nodes[m].parent \in PTNodes /\ t.nodes[m].parent # n
        BY <1>1, <1>2, <1>8, <2>6, <4>1, <4>2
      <4>4. r[t.nodes[m].parent] < r[m]
        BY <2>2, <2>6, <4>1 DEF Ranking
      <4> QED BY <2>4, <3>2, <4>1, <4>3, <4>4
    <3> QED BY <3>1, <3>2
  <2>7. Ranking(t2, r2, b + 1) /\ b + 1 \in Nat
    BY <2>1, <2>5, <2>6 DEF Ranking
  <2> QED BY <2>7 DEF Ranked
<1>10. \A m \in NodesInUse(t2) : t2.nodes[m].parent \in NodesInUse(t2) \cup {NoNode}
  BY <1>1, <1>4, <1>5, <1>6, <1>7, <1>8
<1>11. \A m \in t2.roots : m \in NodesInUse(t2) /\ t2.nodes[m].parent = NoNode
  <2>1. \A m \in t.roots : m \in NodesInUse(t) /\ t.nodes[m].parent = NoNode
    BY DEF TreeOK
  <2> QED BY <1>1, <1>2, <1>4, <1>5, <1>6, <1>7, <2>1
<1>12. TreeOK(t2)
  BY <1>5, <1>6, <1>9, <1>10, <1>11 DEF TreeOK, Treelike
<1>13. Extends(t, t2)
  BY <1>1, <1>2, <1>5, <1>6, <1>7 DEF Extends
<1>14. NewNode(t, p, id, attrs).tree = t2 /\ NewNode(t, p, id, attrs).got = n
  BY <1>3
<1>15. n \in NodesInUse(t2) /\ t2.nodes[n] = new
  BY <1>5, <1>6, <1>7
<1> QED BY <1>12, <1>13, <1>14, <1>15 DEF new

\* The child that is found or made is the one asked for.
LEMMA GotChild ==
  ASSUME NEW t, TreeOK(t), NEW p \in NodesInUse(t) \cup {NoNode}, NEW id \in PTIds, NEW attrs \in PTAttrs,
         NEW g \in GetPropertyTreeChild(t, p, id, attrs)
  PROVE  /\ TreeOK(g.tree) /\ Extends(t, g.tree) /\ (g.got = NoNode => g.tree = t)
         /\ g.got # NoNode => /\ g.got \in NodesInUse(g.tree)
                              /\ g.tree.nodes[g.got].id = id /\ g.tree.nodes[g.got].attrs = attrs
                              /\ g.tree.nodes[g.got].parent = p
<1> DEFINE found == {n \in Kids(t, p) : SpropMatch(t, n, id, attrs)}
<1>1. \/ \E n \in found : g = [tree |-> t, got |-> n]
      \/ g = [tree |-> t, got |-> NoNode]
      \/ NodesInUse(t) # PTNodes /\ g = NewNode(t, p, id, attrs)
  BY DEF GetPropertyTreeChild
<1>2. Extends(t, t)
  BY DEF Extends
<1>3. CASE \E n \in found : g = [tree |-> t, got |-> n]
  <2>1. PICK n \in found : g = [tree |-> t, got |-> n]
    BY <1>3
  <2>2. n \in NodesInUse(t) /\ t.nodes[n].parent = p
    BY <2>1 DEF Kids, TreeOK
  <2>3. t.nodes[n].id = id /\ t.nodes[n].attrs = attrs
    BY <2>1 DEF SpropMatch
  <2>4. NoNode \notin NodesInUse(t)
    BY NodeFacts DEF TreeOK
  <2> QED BY <1>2, <2>1, <2>2, <2>3, <2>4
<1>4. CASE g = [tree |-> t, got |-> NoNode]
  BY <1>2, <1>4
<1>5. CASE NodesInUse(t) # PTNodes /\ g = NewNode(t, p, id, attrs)
  <2>1. g.got \in NodesInUse(g.tree) /\ TreeOK(g.tree) /\ Extends(t, g.tree)
        /\ g.tree.nodes[g.got] = [id |-> id, attrs |-> attrs, parent |-> p]
    BY <1>5, NodeMade
  <2>2. NoNode \notin NodesInUse(g.tree)
    BY <2>1, NodeFacts DEF TreeOK
  <2> QED BY <2>1, <2>2
<1> QED BY <1>1, <1>3, <1>4, <1>5

\* The lines of a tree that grows stay as they were.
LEMMA ExtendsOn ==
  ASSUME NEW t, TreeOK(t), NEW t2, TreeOK(t2), Extends(t, t2), NEW n \in NodesInUse(t) \cup {NoNode}
  PROVE  /\ \A S : LineIn(t2, n, S) = LineIn(t, n, S)
         /\ On(t2, n) = On(t, n)
         /\ \A C : C \subseteq On(t, n) => PairsAt(t2, n, C) = PairsAt(t, n, C)
         /\ n \in NodesInUse(t2) \cup {NoNode}
<1>1. Treelike(t) /\ Treelike(t2) /\ NodesInUse(t) \in SUBSET PTNodes
  BY NodeFacts DEF TreeOK
<1>2. \A m \in NodesInUse(t) : t2.nodes[m].parent = t.nodes[m].parent /\ t.nodes[m].parent \in NodesInUse(t) \cup {NoNode}
  BY DEF Extends, TreeOK
<1>3. \A S : LineIn(t2, n, S) = LineIn(t, n, S)
  BY <1>1, <1>2, LineKept
<1>4. On(t2, n) = On(t, n)
  BY <1>3 DEF On, Line
<1>5. ASSUME NEW C, C \subseteq On(t, n) PROVE PairsAt(t2, n, C) = PairsAt(t, n, C)
  <2> DEFINE l == LineIn(t, n, C)
  <2>1. \A i \in DOMAIN l : l[i] \in NodesInUse(t)
    <3>1. ToSet(l) = On(t, n) \cap C /\ n \in PTNodes \cup {NoNode}
      BY <1>1, LineIs
    <3>2. On(t, n) \subseteq NodesInUse(t)
      BY OnInUse
    <3> QED BY <3>1, <3>2 DEF ToSet
  <2> HIDE DEF l
  <2>2. \A i \in DOMAIN l : Pair(t2, l[i]) = Pair(t, l[i])
    BY <2>1 DEF Pair, Extends
  <2>3. [i \in DOMAIN l |-> Pair(t2, l[i])] = [i \in DOMAIN l |-> Pair(t, l[i])]
    BY <2>2
  <2>4. LineIn(t2, n, C) = l
    BY <1>3 DEF l
  <2> QED BY <2>3, <2>4 DEF PairsAt, l
<1>6. n \in NodesInUse(t2) \cup {NoNode}
  BY DEF Extends
<1> QED BY <1>3, <1>4, <1>5, <1>6

\* What a scope counts stays when the tree is extended.
LEMMA CountsKept ==
  ASSUME NEW t, TreeOK(t), NEW t2, TreeOK(t2), Extends(t, t2), NEW sc, NEW C, Counts(t, sc, C)
  PROVE  Counts(t2, sc, C) /\ PairsAt(t2, sc.lastProp, C) = PairsAt(t, sc.lastProp, C)
<1>1. /\ On(t, sc.lastProp) \subseteq NodesInUse(t) /\ C \subseteq On(t, sc.lastProp)
      /\ DistinctIds(t, On(t, sc.lastProp)) /\ sc.lastProp \in NodesInUse(t) \cup {NoNode}
  BY CountsFacts DEF Counts
<1>2. /\ \A S : LineIn(t2, sc.lastProp, S) = LineIn(t, sc.lastProp, S)
      /\ On(t2, sc.lastProp) = On(t, sc.lastProp)
      /\ PairsAt(t2, sc.lastProp, C) = PairsAt(t, sc.lastProp, C)
      /\ sc.lastProp \in NodesInUse(t2) \cup {NoNode}
  BY <1>1, ExtendsOn
<1>3. \A n \in NodesInUse(t) : t2.nodes[n] = t.nodes[n]
  BY DEF Extends
<1>4. DistinctIds(t2, On(t2, sc.lastProp))
  BY <1>1, <1>2, <1>3 DEF DistinctIds
<1>5. \A id, n : Finds(t, C, id, n) => Finds(t2, C, id, n)
  BY <1>1, <1>3 DEF Finds
<1>6. sc.table # NoTable => TableFor(t2, C, sc.table)
  BY <1>5 DEF Counts, TableFor
<1>7. sc.entryCount = Len(LineIn(t2, sc.lastProp, C))
  BY <1>2 DEF Counts
<1> QED BY <1>2, <1>4, <1>6, <1>7 DEF Counts

----------------------------------------------------------------------------
(* Forking.                                                                *)

\* The node before the next place of a line.
At(l, i) == IF i = 0 THEN NoNode ELSE l[i]

\* The lines of the nodes of a line are its beginnings.
LineOf(t, l, C) ==
    /\ \A i \in 1..Len(l) : LineIn(t, l[i], C) = Append(LineIn(t, At(l, i - 1), C), l[i])
    /\ LineIn(t, At(l, Len(l)), C) = l

\* The line of each node of a line is the line as far as the node.
LEMMA LineBegins ==
  ASSUME NEW t, Treelike(t), NEW C, NEW n \in PTNodes \cup {NoNode}
  PROVE  LineOf(t, LineIn(t, n, C), C)
<1> DEFINE G == {y \in PTNodes \cup {NoNode} : LineOf(t, LineIn(t, y, C), C)}
<1>1. NoNode \in G
  <2>1. LineIn(t, NoNode, C) = <<>> /\ Len(<<>>) = 0 /\ 1..0 = {}
    BY LineNone
  <2> QED BY <2>1 DEF LineOf, At
<1>2. ASSUME NEW y \in PTNodes, t.nodes[y].parent \in G PROVE y \in G
  <2> DEFINE l == LineIn(t, t.nodes[y].parent, C)
             k == Len(l)
  <2>1. l \in Seq(PTNodes) /\ k \in Nat
    BY LineTyped, NodeFacts
  <2>2. LineIn(t, y, C) = IF y \in C THEN Append(l, y) ELSE l
    BY LineStep
  <2>3. LineOf(t, l, C)
    BY <1>2
  <2> HIDE DEF l
  <2>4. CASE y \in C
    <3> DEFINE m == Append(l, y)
    <3>1. Len(m) = k + 1 /\ m[k + 1] = y /\ \A i \in 1..k : m[i] = l[i]
      BY <2>1
    <3> HIDE DEF m
    <3>2. \A i \in 0..k : At(m, i) = At(l, i)
      BY <3>1 DEF At
    <3>3. LineIn(t, At(l, k), C) = l
      BY <2>3 DEF LineOf
    <3>4. ASSUME NEW i \in 1..k + 1 PROVE LineIn(t, m[i], C) = Append(LineIn(t, At(m, i - 1), C), m[i])
      <4>1. CASE i = k + 1
        <5>1. m[i] = y /\ At(m, i - 1) = At(l, k)
          BY <2>1, <3>1, <3>2, <4>1
        <5> QED BY <2>2, <2>4, <3>3, <5>1
      <4>2. CASE i # k + 1
        <5>1. i \in 1..k /\ i - 1 \in 0..k
          BY <2>1, <4>2
        <5>2. LineIn(t, l[i], C) = Append(LineIn(t, At(l, i - 1), C), l[i])
          BY <2>3, <5>1 DEF LineOf
        <5> QED BY <3>1, <3>2, <5>1, <5>2
      <4> QED BY <4>1, <4>2
    <3>5. At(m, k + 1) = y
      BY <2>1, <3>1 DEF At
    <3>6. LineOf(t, m, C)
      <4>1. LineIn(t, At(m, Len(m)), C) = m
        BY <2>2, <2>4, <3>1, <3>5 DEF m
      <4> QED BY <3>1, <3>4, <4>1 DEF LineOf
    <3> QED BY <2>2, <2>4, <3>6 DEF m
  <2>5. CASE y \notin C
    BY <2>2, <2>3, <2>5
  <2> QED BY <2>4, <2>5
<1> HIDE DEF G
<1>3. PTNodes \subseteq G
  BY <1>1, <1>2, NodeInduction
<1>4. n \in G
  BY <1>1, <1>3
<1>5. \A y \in G : LineOf(t, LineIn(t, y, C), C)
  BY DEF G
<1> QED BY ONLY <1>4, <1>5

\* The next node of a line and what it adds.
LEMMA NextOnLine ==
  ASSUME NEW t, TreeOK(t), NEW sc, NEW C, Counts(t, sc, C),
         NEW l, l = LineIn(t, sc.lastProp, C), NEW i \in 1..Len(l)
  PROVE  /\ l[i] \in C /\ At(l, i) = l[i]
         /\ PairsAt(t, At(l, i), C) = Append(PairsAt(t, At(l, i - 1), C), Pair(t, l[i]))
         /\ On(t, At(l, i)) \cap C = (On(t, At(l, i - 1)) \cap C) \cup {l[i]}
         /\ l[i] \notin On(t, At(l, i - 1))
         /\ At(l, i - 1) \in C \cup {NoNode}
<1>1. Treelike(t) /\ sc.lastProp \in PTNodes \cup {NoNode} /\ C \subseteq PTNodes /\ C \subseteq On(t, sc.lastProp)
  BY CountsFacts
<1>2. l \in Seq(PTNodes) /\ ToSet(l) = C /\ Len(l) \in Nat
  <2>1. l \in Seq(PTNodes)
    BY <1>1, LineTyped
  <2>2. ToSet(l) = On(t, sc.lastProp) \cap C
    BY <1>1, LineIs
  <2> QED BY <1>1, <2>1, <2>2
<1>3. \A j \in 1..Len(l) : l[j] \in C
  BY <1>2, Members
<1>4. l[i] \in C /\ At(l, i) = l[i]
  BY <1>3 DEF At
<1>5. At(l, i - 1) \in C \cup {NoNode}
  BY <1>2, <1>3 DEF At
<1> DEFINE x == l[i]
           y == At(l, i - 1)
           k == LineIn(t, y, C)
<1>6. LineIn(t, x, C) = Append(k, x)
  <2>1. LineOf(t, LineIn(t, sc.lastProp, C), C)
    BY <1>1, LineBegins
  <2> QED BY <2>1 DEF LineOf
<1>7. x \in PTNodes /\ y \in PTNodes \cup {NoNode} /\ x \in C
  BY <1>1, <1>4, <1>5
<1> HIDE DEF x, y
<1>8. k \in Seq(PTNodes) /\ ToSet(k) = On(t, y) \cap C /\ ToSet(LineIn(t, x, C)) = On(t, x) \cap C /\ NoTwice(LineIn(t, x, C))
  BY <1>1, <1>7, LineTyped, LineIs
<1>9. PairsAt(t, x, C) = Append(PairsAt(t, y, C), Pair(t, x))
  <2>1. PairsAt(t, y, C) = [j \in DOMAIN k |-> Pair(t, k[j])]
    BY DEF PairsAt
  <2>2. PairsAt(t, x, C) = [j \in DOMAIN Append(k, x) |-> Pair(t, Append(k, x)[j])]
    BY <1>6 DEF PairsAt
  <2> HIDE DEF k
  <2> QED BY <1>7, <1>8, <2>1, <2>2, PairsAppended
<1> HIDE DEF k
<1>10. On(t, x) \cap C = (On(t, y) \cap C) \cup {x}
  BY <1>6, <1>7, <1>8, Appended
<1>11. x \notin On(t, y)
  <2> SUFFICES ASSUME x \in On(t, y) PROVE FALSE
    OBVIOUS
  <2>1. x \in ToSet(k)
    BY <1>7, <1>8
  <2>2. PICK j \in 1..Len(k) : k[j] = x
    BY <1>8, <2>1, Members
  <2> DEFINE m == Append(k, x)
             h == Len(k)
  <2>3. Len(m) = h + 1 /\ m[h + 1] = x /\ m[j] = x /\ h \in Nat /\ j \in 1..h
    BY <1>8, <2>2
  <2>4. NoTwice(m)
    BY <1>6, <1>8
  <2> HIDE DEF m, h
  <2>5. j = h + 1
    BY <2>3, <2>4 DEF NoTwice
  <2> QED BY <2>3, <2>5
<1> QED BY <1>4, <1>5, <1>9, <1>10, <1>11 DEF x, y

\* The line of m lists what that of n lists of C.
Relists(t2, m, t, n, C) == PairsAt(t2, m, PTNodes) = PairsAt(t, n, C)

\* The nodes of two lines have the same ids.
SameIds(t2, m, t, n, C) ==
    /\ \A x \in On(t2, m) : \E y \in On(t, n) \cap C : t2.nodes[x].id = t.nodes[y].id
    /\ \A y \in On(t, n) \cap C : \E x \in On(t2, m) : t2.nodes[x].id = t.nodes[y].id
    /\ DistinctIds(t, On(t, n) \cap C) => DistinctIds(t2, On(t2, m))

\* A line that lists the same pairs has the same ids.
LEMMA RelistedIds ==
  ASSUME NEW t, TreeOK(t), NEW n \in NodesInUse(t) \cup {NoNode}, NEW C,
         NEW t2, TreeOK(t2), NEW m \in NodesInUse(t2) \cup {NoNode}, Relists(t2, m, t, n, C)
  PROVE  SameIds(t2, m, t, n, C)
<1> DEFINE l == LineIn(t, n, C)
           k == LineIn(t2, m, PTNodes)
<1>1. /\ Treelike(t) /\ Treelike(t2) /\ n \in PTNodes \cup {NoNode} /\ m \in PTNodes \cup {NoNode}
  BY NodeFacts DEF TreeOK
<1>2. l \in Seq(PTNodes) /\ ToSet(l) = On(t, n) \cap C /\ NoTwice(l)
  BY <1>1, LineTyped, LineIs
<1>3. k \in Seq(PTNodes) /\ ToSet(k) = On(t2, m)
  <2>1. On(t2, m) \subseteq PTNodes
    BY <1>1, OnIs
  <2>2. ToSet(k) = On(t2, m) \cap PTNodes
    BY <1>1, LineIs
  <2>3. k \in Seq(PTNodes)
    BY <1>1, LineTyped
  <2> QED BY <2>1, <2>2, <2>3
<1>4. [i \in DOMAIN k |-> Pair(t2, k[i])] = [i \in DOMAIN l |-> Pair(t, l[i])]
  BY DEF PairsAt, Relists
<1> HIDE DEF l, k
<1>5. DOMAIN k = 1..Len(k) /\ DOMAIN l = 1..Len(l)
  BY <1>2, <1>3
<1>6. DOMAIN k = DOMAIN l
  <2>1. DOMAIN [i \in DOMAIN k |-> Pair(t2, k[i])] = DOMAIN k /\ DOMAIN [i \in DOMAIN l |-> Pair(t, l[i])] = DOMAIN l
    OBVIOUS
  <2> QED BY <1>4, <2>1
<1>7. \A i \in DOMAIN l : t2.nodes[k[i]].id = t.nodes[l[i]].id
  <2> TAKE i \in DOMAIN l
  <2>1. Pair(t2, k[i]) = Pair(t, l[i])
    <3>1. [j \in DOMAIN k |-> Pair(t2, k[j])][i] = Pair(t2, k[i])
      BY <1>6
    <3>2. [j \in DOMAIN l |-> Pair(t, l[j])][i] = Pair(t, l[i])
      OBVIOUS
    <3> QED BY <1>4, <3>1, <3>2
  <2> QED BY <2>1 DEF Pair
<1>8. ASSUME NEW x \in On(t2, m) PROVE \E i \in DOMAIN l : k[i] = x /\ l[i] \in On(t, n) \cap C
  <2>1. PICK i \in 1..Len(k) : k[i] = x
    BY <1>3, Members
  <2> QED BY <1>2, <1>5, <1>6, <2>1, Members
<1>9. ASSUME NEW y \in On(t, n) \cap C PROVE \E i \in DOMAIN l : l[i] = y /\ k[i] \in On(t2, m)
  <2>1. PICK i \in 1..Len(l) : l[i] = y
    BY <1>2, Members
  <2> QED BY <1>3, <1>5, <1>6, <2>1, Members
<1>10. ASSUME DistinctIds(t, On(t, n) \cap C), NEW x \in On(t2, m), NEW z \in On(t2, m), t2.nodes[x].id = t2.nodes[z].id
       PROVE x = z
  <2>1. PICK i \in DOMAIN l : k[i] = x /\ l[i] \in On(t, n) \cap C
    BY <1>8
  <2>2. PICK j \in DOMAIN l : k[j] = z /\ l[j] \in On(t, n) \cap C
    BY <1>8
  <2>3. l[i] = l[j]
    BY <1>7, <1>10, <2>1, <2>2 DEF DistinctIds
  <2>4. i = j
    BY <1>2, <1>5, <2>3 DEF NoTwice
  <2> QED BY <2>1, <2>2, <2>4
<1>11. \A x \in On(t2, m) : \E y \in On(t, n) \cap C : t2.nodes[x].id = t.nodes[y].id
  BY <1>7, <1>8
<1>12. \A y \in On(t, n) \cap C : \E x \in On(t2, m) : t2.nodes[x].id = t.nodes[y].id
  BY <1>7, <1>9
<1> QED BY <1>10, <1>11, <1>12 DEF DistinctIds, SameIds

LEMMA ExtendsTwice ==
  ASSUME NEW t, NEW t2, NEW t3, Extends(t, t2), Extends(t2, t3)
  PROVE  Extends(t, t3)
BY DEF Extends

\* n comes after y on the line of what a scope counts.
Succeeds(t, C, y, n) ==
    /\ n \in C /\ y \in C \cup {NoNode} /\ n \notin On(t, y)
    /\ PairsAt(t, n, C) = Append(PairsAt(t, y, C), Pair(t, n))

\* For one of the ids the fork is about the table leads to a node off the line.
Strays(t, C, t2, sc) ==
    \E m \in C :
        LET id == t.nodes[m].id
            x == sc.table[id]
        IN id \in PTIds /\ x \in NodesInUse(t2) /\ t2.nodes[x].id = id /\ x \notin On(t2, sc.lastProp)

\* The new line lists what the old one counts up to n, and the table knows it.
Follows(t, sc, C, n, w) ==
    /\ w.prev \in NodesInUse(w.tree) \cup {NoNode}
    /\ PairsAt(w.tree, w.prev, PTNodes) = PairsAt(t, n, C)
    /\ \A id \in PTIds :
         IF \E m \in On(w.tree, w.prev) : w.tree.nodes[m].id = id
         THEN w.scope.table[id] \in On(w.tree, w.prev) /\ w.tree.nodes[w.scope.table[id]].id = id
         ELSE w.scope.table[id] = sc.table[id]

\* Up to a fork that fails nothing happens to the table or it strays.
Way(t, sc, C, n, w) ==
    /\ w = [tree |-> w.tree, scope |-> w.scope, ok |-> w.ok, prev |-> w.prev]
    /\ TreeOK(w.tree) /\ Extends(t, w.tree)
    /\ w.scope = [lastProp |-> sc.lastProp, table |-> w.scope.table, middle |-> sc.middle, entryCount |-> sc.entryCount]
    /\ w.scope.table \in Tables
    /\ w.scope.table = sc.table \/ Strays(t, C, w.tree, w.scope)
    /\ w.ok => Follows(t, sc, C, n, w)

\* What a way that succeeded so far tells of its tree and scope.
LEMMA WayFacts ==
  ASSUME NEW t, TreeOK(t), NEW sc, NEW C, Counts(t, sc, C), NEW y, NEW n, Succeeds(t, C, y, n),
         NEW w, Way(t, sc, C, y, w), w.ok
  PROVE  /\ TreeOK(w.tree) /\ Extends(t, w.tree) /\ Follows(t, sc, C, y, w)
         /\ n \in NodesInUse(t) /\ w.tree.nodes[n] = t.nodes[n] /\ n \in NodesInUse(w.tree)
         /\ t.nodes[n].id \in PTIds /\ t.nodes[n].attrs \in PTAttrs
         /\ \A m \in On(w.tree, w.prev) : w.tree.nodes[m].id # t.nodes[n].id
<1>1. TreeOK(w.tree) /\ Extends(t, w.tree) /\ Follows(t, sc, C, y, w)
  BY DEF Way
<1>2. Treelike(t) /\ C \subseteq NodesInUse(t) /\ DistinctIds(t, C)
  BY CountsFacts
<1>3. n \in NodesInUse(t) /\ n \in C /\ n \notin On(t, y) /\ y \in NodesInUse(t) \cup {NoNode}
  BY <1>2 DEF Succeeds
<1>4. w.tree.nodes[n] = t.nodes[n] /\ n \in NodesInUse(w.tree)
  BY <1>1, <1>3 DEF Extends
<1>5. t.nodes[n].id \in PTIds /\ t.nodes[n].attrs \in PTAttrs
  BY <1>2, <1>3, NodeFacts
<1>6. ASSUME NEW m \in On(w.tree, w.prev), w.tree.nodes[m].id = t.nodes[n].id PROVE FALSE
  <2>1. PairsAt(w.tree, w.prev, PTNodes) = PairsAt(t, y, C) /\ w.prev \in NodesInUse(w.tree) \cup {NoNode}
    BY <1>1 DEF Follows
  <2>2. \A x \in On(w.tree, w.prev) : \E z \in On(t, y) \cap C : w.tree.nodes[x].id = t.nodes[z].id
    <3> DEFINE v == w.tree
               p == w.prev
    <3>1. TreeOK(v) /\ p \in NodesInUse(v) \cup {NoNode} /\ Relists(v, p, t, y, C)
      BY <1>1, <2>1 DEF Relists
    <3> HIDE DEF v, p
    <3>2. TreeOK(t) /\ y \in NodesInUse(t) \cup {NoNode}
      BY <1>3
    <3>3. SameIds(v, p, t, y, C)
      BY ONLY <3>1, <3>2, RelistedIds
    <3> QED BY <3>3 DEF SameIds, v, p
  <2>3. PICK z \in On(t, y) \cap C : w.tree.nodes[m].id = t.nodes[z].id
    BY <2>2
  <2>4. z = n
    BY <1>2, <1>3, <1>6, <2>3 DEF DistinctIds
  <2> QED BY <1>3, <2>3, <2>4
<1> QED BY <1>1, <1>3, <1>4, <1>5, <1>6

\* The next node of the line is where it should be.
LEMMA WayKept ==
  ASSUME NEW t, TreeOK(t), NEW sc, NEW C, Counts(t, sc, C), sc.table # NoTable, NEW y, NEW n, Succeeds(t, C, y, n),
         NEW w, Way(t, sc, C, y, w), w.ok, w.tree.nodes[n].parent = w.prev
  PROVE  Way(t, sc, C, n, [w EXCEPT !.prev = n])
<1>1. /\ TreeOK(w.tree) /\ Extends(t, w.tree) /\ Follows(t, sc, C, y, w)
      /\ n \in NodesInUse(t) /\ w.tree.nodes[n] = t.nodes[n] /\ n \in NodesInUse(w.tree)
      /\ t.nodes[n].id \in PTIds /\ t.nodes[n].attrs \in PTAttrs
      /\ \A m \in On(w.tree, w.prev) : w.tree.nodes[m].id # t.nodes[n].id
  BY WayFacts
<1> DEFINE v == [w EXCEPT !.prev = n]
<1>2. /\ v = [tree |-> w.tree, scope |-> w.scope, ok |-> w.ok, prev |-> n]
      /\ v.tree = w.tree /\ v.scope = w.scope /\ v.ok = w.ok /\ v.prev = n
  <2>1. w = [tree |-> w.tree, scope |-> w.scope, ok |-> w.ok, prev |-> w.prev]
    BY DEF Way
  <2>2. v = [tree |-> w.tree, scope |-> w.scope, ok |-> w.ok, prev |-> n]
    BY ONLY <2>1
  <2> HIDE DEF v
  <2> QED BY ONLY <2>2
<1> HIDE DEF v
<1>3. Treelike(w.tree) /\ NodesInUse(w.tree) \subseteq PTNodes /\ n \in PTNodes
  BY <1>1, NodeFacts DEF TreeOK
<1>4. On(w.tree, n) = On(w.tree, w.prev) \cup {n}
  BY <1>3, OnIs
<1>5. PairsAt(w.tree, n, PTNodes) = PairsAt(t, n, C)
  <2>1. PairsAt(w.tree, n, PTNodes) = Append(PairsAt(w.tree, w.prev, PTNodes), Pair(w.tree, n))
    BY <1>3, PairsStep
  <2>2. PairsAt(w.tree, w.prev, PTNodes) = PairsAt(t, y, C)
    BY <1>1 DEF Follows
  <2>3. Pair(w.tree, n) = Pair(t, n)
    BY <1>1 DEF Pair
  <2> QED BY <2>1, <2>2, <2>3 DEF Succeeds
<1>6. ASSUME NEW id \in PTIds
      PROVE IF \E m \in On(w.tree, n) : w.tree.nodes[m].id = id
            THEN w.scope.table[id] \in On(w.tree, n) /\ w.tree.nodes[w.scope.table[id]].id = id
            ELSE w.scope.table[id] = sc.table[id]
  <2>1. IF \E m \in On(w.tree, w.prev) : w.tree.nodes[m].id = id
        THEN w.scope.table[id] \in On(w.tree, w.prev) /\ w.tree.nodes[w.scope.table[id]].id = id
        ELSE w.scope.table[id] = sc.table[id]
    BY <1>1 DEF Follows
  <2>2. CASE id = t.nodes[n].id
    <3>1. w.scope.table[id] = sc.table[id]
      BY <1>1, <2>1, <2>2
    <3>2. TableFor(t, C, sc.table)
      BY DEF Counts
    <3>3. Finds(t, C, id, sc.table[id])
      BY <3>2 DEF TableFor
    <3>4. DistinctIds(t, C) /\ n \in C
      BY CountsFacts DEF Succeeds
    <3>5. sc.table[id] = n
      BY <2>2, <3>3, <3>4 DEF Finds, DistinctIds
    <3> QED BY <1>1, <1>4, <2>2, <3>1, <3>5
  <2>3. CASE id # t.nodes[n].id
    BY <1>1, <1>4, <2>1, <2>3
  <2> QED BY <2>2, <2>3
<1>7. Follows(t, sc, C, n, v)
  BY <1>1, <1>2, <1>5, <1>6 DEF Follows
<1>8. /\ w.scope = [lastProp |-> sc.lastProp, table |-> w.scope.table, middle |-> sc.middle, entryCount |-> sc.entryCount]
      /\ w.scope.table \in Tables
      /\ w.scope.table = sc.table \/ Strays(t, C, w.tree, w.scope)
  BY DEF Way
<1>9. v = [tree |-> v.tree, scope |-> v.scope, ok |-> v.ok, prev |-> v.prev]
  BY <1>2
<1> QED BY <1>1, <1>2, <1>7, <1>8, <1>9 DEF Way, v

LEMMA OkOff ==
  ASSUME NEW w, w = [tree |-> w.tree, scope |-> w.scope, ok |-> w.ok, prev |-> w.prev]
  PROVE  /\ [w EXCEPT !.ok = FALSE] = [tree |-> w.tree, scope |-> w.scope, ok |-> FALSE, prev |-> w.prev]
<1> DEFINE no == FALSE
<1> HIDE DEF no
<1>1. [w EXCEPT !.ok = no] = [tree |-> w.tree, scope |-> w.scope, ok |-> no, prev |-> w.prev]
  OBVIOUS
<1> QED BY <1>1, Zenon DEF no

\* A fork fails at a node for want of memory.
LEMMA WayFailed ==
  ASSUME NEW t, NEW sc, NEW C, NEW y, NEW n, NEW w, Way(t, sc, C, y, w)
  PROVE  Way(t, sc, C, n, [w EXCEPT !.ok = FALSE]) /\ ~[w EXCEPT !.ok = FALSE].ok
<1> DEFINE v == [w EXCEPT !.ok = FALSE]
           no == FALSE
<1>1. v = [tree |-> w.tree, scope |-> w.scope, ok |-> FALSE, prev |-> w.prev]
  BY OkOff DEF Way
<1> HIDE DEF v, no
<1>2. v = [tree |-> w.tree, scope |-> w.scope, ok |-> no, prev |-> w.prev]
  BY <1>1, Zenon DEF no
<1>3. v.tree = w.tree /\ v.scope = w.scope /\ v.ok = no /\ v.prev = w.prev
  BY <1>2
<1>4. ~v.ok
  BY <1>3, Zenon DEF no
<1>5. v = [tree |-> v.tree, scope |-> v.scope, ok |-> v.ok, prev |-> v.prev]
  BY <1>2, <1>3
<1>6. /\ TreeOK(w.tree) /\ Extends(t, w.tree) /\ w.scope.table \in Tables
      /\ w.scope = [lastProp |-> sc.lastProp, table |-> w.scope.table, middle |-> sc.middle, entryCount |-> sc.entryCount]
      /\ w.scope.table = sc.table \/ Strays(t, C, w.tree, w.scope)
  BY DEF Way
<1>7. Way(t, sc, C, n, v)
  BY <1>3, <1>4, <1>5, <1>6 DEF Way
<1> QED BY <1>4, <1>7 DEF v

\* A way on, below the node that was got.
MadeWay(w, n, g) ==
    [tree |-> g.tree, scope |-> Store(w.scope, w.tree.nodes[n].id, g.got), ok |-> TRUE, prev |-> g.got]

LEMMA MadeWayIs ==
  ASSUME NEW w, NEW n, NEW g
  PROVE  /\ MadeWay(w, n, g) = [tree |-> MadeWay(w, n, g).tree, scope |-> MadeWay(w, n, g).scope,
                                ok |-> MadeWay(w, n, g).ok, prev |-> MadeWay(w, n, g).prev]
         /\ MadeWay(w, n, g).tree = g.tree /\ MadeWay(w, n, g).prev = g.got
         /\ MadeWay(w, n, g).scope = Store(w.scope, w.tree.nodes[n].id, g.got)
<1> DEFINE yes == TRUE
           v == MadeWay(w, n, g)
<1> HIDE DEF yes, v
<1>1. v = [tree |-> g.tree, scope |-> Store(w.scope, w.tree.nodes[n].id, g.got), ok |-> yes, prev |-> g.got]
  BY Zenon DEF yes, v, MadeWay
<1>2. v = [tree |-> v.tree, scope |-> v.scope, ok |-> v.ok, prev |-> v.prev]
  BY <1>1
<1>3. v.tree = g.tree /\ v.prev = g.got /\ v.scope = Store(w.scope, w.tree.nodes[n].id, g.got)
  BY <1>1
<1> QED BY <1>2, <1>3 DEF v

\* A node is found or made below the last one.
LEMMA WayMade ==
  ASSUME NEW t, TreeOK(t), NEW sc, NEW C, Counts(t, sc, C), sc.table # NoTable, NEW y, NEW n, Succeeds(t, C, y, n),
         NEW w, Way(t, sc, C, y, w), w.ok, w.tree.nodes[n].parent # w.prev,
         NEW g \in GetPropertyTreeChild(w.tree, w.prev, w.tree.nodes[n].id, w.tree.nodes[n].attrs), g.got # NoNode
  PROVE  Way(t, sc, C, n, MadeWay(w, n, g))
<1>1. /\ TreeOK(w.tree) /\ Extends(t, w.tree) /\ Follows(t, sc, C, y, w)
      /\ n \in NodesInUse(t) /\ w.tree.nodes[n] = t.nodes[n] /\ n \in NodesInUse(w.tree)
      /\ t.nodes[n].id \in PTIds /\ t.nodes[n].attrs \in PTAttrs
      /\ \A m \in On(w.tree, w.prev) : w.tree.nodes[m].id # t.nodes[n].id
  BY WayFacts
<1> DEFINE v == MadeWay(w, n, g)
           i == t.nodes[n].id
           a == t.nodes[n].attrs
           u == w.tree
           p == w.prev
           h == g.tree
           x == g.got
<1>2. p \in NodesInUse(u) \cup {NoNode} /\ PairsAt(u, p, PTNodes) = PairsAt(t, y, C)
  BY <1>1 DEF Follows
<1>3. /\ TreeOK(h) /\ Extends(u, h) /\ x \in NodesInUse(h)
      /\ h.nodes[x].id = i /\ h.nodes[x].attrs = a /\ h.nodes[x].parent = p
  <2>1. g \in GetPropertyTreeChild(u, p, i, a) /\ TreeOK(u) /\ i \in PTIds /\ a \in PTAttrs
    BY <1>1
  <2> HIDE DEF u, p, i, a
  <2> QED BY <1>2, <2>1, GotChild
<1>4. /\ v = [tree |-> v.tree, scope |-> v.scope, ok |-> v.ok, prev |-> v.prev]
      /\ v.tree = h /\ v.prev = x /\ v.scope = Store(w.scope, i, x)
  BY <1>1, MadeWayIs
<1>5. /\ w.scope = [lastProp |-> sc.lastProp, table |-> w.scope.table, middle |-> sc.middle, entryCount |-> sc.entryCount]
      /\ w.scope.table \in Tables
  BY DEF Way
<1>6. TreeOK(u) /\ Extends(t, u) /\ i \in PTIds /\ u.nodes[n].parent # p
  BY <1>1
<1>7. \A m \in On(u, p) : u.nodes[m].id # i
  BY <1>1
<1>8. n \in NodesInUse(u) /\ u.nodes[n].id = i /\ u.nodes[n].attrs = a /\ n \in NodesInUse(t)
  BY <1>1
<1> DEFINE wt == w.scope.table
           tab == [wt EXCEPT ![i] = x]
<1>20. \A id \in PTIds :
         IF \E m \in On(u, p) : u.nodes[m].id = id
         THEN wt[id] \in On(u, p) /\ u.nodes[wt[id]].id = id
         ELSE wt[id] = sc.table[id]
  BY <1>1 DEF Follows
<1> HIDE DEF v, u, p, h, x, i, a
<1>9. Treelike(h) /\ NodesInUse(h) \subseteq PTNodes /\ x \in PTNodes
  BY <1>3, NodeFacts DEF TreeOK
<1>10. v.scope = [lastProp |-> sc.lastProp, table |-> tab, middle |-> sc.middle, entryCount |-> sc.entryCount]
  <2>1. wt # NoTable /\ wt = w.scope.table
    BY <1>5, NoTableIsNone
  <2>2. v.scope = [w.scope EXCEPT !.table[i] = x]
    BY <1>4, <2>1 DEF Store
  <2> DEFINE s == w.scope
  <2>3. s = [lastProp |-> sc.lastProp, table |-> wt, middle |-> sc.middle, entryCount |-> sc.entryCount]
    BY <1>5
  <2> HIDE DEF s, wt
  <2>4. [s EXCEPT !.table[i] = x]
          = [lastProp |-> sc.lastProp, table |-> [wt EXCEPT ![i] = x], middle |-> sc.middle, entryCount |-> sc.entryCount]
    BY ONLY <2>3
  <2> QED BY <2>2, <2>4 DEF s
<1>11. v.scope.lastProp = sc.lastProp /\ v.scope.table = tab /\ v.scope.middle = sc.middle /\ v.scope.entryCount = sc.entryCount
  BY <1>10
<1>12. wt \in Tables
  BY <1>5
<1> HIDE DEF wt
<1>13. tab \in Tables /\ tab[i] = x /\ \A id \in PTIds : id # i => tab[id] = wt[id]
  BY <1>6, <1>9, <1>12 DEF Tables
<1> HIDE DEF tab
<1>14. Extends(t, h)
  BY <1>3, <1>6, ExtendsTwice
<1>15. Strays(t, C, h, v.scope)
  <2>1. sc.lastProp \in NodesInUse(t) \cup {NoNode} /\ On(t, sc.lastProp) \subseteq NodesInUse(t)
        /\ DistinctIds(t, On(t, sc.lastProp)) /\ C \subseteq On(t, sc.lastProp)
    BY CountsFacts DEF Counts
  <2>2. On(h, sc.lastProp) = On(t, sc.lastProp)
    BY <1>3, <1>14, <2>1, ExtendsOn
  <2>3. x # NoNode /\ n \in On(t, sc.lastProp)
    BY <1>9, <2>1, NodeFacts DEF Succeeds
  <2>4. ASSUME x \in On(t, sc.lastProp) PROVE FALSE
    <3>1. h.nodes[x] = t.nodes[x] /\ h.nodes[n] = u.nodes[n] /\ h.nodes[n] = t.nodes[n]
      BY <1>3, <1>8, <1>14, <2>1, <2>4 DEF Extends
    <3>2. t.nodes[x].id = t.nodes[n].id
      BY <1>3, <1>8, <3>1
    <3>3. x = n
      BY <2>1, <2>3, <2>4, <3>2 DEF DistinctIds
    <3> QED BY <1>3, <1>6, <3>1, <3>3
  <2>5. n \in C /\ t.nodes[n].id = i
    BY <1>1 DEF Succeeds, i
  <2> QED BY <1>3, <1>6, <1>11, <1>13, <2>2, <2>4, <2>5 DEF Strays
<1>16. On(h, p) = On(u, p) /\ PairsAt(h, p, PTNodes) = PairsAt(t, y, C)
  <2>1. On(h, p) = On(u, p)
    BY <1>2, <1>3, <1>6, ExtendsOn
  <2>2. PairsAt(h, p, On(u, p)) = PairsAt(u, p, On(u, p))
    BY <1>2, <1>3, <1>6, ExtendsOn
  <2>3. Treelike(u) /\ p \in PTNodes \cup {NoNode} /\ On(u, p) \subseteq PTNodes
    <3>1. Treelike(u) /\ p \in PTNodes \cup {NoNode}
      BY <1>2, <1>6, NodeFacts DEF TreeOK
    <3> QED BY <3>1, OnIs
  <2>4. On(u, p) \cap On(u, p) = On(u, p) \cap PTNodes /\ On(h, p) \cap On(u, p) = On(h, p) \cap PTNodes
    BY <2>1, <2>3
  <2>5. PairsAt(u, p, On(u, p)) = PairsAt(u, p, PTNodes)
    BY <2>3, <2>4, PairsSame
  <2>6. PairsAt(h, p, On(u, p)) = PairsAt(h, p, PTNodes)
    BY <1>9, <2>3, <2>4, PairsSame
  <2> QED BY <1>2, <2>1, <2>2, <2>5, <2>6
<1>17. On(h, x) = On(h, p) \cup {x} /\ PairsAt(h, x, PTNodes) = PairsAt(t, n, C)
  <2>1. On(h, x) = On(h, p) \cup {x}
    BY <1>3, <1>9, OnIs
  <2>2. PairsAt(h, x, PTNodes) = Append(PairsAt(h, p, PTNodes), Pair(h, x))
    BY <1>3, <1>9, PairsStep
  <2>3. Pair(h, x) = Pair(t, n)
    BY <1>1, <1>3, <1>8 DEF Pair, i, a
  <2> QED BY <1>16, <2>1, <2>2, <2>3 DEF Succeeds
<1>18. ASSUME NEW id \in PTIds
       PROVE IF \E m \in On(h, x) : h.nodes[m].id = id
             THEN tab[id] \in On(h, x) /\ h.nodes[tab[id]].id = id
             ELSE tab[id] = sc.table[id]
  <2>1. IF \E m \in On(u, p) : u.nodes[m].id = id
        THEN wt[id] \in On(u, p) /\ u.nodes[wt[id]].id = id
        ELSE wt[id] = sc.table[id]
    BY <1>20
  <2>2. \A m \in On(u, p) : h.nodes[m] = u.nodes[m]
    <3>1. On(u, p) \subseteq NodesInUse(u)
      BY <1>2, <1>6, OnInUse
    <3> QED BY <1>3, <3>1 DEF Extends
  <2>3. CASE id = i
    BY <1>3, <1>13, <1>17, <2>3
  <2>4. CASE id # i
    <3>1. tab[id] = wt[id]
      BY <1>13, <2>4
    <3> QED BY <1>3, <1>16, <1>17, <2>1, <2>2, <2>4, <3>1
  <2> QED BY <2>3, <2>4
<1>19. Follows(t, sc, C, n, v)
  <2>1. v.prev \in NodesInUse(v.tree) \cup {NoNode} /\ PairsAt(v.tree, v.prev, PTNodes) = PairsAt(t, n, C)
    BY <1>3, <1>4, <1>17
  <2>2. \A id \in PTIds :
          IF \E m \in On(v.tree, v.prev) : v.tree.nodes[m].id = id
          THEN v.scope.table[id] \in On(v.tree, v.prev) /\ v.tree.nodes[v.scope.table[id]].id = id
          ELSE v.scope.table[id] = sc.table[id]
    BY <1>4, <1>11, <1>18
  <2> QED BY <2>1, <2>2 DEF Follows
<1> QED
  <2>1. v.scope = [lastProp |-> sc.lastProp, table |-> v.scope.table, middle |-> sc.middle, entryCount |-> sc.entryCount]
        /\ v.scope.table \in Tables
    BY <1>10, <1>11, <1>13
  <2>2. Way(t, sc, C, n, v)
    BY <1>3, <1>4, <1>14, <1>15, <1>19, <2>1 DEF Way
  <2> QED BY <2>2 DEF v

\* What Fork chooses.
IsForked(f, start, b) ==
    f = [i \in 0..Len(b) |-> IF i = 0 THEN {start} ELSE ForkNode(b[i], f[i - 1])]

\* The recursion of Fork has a solution.
LEMMA ForkedExists ==
  ASSUME NEW start, NEW b \in Seq(PTNodes)
  PROVE  \E f : IsForked(f, start, b)
<1> DEFINE One(f, i) == f[i] = IF i = 0 THEN {start} ELSE ForkNode(b[i], f[i - 1])
           Bad == {k \in Nat : ~\E f : \A i \in 0..k : One(f, i)}
<1>1. Bad = {}
  <2> SUFFICES ASSUME Bad # {} PROVE FALSE
    OBVIOUS
  <2>1. Bad \in SUBSET Nat
    OBVIOUS
  <2>2. PICK k \in Bad : \A x \in Bad : k <= x
    BY <2>1, SmallestExists
  <2>3. k \in Nat /\ ~\E f : \A i \in 0..k : One(f, i)
    OBVIOUS
  <2>4. k # 0
    <3> SUFFICES ASSUME k = 0 PROVE FALSE
      OBVIOUS
    <3> DEFINE f == [i \in {0} |-> {start}]
    <3>1. \A i \in 0..0 : One(f, i)
      OBVIOUS
    <3> HIDE DEF f, One
    <3> QED BY <2>3, <3>1
  <2>5. k - 1 \in Nat /\ k - 1 \notin Bad
    <3>1. k - 1 \in Nat /\ ~(k <= k - 1)
      BY <2>3, <2>4
    <3> HIDE DEF Bad
    <3> QED BY <2>2, <3>1
  <2> HIDE DEF One
  <2>6. PICK f : \A i \in 0..k - 1 : One(f, i)
    BY <2>5
  <2> USE DEF One
  <2> HIDE DEF Bad
  <2> DEFINE last == ForkNode(b[k], f[k - 1])
             h == [i \in 0..k |-> IF i = k THEN last ELSE f[i]]
  <2>7. h[k] = last /\ \A i \in 0..k - 1 : h[i] = f[i]
    BY <2>3
  <2>8. ASSUME NEW i \in 0..k PROVE One(h, i)
    <3>1. CASE i = k
      <4>1. h[i] = ForkNode(b[i], f[i - 1]) /\ i # 0
        BY <2>4, <2>7, <3>1
      <4>2. h[i - 1] = f[i - 1]
        BY <2>3, <2>4, <2>7, <3>1
      <4> HIDE DEF h
      <4> QED BY <4>1, <4>2
    <3>2. CASE i # k
      <4>1. i \in 0..k - 1 /\ (i # 0 => i - 1 \in 0..k - 1)
        BY <2>3, <3>2
      <4>2. One(f, i)
        BY <2>6, <4>1
      <4>3. h[i] = f[i] /\ (i # 0 => h[i - 1] = f[i - 1])
        BY <2>7, <4>1
      <4> HIDE DEF h
      <4> QED BY <4>2, <4>3
    <3> QED BY <3>1, <3>2
  <2> HIDE DEF h, One
  <2> QED BY <2>3, <2>8
<1>2. Len(b) \in Nat
  OBVIOUS
<1>3. PICK f : \A i \in 0..Len(b) : One(f, i)
  BY <1>1, <1>2
<1> DEFINE h == [i \in 0..Len(b) |-> f[i]]
<1>4. \A i \in 0..Len(b) : h[i] = IF i = 0 THEN {start} ELSE ForkNode(b[i], h[i - 1])
  <2> TAKE i \in 0..Len(b)
  <2>1. h[i] = f[i] /\ (i # 0 => h[i - 1] = f[i - 1])
    BY <1>2
  <2> HIDE DEF h
  <2> QED BY <1>3, <2>1
<1>5. h = [i \in 0..Len(b) |-> h[i]]
  OBVIOUS
<1> HIDE DEF h
<1>6. h = [i \in 0..Len(b) |-> IF i = 0 THEN {start} ELSE ForkNode(b[i], h[i - 1])]
  BY <1>4, <1>5
<1> QED BY <1>6 DEF IsForked

\* Every step of a fork takes ways to ways.
LEMMA WayOn ==
  ASSUME NEW t, TreeOK(t), NEW sc, NEW C, Counts(t, sc, C), sc.table # NoTable, NEW y, NEW n, Succeeds(t, C, y, n),
         NEW ways, \A w \in ways : Way(t, sc, C, y, w), NEW v \in ForkNode(n, ways)
  PROVE  Way(t, sc, C, n, v)
<1> DEFINE Kids1(w) == GetPropertyTreeChild(w.tree, w.prev, w.tree.nodes[n].id, w.tree.nodes[n].attrs)
<1>1. PICK w \in ways :
        \/ ~w.ok /\ v = w
        \/ w.ok /\ w.tree.nodes[n].parent = w.prev /\ v = [w EXCEPT !.prev = n]
        \/ /\ w.ok /\ w.tree.nodes[n].parent # w.prev
           /\ \E g \in Kids1(w) : v = IF g.got = NoNode THEN [w EXCEPT !.ok = FALSE] ELSE MadeWay(w, n, g)
  <2> HIDE DEF Kids1
  <2>1. ForkNode(n, ways) =
          UNION {IF ~w.ok THEN {w}
                 ELSE IF w.tree.nodes[n].parent = w.prev THEN {[w EXCEPT !.prev = n]}
                 ELSE {IF g.got = NoNode THEN [w EXCEPT !.ok = FALSE] ELSE MadeWay(w, n, g) : g \in Kids1(w)} :
                 w \in ways}
    BY Zenon DEF ForkNode, MadeWay, Kids1
  <2>2. PICK w \in ways :
          v \in IF ~w.ok THEN {w}
                ELSE IF w.tree.nodes[n].parent = w.prev THEN {[w EXCEPT !.prev = n]}
                ELSE {IF g.got = NoNode THEN [w EXCEPT !.ok = FALSE] ELSE MadeWay(w, n, g) : g \in Kids1(w)}
    BY <2>1, Zenon
  <2>3. CASE ~w.ok
    BY <2>2, <2>3
  <2>4. CASE w.ok /\ w.tree.nodes[n].parent = w.prev
    BY <2>2, <2>4
  <2>5. CASE w.ok /\ w.tree.nodes[n].parent # w.prev
    BY <2>2, <2>5, Zenon
  <2> QED BY <2>3, <2>4, <2>5
<1>2. Way(t, sc, C, y, w)
  OBVIOUS
<1>3. CASE ~w.ok /\ v = w
  BY <1>2, <1>3 DEF Way
<1>4. CASE w.ok /\ w.tree.nodes[n].parent = w.prev /\ v = [w EXCEPT !.prev = n]
  BY <1>2, <1>4, WayKept
<1>5. CASE /\ w.ok /\ w.tree.nodes[n].parent # w.prev
           /\ \E g \in Kids1(w) : v = IF g.got = NoNode THEN [w EXCEPT !.ok = FALSE] ELSE MadeWay(w, n, g)
  <2>1. PICK g \in Kids1(w) : v = IF g.got = NoNode THEN [w EXCEPT !.ok = FALSE] ELSE MadeWay(w, n, g)
    BY <1>5
  <2>2. CASE g.got = NoNode
    <3>1. v = [w EXCEPT !.ok = FALSE]
      BY <2>1, <2>2
    <3>2. Way(t, sc, C, n, [w EXCEPT !.ok = FALSE])
      BY <1>2, WayFailed
    <3> QED BY ONLY <3>1, <3>2
  <2>3. CASE g.got # NoNode
    <3>1. Way(t, sc, C, n, MadeWay(w, n, g))
      BY <1>2, <1>5, <2>3, WayMade
    <3>2. v = MadeWay(w, n, g)
      BY <2>1, <2>3
    <3> QED BY ONLY <3>1, <3>2
  <2> QED BY <2>2, <2>3
<1> QED BY <1>1, <1>3, <1>4, <1>5

\* So all ways of a fork are.
LEMMA WaysAll ==
  ASSUME NEW t, TreeOK(t), NEW sc, NEW C, Counts(t, sc, C), sc.table # NoTable, NEW start, NEW f,
         Way(t, sc, C, NoNode, start), IsForked(f, start, LineIn(t, sc.lastProp, C))
  PROVE  \A w \in f[Len(LineIn(t, sc.lastProp, C))] : Way(t, sc, C, sc.lastProp, w)
<1> DEFINE l == LineIn(t, sc.lastProp, C)
           k == Len(l)
           Good(i) == \A w \in f[i] : Way(t, sc, C, At(l, i), w)
           Bad == {i \in 0..k : ~Good(i)}
<1>1. Treelike(t) /\ sc.lastProp \in PTNodes \cup {NoNode} /\ C \subseteq On(t, sc.lastProp)
  BY CountsFacts
<1>2. l \in Seq(PTNodes) /\ k \in Nat
  BY <1>1, LineTyped
<1>3. \A i \in 0..k : f[i] = IF i = 0 THEN {start} ELSE ForkNode(l[i], f[i - 1])
  BY DEF IsForked
<1>4. ASSUME NEW i \in 1..k PROVE Succeeds(t, C, At(l, i - 1), l[i]) /\ At(l, i) = l[i]
  <2> HIDE DEF l
  <2>1. l = LineIn(t, sc.lastProp, C)
    BY DEF l
  <2> QED BY <2>1, NextOnLine DEF Succeeds
<1>5. Bad = {}
  <2> SUFFICES ASSUME Bad # {} PROVE FALSE
    OBVIOUS
  <2>1. Bad \in SUBSET Nat
    BY <1>2
  <2>2. PICK i \in Bad : \A x \in Bad : i <= x
    BY <2>1, SmallestExists
  <2>3. i \in 0..k /\ i \in Nat /\ ~Good(i)
    BY <2>1
  <2> HIDE DEF l, k
  <2>4. i # 0
    <3> SUFFICES ASSUME i = 0 PROVE FALSE
      OBVIOUS
    <3>1. f[0] = {start} /\ At(l, 0) = NoNode
      BY <1>2, <1>3 DEF At
    <3> QED BY <2>3, <3>1
  <2>5. i - 1 \in 0..k /\ i \in 1..k /\ ~(i <= i - 1)
    BY <1>2, <2>3, <2>4
  <2>6. Good(i - 1)
    BY <2>2, <2>5
  <2>7. f[i] = ForkNode(l[i], f[i - 1])
    BY <1>3, <2>3, <2>4
  <2>8. Succeeds(t, C, At(l, i - 1), l[i]) /\ At(l, i) = l[i]
    BY <1>4, <2>5
  <2>9. \A w \in f[i - 1] : Way(t, sc, C, At(l, i - 1), w)
    BY <2>6
  <2>10. \A v \in f[i] : Way(t, sc, C, l[i], v)
    BY <2>7, <2>8, <2>9, WayOn
  <2> QED BY <2>3, <2>8, <2>10
<1>6. At(l, k) = sc.lastProp
  <2>1. CASE sc.lastProp = NoNode
    <3>1. l = <<>>
      BY <1>1, <2>1, LineNone
    <3>2. k = 0
      BY <3>1
    <3> QED BY <2>1, <3>2 DEF At
  <2>2. CASE sc.lastProp # NoNode
    <3>1. sc.lastProp \in C /\ sc.lastProp \in PTNodes
      BY <1>1, <2>2 DEF Counts
    <3>2. l = Append(LineIn(t, t.nodes[sc.lastProp].parent, C), sc.lastProp)
      BY <1>1, <3>1, LineStep
    <3> DEFINE m == LineIn(t, t.nodes[sc.lastProp].parent, C)
    <3>3. m \in Seq(PTNodes)
      BY <1>1, <3>1, LineTyped, NodeFacts
    <3> HIDE DEF m
    <3>4. Len(Append(m, sc.lastProp)) # 0 /\ Append(m, sc.lastProp)[Len(Append(m, sc.lastProp))] = sc.lastProp
      BY <3>3
    <3> QED BY <3>2, <3>4 DEF At, m
  <2> QED BY <2>1, <2>2
<1>7. k \in 0..k
  BY <1>2
<1>8. Good(k)
  BY <1>5, <1>7
<1> HIDE DEF k
<1>9. \A w \in f[k] : Way(t, sc, C, sc.lastProp, w)
  BY <1>6, <1>8
<1> QED BY <1>9 DEF k, l

LEMMA MiddleOff ==
  ASSUME NEW a, NEW b, NEW c, NEW d, NEW sc,
         sc = [lastProp |-> a, table |-> b, middle |-> c, entryCount |-> d]
  PROVE  [sc EXCEPT !.middle = FALSE] = [lastProp |-> a, table |-> b, middle |-> FALSE, entryCount |-> d]
<1> DEFINE off == FALSE
<1> HIDE DEF off
<1>1. [sc EXCEPT !.middle = off] = [lastProp |-> a, table |-> b, middle |-> off, entryCount |-> d]
  OBVIOUS
<1> QED BY <1>1, Zenon DEF off

\* What a fork comes to: a line of what the scope counts, or no change to the
\* scope, or a table that strays.
ForkResult(t, sc, C, f) ==
    /\ TreeOK(f.tree) /\ Extends(t, f.tree)
    /\ f.ok => /\ Counts(f.tree, f.scope, On(f.tree, f.scope.lastProp)) /\ ~f.scope.middle
               /\ Relists(f.tree, f.scope.lastProp, t, sc.lastProp, C)
    /\ ~f.ok => f.scope = sc
                  \/ /\ f.scope = [lastProp |-> sc.lastProp, table |-> f.scope.table, middle |-> sc.middle,
                                   entryCount |-> sc.entryCount]
                     /\ f.scope.table \in Tables /\ Strays(t, C, f.tree, f.scope)

LEMMA NoMiddle ==
  ASSUME NEW sc, NEW a, NEW b, NEW d, sc = [lastProp |-> a, table |-> b, middle |-> FALSE, entryCount |-> d]
  PROVE  sc.lastProp = a /\ sc.table = b /\ ~sc.middle /\ sc.entryCount = d
         /\ (a \in PTNodes \cup {NoNode} /\ b \in {NoTable} \cup Tables /\ d \in Nat => sc \in ScopeRecords)
<1> DEFINE off == FALSE
<1>1. off \in BOOLEAN
  OBVIOUS
<1> HIDE DEF off
<1>2. sc = [lastProp |-> a, table |-> b, middle |-> off, entryCount |-> d]
  BY Zenon DEF off
<1>3. sc.lastProp = a /\ sc.table = b /\ sc.middle = off /\ sc.entryCount = d
  BY ONLY <1>2
<1>4. a \in PTNodes \cup {NoNode} /\ b \in {NoTable} \cup Tables /\ d \in Nat => sc \in ScopeRecords
  BY <1>1, <1>2 DEF ScopeRecords
<1>5. ~sc.middle
  BY <1>3, Zenon DEF off
<1> QED BY <1>3, <1>4, <1>5

\* A way that went to the end.
LEMMA WayDone ==
  ASSUME NEW t, TreeOK(t), NEW sc, NEW C, Counts(t, sc, C), sc.table # NoTable,
         NEW w, Way(t, sc, C, sc.lastProp, w), w.ok, NEW u, u = [w.scope EXCEPT !.lastProp = w.prev, !.middle = FALSE]
  PROVE  /\ Counts(w.tree, u, On(w.tree, u.lastProp)) /\ ~u.middle
         /\ Relists(w.tree, u.lastProp, t, sc.lastProp, C)
<1> DEFINE h == w.tree
           p == w.prev
           tab == w.scope.table
           O == On(h, p)
<1>1. /\ TreeOK(h) /\ Extends(t, h) /\ tab \in Tables
      /\ w.scope = [lastProp |-> sc.lastProp, table |-> tab, middle |-> sc.middle, entryCount |-> sc.entryCount]
  BY DEF Way
<1>2. Follows(t, sc, C, sc.lastProp, w)
  BY DEF Way
<1>3. p \in NodesInUse(h) \cup {NoNode} /\ PairsAt(h, p, PTNodes) = PairsAt(t, sc.lastProp, C)
  BY <1>2 DEF Follows
<1>4. \A id \in PTIds :
         IF \E m \in O : h.nodes[m].id = id
         THEN tab[id] \in O /\ h.nodes[tab[id]].id = id
         ELSE tab[id] = sc.table[id]
  BY <1>2 DEF Follows
<1>5. u = [lastProp |-> p, table |-> tab, middle |-> FALSE, entryCount |-> sc.entryCount]
  <2> DEFINE s == w.scope
  <2>1. s = [lastProp |-> sc.lastProp, table |-> tab, middle |-> sc.middle, entryCount |-> sc.entryCount]
    BY <1>1
  <2>2. u = [s EXCEPT !.lastProp = p, !.middle = FALSE]
    OBVIOUS
  <2> HIDE DEF s, p, tab
  <2>3. [s EXCEPT !.lastProp = p, !.middle = FALSE] = [lastProp |-> p, table |-> tab, middle |-> FALSE, entryCount |-> sc.entryCount]
    <3> DEFINE r == [s EXCEPT !.lastProp = p]
    <3>1. r = [lastProp |-> p, table |-> tab, middle |-> sc.middle, entryCount |-> sc.entryCount]
      BY ONLY <2>1
    <3>2. [s EXCEPT !.lastProp = p, !.middle = FALSE] = [r EXCEPT !.middle = FALSE]
      OBVIOUS
    <3> HIDE DEF r
    <3>3. [r EXCEPT !.middle = FALSE] = [lastProp |-> p, table |-> tab, middle |-> FALSE, entryCount |-> sc.entryCount]
      BY <3>1, MiddleOff
    <3> QED BY ONLY <3>2, <3>3
  <2> QED BY ONLY <2>2, <2>3
<1> HIDE DEF h, p, tab, O
<1>6. u.lastProp = p /\ u.table = tab /\ ~u.middle /\ u.entryCount = sc.entryCount
  BY ONLY <1>5, NoMiddle
<1>7. /\ Treelike(h) /\ NodesInUse(h) \subseteq PTNodes /\ p \in PTNodes \cup {NoNode} /\ NoNode \notin PTNodes
      /\ O = On(h, p) /\ O \subseteq PTNodes
  <2>1. Treelike(h) /\ NodesInUse(h) \subseteq PTNodes /\ p \in PTNodes \cup {NoNode} /\ NoNode \notin PTNodes
    BY <1>1, <1>3, NodeFacts DEF TreeOK
  <2> QED BY <2>1, OnIs DEF O
<1>8. Relists(h, p, t, sc.lastProp, C)
  BY <1>3 DEF Relists
<1>9. /\ Treelike(t) /\ sc.lastProp \in PTNodes \cup {NoNode} /\ sc.lastProp \in NodesInUse(t) \cup {NoNode}
      /\ C \subseteq On(t, sc.lastProp) /\ DistinctIds(t, C) /\ C \subseteq NodesInUse(t)
      /\ sc \in ScopeRecords
  BY CountsFacts DEF Counts
<1>10. SameIds(h, p, t, sc.lastProp, C)
  <2>1. TreeOK(t)
    OBVIOUS
  <2> QED BY ONLY <1>1, <1>3, <1>8, <1>9, <2>1, RelistedIds
<1>11. On(t, sc.lastProp) \cap C = C
  BY <1>9
<1>12. DistinctIds(h, O) /\ \A y \in C : \E x \in O : h.nodes[x].id = t.nodes[y].id
  BY <1>7, <1>9, <1>10, <1>11 DEF SameIds
<1>13. TableFor(h, O, tab)
  <2> SUFFICES ASSUME NEW id \in PTIds PROVE Finds(h, O, id, tab[id])
    BY <1>1 DEF TableFor
  <2>1. CASE \E m \in O : h.nodes[m].id = id
    <3>1. tab[id] \in O /\ h.nodes[tab[id]].id = id
      BY <1>4, <2>1
    <3> QED BY <1>7, <3>1 DEF Finds
  <2>2. CASE ~\E m \in O : h.nodes[m].id = id
    <3>1. tab[id] = sc.table[id]
      BY <1>4, <2>2
    <3>2. TableFor(t, C, sc.table)
      BY DEF Counts
    <3>3. Finds(t, C, id, sc.table[id])
      BY <3>2 DEF TableFor
    <3>4. sc.table[id] = NoNode
      BY <1>12, <2>2, <3>3 DEF Finds
    <3> QED BY <2>2, <3>1, <3>4 DEF Finds
  <2> QED BY <2>1, <2>2
<1>14. sc.entryCount = Len(LineIn(h, p, O)) /\ sc.entryCount \in Nat
  <2>1. On(h, p) \cap O = On(h, p) \cap PTNodes
    BY <1>7
  <2>2. LineIn(h, p, O) = LineIn(h, p, PTNodes)
    BY <1>7, <2>1, LineSame
  <2>3. On(h, p) \cap PTNodes \subseteq NodesInUse(h) /\ On(t, sc.lastProp) \cap C \subseteq NodesInUse(t)
    BY <1>1, <1>3, <1>9, OnInUse
  <2>4. Len(PairsAt(h, p, PTNodes)) = Len(LineIn(h, p, PTNodes))
    BY <1>7, <2>3, PairsTyped
  <2>5. Len(PairsAt(t, sc.lastProp, C)) = Len(LineIn(t, sc.lastProp, C)) /\ Len(LineIn(t, sc.lastProp, C)) \in Nat
    BY <1>9, <2>3, PairsTyped
  <2>6. sc.entryCount = Len(LineIn(t, sc.lastProp, C))
    BY DEF Counts
  <2> QED BY <1>3, <2>2, <2>4, <2>5, <2>6
<1>15. u \in ScopeRecords
  <2>1. tab \in {NoTable} \cup Tables
    BY <1>1
  <2> QED BY ONLY <1>5, <1>7, <1>14, <2>1, NoMiddle
<1>16. p # NoNode => p \in O
  BY <1>7, OnIs
<1>17. Counts(h, u, O)
  <2>1. tab # NoTable
    BY <1>1, NoTableIsNone
  <2> QED BY <1>3, <1>6, <1>7, <1>12, <1>13, <1>14, <1>15, <1>16, <2>1 DEF Counts
<1> QED BY <1>6, <1>7, <1>8, <1>17 DEF h

\* The ways at the end of the line.
ForkWays(t, sc) ==
    LET bound == LineIn(t, sc.lastProp, {n \in NodesInUse(t) : SearchScope(t, sc, t.nodes[n].id) # NoNode})
        start == [tree |-> t, scope |-> sc, ok |-> TRUE, prev |-> NoNode]
    IN (CHOOSE h : IsForked(h, start, bound))[Len(bound)]

\* The ways a fork can end.
LEMMA ForkIs ==
  ASSUME NEW t, NEW sc, NEW f \in Fork(t, sc)
  PROVE  \/ ~sc.middle /\ f = Outcome(t, sc, TRUE)
         \/ sc.middle /\ sc.entryCount = 0 /\ f = Outcome(t, [sc EXCEPT !.middle = FALSE], TRUE)
         \/ sc.middle /\ f = Outcome(t, sc, FALSE)
         \/ /\ sc.middle
            /\ \E w \in ForkWays(t, sc) :
                 \/ w.ok /\ f = Outcome(w.tree, [w.scope EXCEPT !.lastProp = w.prev, !.middle = FALSE], TRUE)
                 \/ ~w.ok /\ f = Outcome(w.tree, w.scope, FALSE)
<1> DEFINE End(w) == IF w.ok
                     THEN Outcome(w.tree, [w.scope EXCEPT !.lastProp = w.prev, !.middle = FALSE], TRUE)
                     ELSE Outcome(w.tree, w.scope, FALSE)
<1>1. Fork(t, sc) = IF ~sc.middle THEN {Outcome(t, sc, TRUE)}
                    ELSE IF sc.entryCount = 0 THEN {Outcome(t, [sc EXCEPT !.middle = FALSE], TRUE)}
                    ELSE {Outcome(t, sc, FALSE)} \cup {End(w) : w \in ForkWays(t, sc)}
  BY Zenon DEF Fork, ForkWays, IsForked
<1>2. CASE ~sc.middle
  BY <1>1, <1>2, Zenon
<1>3. CASE sc.middle /\ sc.entryCount = 0
  BY <1>1, <1>3, Zenon
<1>4. CASE sc.middle /\ sc.entryCount # 0
  <2>1. f \in {Outcome(t, sc, FALSE)} \cup {End(w) : w \in ForkWays(t, sc)}
    BY <1>1, <1>4, Zenon
  <2>2. CASE f = Outcome(t, sc, FALSE)
    BY <1>4, <2>2
  <2>3. CASE \E w \in ForkWays(t, sc) : f = End(w)
    <3>1. PICK w \in ForkWays(t, sc) : f = End(w)
      BY <2>3
    <3> QED BY <1>4, <3>1, Zenon
  <2> HIDE DEF End
  <2>4. f = Outcome(t, sc, FALSE) \/ \E w \in ForkWays(t, sc) : f = End(w)
    BY <2>1
  <2> QED BY <2>2, <2>3, <2>4
<1> QED BY <1>2, <1>3, <1>4

\* A fork begins with nothing forked.
LEMMA StartWay ==
  ASSUME NEW t, TreeOK(t), NEW sc, NEW C, Counts(t, sc, C), sc.table # NoTable
  PROVE  Way(t, sc, C, NoNode, [tree |-> t, scope |-> sc, ok |-> TRUE, prev |-> NoNode])
<1> DEFINE yes == TRUE
           w == [tree |-> t, scope |-> sc, ok |-> TRUE, prev |-> NoNode]
<1> HIDE DEF yes, w
<1>1. w = [tree |-> t, scope |-> sc, ok |-> yes, prev |-> NoNode]
  BY Zenon DEF yes, w
<1>2. /\ w = [tree |-> w.tree, scope |-> w.scope, ok |-> w.ok, prev |-> w.prev]
      /\ w.tree = t /\ w.scope = sc /\ w.prev = NoNode
  BY <1>1
<1>3. Treelike(t) /\ sc \in ScopeRecords
  BY CountsFacts
<1>4. sc = [lastProp |-> sc.lastProp, table |-> sc.table, middle |-> sc.middle, entryCount |-> sc.entryCount]
      /\ sc.table \in Tables
  BY <1>3 DEF ScopeRecords
<1>5. On(t, NoNode) = {} /\ PairsAt(t, NoNode, PTNodes) = PairsAt(t, NoNode, C)
  BY <1>3, OnIs, PairsNone
<1>6. Follows(t, sc, C, NoNode, w)
  BY <1>2, <1>5 DEF Follows
<1>7. Extends(t, t)
  BY DEF Extends
<1> QED BY <1>2, <1>4, <1>6, <1>7 DEF Way, w

\* Every way of a fork keeps the invariant of ways to the end of the line.
LEMMA WaysOfFork ==
  ASSUME NEW t, TreeOK(t), NEW sc, NEW C, Counts(t, sc, C), sc.table # NoTable
  PROVE  \A w \in ForkWays(t, sc) : Way(t, sc, C, sc.lastProp, w)
<1> DEFINE bound == LineIn(t, sc.lastProp, {n \in NodesInUse(t) : SearchScope(t, sc, t.nodes[n].id) # NoNode})
           start == [tree |-> t, scope |-> sc, ok |-> TRUE, prev |-> NoNode]
           f == CHOOSE h : IsForked(h, start, bound)
           l == LineIn(t, sc.lastProp, C)
<1>1. bound = l
  BY ListedAre
<1>2. bound \in Seq(PTNodes)
  <2>1. Treelike(t) /\ sc.lastProp \in PTNodes \cup {NoNode}
    BY CountsFacts
  <2>2. l \in Seq(PTNodes)
    BY <2>1, LineTyped
  <2> QED BY <1>1, <2>2
<1>3. ForkWays(t, sc) = f[Len(bound)]
  BY DEF ForkWays
<1>4. Way(t, sc, C, NoNode, start)
  BY StartWay
<1> HIDE DEF bound, start
<1>5. IsForked(f, start, bound)
  BY <1>2, ForkedExists
<1> HIDE DEF f
<1>6. \A w \in f[Len(l)] : Way(t, sc, C, sc.lastProp, w)
  <2>1. IsForked(f, start, LineIn(t, sc.lastProp, C))
    BY <1>1, <1>5
  <2> QED BY <1>4, <2>1, WaysAll
<1> QED BY <1>1, <1>3, <1>6

\* A fork that succeeds lists the same pairs; one that fails may leave strays.
LEMMA Forked ==
  ASSUME NEW t, TreeOK(t), NEW sc, NEW C, Counts(t, sc, C), NEW f \in Fork(t, sc)
  PROVE  ForkResult(t, sc, C, f)
<1>1. /\ Treelike(t) /\ sc.lastProp \in PTNodes \cup {NoNode} /\ C \subseteq On(t, sc.lastProp)
      /\ sc \in ScopeRecords /\ DistinctIds(t, On(t, sc.lastProp))
      /\ sc.lastProp \in NodesInUse(t) \cup {NoNode} /\ NoNode \notin PTNodes
  BY CountsFacts DEF Counts
<1>2. Extends(t, t)
  BY DEF Extends
<1>3. On(t, sc.lastProp) \subseteq PTNodes
  BY <1>1, OnIs
<1>4. C = On(t, sc.lastProp) => Relists(t, sc.lastProp, t, sc.lastProp, C)
  <2> SUFFICES ASSUME C = On(t, sc.lastProp) PROVE PairsAt(t, sc.lastProp, PTNodes) = PairsAt(t, sc.lastProp, C)
    BY DEF Relists
  <2>1. On(t, sc.lastProp) \cap PTNodes = On(t, sc.lastProp) \cap C
    BY <1>3
  <2> QED BY <1>1, <2>1, PairsSame
<1>5. CASE ~sc.middle /\ f = Outcome(t, sc, TRUE)
  <2>1. f.tree = t /\ f.scope = sc /\ f.ok
    BY ONLY <1>5, Zenon DEF Outcome
  <2>2. C = On(t, sc.lastProp)
    BY <1>5 DEF Counts
  <2> QED BY <1>2, <1>4, <1>5, <2>1, <2>2 DEF ForkResult
<1>6. CASE sc.middle /\ sc.entryCount = 0 /\ f = Outcome(t, [sc EXCEPT !.middle = FALSE], TRUE)
  <2> DEFINE u == [sc EXCEPT !.middle = FALSE]
  <2>1. f.tree = t /\ f.scope = u /\ f.ok
    BY ONLY <1>6, Zenon DEF Outcome
  <2>2. sc = [lastProp |-> sc.lastProp, table |-> sc.table, middle |-> sc.middle, entryCount |-> sc.entryCount]
        /\ sc.table \in {NoTable} \cup Tables
    BY <1>1 DEF ScopeRecords
  <2>3. u = [lastProp |-> sc.lastProp, table |-> sc.table, middle |-> FALSE, entryCount |-> sc.entryCount]
    BY <2>2, MiddleOff
  <2> HIDE DEF u
  <2>4. u.lastProp = sc.lastProp /\ u.table = sc.table /\ ~u.middle /\ u.entryCount = sc.entryCount
    BY ONLY <2>3, NoMiddle
  <2>5. u \in ScopeRecords
    <3>1. sc.entryCount \in Nat
      BY <1>6
    <3> QED BY ONLY <1>1, <2>2, <2>3, <3>1, NoMiddle
  <2>6. Len(LineIn(t, sc.lastProp, C)) = 0
    BY <1>6 DEF Counts
  <2>7. C = {}
    <3>1. LineIn(t, sc.lastProp, C) \in Seq(PTNodes) /\ ToSet(LineIn(t, sc.lastProp, C)) = On(t, sc.lastProp) \cap C
      BY <1>1, LineTyped, LineIs
    <3>2. \A x \in ToSet(LineIn(t, sc.lastProp, C)) : \E i \in 1..Len(LineIn(t, sc.lastProp, C)) : LineIn(t, sc.lastProp, C)[i] = x
      BY <3>1, Members
    <3> QED BY <1>1, <2>6, <3>1, <3>2
  <2>8. On(t, sc.lastProp) = {} /\ C = On(t, sc.lastProp)
    <3>1. sc.lastProp = NoNode
      BY <2>7 DEF Counts
    <3> QED BY <1>1, <2>7, <3>1, OnIs
  <2>9. Counts(t, u, On(t, u.lastProp))
    BY <1>1, <2>4, <2>5, <2>8 DEF Counts
  <2> QED BY <1>2, <1>4, <2>1, <2>4, <2>8, <2>9 DEF ForkResult
<1>7. CASE f = Outcome(t, sc, FALSE)
  <2>1. f.tree = t /\ f.scope = sc /\ ~f.ok
    BY ONLY <1>7, Zenon DEF Outcome
  <2> QED BY <1>2, <2>1 DEF ForkResult
<1>8. CASE /\ sc.middle
           /\ \E w \in ForkWays(t, sc) :
                 \/ w.ok /\ f = Outcome(w.tree, [w.scope EXCEPT !.lastProp = w.prev, !.middle = FALSE], TRUE)
                 \/ ~w.ok /\ f = Outcome(w.tree, w.scope, FALSE)
  <2>1. sc.table # NoTable
    BY <1>8 DEF Counts
  <2>2. PICK w \in ForkWays(t, sc) :
                 \/ w.ok /\ f = Outcome(w.tree, [w.scope EXCEPT !.lastProp = w.prev, !.middle = FALSE], TRUE)
                 \/ ~w.ok /\ f = Outcome(w.tree, w.scope, FALSE)
    BY <1>8
  <2>3. Way(t, sc, C, sc.lastProp, w)
    BY <2>1, WaysOfFork
  <2>4. TreeOK(w.tree) /\ Extends(t, w.tree)
    BY <2>3 DEF Way
  <2>5. CASE w.ok /\ f = Outcome(w.tree, [w.scope EXCEPT !.lastProp = w.prev, !.middle = FALSE], TRUE)
    <3> DEFINE u == [w.scope EXCEPT !.lastProp = w.prev, !.middle = FALSE]
    <3>1. f.tree = w.tree /\ f.scope = u /\ f.ok
      BY ONLY <2>5, Zenon DEF Outcome
    <3>2. u = [w.scope EXCEPT !.lastProp = w.prev, !.middle = FALSE]
      OBVIOUS
    <3> HIDE DEF u
    <3>3. /\ Counts(w.tree, u, On(w.tree, u.lastProp)) /\ ~u.middle
          /\ Relists(w.tree, u.lastProp, t, sc.lastProp, C)
      BY <2>1, <2>3, <2>5, <3>2, WayDone
    <3> QED BY <2>4, <3>1, <3>3 DEF ForkResult
  <2>6. CASE ~w.ok /\ f = Outcome(w.tree, w.scope, FALSE)
    <3>1. f.tree = w.tree /\ f.scope = w.scope /\ ~f.ok
      BY ONLY <2>6, Zenon DEF Outcome
    <3>2. /\ w.scope = [lastProp |-> sc.lastProp, table |-> w.scope.table, middle |-> sc.middle, entryCount |-> sc.entryCount]
          /\ w.scope.table \in Tables
          /\ w.scope.table = sc.table \/ Strays(t, C, w.tree, w.scope)
      BY <2>3 DEF Way
    <3>3. w.scope.table = sc.table => w.scope = sc
      BY <1>1, <3>2 DEF ScopeRecords
    <3> QED BY <2>4, <3>1, <3>2, <3>3 DEF ForkResult
  <2> QED BY <2>2, <2>5, <2>6
<1> QED BY <1>5, <1>6, <1>7, <1>8, ForkIs

----------------------------------------------------------------------------
(* Adding a property to a scope.                                           *)

\* The scope with the node x for the id at the end of its line.
Grown(u, id, x) ==
    [lastProp |-> x, table |-> IF u.table = NoTable THEN NoTable ELSE [u.table EXCEPT ![id] = x],
     middle |-> u.middle, entryCount |-> u.entryCount + 1]

\* The new last property is counted, put last and hashed.
LEMMA GrownIs ==
  ASSUME NEW u \in ScopeRecords, NEW id, NEW x
  PROVE  /\ Store([u EXCEPT !.entryCount = @ + 1, !.lastProp = x], id, x) = Grown(u, id, x)
         /\ Store([[u EXCEPT !.lastProp = x] EXCEPT !.entryCount = @ + 1], id, x) = Grown(u, id, x)
<1> DEFINE a == u.lastProp
           b == u.table
           c == u.middle
           d == u.entryCount
           k == u.entryCount + 1
           v == [lastProp |-> x, table |-> b, middle |-> c, entryCount |-> k]
           one == [u EXCEPT !.entryCount = @ + 1, !.lastProp = x]
           two == [[u EXCEPT !.lastProp = x] EXCEPT !.entryCount = @ + 1]
           tab == [b EXCEPT ![id] = x]
           e1 == [u EXCEPT !.entryCount = @ + 1]
           e2 == [u EXCEPT !.lastProp = x]
<1>1. one = v /\ two = v
  <2>1. u = [lastProp |-> a, table |-> b, middle |-> c, entryCount |-> d]
    BY DEF ScopeRecords
  <2>2. u.entryCount = d /\ k = d + 1 /\ one = [e1 EXCEPT !.lastProp = x] /\ two = [e2 EXCEPT !.entryCount = @ + 1]
    OBVIOUS
  <2> HIDE DEF a, b, c, d, k, one, two, v
  <2>3. e1 = [lastProp |-> a, table |-> b, middle |-> c, entryCount |-> k]
    BY ONLY <2>1, <2>2
  <2>4. e2 = [lastProp |-> x, table |-> b, middle |-> c, entryCount |-> d]
    BY ONLY <2>1
  <2> HIDE DEF e1, e2
  <2>5. one = [lastProp |-> x, table |-> b, middle |-> c, entryCount |-> k]
    BY ONLY <2>2, <2>3
  <2>6. two = [lastProp |-> x, table |-> b, middle |-> c, entryCount |-> k]
    BY ONLY <2>2, <2>4
  <2> QED BY <2>5, <2>6 DEF v
<1>2. Grown(u, id, x) = [lastProp |-> x, table |-> IF b = NoTable THEN NoTable ELSE tab, middle |-> c, entryCount |-> k]
  BY DEF Grown
<1> HIDE DEF a, b, c, d, k, one, two
<1>3. Store(v, id, x) = IF b = NoTable THEN v ELSE [v EXCEPT !.table[id] = x]
  BY DEF Store
<1>4. [v EXCEPT !.table[id] = x] = [lastProp |-> x, table |-> tab, middle |-> c, entryCount |-> k]
  OBVIOUS
<1>5. Store(v, id, x) = Grown(u, id, x)
  BY <1>2, <1>3, <1>4
<1> HIDE DEF v
<1>6. Store(one, id, x) = Grown(u, id, x) /\ Store(two, id, x) = Grown(u, id, x)
  BY <1>1, <1>5
<1> QED BY <1>6 DEF one, two

GrowsTo(u, id, x, v) ==
    /\ v.lastProp = x /\ v.middle = u.middle /\ v.entryCount = u.entryCount + 1
    /\ u.table = NoTable => v.table = NoTable
    /\ u.table # NoTable => v.table = [u.table EXCEPT ![id] = x] /\ v.table \in Tables /\ v.table # NoTable
    /\ v \in ScopeRecords

LEMMA GrownFields ==
  ASSUME NEW u \in ScopeRecords, NEW id, NEW x \in PTNodes
  PROVE  GrowsTo(u, id, x, Grown(u, id, x))
<1>1. u.table # NoTable => u.table \in Tables
  BY DEF ScopeRecords
<1>2. u.table \in Tables => [u.table EXCEPT ![id] = x] \in Tables
  BY DEF Tables
<1>3. u.middle \in BOOLEAN /\ u.entryCount + 1 \in Nat
  BY DEF ScopeRecords
<1> DEFINE c == u.middle
           k == u.entryCount + 1
           tab == [u.table EXCEPT ![id] = x]
           v == Grown(u, id, x)
<1>4. v = [lastProp |-> x, table |-> IF u.table = NoTable THEN NoTable ELSE tab, middle |-> c, entryCount |-> k]
  BY DEF Grown
<1>5. c \in BOOLEAN /\ k \in Nat /\ (u.table # NoTable => tab \in Tables)
  BY <1>1, <1>2, <1>3
<1> HIDE DEF c, k, tab, v
<1>6. v.lastProp = x /\ v.middle = c /\ v.entryCount = k /\ v.table = IF u.table = NoTable THEN NoTable ELSE tab
  BY <1>4
<1>7. v.table \in {NoTable} \cup Tables
  BY <1>5, <1>6
<1>8. v \in ScopeRecords
  BY <1>4, <1>5, <1>6, <1>7 DEF ScopeRecords
<1>9. GrowsTo(u, id, x, v)
  BY <1>5, <1>6, <1>8, NoTableIsNone DEF GrowsTo, c, k, tab
<1> QED BY <1>9 DEF v

\* The node x at the end of the line of u.
Lengthens(h, u, D, x) ==
    /\ Counts(h, Grown(u, h.nodes[x].id, x), D \cup {x})
    /\ PairsAt(h, x, D \cup {x}) = Append(PairsAt(h, u.lastProp, D), Pair(h, x))
    /\ Grown(u, h.nodes[x].id, x).lastProp = x

\* A node put at the end of the line is one more that counts.
LEMMA NodeAppended ==
  ASSUME NEW h, TreeOK(h), NEW u, NEW D, Counts(h, u, D), NEW x \in NodesInUse(h),
         h.nodes[x].parent = u.lastProp, \A m \in On(h, u.lastProp) : h.nodes[m].id # h.nodes[x].id
  PROVE  Lengthens(h, u, D, x)
<1> DEFINE p == u.lastProp
           id == h.nodes[x].id
           v == Grown(u, id, x)
           E == D \cup {x}
<1>1. /\ Treelike(h) /\ NoNode \notin PTNodes /\ NodesInUse(h) \subseteq PTNodes
      /\ u \in ScopeRecords /\ p \in PTNodes \cup {NoNode}
      /\ On(h, p) \subseteq NodesInUse(h) /\ D \subseteq NodesInUse(h) /\ D \subseteq PTNodes
      /\ DistinctIds(h, On(h, p)) /\ D \subseteq On(h, p)
  BY CountsFacts
<1>2. id \in PTIds /\ x \in PTNodes
  BY <1>1, NodeFacts
<1>3. On(h, x) = On(h, p) \cup {x} /\ x \notin On(h, p)
  BY <1>1, <1>2, OnIs
<1>4. /\ v.lastProp = x /\ v.middle = u.middle /\ v.entryCount = u.entryCount + 1
      /\ u.table = NoTable => v.table = NoTable
      /\ u.table # NoTable => v.table = [u.table EXCEPT ![id] = x] /\ v.table \in Tables /\ v.table # NoTable
      /\ v \in ScopeRecords
  <2> HIDE DEF id
  <2>1. GrowsTo(u, id, x, v)
    BY <1>1, <1>2, GrownFields
  <2> HIDE DEF v
  <2> QED BY <2>1 DEF GrowsTo
<1> HIDE DEF v
<1>5. LineIn(h, x, E) = Append(LineIn(h, p, D), x) /\ Len(LineIn(h, x, E)) = Len(LineIn(h, p, D)) + 1
  <2>1. LineIn(h, x, E) = Append(LineIn(h, p, E), x)
    BY <1>1, <1>2, LineStep
  <2>2. On(h, p) \cap E = On(h, p) \cap D
    BY <1>3
  <2>3. LineIn(h, p, E) = LineIn(h, p, D)
    BY <1>1, <2>2, LineSame
  <2>4. LineIn(h, p, D) \in Seq(PTNodes)
    BY <1>1, LineTyped
  <2> DEFINE l == LineIn(h, p, D)
  <2>5. l \in Seq(PTNodes) /\ LineIn(h, x, E) = Append(l, x)
    BY <2>1, <2>3, <2>4
  <2> HIDE DEF l, E
  <2>6. Len(Append(l, x)) = Len(l) + 1
    BY <1>2, <2>5
  <2> QED BY <2>5, <2>6 DEF l
<1>6. PairsAt(h, x, E) = Append(PairsAt(h, p, D), Pair(h, x))
  <2> DEFINE l == LineIn(h, p, D)
  <2>1. PairsAt(h, p, D) = [j \in DOMAIN l |-> Pair(h, l[j])]
    BY DEF PairsAt
  <2>2. PairsAt(h, x, E) = [j \in DOMAIN Append(l, x) |-> Pair(h, Append(l, x)[j])]
    BY <1>5 DEF PairsAt
  <2>3. l \in Seq(PTNodes)
    BY <1>1, LineTyped
  <2> HIDE DEF l, E
  <2> QED BY <1>2, <2>1, <2>2, <2>3, PairsAppended
<1>7. u.table # NoTable => TableFor(h, E, v.table)
  <2> SUFFICES ASSUME u.table # NoTable PROVE TableFor(h, E, [u.table EXCEPT ![id] = x])
    BY <1>4
  <2>1. TableFor(h, D, u.table)
    BY DEF Counts
  <2>2. \A m \in D : h.nodes[m].id # h.nodes[x].id
    BY <1>1
  <2> QED BY <1>1, <1>2, <2>1, <2>2, TableAdded
<1>8. DistinctIds(h, On(h, x))
  BY <1>1, <1>3 DEF DistinctIds
<1>9. u.entryCount = Len(LineIn(h, p, D)) /\ (u.table = NoTable => ~u.middle) /\ (~u.middle => D = On(h, p))
  BY DEF Counts
<1>10. Counts(h, v, E)
  BY <1>1, <1>3, <1>4, <1>5, <1>7, <1>8, <1>9 DEF Counts
<1> QED BY <1>4, <1>6, <1>10 DEF v, Lengthens

\* A table made for a scope leaves what it counts.
LEMMA TableMade ==
  ASSUME NEW t, TreeOK(t), NEW sc, NEW C, Counts(t, sc, C)
  PROVE  Counts(t, CreateScopeTable(t, sc), C) /\ CreateScopeTable(t, sc).lastProp = sc.lastProp
<1> DEFINE tab == [id \in PTIds |-> SearchScope(t, sc, id)]
           v == CreateScopeTable(t, sc)
<1>1. TableFor(t, C, tab) /\ sc \in ScopeRecords
  BY TableCreated, CountsFacts
<1>2. v = [sc EXCEPT !.table = tab]
  BY DEF CreateScopeTable
<1> HIDE DEF tab, v
<1>3. tab \in Tables /\ tab # NoTable
  BY <1>1, NoTableIsNone DEF TableFor
<1>4. v.lastProp = sc.lastProp /\ v.table = tab /\ v.middle = sc.middle /\ v.entryCount = sc.entryCount /\ v \in ScopeRecords
  BY <1>1, <1>2, <1>3 DEF ScopeRecords
<1>5. Counts(t, v, C)
  BY <1>1, <1>3, <1>4 DEF Counts
<1> QED BY <1>4, <1>5 DEF v

\* A node of the line that counts again.
LEMMA NodeRestored ==
  ASSUME NEW h, TreeOK(h), NEW u, NEW D, Counts(h, u, D), NEW x \in On(h, u.lastProp), x \notin D
  PROVE  /\ Counts(h, Store([u EXCEPT !.entryCount = @ + 1], h.nodes[x].id, x), D \cup {x})
         /\ Store([u EXCEPT !.entryCount = @ + 1], h.nodes[x].id, x).lastProp = u.lastProp
<1> DEFINE id == h.nodes[x].id
           tab == [u.table EXCEPT ![id] = x]
           v == Store([u EXCEPT !.entryCount = @ + 1], id, x)
           E == D \cup {x}
           a == u.lastProp
           b == u.table
           c == u.middle
           d == u.entryCount
           k == u.entryCount + 1
<1>1. /\ Treelike(h) /\ NoNode \notin PTNodes /\ NodesInUse(h) \subseteq PTNodes /\ u \in ScopeRecords
      /\ On(h, a) \subseteq NodesInUse(h) /\ D \subseteq On(h, a) /\ DistinctIds(h, On(h, a))
      /\ a \in PTNodes \cup {NoNode}
  BY CountsFacts
<1>2. id \in PTIds /\ x \in PTNodes
  BY <1>1, NodeFacts
<1>3. u.middle /\ u.table # NoTable /\ TableFor(h, D, u.table) /\ u.lastProp \in NodesInUse(h) \cup {NoNode}
      /\ (u.lastProp # NoNode => u.lastProp \in D)
      /\ u.entryCount = Len(LineIn(h, u.lastProp, D))
  BY DEF Counts
<1>4. TableFor(h, E, tab)
  <2>1. \A m \in D : h.nodes[m].id # h.nodes[x].id
    BY <1>1 DEF DistinctIds
  <2> QED BY <1>1, <1>2, <1>3, <2>1, TableAdded
<1>5. tab \in Tables /\ tab # NoTable
  BY <1>4, NoTableIsNone DEF TableFor
<1>6. v = [lastProp |-> a, table |-> tab, middle |-> c, entryCount |-> k]
  <2>1. u = [lastProp |-> a, table |-> b, middle |-> c, entryCount |-> d] /\ u.entryCount = d /\ b # NoTable
    BY <1>1, <1>3 DEF ScopeRecords
  <2>2. tab = [b EXCEPT ![id] = x] /\ k = d + 1
    OBVIOUS
  <2> DEFINE e == [u EXCEPT !.entryCount = @ + 1]
  <2>3. v = IF e.table = NoTable THEN e ELSE [e EXCEPT !.table[id] = x]
    BY DEF Store
  <2> HIDE DEF a, b, c, d, k, tab, v, id
  <2>4. e = [lastProp |-> a, table |-> b, middle |-> c, entryCount |-> k]
    BY ONLY <2>1, <2>2
  <2> HIDE DEF e
  <2>5. e.table = b
    BY ONLY <2>4
  <2>6. [e EXCEPT !.table[id] = x] = [lastProp |-> a, table |-> tab, middle |-> c, entryCount |-> k]
    BY ONLY <2>2, <2>4
  <2> QED BY ONLY <2>1, <2>3, <2>5, <2>6
<1> HIDE DEF v
<1>7. c \in BOOLEAN /\ k \in Nat /\ c
  BY <1>1, <1>3 DEF ScopeRecords
<1>8. v.lastProp = a /\ v.table = tab /\ v.middle = c /\ v.entryCount = k /\ v \in ScopeRecords
  <2> HIDE DEF a, c, k, tab
  <2> QED BY <1>1, <1>5, <1>6, <1>7 DEF ScopeRecords
<1>9. k = Len(LineIn(h, a, E))
  <2>1. x \in E \cap On(h, a) /\ E \ {x} = D
    OBVIOUS
  <2> HIDE DEF a, E
  <2>2. Len(LineIn(h, a, E)) = Len(LineIn(h, a, E \ {x})) + 1
    BY <1>1, <2>1, LineShorter
  <2> USE DEF a
  <2> QED BY <1>3, <2>1, <2>2
<1>10. Counts(h, v, E)
  <2> HIDE DEF tab, k
  <2> QED BY <1>1, <1>3, <1>4, <1>5, <1>7, <1>8, <1>9 DEF Counts
<1> QED BY <1>8, <1>10 DEF v

\* The scope less the property about to be overwritten.
Off(t, sc, old) == IF old = NoNode THEN sc ELSE Unlink(t, sc, old)

TakenOff(t, sc, C, id, old) ==
    /\ Counts(t, Off(t, sc, old), C \ {old})
    /\ PairsAt(t, Off(t, sc, old).lastProp, C \ {old}) = OP!Without(PairsAt(t, sc.lastProp, C), id)
    /\ \A m \in C \ {old} : t.nodes[m].id # id
    /\ old # NoNode => /\ old \in C /\ t.nodes[old].id = id
                       /\ \A m \in On(t, Off(t, sc, old).lastProp) : t.nodes[m].id = id => m = old
    /\ old = NoNode => Off(t, sc, old) = sc
    /\ old # NoNode /\ old \in On(t, Off(t, sc, old).lastProp) => Off(t, sc, old).lastProp = sc.lastProp

\* The property with the id is off the scope.
LEMMA Taken ==
  ASSUME NEW t, TreeOK(t), NEW sc, NEW C, Counts(t, sc, C), NEW id \in PTIds
  PROVE  TakenOff(t, sc, C, id, SearchScope(t, sc, id))
<1> DEFINE old == SearchScope(t, sc, id)
<1>1. Finds(t, C, id, old)
  BY SearchFinds
<1>2. /\ Treelike(t) /\ NoNode \notin PTNodes /\ C \subseteq PTNodes /\ C \subseteq NodesInUse(t)
      /\ C \subseteq On(t, sc.lastProp) /\ DistinctIds(t, On(t, sc.lastProp)) /\ DistinctIds(t, C)
      /\ sc.lastProp \in PTNodes \cup {NoNode}
  BY CountsFacts
<1> HIDE DEF old
<1>3. CASE old = NoNode
  <2>1. C \ {old} = C /\ Off(t, sc, old) = sc
    BY <1>2, <1>3 DEF Off
  <2>2. \A m \in C : t.nodes[m].id # id
    BY <1>1, <1>3 DEF Finds
  <2> DEFINE n == sc.lastProp
  <2>3. Treelike(t) /\ C \in SUBSET NodesInUse(t) /\ n \in PTNodes \cup {NoNode}
    BY <1>2
  <2>4. Names(t, n, C, NoNode, id)
    BY <1>2, <2>2 DEF Names
  <2> HIDE DEF n
  <2>5. LeavesOut(t, n, C, NoNode, id)
    BY ONLY <2>3, <2>4, PairsWithout
  <2>6. PairsAt(t, sc.lastProp, C) = OP!Without(PairsAt(t, sc.lastProp, C), id)
    BY <1>3, <2>1, <2>5 DEF LeavesOut, n
  <2>7. TakenOff(t, sc, C, id, old)
    BY <1>3, <2>1, <2>2, <2>6 DEF TakenOff
  <2> QED BY <2>7 DEF old
<1>4. CASE old # NoNode
  <2>1. old \in C /\ t.nodes[old].id = id /\ Off(t, sc, old) = Unlink(t, sc, old)
    BY <1>1, <1>4 DEF Finds, Off
  <2> DEFINE u == Unlink(t, sc, old)
  <2>2. Counts(t, u, C \ {old})
        /\ PairsAt(t, u.lastProp, C \ {old}) = OP!Without(PairsAt(t, sc.lastProp, C), t.nodes[old].id)
    BY <2>1, UnlinkCounts
  <2>3. \A m \in C \ {old} : t.nodes[m].id # id
    BY <1>2, <2>1 DEF DistinctIds
  <2>4. On(t, u.lastProp) \subseteq On(t, sc.lastProp) /\ (old \in On(t, u.lastProp) => u.lastProp = sc.lastProp)
    <3>1. CASE old = sc.lastProp
      <4>1. On(t, u.lastProp) \subseteq On(t, t.nodes[sc.lastProp].parent)
        BY <1>4, <3>1, UnlinkLast
      <4>2. On(t, sc.lastProp) = On(t, t.nodes[sc.lastProp].parent) \cup {sc.lastProp}
            /\ sc.lastProp \notin On(t, t.nodes[sc.lastProp].parent)
        BY <1>2, <1>4, <3>1, OnIs
      <4> QED BY <3>1, <4>1, <4>2
    <3>2. CASE old # sc.lastProp
      <4>0. PICK x \in C : x = old /\ x # sc.lastProp
        BY <2>1, <3>2
      <4>a. Counts(t, Unlink(t, sc, x), C \ {x}) /\ Unlink(t, sc, x).lastProp = sc.lastProp /\ Unlink(t, sc, x).middle
        BY <4>0, UnlinkOther
      <4>1. Unlink(t, sc, old).lastProp = sc.lastProp
        BY <4>0, <4>a
      <4> QED BY <4>1
    <3> QED BY <3>1, <3>2
  <2> HIDE DEF u
  <2>5. \A m \in On(t, u.lastProp) : t.nodes[m].id = id => m = old
    BY <1>2, <2>1, <2>4 DEF DistinctIds
  <2>6. Off(t, sc, old) = u
    BY <2>1 DEF u
  <2>7. TakenOff(t, sc, C, id, old)
    BY <1>4, <2>1, <2>2, <2>3, <2>4, <2>5, <2>6 DEF TakenOff
  <2> QED BY <2>7 DEF old
<1> QED BY <1>3, <1>4

\* The scope is sound without the property, and what has its id is off the line
\* or the node taken off.
Ready(t, sc, C, id, old, h, u, D) ==
    /\ TreeOK(h) /\ Extends(t, h) /\ Counts(h, u, D)
    /\ PairsAt(h, u.lastProp, D) = OP!Without(PairsAt(t, sc.lastProp, C), id)
    /\ \A m \in D : h.nodes[m].id # id
    /\ old # NoNode => \A m \in On(h, u.lastProp) : h.nodes[m].id = id => m = old
    /\ old # NoNode /\ old \in On(h, u.lastProp) => u.lastProp = sc.lastProp /\ D = C \ {old}

\* After the fork the scope can take the property.
LEMMA ForkReady ==
  ASSUME NEW t, TreeOK(t), NEW sc, NEW C, Counts(t, sc, C), NEW id \in PTIds, NEW old, TakenOff(t, sc, C, id, old),
         NEW f, ForkResult(t, Off(t, sc, old), C \ {old}, f)
  PROVE  /\ f.ok => Ready(t, sc, C, id, old, f.tree, f.scope, On(f.tree, f.scope.lastProp))
         /\ f.scope = Off(t, sc, old) => Ready(t, sc, C, id, old, f.tree, f.scope, C \ {old})
<1> DEFINE u == Off(t, sc, old)
           D == C \ {old}
           h == f.tree
           v == f.scope
           O == On(h, v.lastProp)
<1>1. /\ Counts(t, u, D) /\ PairsAt(t, u.lastProp, D) = OP!Without(PairsAt(t, sc.lastProp, C), id)
      /\ \A m \in D : t.nodes[m].id # id
      /\ old # NoNode => /\ old \in C /\ t.nodes[old].id = id
                         /\ \A m \in On(t, u.lastProp) : t.nodes[m].id = id => m = old
      /\ old # NoNode /\ old \in On(t, u.lastProp) => u.lastProp = sc.lastProp
  BY DEF TakenOff
<1>2. TreeOK(h) /\ Extends(t, h)
  BY DEF ForkResult
<1>3. /\ f.ok => /\ Counts(h, v, O) /\ ~v.middle
                 /\ Relists(h, v.lastProp, t, u.lastProp, D)
  BY DEF ForkResult
<1>4. C \subseteq NodesInUse(t)
  BY CountsFacts
<1> HIDE DEF u, D, h, v, O
<1>5. /\ On(t, u.lastProp) \subseteq NodesInUse(t) /\ D \subseteq On(t, u.lastProp) /\ DistinctIds(t, D)
      /\ u.lastProp \in NodesInUse(t) \cup {NoNode} /\ u.lastProp \in PTNodes \cup {NoNode}
  BY <1>1, CountsFacts DEF Counts
<1>6. ASSUME f.ok PROVE Ready(t, sc, C, id, old, h, v, O)
  <2>1. Counts(h, v, O) /\ Relists(h, v.lastProp, t, u.lastProp, D)
    BY <1>3, <1>6
  <2>2. v.lastProp \in NodesInUse(h) \cup {NoNode} /\ Treelike(h) /\ v.lastProp \in PTNodes \cup {NoNode}
    BY <1>2, <2>1, CountsFacts DEF Counts
  <2>3. TreeOK(t)
    OBVIOUS
  <2> DEFINE m1 == v.lastProp
             n1 == u.lastProp
  <2>4. m1 \in NodesInUse(h) \cup {NoNode} /\ n1 \in NodesInUse(t) \cup {NoNode} /\ Relists(h, m1, t, n1, D)
    BY <1>5, <2>1, <2>2
  <2> HIDE DEF m1, n1
  <2>5. SameIds(h, m1, t, n1, D)
    BY ONLY <1>2, <2>3, <2>4, RelistedIds
  <2>6. \A x \in O : h.nodes[x].id # id
    BY <1>1, <2>5 DEF SameIds, m1, O
  <2>7. PairsAt(h, v.lastProp, O) = PairsAt(t, u.lastProp, D)
    <3>1. On(h, v.lastProp) \cap O = On(h, v.lastProp) \cap PTNodes
      BY <2>2, OnIs DEF O
    <3>2. PairsAt(h, v.lastProp, O) = PairsAt(h, v.lastProp, PTNodes)
      BY <2>2, <3>1, PairsSame
    <3> QED BY <2>1, <3>2 DEF Relists
  <2>8. old # NoNode => old \notin O
    BY <1>1, <1>2, <1>4, <2>6 DEF Extends
  <2> QED BY <1>1, <1>2, <2>1, <2>6, <2>7, <2>8 DEF Ready, O
<1>7. ASSUME v = u PROVE Ready(t, sc, C, id, old, h, v, D)
  <2>1. Counts(h, u, D) /\ PairsAt(h, u.lastProp, D) = PairsAt(t, u.lastProp, D)
    BY <1>1, <1>2, CountsKept
  <2>2. On(h, u.lastProp) = On(t, u.lastProp)
    BY <1>2, <1>5, ExtendsOn
  <2>3. \A m \in On(t, u.lastProp) : h.nodes[m] = t.nodes[m]
    BY <1>2, <1>5 DEF Extends
  <2>4. \A m \in D : h.nodes[m].id # id
    BY <1>1, <1>5, <2>3
  <2>5. old # NoNode => \A m \in On(h, u.lastProp) : h.nodes[m].id = id => m = old
    BY <1>1, <2>2, <2>3
  <2> QED BY <1>1, <1>2, <1>7, <2>1, <2>2, <2>4, <2>5 DEF Ready, D
<1> QED BY <1>6, <1>7 DEF u, D, h, v, O

\* What an add that fails may leave of a sound scope.
Spared(l, L) == l = L \/ \E i \in DOMAIN L : l = OP!With(L, L[i][1], L[i][2]) \/ l = OP!Without(L, L[i][1])

\* A call leaves a good tree that is larger at most.
Grew(t, w) == TreeOK(w.tree) /\ Extends(t, w.tree)

\* A call that fails, or changes nothing: the scope counts some nodes, its list is spared.
FailSound(t, sc, C, w) ==
    Grew(t, w) /\ \E E : Counts(w.tree, w.scope, E)
                         /\ Spared(PairsAt(w.tree, w.scope.lastProp, E), PairsAt(t, sc.lastProp, C))

\* A table that names a node that is not on the line.
Torn(h, u) == u.table # NoTable /\ ~({u.table[id] : id \in PTIds} \ {NoNode} \subseteq On(h, u.lastProp))

\* What fail_overwrite does: nothing, the count put back in place or at the end
\* of the line, there or below a child found or made, or nothing for want of one.
FailsTo(h, u, old, w) ==
    \/ old = NoNode /\ w.tree = h /\ w.scope = u
    \/ /\ old # NoNode /\ old \in On(h, u.lastProp)
       /\ w.tree = h /\ w.scope = Store([u EXCEPT !.entryCount = @ + 1], h.nodes[old].id, old)
    \/ /\ old # NoNode /\ old \notin On(h, u.lastProp) /\ h.nodes[old].parent = u.lastProp
       /\ w.tree = h /\ w.scope = Grown(u, h.nodes[old].id, old)
    \/ /\ old # NoNode /\ old \notin On(h, u.lastProp)
       /\ \E g \in GetPropertyTreeChild(h, u.lastProp, h.nodes[old].id, h.nodes[old].attrs) :
            /\ w.tree = g.tree
            /\ w.scope = IF g.got = NoNode THEN u ELSE Grown(u, h.nodes[old].id, g.got)

\* The ways js_AddScopeProperty's error path can end.
LEMMA FailOverwriteIs ==
  ASSUME NEW h, NEW u \in ScopeRecords, NEW old, NEW w \in FailOverwrite(h, u, old)
  PROVE  ~w.ok /\ FailsTo(h, u, old, w)
<1> DEFINE id == h.nodes[old].id
           Back(n) == Store([[u EXCEPT !.lastProp = n] EXCEPT !.entryCount = @ + 1], id, n)
           Here == Store([u EXCEPT !.entryCount = @ + 1], id, old)
           G == GetPropertyTreeChild(h, u.lastProp, id, h.nodes[old].attrs)
<1>1. FailOverwrite(h, u, old) =
        IF old = NoNode THEN {Outcome(h, u, FALSE)}
        ELSE IF old \in On(h, u.lastProp) THEN {Outcome(h, Here, FALSE)}
        ELSE IF h.nodes[old].parent = u.lastProp THEN {Outcome(h, Back(old), FALSE)}
        ELSE {IF g.got = NoNode THEN Outcome(g.tree, u, FALSE) ELSE Outcome(g.tree, Back(g.got), FALSE) : g \in G}
  BY Zenon DEF FailOverwrite, On
<1>2. \A n : Back(n) = Grown(u, id, n)
  BY GrownIs
<1> HIDE DEF Back, Here, G, id
<1>3. CASE old = NoNode
  <2>1. w = Outcome(h, u, FALSE)
    BY <1>1, <1>3, Zenon
  <2>2. w.tree = h /\ w.scope = u /\ ~w.ok
    BY ONLY <2>1, Zenon DEF Outcome
  <2> QED BY <1>3, <2>2 DEF FailsTo
<1>4. CASE old # NoNode /\ old \in On(h, u.lastProp)
  <2>1. w = Outcome(h, Here, FALSE)
    BY <1>1, <1>4, Zenon
  <2>2. w.tree = h /\ w.scope = Here /\ ~w.ok
    BY ONLY <2>1, Zenon DEF Outcome
  <2> QED BY <1>4, <2>2 DEF Here, id, FailsTo
<1>5. CASE old # NoNode /\ old \notin On(h, u.lastProp) /\ h.nodes[old].parent = u.lastProp
  <2>1. w = Outcome(h, Back(old), FALSE)
    BY <1>1, <1>5, Zenon
  <2>2. w.tree = h /\ w.scope = Back(old) /\ ~w.ok
    BY ONLY <2>1, Zenon DEF Outcome
  <2>3. w.scope = Grown(u, id, old)
    BY <1>2, <2>2
  <2> QED BY <1>5, <2>2, <2>3 DEF id, FailsTo
<1>6. CASE old # NoNode /\ old \notin On(h, u.lastProp) /\ h.nodes[old].parent # u.lastProp
  <2>1. PICK g \in G : w = IF g.got = NoNode THEN Outcome(g.tree, u, FALSE) ELSE Outcome(g.tree, Back(g.got), FALSE)
    BY <1>1, <1>6, Zenon
  <2>2. CASE g.got = NoNode
    <3>1. w = Outcome(g.tree, u, FALSE)
      BY <2>1, <2>2, Zenon
    <3>2. w.tree = g.tree /\ w.scope = u /\ ~w.ok
      BY ONLY <3>1, Zenon DEF Outcome
    <3> QED BY <1>6, <2>2, <3>2 DEF G, id, FailsTo
  <2>3. CASE g.got # NoNode
    <3>1. w = Outcome(g.tree, Back(g.got), FALSE)
      BY <2>1, <2>3, Zenon
    <3>2. w.tree = g.tree /\ w.scope = Back(g.got) /\ ~w.ok
      BY ONLY <3>1, Zenon DEF Outcome
    <3>3. w.scope = Grown(u, id, g.got)
      BY <1>2, <3>2
    <3> QED BY <1>6, <2>3, <3>2, <3>3 DEF G, id, FailsTo
  <2> QED BY <2>2, <2>3
<1> QED BY <1>3, <1>4, <1>5, <1>6

\* The pair of a node that counts is listed.
LEMMA PairListed ==
  ASSUME NEW t, TreeOK(t), NEW sc, NEW C, Counts(t, sc, C), NEW x \in C
  PROVE  \E i \in DOMAIN PairsAt(t, sc.lastProp, C) : PairsAt(t, sc.lastProp, C)[i] = Pair(t, x)
<1> DEFINE l == LineIn(t, sc.lastProp, C)
<1>1. Treelike(t) /\ sc.lastProp \in PTNodes \cup {NoNode} /\ C \subseteq On(t, sc.lastProp)
  BY CountsFacts
<1>2. l \in Seq(PTNodes) /\ ToSet(l) = On(t, sc.lastProp) \cap C
  BY <1>1, LineTyped, LineIs
<1>3. PairsAt(t, sc.lastProp, C) = [i \in DOMAIN l |-> Pair(t, l[i])]
  BY DEF PairsAt
<1> HIDE DEF l
<1>4. x \in ToSet(l)
  BY <1>1, <1>2
<1>5. PICK i \in DOMAIN l : l[i] = x
  BY <1>4 DEF ToSet
<1>6. i \in DOMAIN [j \in DOMAIN l |-> Pair(t, l[j])] /\ [j \in DOMAIN l |-> Pair(t, l[j])][i] = Pair(t, x)
  BY <1>5
<1> QED BY <1>3, <1>6

\* The overwritten property moved to the end, or lost.
LEMMA SparedIf ==
  ASSUME NEW t, TreeOK(t), NEW sc, NEW C, Counts(t, sc, C), NEW x \in C, NEW l,
         \/ l = OP!With(PairsAt(t, sc.lastProp, C), t.nodes[x].id, t.nodes[x].attrs)
         \/ l = OP!Without(PairsAt(t, sc.lastProp, C), t.nodes[x].id)
  PROVE  Spared(l, PairsAt(t, sc.lastProp, C))
<1> DEFINE L == PairsAt(t, sc.lastProp, C)
<1>1. PICK i \in DOMAIN L : L[i] = Pair(t, x)
  BY PairListed
<1>2. L[i][1] = t.nodes[x].id /\ L[i][2] = t.nodes[x].attrs
  BY <1>1 DEF Pair
<1> HIDE DEF L
<1>3. l = OP!With(L, L[i][1], L[i][2]) \/ l = OP!Without(L, L[i][1])
  BY <1>2 DEF L
<1>4. Spared(l, L)
  BY <1>3 DEF Spared
<1> QED BY <1>4 DEF L

\* The property put back where it was, or at the end, or lost.
LEMMA PutBack ==
  ASSUME NEW t, TreeOK(t), NEW sc, NEW C, Counts(t, sc, C), NEW id \in PTIds, NEW old, TakenOff(t, sc, C, id, old),
         NEW h, NEW u, NEW D, Ready(t, sc, C, id, old, h, u, D), NEW w \in FailOverwrite(h, u, old)
  PROVE  FailSound(t, sc, C, w) /\ ~w.ok
<1> DEFINE L == PairsAt(t, sc.lastProp, C)
           l == PairsAt(h, u.lastProp, D)
           a == t.nodes[old].attrs
<1>1. /\ TreeOK(h) /\ Extends(t, h) /\ Counts(h, u, D)
      /\ l = OP!Without(L, id)
      /\ \A m \in D : h.nodes[m].id # id
      /\ old # NoNode => \A m \in On(h, u.lastProp) : h.nodes[m].id = id => m = old
      /\ old # NoNode /\ old \in On(h, u.lastProp) => u.lastProp = sc.lastProp /\ D = C \ {old}
  BY DEF Ready
<1>2. old # NoNode => old \in C /\ t.nodes[old].id = id
  BY DEF TakenOff
<1>3. C \subseteq NodesInUse(t) /\ NoNode \notin C /\ \A n \in NodesInUse(t) : t.nodes[n].attrs \in PTAttrs
  <2>1. Treelike(t) /\ C \subseteq NodesInUse(t) /\ C \subseteq PTNodes
    BY CountsFacts
  <2> QED BY <2>1, NodeFacts
<1>4. old # NoNode => h.nodes[old] = t.nodes[old] /\ old \in NodesInUse(h) /\ a \in PTAttrs
  BY <1>1, <1>2, <1>3 DEF Extends
<1>5. u \in ScopeRecords /\ u.lastProp \in NodesInUse(h) \cup {NoNode}
  BY <1>1 DEF Counts
<1> HIDE DEF L, l
<1>6. ASSUME old = NoNode /\ w.tree = h /\ w.scope = u
      PROVE FailSound(t, sc, C, w)
  <2>1. C \ {old} = C /\ Off(t, sc, old) = sc
    BY <1>3, <1>6 DEF TakenOff
  <2>2. L = OP!Without(L, id)
    BY <2>1 DEF TakenOff, L
  <2>3. Counts(w.tree, w.scope, D) /\ PairsAt(w.tree, w.scope.lastProp, D) = L
    BY <1>1, <1>6, <2>2 DEF l
  <2> QED BY <1>1, <1>6, <2>3 DEF FailSound, Grew, Spared, L
<1>7. ASSUME /\ old # NoNode /\ old \in On(h, u.lastProp)
           /\ w.tree = h /\ w.scope = Store([u EXCEPT !.entryCount = @ + 1], h.nodes[old].id, old)
      PROVE FailSound(t, sc, C, w)
  <2>1. u.lastProp = sc.lastProp /\ old \notin D /\ D \cup {old} = C
    BY <1>1, <1>2, <1>7
  <2>2. Counts(w.tree, w.scope, C) /\ w.scope.lastProp = sc.lastProp
    BY <1>1, <1>7, <2>1, NodeRestored
  <2>3. PairsAt(h, sc.lastProp, C) = L
    BY <1>1, CountsKept DEF L
  <2> QED BY <1>1, <1>7, <2>2, <2>3 DEF FailSound, Grew, Spared, L
<1>8. ASSUME NEW k, TreeOK(k), Extends(h, k), NEW x \in NodesInUse(k), k.nodes[x].id = id, k.nodes[x].attrs = a,
             k.nodes[x].parent = u.lastProp, old # NoNode, old \notin On(h, u.lastProp),
             w.tree = k, w.scope = Grown(u, id, x)
      PROVE FailSound(t, sc, C, w)
  <2>1. Extends(t, k)
    BY <1>1, <1>8, ExtendsTwice
  <2>2. Counts(k, u, D) /\ PairsAt(k, u.lastProp, D) = l
    BY <1>1, <1>8, CountsKept DEF l
  <2>3. On(k, u.lastProp) = On(h, u.lastProp)
    BY <1>1, <1>5, <1>8, ExtendsOn
  <2>4. \A m \in On(k, u.lastProp) : k.nodes[m].id # k.nodes[x].id
    <3>1. On(h, u.lastProp) \subseteq NodesInUse(h)
      BY <1>1, <1>5, OnInUse
    <3> QED BY <1>1, <1>8, <2>3, <3>1 DEF Extends
  <2>5. Lengthens(k, u, D, x)
    BY <1>8, <2>2, <2>4, NodeAppended
  <2>6. PairsAt(k, x, D \cup {x}) = OP!With(L, id, a)
    <3>1. Pair(k, x) = <<id, a>>
      BY <1>8 DEF Pair
    <3> QED BY <1>1, <2>2, <2>5, <3>1 DEF OP!With, Lengthens
  <2>7. Spared(OP!With(L, id, a), L)
    <3>1. old \in C /\ OP!With(L, id, a) = OP!With(PairsAt(t, sc.lastProp, C), t.nodes[old].id, t.nodes[old].attrs)
      BY <1>2, <1>8 DEF L
    <3> QED BY <3>1, SparedIf DEF L
  <2>8. Counts(w.tree, w.scope, D \cup {x}) /\ PairsAt(w.tree, w.scope.lastProp, D \cup {x}) = OP!With(L, id, a)
    BY <1>8, <2>5, <2>6 DEF Lengthens
  <2> QED BY <1>8, <2>1, <2>7, <2>8 DEF FailSound, Grew, L
<1>9. ASSUME /\ old # NoNode /\ old \notin On(h, u.lastProp) /\ h.nodes[old].parent = u.lastProp
           /\ w.tree = h /\ w.scope = Grown(u, h.nodes[old].id, old)
      PROVE FailSound(t, sc, C, w)
  <2>1. Extends(h, h)
    BY DEF Extends
  <2>2. h.nodes[old].id = id /\ h.nodes[old].attrs = a /\ old \in NodesInUse(h)
    BY <1>2, <1>4, <1>9
  <2>3. w.scope = Grown(u, id, old)
    BY <1>9, <2>2
  <2>4. FailSound(t, sc, C, w)
    BY <1>1, <1>8, <1>9, <2>1, <2>2, <2>3
  <2> QED BY <2>4
<1>10. ASSUME /\ old # NoNode /\ old \notin On(h, u.lastProp)
            /\ \E g \in GetPropertyTreeChild(h, u.lastProp, h.nodes[old].id, h.nodes[old].attrs) :
                    /\ w.tree = g.tree
                    /\ w.scope = IF g.got = NoNode THEN u ELSE Grown(u, h.nodes[old].id, g.got)
      PROVE FailSound(t, sc, C, w)
  <2>1. h.nodes[old].id = id /\ h.nodes[old].attrs = a /\ a \in PTAttrs
    BY <1>2, <1>4, <1>10
  <2>2. PICK g \in GetPropertyTreeChild(h, u.lastProp, id, a) :
                    /\ w.tree = g.tree
                    /\ w.scope = IF g.got = NoNode THEN u ELSE Grown(u, id, g.got)
    BY <1>10, <2>1
  <2> DEFINE p == u.lastProp
  <2> HIDE DEF a
  <2>3. /\ TreeOK(g.tree) /\ Extends(h, g.tree) /\ (g.got = NoNode => g.tree = h)
        /\ g.got # NoNode => /\ g.got \in NodesInUse(g.tree)
                             /\ g.tree.nodes[g.got].id = id /\ g.tree.nodes[g.got].attrs = a
                             /\ g.tree.nodes[g.got].parent = p
    <3>1. p \in NodesInUse(h) \cup {NoNode} /\ g \in GetPropertyTreeChild(h, p, id, a)
      BY <1>5
    <3> HIDE DEF p
    <3> QED BY <1>1, <2>1, <3>1, GotChild
  <2>4. CASE g.got = NoNode
    <3>1. w.tree = h /\ w.scope = u
      BY <2>2, <2>3, <2>4
    <3>2. Spared(OP!Without(L, id), L)
      <4>1. old \in C /\ OP!Without(L, id) = OP!Without(PairsAt(t, sc.lastProp, C), t.nodes[old].id)
        BY <1>2, <1>10 DEF L
      <4> QED BY <4>1, SparedIf DEF L
    <3>3. Counts(w.tree, w.scope, D) /\ PairsAt(w.tree, w.scope.lastProp, D) = OP!Without(L, id)
      BY <1>1, <3>1 DEF l
    <3> QED BY <1>1, <3>1, <3>2, <3>3 DEF FailSound, Grew, L
  <2>5. CASE g.got # NoNode
    <3>1. w.scope = Grown(u, id, g.got)
      BY <2>2, <2>5
    <3> DEFINE k == g.tree
               x == g.got
    <3>2. TreeOK(k) /\ Extends(h, k) /\ x \in NodesInUse(k) /\ k.nodes[x].id = id /\ k.nodes[x].attrs = a
          /\ k.nodes[x].parent = u.lastProp /\ w.tree = k /\ w.scope = Grown(u, id, x)
      BY <2>2, <2>3, <2>5, <3>1
    <3>3. old # NoNode /\ old \notin On(h, u.lastProp)
      BY <1>10
    <3> HIDE DEF k, x
    <3>4. FailSound(t, sc, C, w)
      BY <1>8, <3>2, <3>3
    <3> QED BY <3>4
  <2> QED BY <2>4, <2>5
<1>11. ~w.ok
  BY <1>5, FailOverwriteIs
<1>12. FailsTo(h, u, old, w)
  BY <1>5, FailOverwriteIs
<1>13. FailSound(t, sc, C, w)
  BY <1>6, <1>7, <1>9, <1>10, <1>12 DEF FailsTo
<1> QED BY <1>11, <1>13

LEMMA TornIf ==
  ASSUME NEW h, NEW u, u.table # NoTable, NEW i \in PTIds, NEW x, u.table[i] = x, x # NoNode, x \notin On(h, u.lastProp)
  PROVE  Torn(h, u)
BY DEF Torn

\* After a fork that failed half-way the scope stays torn.
LEMMA PutBackTorn ==
  ASSUME NEW t, TreeOK(t), NEW sc, NEW C, Counts(t, sc, C), NEW id \in PTIds, NEW old, TakenOff(t, sc, C, id, old),
         NEW h, TreeOK(h), Extends(t, h), NEW u \in ScopeRecords, u.table \in Tables,
         u.lastProp \in NodesInUse(h) \cup {NoNode}, Strays(t, C \ {old}, h, u), NEW w \in FailOverwrite(h, u, old)
  PROVE  Grew(t, w) /\ ~w.ok /\ Torn(w.tree, w.scope)
<1> DEFINE tab == u.table
           p == u.lastProp
<1>1. PICK m \in C \ {old} : /\ t.nodes[m].id \in PTIds /\ tab[t.nodes[m].id] \in NodesInUse(h)
                             /\ h.nodes[tab[t.nodes[m].id]].id = t.nodes[m].id
                             /\ tab[t.nodes[m].id] \notin On(h, p)
  BY DEF Strays
<1> DEFINE i == t.nodes[m].id
           x == tab[i]
<1>2. i \in PTIds /\ x \in NodesInUse(h) /\ h.nodes[x].id = i /\ x \notin On(h, p)
  BY <1>1
<1>3. i # id /\ (old # NoNode => old \in C /\ t.nodes[old].id = id)
  BY DEF TakenOff
<1>4. C \subseteq NodesInUse(t) /\ NoNode \notin C /\ \A n \in NodesInUse(t) : t.nodes[n].attrs \in PTAttrs
  <2>1. Treelike(t) /\ C \subseteq NodesInUse(t) /\ C \subseteq PTNodes
    BY CountsFacts
  <2> QED BY <2>1, NodeFacts
<1>5. old # NoNode => h.nodes[old] = t.nodes[old] /\ old \in NodesInUse(h) /\ t.nodes[old].attrs \in PTAttrs
  BY <1>3, <1>4 DEF Extends
<1>6. x # NoNode /\ tab # NoTable /\ tab \in Tables /\ tab = u.table /\ x = tab[i] /\ NodesInUse(h) \subseteq PTNodes /\ Treelike(h)
  BY <1>2, NoTableIsNone, NodeFacts DEF TreeOK
<1>7. p \in NodesInUse(h) \cup {NoNode} /\ p = u.lastProp
  OBVIOUS
<1> HIDE DEF tab, p, i, x
<1>8. ~w.ok /\ FailsTo(h, u, old, w)
  BY FailOverwriteIs
<1>9. Extends(h, h)
  BY DEF Extends
<1>10. ASSUME w.tree = h, w.scope = u PROVE Grew(t, w) /\ Torn(w.tree, w.scope)
  BY <1>2, <1>6, <1>7, <1>10, TornIf DEF Grew
<1>11. ASSUME NEW tab2, tab2 = [tab EXCEPT ![id] = old], w.tree = h, w.scope.table = tab2, w.scope.lastProp = p, old # NoNode
       PROVE Grew(t, w) /\ Torn(w.tree, w.scope)
  <2>1. tab2[i] = x /\ old \in PTNodes
    BY <1>2, <1>3, <1>5, <1>6, <1>11 DEF Tables
  <2>2. tab2 \in Tables
    BY <1>6, <1>11, <2>1 DEF Tables
  <2>3. tab2 # NoTable
    BY <2>2, NoTableIsNone
  <2> QED BY <1>2, <1>6, <1>11, <2>1, <2>3, TornIf DEF Grew
<1>12. ASSUME NEW k, TreeOK(k), Extends(h, k), NEW y \in NodesInUse(k), k.nodes[y].id = id,
              k.nodes[y].parent = p, w.tree = k, w.scope = Grown(u, id, y)
       PROVE Grew(t, w) /\ Torn(w.tree, w.scope)
  <2>1. Treelike(k) /\ y \in PTNodes /\ Extends(t, k)
    BY <1>12, ExtendsTwice, NodeFacts DEF TreeOK
  <2>2. GrowsTo(u, id, y, w.scope)
    BY <1>12, <2>1, GrownFields
  <2>3. w.scope.lastProp = y /\ w.scope.table = [tab EXCEPT ![id] = y] /\ w.scope.table # NoTable
    BY <1>6, <2>2 DEF GrowsTo
  <2>4. w.scope.table[i] = x
    BY <1>2, <1>3, <1>6, <2>3 DEF Tables
  <2>5. On(k, y) = On(h, p) \cup {y}
    <3>1. On(k, p) = On(h, p)
      BY <1>7, <1>12, ExtendsOn
    <3>2. On(k, y) = On(k, p) \cup {y}
      BY <1>12, <2>1, OnIs
    <3> QED BY <3>1, <3>2
  <2>6. x # y
    BY <1>2, <1>3, <1>12 DEF Extends
  <2> QED BY <1>2, <1>6, <1>12, <2>1, <2>3, <2>4, <2>5, <2>6, TornIf DEF Grew
<1>13. ASSUME old # NoNode, old \in On(h, u.lastProp),
              w.tree = h, w.scope = Store([u EXCEPT !.entryCount = @ + 1], h.nodes[old].id, old)
       PROVE Grew(t, w) /\ Torn(w.tree, w.scope)
  <2> DEFINE e == [u EXCEPT !.entryCount = @ + 1]
  <2>1. e.table = tab /\ e.lastProp = p /\ e = [lastProp |-> e.lastProp, table |-> e.table, middle |-> e.middle, entryCount |-> e.entryCount]
    BY <1>6, <1>7 DEF ScopeRecords
  <2>2. w.scope = IF e.table = NoTable THEN e ELSE [e EXCEPT !.table[h.nodes[old].id] = old]
    BY <1>13 DEF Store
  <2> HIDE DEF e
  <2>3. h.nodes[old].id = id
    BY <1>3, <1>5, <1>13
  <2>4. w.scope = [e EXCEPT !.table[id] = old]
    BY <1>6, <2>1, <2>2, <2>3
  <2>5. w.scope.table = [tab EXCEPT ![id] = old] /\ w.scope.lastProp = p
    BY <2>1, <2>4
  <2> QED BY <1>11, <1>13, <2>5
<1>14. ASSUME old # NoNode, old \notin On(h, u.lastProp), h.nodes[old].parent = u.lastProp,
              w.tree = h, w.scope = Grown(u, h.nodes[old].id, old)
       PROVE Grew(t, w) /\ Torn(w.tree, w.scope)
  BY <1>3, <1>5, <1>7, <1>9, <1>12, <1>14
<1>15. ASSUME old # NoNode, old \notin On(h, u.lastProp),
              NEW g \in GetPropertyTreeChild(h, u.lastProp, h.nodes[old].id, h.nodes[old].attrs),
              w.tree = g.tree, w.scope = IF g.got = NoNode THEN u ELSE Grown(u, h.nodes[old].id, g.got)
       PROVE Grew(t, w) /\ Torn(w.tree, w.scope)
  <2> DEFINE a == t.nodes[old].attrs
  <2>1. g \in GetPropertyTreeChild(h, p, id, a) /\ a \in PTAttrs /\ h.nodes[old].id = id
    BY <1>3, <1>5, <1>7, <1>15
  <2> HIDE DEF a
  <2>2. /\ TreeOK(g.tree) /\ Extends(h, g.tree) /\ (g.got = NoNode => g.tree = h)
        /\ g.got # NoNode => /\ g.got \in NodesInUse(g.tree)
                             /\ g.tree.nodes[g.got].id = id /\ g.tree.nodes[g.got].attrs = a
                             /\ g.tree.nodes[g.got].parent = p
    BY <1>7, <2>1, GotChild
  <2>3. CASE g.got = NoNode
    BY <1>10, <1>15, <2>2, <2>3
  <2>4. CASE g.got # NoNode
    <3>1. w.scope = Grown(u, id, g.got)
      BY <1>15, <2>1, <2>4
    <3> DEFINE k == g.tree
               y == g.got
    <3>2. TreeOK(k) /\ Extends(h, k) /\ y \in NodesInUse(k) /\ k.nodes[y].id = id
          /\ k.nodes[y].parent = p /\ w.tree = k /\ w.scope = Grown(u, id, y)
      BY <1>15, <2>2, <2>4, <3>1
    <3> HIDE DEF k, y
    <3> QED BY <1>12, <3>2
  <2> QED BY <2>3, <2>4
<1>16. Grew(t, w) /\ Torn(w.tree, w.scope)
  BY <1>8, <1>10, <1>13, <1>14, <1>15 DEF FailsTo
<1> QED BY <1>8, <1>16

\* A call that succeeds: the pair is at the end of the list.
Puts(t, sc, C, id, attrs, w) ==
    Grew(t, w) /\ \E E : Counts(w.tree, w.scope, E)
                         /\ PairsAt(w.tree, w.scope.lastProp, E) = OP!With(PairsAt(t, sc.lastProp, C), id, attrs)

\* What comes of adding a property.
Added(t, sc, C, id, attrs, w) ==
    \/ Puts(t, sc, C, id, attrs, w)
    \/ FailSound(t, sc, C, w)
    \/ Grew(t, w) /\ ~w.ok /\ Torn(w.tree, w.scope)

\* What comes of the child asked for.
ExtendsTo(f, id, attrs, old, g, w) ==
    \/ g.got = NoNode /\ w \in FailOverwrite(g.tree, f.scope, old)
    \/ /\ g.got # NoNode /\ w.tree = g.tree
       /\ w.scope \in {Grown(f.scope, id, g.got), CreateScopeTable(g.tree, Grown(f.scope, id, g.got))}

\* The ways adding the node can end.
LEMMA ExtendIs ==
  ASSUME NEW f, f.scope \in ScopeRecords, NEW id, NEW attrs, NEW old, NEW w \in Extend(f, id, attrs, old)
  PROVE  \E g \in GetPropertyTreeChild(f.tree, f.scope.lastProp, id, attrs) : ExtendsTo(f, id, attrs, old, g, w)
<1> DEFINE G == GetPropertyTreeChild(f.tree, f.scope.lastProp, id, attrs)
           Sc(g) == Store([f.scope EXCEPT !.entryCount = @ + 1, !.lastProp = g.got], id, g.got)
           Many(g) == Sc(g).table = NoTable /\ Sc(g).entryCount >= HashThreshold
           Made(g) == {Outcome(g.tree, r, TRUE) : r \in {Sc(g)} \cup IF Many(g) THEN {CreateScopeTable(g.tree, Sc(g))} ELSE {}}
<1>1. Extend(f, id, attrs, old) =
        UNION {IF g.got = NoNode THEN FailOverwrite(g.tree, f.scope, old) ELSE Made(g) : g \in G}
  BY Zenon DEF Extend
<1>2. \A g : Sc(g) = Grown(f.scope, id, g.got)
  BY GrownIs
<1> HIDE DEF Sc, G
<1>3. PICK g \in G : w \in IF g.got = NoNode THEN FailOverwrite(g.tree, f.scope, old) ELSE Made(g)
  <2> HIDE DEF Made
  <2> QED BY <1>1, Zenon
<1>4. CASE g.got = NoNode
  BY <1>3, <1>4, Zenon DEF ExtendsTo, G
<1>5. CASE g.got # NoNode
  <2>1. w \in Made(g)
    <3> HIDE DEF Made
    <3> QED BY <1>3, <1>5, Zenon
  <2>2. PICK r \in {Sc(g)} \cup IF Many(g) THEN {CreateScopeTable(g.tree, Sc(g))} ELSE {} : w = Outcome(g.tree, r, TRUE)
    BY <2>1, Zenon
  <2>3. w.tree = g.tree /\ w.scope = r
    BY ONLY <2>2, Zenon DEF Outcome
  <2> HIDE DEF Many
  <2>4. r \in {Sc(g), CreateScopeTable(g.tree, Sc(g))}
    OBVIOUS
  <2>5. ExtendsTo(f, id, attrs, old, g, w)
    BY <1>2, <1>5, <2>3, <2>4 DEF ExtendsTo
  <2> QED BY <2>5 DEF G
<1> QED BY <1>4, <1>5

\* The new property at the end of the forked line.
LEMMA Extended ==
  ASSUME NEW t, TreeOK(t), NEW sc, NEW C, Counts(t, sc, C), NEW id \in PTIds, NEW attrs \in PTAttrs,
         NEW old, TakenOff(t, sc, C, id, old),
         NEW f, Ready(t, sc, C, id, old, f.tree, f.scope, On(f.tree, f.scope.lastProp)), NEW w \in Extend(f, id, attrs, old)
  PROVE  Added(t, sc, C, id, attrs, w)
<1> DEFINE h == f.tree
           u == f.scope
           D == On(f.tree, f.scope.lastProp)
           L == PairsAt(t, sc.lastProp, C)
<1>1. /\ TreeOK(h) /\ Extends(t, h) /\ Counts(h, u, D) /\ Ready(t, sc, C, id, old, h, u, D)
      /\ PairsAt(h, u.lastProp, D) = OP!Without(L, id)
      /\ \A m \in On(h, u.lastProp) : h.nodes[m].id # id
  BY DEF Ready
<1>2. u \in ScopeRecords /\ u.lastProp \in NodesInUse(h) \cup {NoNode}
  BY <1>1 DEF Counts
<1>3. PICK g \in GetPropertyTreeChild(h, u.lastProp, id, attrs) : ExtendsTo(f, id, attrs, old, g, w)
  BY <1>2, ExtendIs
<1> DEFINE p == u.lastProp
<1>4. /\ TreeOK(g.tree) /\ Extends(h, g.tree) /\ (g.got = NoNode => g.tree = h)
      /\ g.got # NoNode => /\ g.got \in NodesInUse(g.tree)
                           /\ g.tree.nodes[g.got].id = id /\ g.tree.nodes[g.got].attrs = attrs
                           /\ g.tree.nodes[g.got].parent = p
  <2>1. g \in GetPropertyTreeChild(h, p, id, attrs) /\ p \in NodesInUse(h) \cup {NoNode}
    BY <1>2, <1>3
  <2> HIDE DEF h, p
  <2> QED BY <1>1, <2>1, GotChild
<1>5. /\ g.got = NoNode => w \in FailOverwrite(g.tree, u, old)
      /\ g.got # NoNode => w.tree = g.tree /\ w.scope \in {Grown(u, id, g.got), CreateScopeTable(g.tree, Grown(u, id, g.got))}
  BY <1>3 DEF ExtendsTo
<1>6. p = u.lastProp
  OBVIOUS
<1> HIDE DEF h, u, D, L, p
<1>7. CASE g.got = NoNode
  <2>1. w \in FailOverwrite(h, u, old)
    BY <1>4, <1>5, <1>7
  <2>2. FailSound(t, sc, C, w)
    BY <1>1, <2>1, PutBack
  <2> QED BY <2>2 DEF Added
<1>8. CASE g.got # NoNode
  <2> DEFINE k == g.tree
             x == g.got
  <2>1. TreeOK(k) /\ Extends(h, k) /\ x \in NodesInUse(k) /\ k.nodes[x].id = id /\ k.nodes[x].attrs = attrs
        /\ k.nodes[x].parent = u.lastProp /\ w.tree = k /\ w.scope \in {Grown(u, id, x), CreateScopeTable(k, Grown(u, id, x))}
    BY <1>4, <1>5, <1>6, <1>8
  <2> HIDE DEF k, x
  <2>2. Extends(t, k)
    BY <1>1, <2>1, ExtendsTwice
  <2>3. Counts(k, u, D) /\ PairsAt(k, u.lastProp, D) = OP!Without(L, id)
    BY <1>1, <2>1, CountsKept
  <2>4. \A m \in On(k, u.lastProp) : k.nodes[m].id # k.nodes[x].id
    <3>1. On(k, u.lastProp) = On(h, u.lastProp)
      BY <1>1, <1>2, <2>1, ExtendsOn
    <3>2. On(h, u.lastProp) \subseteq NodesInUse(h)
      BY <1>1, <1>2, OnInUse
    <3> QED BY <1>1, <2>1, <3>1, <3>2 DEF Extends
  <2>5. Lengthens(k, u, D, x)
    BY <2>1, <2>3, <2>4, NodeAppended
  <2> DEFINE v == Grown(u, id, x)
             E == D \cup {x}
  <2>6. Counts(k, v, E) /\ v.lastProp = x /\ PairsAt(k, x, E) = Append(PairsAt(k, u.lastProp, D), Pair(k, x))
    BY <2>1, <2>5 DEF Lengthens
  <2>7. PairsAt(k, x, E) = OP!With(L, id, attrs)
    <3>1. Pair(k, x) = <<id, attrs>>
      BY <2>1 DEF Pair
    <3> QED BY <2>3, <2>6, <3>1 DEF OP!With
  <2>8. w.scope = v \/ w.scope = CreateScopeTable(k, v)
    BY <2>1
  <2> HIDE DEF v, E
  <2>9. Counts(k, CreateScopeTable(k, v), E) /\ CreateScopeTable(k, v).lastProp = v.lastProp
    BY <2>1, <2>6, TableMade
  <2>10. Counts(w.tree, w.scope, E) /\ PairsAt(w.tree, w.scope.lastProp, E) = OP!With(L, id, attrs)
    BY <2>1, <2>6, <2>7, <2>8, <2>9
  <2>11. Puts(t, sc, C, id, attrs, w)
    BY <2>1, <2>2, <2>10 DEF Puts, Grew, L
  <2> QED BY <2>11 DEF Added
<1> QED BY <1>7, <1>8

\* js_AddScopeProperty puts the property at the end, or fails and spares the others,
\* or tears the scope.
LEMMA ScopeAdded ==
  ASSUME NEW t, TreeOK(t), NEW sc, NEW C, Counts(t, sc, C), NEW id \in PTIds, NEW attrs \in PTAttrs,
         NEW w \in AddScopeProperty(t, sc, id, attrs)
  PROVE  Added(t, sc, C, id, attrs, w)
<1> DEFINE old == SearchScope(t, sc, id)
           u == Off(t, sc, old)
           D == C \ {old}
<1>1. \/ w = Outcome(t, sc, TRUE)
      \/ \E f \in Fork(t, u) : w \in FailOverwrite(f.tree, f.scope, old) \/ (f.ok /\ w \in Extend(f, id, attrs, old))
  <2> DEFINE Ways(f) == FailOverwrite(f.tree, f.scope, old) \cup IF f.ok THEN Extend(f, id, attrs, old) ELSE {}
  <2>1. AddScopeProperty(t, sc, id, attrs) =
          IF old # NoNode /\ t.nodes[old].attrs = attrs THEN {Outcome(t, sc, TRUE)}
          ELSE UNION {Ways(f) : f \in Fork(t, u)}
    BY Zenon DEF AddScopeProperty, Off
  <2> HIDE DEF Ways, old, u
  <2>2. w \in {Outcome(t, sc, TRUE)} \/ w \in UNION {Ways(f) : f \in Fork(t, u)}
    BY <2>1, Zenon
  <2>3. ASSUME w \in UNION {Ways(f) : f \in Fork(t, u)}
        PROVE \E f \in Fork(t, u) : w \in FailOverwrite(f.tree, f.scope, old) \/ (f.ok /\ w \in Extend(f, id, attrs, old))
    <3>1. PICK f \in Fork(t, u) : w \in Ways(f)
      BY <2>3
    <3> DEFINE X == FailOverwrite(f.tree, f.scope, old)
               Y == Extend(f, id, attrs, old)
    <3>2. w \in X \cup IF f.ok THEN Y ELSE {}
      BY <3>1 DEF Ways
    <3> HIDE DEF X, Y
    <3>3. (w \in X \/ w \in Y) /\ (~f.ok => w \in X)
      BY ONLY <3>2
    <3>4. w \in FailOverwrite(f.tree, f.scope, old) \/ (f.ok /\ w \in Extend(f, id, attrs, old))
      BY <3>3, Zenon DEF X, Y
    <3>5. f \in Fork(t, u)
      BY <3>1
    <3> QED BY ONLY <3>4, <3>5, Zenon
  <2> QED BY <2>2, <2>3
<1>2. TakenOff(t, sc, C, id, old)
  BY Taken
<1> HIDE DEF old, u
<1>3. Counts(t, u, D)
  BY <1>2 DEF TakenOff, u
<1>4. CASE w = Outcome(t, sc, TRUE)
  <2>1. w.tree = t /\ w.scope = sc
    BY ONLY <1>4, Zenon DEF Outcome
  <2>2. FailSound(t, sc, C, w)
    BY <2>1 DEF FailSound, Grew, Extends, Spared
  <2> QED BY <2>2 DEF Added
<1>5. ASSUME NEW f \in Fork(t, u), w \in FailOverwrite(f.tree, f.scope, old) \/ (f.ok /\ w \in Extend(f, id, attrs, old))
      PROVE Added(t, sc, C, id, attrs, w)
  <2>1. ForkResult(t, u, D, f)
    BY <1>3, Forked
  <2>2. ForkResult(t, Off(t, sc, old), C \ {old}, f)
    BY <2>1 DEF u
  <2>3. /\ f.ok => Ready(t, sc, C, id, old, f.tree, f.scope, On(f.tree, f.scope.lastProp))
        /\ f.scope = u => Ready(t, sc, C, id, old, f.tree, f.scope, D)
    BY <1>2, <2>2, ForkReady DEF u
  <2>4. CASE f.ok /\ w \in Extend(f, id, attrs, old)
    BY <1>2, <2>3, <2>4, Extended
  <2> DEFINE h == f.tree
             v == f.scope
  <2>5. CASE w \in FailOverwrite(h, v, old) /\ (f.ok \/ v = u)
    <3>1. PICK B : Ready(t, sc, C, id, old, h, v, B)
      BY <2>3, <2>5
    <3> HIDE DEF h, v
    <3>2. FailSound(t, sc, C, w)
      BY <1>2, <2>5, <3>1, PutBack
    <3> QED BY <3>2 DEF Added
  <2>6. CASE w \in FailOverwrite(h, v, old) /\ ~f.ok /\ v # u
    <3>1. /\ TreeOK(h) /\ Extends(t, h)
          /\ v = [lastProp |-> u.lastProp, table |-> v.table, middle |-> u.middle, entryCount |-> u.entryCount]
          /\ v.table \in Tables /\ Strays(t, D, h, v)
      BY <2>1, <2>6 DEF ForkResult
    <3> HIDE DEF h, v
    <3>2. u \in ScopeRecords /\ u.lastProp \in NodesInUse(t) \cup {NoNode}
      BY <1>3 DEF Counts
    <3>3. v \in ScopeRecords /\ v.lastProp = u.lastProp
      BY <3>1, <3>2 DEF ScopeRecords
    <3>4. v.lastProp \in NodesInUse(h) \cup {NoNode}
      BY <3>1, <3>2, <3>3 DEF Extends
    <3>5. Grew(t, w) /\ ~w.ok /\ Torn(w.tree, w.scope)
      BY <1>2, <2>6, <3>1, <3>3, <3>4, PutBackTorn
    <3> QED BY <3>5 DEF Added
  <2> QED BY <1>5, <2>4, <2>5, <2>6
<1> QED BY <1>1, <1>4, <1>5

----------------------------------------------------------------------------
(* The other calls.                                                        *)

\* The last property replaced by x.
Resited(k, sc, C, x) ==
    LET n == sc.lastProp
        u == Store([sc EXCEPT !.lastProp = x], k.nodes[n].id, x)
    IN /\ Counts(k, u, (C \ {n}) \cup {x}) /\ u.lastProp = x
       /\ PairsAt(k, x, (C \ {n}) \cup {x}) = OP!With(PairsAt(k, n, C), k.nodes[x].id, k.nodes[x].attrs)

\* The last property gives way to another node below the same parent.
LEMMA Sibling ==
  ASSUME NEW k, TreeOK(k), NEW sc, NEW C, Counts(k, sc, C), sc.lastProp # NoNode,
         NEW x \in NodesInUse(k), x # sc.lastProp, k.nodes[x].id = k.nodes[sc.lastProp].id,
         k.nodes[x].parent = k.nodes[sc.lastProp].parent
  PROVE  Resited(k, sc, C, x)
<1> DEFINE n == sc.lastProp
           id == k.nodes[n].id
           p == k.nodes[n].parent
           tab == [sc.table EXCEPT ![id] = x]
           u == Store([sc EXCEPT !.lastProp = x], id, x)
           D == C \ {n}
           E == D \cup {x}
<1>1. /\ Treelike(k) /\ NoNode \notin PTNodes /\ NodesInUse(k) \subseteq PTNodes /\ sc \in ScopeRecords
      /\ On(k, n) \subseteq NodesInUse(k) /\ C \subseteq NodesInUse(k) /\ C \subseteq On(k, n)
      /\ DistinctIds(k, On(k, n)) /\ DistinctIds(k, C)
  BY CountsFacts
<1>2. n \in C /\ n \in PTNodes /\ n \in NodesInUse(k) /\ id \in PTIds /\ x \in PTNodes
  BY <1>1, FoundIs DEF Counts
<1>3. k.nodes[x].id = id /\ k.nodes[x].parent = p
  OBVIOUS
<1>4. On(k, n) = On(k, p) \cup {n} /\ n \notin On(k, p) /\ p \in PTNodes \cup {NoNode}
      /\ On(k, x) = On(k, p) \cup {x} /\ x \notin On(k, p)
  BY <1>1, <1>2, <1>3, OnIs, NodeFacts
<1>5. \A m \in On(k, p) : k.nodes[m].id # id
  BY <1>1, <1>2, <1>4 DEF DistinctIds
<1>6. DistinctIds(k, On(k, x))
  BY <1>1, <1>3, <1>4, <1>5 DEF DistinctIds
<1>7. D \subseteq On(k, p) /\ E \subseteq On(k, x) /\ x \in E /\ x \notin D
  BY <1>1, <1>4
<1>8. sc.table # NoTable => TableFor(k, E, tab)
  <2> SUFFICES ASSUME sc.table # NoTable PROVE TableFor(k, E, tab)
    OBVIOUS
  <2> DEFINE mid == [sc.table EXCEPT ![id] = NoNode]
  <2>1. TableFor(k, D, mid) /\ TableFor(k, C, sc.table)
    BY <1>1, <1>2, TableRemoved DEF Counts
  <2>2. \A m \in D : k.nodes[m].id # k.nodes[x].id
    BY <1>3, <1>5, <1>7
  <2>3. tab = [mid EXCEPT ![k.nodes[x].id] = x]
    <3>1. sc.table \in Tables
      BY <2>1 DEF TableFor
    <3> QED BY <1>2, <1>3, <3>1 DEF Tables
  <2> HIDE DEF mid, tab, D
  <2>4. TableFor(k, D \cup {x}, [mid EXCEPT ![k.nodes[x].id] = x])
    BY <1>1, <1>2, <1>3, <2>1, <2>2, TableAdded
  <2> QED BY <2>3, <2>4
<1>9. u = [lastProp |-> x, table |-> IF sc.table = NoTable THEN NoTable ELSE tab,
           middle |-> sc.middle, entryCount |-> sc.entryCount]
  <2> DEFINE e == [sc EXCEPT !.lastProp = x]
             b == sc.table
             c == sc.middle
             d == sc.entryCount
  <2>1. sc = [lastProp |-> n, table |-> b, middle |-> c, entryCount |-> d] /\ tab = [b EXCEPT ![id] = x]
    BY <1>1 DEF ScopeRecords
  <2>2. u = IF e.table = NoTable THEN e ELSE [e EXCEPT !.table[id] = x]
    BY DEF Store
  <2> HIDE DEF b, c, d, n, id, u, tab
  <2>3. e = [lastProp |-> x, table |-> b, middle |-> c, entryCount |-> d]
    BY ONLY <2>1
  <2> HIDE DEF e
  <2>4. e.table = b /\ [e EXCEPT !.table[id] = x] = [lastProp |-> x, table |-> tab, middle |-> c, entryCount |-> d]
    BY ONLY <2>1, <2>3
  <2>5. u = [lastProp |-> x, table |-> IF b = NoTable THEN NoTable ELSE tab, middle |-> c, entryCount |-> d]
    BY ONLY <2>2, <2>3, <2>4
  <2> QED BY <2>5 DEF b, c, d
<1>10. On(k, p) \cap C = On(k, p) \cap D /\ On(k, p) \cap E = On(k, p) \cap D
  BY <1>4, <1>7
<1>11. LineIn(k, p, C) = LineIn(k, p, D) /\ LineIn(k, p, E) = LineIn(k, p, D)
  BY <1>1, <1>4, <1>10, LineSame
<1>12. LineIn(k, n, C) = Append(LineIn(k, p, D), n) /\ LineIn(k, x, E) = Append(LineIn(k, p, D), x)
       /\ LineIn(k, p, D) \in Seq(PTNodes)
  <2>1. k.nodes[n].parent = p /\ k.nodes[x].parent = p /\ n \in PTNodes /\ x \in PTNodes /\ n \in C /\ x \in E /\ Treelike(k)
    BY <1>1, <1>2, <1>3, <1>7
  <2> HIDE DEF n, p, D, E
  <2>2. LineIn(k, n, C) = Append(LineIn(k, p, C), n) /\ LineIn(k, x, E) = Append(LineIn(k, p, E), x)
    BY <2>1, LineStep
  <2>3. LineIn(k, p, D) \in Seq(PTNodes)
    BY <1>4, <2>1, LineTyped
  <2> QED BY <1>11, <2>2, <2>3
<1>13. Len(LineIn(k, x, E)) = Len(LineIn(k, n, C))
  BY <1>2, <1>12
<1>14. sc.entryCount = Len(LineIn(k, n, C)) /\ (sc.table = NoTable => ~sc.middle) /\ (~sc.middle => C = On(k, n))
  BY DEF Counts
<1>15. PairsAt(k, x, E) = OP!With(PairsAt(k, n, C), k.nodes[x].id, k.nodes[x].attrs)
  <2>1. PairsAt(k, n, D) = OP!Without(PairsAt(k, n, C), id)
    <3>1. PairsAt(k, Unlink(k, sc, n).lastProp, D) = OP!Without(PairsAt(k, n, C), id)
      <4>1. n \in C /\ id = k.nodes[n].id /\ D = C \ {n}
        BY <1>2
      <4> HIDE DEF id, D
      <4>2. PairsAt(k, Unlink(k, sc, n).lastProp, C \ {n}) = OP!Without(PairsAt(k, n, C), k.nodes[n].id)
        BY <4>1, UnlinkCounts
      <4> QED BY <4>1, <4>2
    <3>2. PairsAt(k, Unlink(k, sc, n).lastProp, D) = PairsAt(k, n, D)
      BY UnlinkLast
    <3> QED BY <3>1, <3>2
  <2>2. PairsAt(k, n, D) = PairsAt(k, p, D)
    BY <1>1, <1>2, PairsStep
  <2>3. PairsAt(k, p, E) = PairsAt(k, p, D)
    BY <1>11 DEF PairsAt
  <2>4. PairsAt(k, x, E) = Append(PairsAt(k, p, E), Pair(k, x))
    BY <1>1, <1>2, <1>3, <1>7, PairsStep
  <2> QED BY <1>3, <2>1, <2>2, <2>3, <2>4 DEF OP!With, Pair
<1> HIDE DEF u, tab
<1>16. u.lastProp = x /\ u.middle = sc.middle /\ u.entryCount = Len(LineIn(k, x, E)) /\ u \in ScopeRecords
       /\ u.table = IF sc.table = NoTable THEN NoTable ELSE tab
  <2> DEFINE b == IF sc.table = NoTable THEN NoTable ELSE tab
  <2>1. u = [lastProp |-> x, table |-> b, middle |-> sc.middle, entryCount |-> sc.entryCount]
    BY <1>9
  <2>2. b \in {NoTable} \cup Tables
    BY <1>8 DEF TableFor
  <2> HIDE DEF b, E
  <2> QED BY <1>1, <1>2, <1>9, <1>13, <1>14, <2>1, <2>2 DEF ScopeRecords
<1>17. Counts(k, u, E)
  <2>1. u.table # NoTable => TableFor(k, E, u.table)
    BY <1>8, <1>16
  <2>2. u.table = NoTable => ~u.middle
    <3>1. sc.table # NoTable => tab # NoTable
      BY <1>8, NoTableIsNone DEF TableFor
    <3> QED BY <1>14, <1>16, <3>1
  <2>3. ~u.middle => E = On(k, x)
    BY <1>4, <1>14, <1>16
  <2> QED BY <1>2, <1>6, <1>7, <1>16, <2>1, <2>2, <2>3 DEF Counts
<1> QED BY <1>15, <1>16, <1>17 DEF Resited, u

\* js_ChangeScopePropertyAttrs likewise.
LEMMA ScopeChanged ==
  ASSUME NEW t, TreeOK(t), NEW sc, NEW C, Counts(t, sc, C), NEW id \in PTIds, NEW attrs \in PTAttrs,
         SearchScope(t, sc, id) # NoNode, NEW w \in ChangeScopePropertyAttrs(t, sc, id, attrs)
  PROVE  Added(t, sc, C, id, attrs, w)
<1> DEFINE n == SearchScope(t, sc, id)
           p == t.nodes[n].parent
           G == GetPropertyTreeChild(t, p, id, attrs)
           Res(g) == Store([sc EXCEPT !.lastProp = g.got], id, g.got)
           Easy == n # sc.lastProp \/ t.nodes[n].attrs = attrs
           Add == AddScopeProperty(t, sc, id, attrs)
<1>1. ChangeScopePropertyAttrs(t, sc, id, attrs) =
        IF Easy THEN Add
        ELSE {IF g.got = NoNode THEN Outcome(t, sc, FALSE) ELSE Outcome(g.tree, Res(g), TRUE) : g \in G}
  BY Zenon DEF ChangeScopePropertyAttrs
<1>2. n \in C /\ n # NoNode /\ t.nodes[n].id = id
  BY SearchFinds DEF Finds
<1>3. Easy => n # sc.lastProp \/ t.nodes[n].attrs = attrs
  OBVIOUS
<1>4. ~Easy => n = sc.lastProp /\ t.nodes[n].attrs # attrs
  OBVIOUS
<1> HIDE DEF n, G, Res, Easy, Add
<1>5. CASE Easy
  <2>1. w \in Add
    BY <1>1, <1>5, Zenon
  <2> QED BY <2>1, ScopeAdded DEF Add
<1>6. CASE ~Easy
  <2>1. PICK g \in G : w = IF g.got = NoNode THEN Outcome(t, sc, FALSE) ELSE Outcome(g.tree, Res(g), TRUE)
    BY <1>1, <1>6, Zenon
  <2>2. n = sc.lastProp /\ t.nodes[n].attrs # attrs /\ Treelike(t) /\ n \in NodesInUse(t)
        /\ p \in NodesInUse(t) \cup {NoNode}
    <3>1. C \subseteq NodesInUse(t) /\ Treelike(t)
      BY CountsFacts
    <3> QED BY <1>2, <1>4, <1>6, <3>1 DEF TreeOK
  <2>3. g \in GetPropertyTreeChild(t, p, id, attrs)
    BY DEF G
  <2> DEFINE k == g.tree
             x == g.got
             L == PairsAt(t, sc.lastProp, C)
  <2>4. p = t.nodes[n].parent
    OBVIOUS
  <2> HIDE DEF p
  <2>5. /\ TreeOK(k) /\ Extends(t, k)
        /\ x # NoNode => x \in NodesInUse(k) /\ k.nodes[x].id = id /\ k.nodes[x].attrs = attrs /\ k.nodes[x].parent = p
    BY <2>2, <2>3, GotChild
  <2>6. Res(g) = Store([sc EXCEPT !.lastProp = x], id, x)
    BY DEF Res
  <2>7. CASE x = NoNode
    <3>1. w = Outcome(t, sc, FALSE)
      BY <2>1, <2>7, Zenon
    <3>2. w.tree = t /\ w.scope = sc
      BY ONLY <3>1, Zenon DEF Outcome
    <3>3. FailSound(t, sc, C, w)
      BY <3>2 DEF FailSound, Grew, Extends, Spared
    <3> QED BY <3>3 DEF Added
  <2>8. CASE x # NoNode
    <3>1. w = Outcome(k, Res(g), TRUE)
      BY <2>1, <2>8, Zenon
    <3>2. w.tree = k /\ w.scope = Res(g)
      BY ONLY <3>1, Zenon DEF Outcome
    <3> HIDE DEF k, x
    <3>3. Counts(k, sc, C) /\ PairsAt(k, sc.lastProp, C) = L
      BY <2>5, CountsKept
    <3>4. k.nodes[n] = t.nodes[n]
      BY <2>2, <2>5 DEF Extends
    <3>5. sc.lastProp # NoNode /\ x # sc.lastProp /\ k.nodes[x].id = k.nodes[sc.lastProp].id
          /\ k.nodes[x].parent = k.nodes[sc.lastProp].parent /\ k.nodes[sc.lastProp].id = id
      BY <1>2, <2>2, <2>4, <2>5, <2>8, <3>4
    <3> DEFINE E == (C \ {sc.lastProp}) \cup {x}
               u == Store([sc EXCEPT !.lastProp = x], id, x)
    <3>6. Counts(k, u, E) /\ u.lastProp = x /\ PairsAt(k, x, E) = OP!With(L, id, attrs)
      <4>1. Resited(k, sc, C, x)
        BY <2>5, <2>8, <3>3, <3>5, Sibling
      <4>2. k.nodes[x].id = id /\ k.nodes[x].attrs = attrs
        BY <2>5, <2>8
      <4> HIDE DEF L
      <4> QED BY <3>3, <3>5, <4>1, <4>2 DEF Resited
    <3> HIDE DEF E, u
    <3>7. w.tree = k /\ w.scope = u
      BY <2>6, <3>2 DEF u
    <3>8. Puts(t, sc, C, id, attrs, w)
      <4>1. Counts(w.tree, w.scope, E) /\ PairsAt(w.tree, w.scope.lastProp, E) = OP!With(PairsAt(t, sc.lastProp, C), id, attrs)
        BY <3>6, <3>7
      <4> QED BY <2>5, <3>7, <4>1 DEF Puts, Grew
    <3> QED BY <3>8 DEF Added
  <2> QED BY <2>7, <2>8
<1> QED BY <1>5, <1>6

\* A scope of which no node counts: new, or cleared.
LEMMA EmptyCounts ==
  ASSUME NEW t, TreeOK(t)
  PROVE  Counts(t, EmptyScope, {}) /\ PairsAt(t, EmptyScope.lastProp, {}) = <<>>
<1>1. Treelike(t)
  BY DEF TreeOK
<1>2. On(t, NoNode) = {} /\ LineIn(t, NoNode, {}) = <<>> /\ PairsAt(t, NoNode, {}) = <<>>
  BY <1>1, OnIs, LineNone, PairsNone
<1>3. /\ EmptyScope.lastProp = NoNode /\ EmptyScope.table = NoTable /\ EmptyScope.entryCount = 0
      /\ EmptyScope.middle = FALSE
  BY DEF EmptyScope
<1>4. EmptyScope \in ScopeRecords
  BY DEF EmptyScope, ScopeRecords
<1>5. Len(<<>>) = 0 /\ DistinctIds(t, {})
  BY DEF DistinctIds
<1>6. ~EmptyScope.middle
  BY ONLY <1>3, Zenon
<1> QED BY <1>2, <1>3, <1>4, <1>5, <1>6 DEF Counts
----------------------------------------------------------------------------
(* The sweep.                                                              *)

\* Induction over 0..n.
LEMMA CountUp ==
  ASSUME NEW n \in Nat, NEW G, 0 \in G, \A i \in 1..n : i - 1 \in G => i \in G
  PROVE  0..n \subseteq G
<1> SUFFICES ASSUME ~(0..n \subseteq G) PROVE FALSE
  OBVIOUS
<1> DEFINE Bad == {i \in 0..n : i \notin G}
<1>1. Bad \in SUBSET Nat /\ Bad # {}
  OBVIOUS
<1>2. PICK i \in Bad : \A x \in Bad : i <= x
  BY <1>1, SmallestExists
<1>3. i \in 1..n /\ i - 1 \in 0..n /\ i - 1 \notin Bad
  BY <1>2
<1> QED BY <1>3

\* The kids that move up when n is swept.
KidsOf(t, n) == {k \in NodesInUse(t) : t.nodes[k].parent = n}

\* What SweepNode chooses.
IsRooted(f, t, n) ==
    f = [k \in 0..PTMaxNodes |->
            IF k = 0 THEN t.roots \ {n}
            ELSE IF k \in KidsOf(t, n) /\ \A r \in f[k - 1] : ~SpropMatch(t, r, t.nodes[k].id, t.nodes[k].attrs)
            THEN f[k - 1] \cup {k} ELSE f[k - 1]]

\* The kids of a dead root become roots, all or some.
LEMMA RootedIs ==
  ASSUME NEW t, t.roots \subseteq PTNodes, NEW n, NEW f, f = CHOOSE h : IsRooted(h, t, n)
  PROVE  f[PTMaxNodes] \subseteq (t.roots \ {n}) \cup KidsOf(t, n)
<1> DEFINE K == KidsOf(t, n)
           B == t.roots \ {n}
           Joins(k, R) == k \in K /\ \A r \in R : ~SpropMatch(t, r, t.nodes[k].id, t.nodes[k].attrs)
           T == SUBSET (B \cup K)
           g == [e \in T \X Nat |-> IF Joins(e[2], e[1]) THEN e[1] \cup {e[2]} ELSE e[1]]
<1>1. PTMaxNodes \in Nat /\ K \subseteq PTNodes
  BY PropTreeAssumption DEF KidsOf, NodesInUse
<1>2. \A R \in T, k \in Nat : g[<<R, k>>] = IF Joins(k, R) THEN R \cup {k} ELSE R
  <2> HIDE DEF Joins, T
  <2> QED OBVIOUS
<1>3. \A R, k : Joins(k, R) => k \in K
  OBVIOUS
<1> HIDE DEF Joins
<1>4. g \in [T \X Nat -> T] /\ B \in T
  <2> SUFFICES ASSUME NEW e \in T \X Nat PROVE (IF Joins(e[2], e[1]) THEN e[1] \cup {e[2]} ELSE e[1]) \in T
    OBVIOUS
  <2>1. e[1] \in T /\ (Joins(e[2], e[1]) => e[2] \in K)
    BY <1>3
  <2> QED BY <2>1
<1> HIDE DEF g
<1>5. PICK h \in [0..PTMaxNodes -> T] : IsIterated(h, B, g, PTMaxNodes)
  BY <1>1, <1>4, IteratedExists
<1>6. \A k \in 0..PTMaxNodes : h[k] = IF k = 0 THEN B ELSE IF Joins(k, h[k - 1]) THEN h[k - 1] \cup {k} ELSE h[k - 1]
  <2> SUFFICES ASSUME NEW k \in 0..PTMaxNodes
               PROVE h[k] = IF k = 0 THEN B ELSE IF Joins(k, h[k - 1]) THEN h[k - 1] \cup {k} ELSE h[k - 1]
    OBVIOUS
  <2>1. h[k] = IF k = 0 THEN B ELSE g[<<h[k - 1], k>>]
    BY <1>5 DEF IsIterated
  <2>2. k # 0 => k - 1 \in 0..PTMaxNodes /\ k \in Nat
    BY <1>1
  <2>3. k # 0 => h[k - 1] \in T
    BY <2>2
  <2> HIDE DEF T, B
  <2> QED BY <1>2, <2>1, <2>2, <2>3
<1>7. IsRooted(h, t, n)
  <2> DEFINE r == [k \in 0..PTMaxNodes |-> IF k = 0 THEN B ELSE IF Joins(k, h[k - 1]) THEN h[k - 1] \cup {k} ELSE h[k - 1]]
  <2>1. h = r
    <3> HIDE DEF T, B
    <3> QED BY <1>6
  <2> QED BY <2>1 DEF IsRooted, Joins
<1>8. IsRooted(f, t, n)
  BY <1>7
<1>9. \A k \in 0..PTMaxNodes : f[k] = IF k = 0 THEN B ELSE IF Joins(k, f[k - 1]) THEN f[k - 1] \cup {k} ELSE f[k - 1]
  BY <1>8 DEF IsRooted, Joins
<1> DEFINE G == {k \in 0..PTMaxNodes : f[k] \in T}
<1> HIDE DEF K, B
<1>10. 0 \in G
  <2>1. 0 \in 0..PTMaxNodes
    BY <1>1
  <2> QED BY <1>9, <2>1
<1>11. ASSUME NEW i \in 1..PTMaxNodes, i - 1 \in G PROVE i \in G
  <2>1. i \in 0..PTMaxNodes /\ i # 0
    BY <1>1
  <2>2. f[i] = IF Joins(i, f[i - 1]) THEN f[i - 1] \cup {i} ELSE f[i - 1]
    BY <1>9, <2>1
  <2>3. f[i - 1] \in T /\ (Joins(i, f[i - 1]) => i \in K)
    BY <1>3, <1>11
  <2> DEFINE X == f[i - 1]
  <2>4. f[i] = X \/ (f[i] = X \cup {i} /\ i \in K)
    BY <2>2, <2>3
  <2>5. X \subseteq B \cup K
    BY <2>3
  <2> HIDE DEF X
  <2>6. f[i] \in T
    BY <2>4, <2>5
  <2> QED BY <2>1, <2>6
<1>12. PTMaxNodes \in G
  <2> HIDE DEF G
  <2>1. 0..PTMaxNodes \subseteq G
    BY <1>1, <1>10, <1>11, CountUp
  <2> QED BY <1>1, <2>1
<1> QED BY <1>12 DEF K, B

\* One node goes; the others keep their id, their attributes and their order.
Shrinks(t, t2, gone) ==
    /\ NodesInUse(t2) = NodesInUse(t) \ gone
    /\ \A m \in NodesInUse(t2) : t2.nodes[m].id = t.nodes[m].id /\ t2.nodes[m].attrs = t.nodes[m].attrs
    /\ \A m \in NodesInUse(t2) \cup {NoNode} : \A S : LineIn(t2, m, S) = LineIn(t, m, S \ gone)

\* The node that is swept is free, and its kids are its parent's.
LEMMA SweptNodes ==
  ASSUME NEW t, TreeOK(t), NEW n \in NodesInUse(t), NEW t2, t2 = SweepNode(t, n)
  PROVE  /\ TreeOK(t2) /\ t2.nodes[n] = FreeNode
         /\ \A k \in PTNodes \ {n} :
              /\ t2.nodes[k].id = t.nodes[k].id /\ t2.nodes[k].attrs = t.nodes[k].attrs
              /\ t2.nodes[k].parent = IF t.nodes[k].parent = n THEN t.nodes[n].parent ELSE t.nodes[k].parent
         /\ NodesInUse(t2) = NodesInUse(t) \ {n}
<1> DEFINE p == t.nodes[n].parent
           K == KidsOf(t, n)
           f == CHOOSE h : IsRooted(h, t, n)
           moved == [k \in PTNodes |-> IF k = n THEN FreeNode
                                       ELSE IF k \in K THEN [t.nodes[k] EXCEPT !.parent = p] ELSE t.nodes[k]]
           R == IF p # NoNode THEN t.roots ELSE f[PTMaxNodes]
<1>1. t2 = [nodes |-> moved, roots |-> R]
  BY Zenon DEF SweepNode, IsRooted, KidsOf
<1>2. /\ Treelike(t) /\ n \in PTNodes /\ NoNode \notin PTNodes /\ NodesInUse(t) \subseteq PTNodes
      /\ \A k \in NodesInUse(t) : t.nodes[k].parent \in NodesInUse(t) \cup {NoNode}
      /\ \A k \in t.roots : k \in NodesInUse(t) /\ t.nodes[k].parent = NoNode
  BY NodeFacts DEF TreeOK
<1>3. f[PTMaxNodes] \subseteq (t.roots \ {n}) \cup K
  <2> DEFINE ff == f
  <2>1. t.roots \subseteq PTNodes /\ ff = CHOOSE h : IsRooted(h, t, n)
    BY <1>2
  <2> HIDE DEF ff
  <2>2. ff[PTMaxNodes] \subseteq (t.roots \ {n}) \cup KidsOf(t, n)
    BY <2>1, RootedIs
  <2> QED BY <2>2 DEF ff
<1> HIDE DEF f
<1>4. t2.nodes = moved /\ t2.roots = R /\ t2 = [nodes |-> t2.nodes, roots |-> t2.roots]
  BY <1>1
<1>5. PICK b \in Nat : \E r : Ranking(t, r, b)
  BY <1>2 DEF Treelike, Ranked
<1>6. PICK r : Ranking(t, r, b)
  BY <1>5
<1>7. p # n /\ p \in NodesInUse(t) \cup {NoNode}
  <2>1. p # NoNode => r[p] < r[n] /\ r[n] \in Nat
    BY <1>2, <1>6 DEF Ranking
  <2> QED BY <1>2, <2>1
<1>8. \A k \in PTNodes : t.nodes[k] \in NodeRecords /\ (k \notin NodesInUse(t) => t.nodes[k] = FreeNode)
  BY <1>2, NodeFacts DEF Treelike
<1>9. ASSUME NEW k \in PTNodes, k # n
      PROVE /\ t2.nodes[k].id = t.nodes[k].id /\ t2.nodes[k].attrs = t.nodes[k].attrs
            /\ t2.nodes[k].parent = IF t.nodes[k].parent = n THEN p ELSE t.nodes[k].parent
            /\ t2.nodes[k] \in NodeRecords /\ (t2.nodes[k] # FreeNode <=> k \in NodesInUse(t))
  <2>1. t2.nodes[k] = IF k \in K THEN [t.nodes[k] EXCEPT !.parent = p] ELSE t.nodes[k]
    BY <1>4, <1>9
  <2>2. CASE k \in K
    <3>1. k \in NodesInUse(t) /\ t.nodes[k].parent = n /\ t.nodes[k] # FreeNode
      BY <2>2 DEF KidsOf, NodesInUse
    <3>2. t.nodes[k] \in [id : PTIds, attrs : PTAttrs, parent : PTNodes \cup {NoNode}]
      BY <1>8, <3>1 DEF NodeRecords
    <3> DEFINE e == t.nodes[k]
    <3>3. t2.nodes[k] = [e EXCEPT !.parent = p] /\ e.parent = n /\ e \in [id : PTIds, attrs : PTAttrs, parent : PTNodes \cup {NoNode}]
      BY <2>1, <2>2, <3>1, <3>2
    <3> DEFINE x == t2.nodes[k]
    <3> HIDE DEF e, p, x
    <3>4. x = [id |-> e.id, attrs |-> e.attrs, parent |-> p]
      BY <3>3 DEF x
    <3>5. x.id \in PTIds /\ NoNode \notin PTIds
      BY <3>3, <3>4, PropTreeAssumption
    <3>6. x # FreeNode
      BY <3>5 DEF FreeNode
    <3>7. x \in NodeRecords
      BY <1>2, <1>7, <3>3, <3>4 DEF NodeRecords
    <3> QED BY <3>1, <3>3, <3>4, <3>6, <3>7 DEF x, e
  <2>3. CASE k \notin K
    <3>1. t2.nodes[k] = t.nodes[k]
      BY <2>1, <2>3
    <3>2. t.nodes[k].parent # n
      <4>1. CASE k \in NodesInUse(t)
        BY <2>3, <4>1 DEF KidsOf
      <4>2. CASE k \notin NodesInUse(t)
        BY <1>2, <1>8, <4>2 DEF FreeNode
      <4> QED BY <4>1, <4>2
    <3> QED BY <1>8, <3>1, <3>2 DEF NodesInUse
  <2> QED BY <2>2, <2>3
<1>10. t2.nodes[n] = FreeNode
  BY <1>2, <1>4
<1>11. NodesInUse(t2) = NodesInUse(t) \ {n}
  BY <1>2, <1>9, <1>10 DEF NodesInUse
<1>12. Treelike(t2)
  <2>1. t2.nodes \in [PTNodes -> NodeRecords]
    <3>1. \A k \in PTNodes : t2.nodes[k] \in NodeRecords
      BY <1>9, <1>10 DEF NodeRecords
    <3>2. t2.nodes = [k \in PTNodes |-> t2.nodes[k]]
      BY <1>4
    <3> QED BY <3>1, <3>2
  <2>2. Ranking(t2, r, b)
    <3> SUFFICES ASSUME NEW k \in PTNodes, t2.nodes[k].parent # NoNode PROVE r[t2.nodes[k].parent] < r[k]
      BY <1>6 DEF Ranking
    <3>1. k # n
      BY <1>10 DEF FreeNode
    <3>2. r \in [PTNodes -> 0..b] /\ \A m \in PTNodes : t.nodes[m].parent # NoNode => r[t.nodes[m].parent] < r[m]
      BY <1>6 DEF Ranking
    <3>3. CASE t.nodes[k].parent # n
      BY <1>9, <3>1, <3>2, <3>3
    <3>4. CASE t.nodes[k].parent = n
      <4>1. t2.nodes[k].parent = p /\ p \in PTNodes
        BY <1>2, <1>7, <1>9, <3>1, <3>4
      <4>2. r[p] < r[n] /\ r[n] < r[k] /\ r[p] \in Nat /\ r[n] \in Nat /\ r[k] \in Nat
        BY <1>2, <3>2, <3>4, <4>1
      <4> QED BY <4>1, <4>2
    <3> QED BY <3>3, <3>4
  <2> QED BY <2>1, <2>2 DEF Treelike, Ranked
<1>13. \A k \in NodesInUse(t2) : t2.nodes[k].parent \in NodesInUse(t2) \cup {NoNode}
  BY <1>2, <1>7, <1>9, <1>11
<1>14. \A k \in t2.roots : k \in NodesInUse(t2) /\ t2.nodes[k].parent = NoNode
  <2> SUFFICES ASSUME NEW k \in R PROVE k \in NodesInUse(t2) /\ t2.nodes[k].parent = NoNode
    BY <1>4
  <2>1. CASE p # NoNode
    <3>1. k \in t.roots
      BY <2>1
    <3> QED BY <1>2, <1>9, <1>11, <2>1, <3>1
  <2>2. CASE p = NoNode
    <3>1. k \in t.roots \ {n} \/ k \in K
      BY <1>3, <2>2
    <3>2. k \in NodesInUse(t) /\ k # n /\ (t.nodes[k].parent = NoNode \/ t.nodes[k].parent = n)
      BY <1>2, <3>1 DEF KidsOf
    <3> QED BY <1>2, <1>9, <1>11, <2>2, <3>2
  <2> QED BY <2>1, <2>2
<1> QED BY <1>4, <1>9, <1>10, <1>11, <1>12, <1>13, <1>14 DEF TreeOK

\* The other nodes' lines only lose that node.
LEMMA SweptOne ==
  ASSUME NEW t, TreeOK(t), NEW n \in NodesInUse(t), NEW t2, t2 = SweepNode(t, n)
  PROVE  TreeOK(t2) /\ Shrinks(t, t2, {n})
<1> DEFINE p == t.nodes[n].parent
           Up(x) == IF x = n THEN p ELSE x
<1>1. /\ TreeOK(t2) /\ t2.nodes[n] = FreeNode /\ NodesInUse(t2) = NodesInUse(t) \ {n}
      /\ \A k \in PTNodes \ {n} :
           /\ t2.nodes[k].id = t.nodes[k].id /\ t2.nodes[k].attrs = t.nodes[k].attrs
           /\ t2.nodes[k].parent = IF t.nodes[k].parent = n THEN t.nodes[n].parent ELSE t.nodes[k].parent
  BY SweptNodes
<1>2. Treelike(t) /\ Treelike(t2) /\ n \in PTNodes /\ NoNode \notin PTNodes /\ NodesInUse(t) \subseteq PTNodes
      /\ \A k \in PTNodes : t.nodes[k].parent \in PTNodes \cup {NoNode}
  BY <1>1, NodeFacts DEF TreeOK
<1>3. p # n /\ p \in PTNodes \cup {NoNode}
  <2>1. p # NoNode => p \in On(t, p) /\ n \notin On(t, p)
    BY <1>2, OnIs
  <2> QED BY <1>2, <2>1
<1>4. ASSUME NEW S PROVE \A m \in PTNodes \ {n} : LineIn(t2, m, S) = LineIn(t, m, S \ {n})
  <2> DEFINE G == {x \in PTNodes \cup {NoNode} : LineIn(t2, Up(x), S) = LineIn(t, x, S \ {n})}
  <2>1. NoNode \in G
    <3>1. LineIn(t2, NoNode, S) = <<>> /\ LineIn(t, NoNode, S \ {n}) = <<>> /\ Up(NoNode) = NoNode
      BY <1>2, LineNone
    <3> QED BY <3>1
  <2>2. ASSUME NEW x \in PTNodes, t.nodes[x].parent \in G PROVE x \in G
    <3>1. CASE x = n
      <4>1. LineIn(t2, Up(p), S) = LineIn(t, p, S \ {n}) /\ Up(p) = p /\ Up(x) = p
        BY <1>3, <2>2, <3>1
      <4>2. LineIn(t, n, S \ {n}) = LineIn(t, p, S \ {n})
        BY <1>2, LineStep
      <4> QED BY <3>1, <4>1, <4>2
    <3>2. CASE x # n
      <4> DEFINE q == t.nodes[x].parent
                 D == S \ {n}
      <4>1. t2.nodes[x].parent = Up(q) /\ Up(x) = x /\ LineIn(t2, Up(q), S) = LineIn(t, q, D)
        BY <1>1, <2>2, <3>2
      <4>2. x \in S <=> x \in D
        BY <3>2
      <4> HIDE DEF q, D, Up
      <4>3. LineIn(t2, x, S) = IF x \in S THEN Append(LineIn(t2, Up(q), S), x) ELSE LineIn(t2, Up(q), S)
        BY <1>2, <4>1, LineStep
      <4>4. LineIn(t, x, D) = IF x \in D THEN Append(LineIn(t, q, D), x) ELSE LineIn(t, q, D)
        BY <1>2, LineStep DEF q
      <4> QED BY <4>1, <4>2, <4>3, <4>4 DEF D
    <3> QED BY <3>1, <3>2
  <2>3. PTNodes \subseteq G
    <3> HIDE DEF G
    <3> QED BY <1>2, <2>1, <2>2, NodeInduction
  <2> QED BY <2>3
<1>5. \A S : LineIn(t2, NoNode, S) = LineIn(t, NoNode, S \ {n})
  BY <1>2, LineNone
<1>6. \A m \in NodesInUse(t2) \cup {NoNode} : \A S : LineIn(t2, m, S) = LineIn(t, m, S \ {n})
  BY <1>1, <1>2, <1>4, <1>5
<1> QED BY <1>1, <1>2, <1>6 DEF Shrinks

\* Sweeps add up.
LEMMA ShrinksTwice ==
  ASSUME NEW t, NEW t2, NEW t3, NEW A, NEW B, Shrinks(t, t2, A), Shrinks(t2, t3, B)
  PROVE  Shrinks(t, t3, A \cup B)
<1>1. NodesInUse(t2) = NodesInUse(t) \ A /\ NodesInUse(t3) = NodesInUse(t2) \ B
  BY DEF Shrinks
<1>2. \A m \in NodesInUse(t3) \cup {NoNode} : m \in NodesInUse(t2) \cup {NoNode}
  BY <1>1
<1>3. ASSUME NEW m \in NodesInUse(t3) \cup {NoNode}, NEW S PROVE LineIn(t3, m, S) = LineIn(t, m, S \ (A \cup B))
  <2>1. LineIn(t3, m, S) = LineIn(t2, m, S \ B)
    BY DEF Shrinks
  <2>2. LineIn(t2, m, S \ B) = LineIn(t, m, (S \ B) \ A)
    BY <1>2 DEF Shrinks
  <2>3. (S \ B) \ A = S \ (A \cup B)
    OBVIOUS
  <2> QED BY <2>1, <2>2, <2>3
<1>4. NodesInUse(t3) = NodesInUse(t) \ (A \cup B)
  BY <1>1
<1>5. \A m \in NodesInUse(t3) : t3.nodes[m].id = t.nodes[m].id /\ t3.nodes[m].attrs = t.nodes[m].attrs
  BY <1>2 DEF Shrinks
<1> QED BY <1>3, <1>4, <1>5 DEF Shrinks

\* A collection that spares the nodes that count leaves every list as it is.
LEMMA ShrinkKeeps ==
  ASSUME NEW t, TreeOK(t), NEW t2, TreeOK(t2), NEW gone, Shrinks(t, t2, gone),
         NEW sc, NEW C, Counts(t, sc, C), C \cap gone = {}
  PROVE  Counts(t2, sc, C) /\ PairsAt(t2, sc.lastProp, C) = PairsAt(t, sc.lastProp, C)
<1> DEFINE n == sc.lastProp
<1>1. /\ Treelike(t) /\ Treelike(t2) /\ NoNode \notin PTNodes /\ NodesInUse(t) \subseteq PTNodes /\ sc \in ScopeRecords
      /\ On(t, n) \subseteq NodesInUse(t) /\ C \subseteq NodesInUse(t) /\ C \subseteq On(t, n)
      /\ DistinctIds(t, On(t, n)) /\ DistinctIds(t, C) /\ n \in PTNodes \cup {NoNode}
  BY CountsFacts DEF TreeOK
<1>2. n \in NodesInUse(t) \cup {NoNode} /\ (n # NoNode => n \in C)
  BY DEF Counts
<1>3. NodesInUse(t2) = NodesInUse(t) \ gone
      /\ \A m \in NodesInUse(t2) : t2.nodes[m].id = t.nodes[m].id /\ t2.nodes[m].attrs = t.nodes[m].attrs
  BY DEF Shrinks
<1>4. n \in NodesInUse(t2) \cup {NoNode} /\ C \subseteq NodesInUse(t2)
  BY <1>1, <1>2, <1>3
<1>5. \A S : LineIn(t2, n, S) = LineIn(t, n, S \ gone)
  BY <1>4 DEF Shrinks
<1>6. On(t2, n) = On(t, n) \ gone
  <2>1. On(t2, n) = ToSet(LineIn(t, n, PTNodes \ gone))
    BY <1>5 DEF On, Line
  <2>2. ToSet(LineIn(t, n, PTNodes \ gone)) = On(t, n) \cap (PTNodes \ gone)
    BY <1>1, LineIs
  <2> QED BY <1>1, <2>1, <2>2
<1>7. LineIn(t2, n, C) = LineIn(t, n, C)
  <2>1. C \ gone = C
    OBVIOUS
  <2> QED BY <1>5, <2>1
<1>8. PairsAt(t2, n, C) = PairsAt(t, n, C)
  <2> DEFINE l == LineIn(t, n, C)
  <2>1. \A i \in DOMAIN l : l[i] \in C
    <3>1. l \in Seq(PTNodes) /\ ToSet(l) = On(t, n) \cap C
      BY <1>1, LineTyped, LineIs
    <3> HIDE DEF l
    <3> QED BY <3>1 DEF ToSet
  <2>2. \A i \in DOMAIN l : Pair(t2, l[i]) = Pair(t, l[i])
    BY <1>3, <1>4, <2>1 DEF Pair
  <2> QED BY <1>7, <2>2 DEF PairsAt
<1>9. DistinctIds(t2, On(t2, n)) /\ C \subseteq On(t2, n)
  BY <1>1, <1>3, <1>6 DEF DistinctIds
<1>10. \A id, x : Finds(t, C, id, x) => Finds(t2, C, id, x)
  BY <1>3, <1>4 DEF Finds
<1>11. sc.table # NoTable => TableFor(t2, C, sc.table)
  BY <1>10 DEF Counts, TableFor
<1>12. ~sc.middle => C = On(t2, n)
  <2>1. ~sc.middle => C = On(t, n)
    BY DEF Counts
  <2> QED BY <1>6, <1>9, <2>1
<1>13. Counts(t2, sc, C)
  BY <1>2, <1>4, <1>7, <1>9, <1>11, <1>12 DEF Counts
<1> QED BY <1>8, <1>13

\* The dead nodes as far as k.
GoneBy(dead, k) == {d \in dead : d <= k}

LEMMA GoneIs ==
  ASSUME NEW n \in Nat, NEW dead \in SUBSET (1..n)
  PROVE  /\ GoneBy(dead, 0) = {} /\ GoneBy(dead, n) = dead
         /\ \A k \in 1..n : GoneBy(dead, k) = IF k \in dead THEN GoneBy(dead, k - 1) \cup {k} ELSE GoneBy(dead, k - 1)
<1>1. \A d \in dead : d \in Nat /\ d >= 1 /\ d <= n
  OBVIOUS
<1>2. GoneBy(dead, 0) = {}
  <2>1. \A d \in dead : ~(d <= 0)
    BY <1>1
  <2>2. \A d : d \notin GoneBy(dead, 0)
    BY <2>1 DEF GoneBy
  <2> QED BY <2>2
<1>3. GoneBy(dead, n) = dead
  <2>1. GoneBy(dead, n) \subseteq dead
    BY DEF GoneBy
  <2>2. ASSUME NEW d \in dead PROVE d \in GoneBy(dead, n)
    <3>1. d <= n
      BY <1>1
    <3> QED BY <3>1 DEF GoneBy
  <2> QED BY <2>1, <2>2
<1>4. ASSUME NEW k \in 1..n
      PROVE GoneBy(dead, k) = IF k \in dead THEN GoneBy(dead, k - 1) \cup {k} ELSE GoneBy(dead, k - 1)
  <2>1. \A d \in dead : d <= k <=> d <= k - 1 \/ d = k
    BY <1>1
  <2> QED BY <2>1 DEF GoneBy
<1> QED BY <1>2, <1>3, <1>4

\* The trees of a sweep, node by node.
SweepsUp(f, t, dead) ==
    /\ f[0] = t
    /\ \A k \in 1..PTMaxNodes :
         /\ k \notin dead => f[k] = f[k - 1]
         /\ k \in dead /\ k \in NodesInUse(f[k - 1]) => f[k] = SweepNode(f[k - 1], k)

\* The sweep as far as the node k.
LEMMA SweptSoFar ==
  ASSUME NEW t, TreeOK(t), NEW dead \in SUBSET NodesInUse(t), NEW f, SweepsUp(f, t, dead)
  PROVE  \A k \in 0..PTMaxNodes : TreeOK(f[k]) /\ Shrinks(t, f[k], GoneBy(dead, k))
<1> DEFINE G == {k \in 0..PTMaxNodes : TreeOK(f[k]) /\ Shrinks(t, f[k], GoneBy(dead, k))}
<1>1. PTMaxNodes \in Nat /\ dead \subseteq 1..PTMaxNodes /\ PTNodes = 1..PTMaxNodes
  BY PropTreeAssumption DEF NodesInUse, PTNodes
<1> DEFINE N == PTMaxNodes
<1>2. /\ GoneBy(dead, 0) = {}
      /\ \A i \in 1..N : GoneBy(dead, i) = IF i \in dead THEN GoneBy(dead, i - 1) \cup {i} ELSE GoneBy(dead, i - 1)
  <2>1. N \in Nat /\ dead \in SUBSET (1..N)
    BY <1>1
  <2> HIDE DEF N
  <2> QED BY <2>1, GoneIs
<1>3. 0 \in G
  <2>1. GoneBy(dead, 0) = {}
    BY <1>2
  <2>2. \A S : S \ {} = S
    OBVIOUS
  <2>3. Shrinks(t, t, {})
    BY <2>2 DEF Shrinks
  <2>4. TreeOK(f[0]) /\ Shrinks(t, f[0], GoneBy(dead, 0))
    BY <2>1, <2>3 DEF SweepsUp
  <2> QED BY <1>1, <2>4
<1>4. ASSUME NEW k \in 1..PTMaxNodes, k - 1 \in G PROVE k \in G
  <2> DEFINE u == f[k - 1]
             A == GoneBy(dead, k - 1)
  <2>1. TreeOK(u) /\ Shrinks(t, u, A) /\ k \in 0..PTMaxNodes
    BY <1>1, <1>4
  <2>2. CASE k \in dead
    <3>1. k \in NodesInUse(u)
      BY <1>1, <2>1, <2>2 DEF Shrinks, GoneBy
    <3>2. f[k] = SweepNode(u, k)
      BY <2>2, <3>1 DEF SweepsUp
    <3>3. GoneBy(dead, k) = A \cup {k}
      BY <1>2, <2>2
    <3> HIDE DEF u, A
    <3>4. TreeOK(f[k]) /\ Shrinks(u, f[k], {k})
      BY <2>1, <3>1, <3>2, SweptOne
    <3>5. Shrinks(t, f[k], A \cup {k})
      BY <2>1, <3>4, ShrinksTwice
    <3> QED BY <2>1, <3>3, <3>4, <3>5
  <2>3. CASE k \notin dead
    <3>1. f[k] = u
      BY <2>3 DEF SweepsUp
    <3>2. GoneBy(dead, k) = A
      BY <1>2, <2>3
    <3> QED BY <2>1, <3>1, <3>2
  <2> QED BY <2>2, <2>3
<1>5. 0..PTMaxNodes \subseteq G
  <2> HIDE DEF G
  <2> QED BY <1>1, <1>3, <1>4, CountUp
<1> QED BY <1>5

\* What js_SweepScopeProperties chooses.
IsSwept(f, t, dead) ==
    f = [k \in 0..PTMaxNodes |->
            IF k = 0 THEN t ELSE IF k \in dead THEN SweepNode(f[k - 1], k) ELSE f[k - 1]]

\* The recursion of js_SweepScopeProperties has a solution.
LEMMA SweptExists ==
  ASSUME NEW t, TreeOK(t), NEW dead \in SUBSET NodesInUse(t)
  PROVE  \E f : IsSwept(f, t, dead)
<1> DEFINE T == {u \in [nodes : [PTNodes -> NodeRecords], roots : SUBSET PTNodes] : TreeOK(u)}
           Next1(u, k) == IF k \in dead /\ k \in NodesInUse(u) THEN SweepNode(u, k) ELSE u
           g == [e \in T \X Nat |-> Next1(e[1], e[2])]
<1>1. PTMaxNodes \in Nat /\ dead \subseteq 1..PTMaxNodes
  BY PropTreeAssumption DEF NodesInUse, PTNodes
<1>2. \A u : TreeOK(u) => u \in T
  <2> SUFFICES ASSUME NEW u, TreeOK(u) PROVE u \in T
    OBVIOUS
  <2>1. u = [nodes |-> u.nodes, roots |-> u.roots] /\ u.nodes \in [PTNodes -> NodeRecords]
    BY DEF TreeOK, Treelike
  <2>2. u.roots \in SUBSET PTNodes
    BY DEF TreeOK, NodesInUse
  <2> QED BY <2>1, <2>2
<1>3. ASSUME NEW u \in T, NEW k PROVE Next1(u, k) \in T
  <2>1. TreeOK(u)
    OBVIOUS
  <2>2. CASE k \in dead /\ k \in NodesInUse(u)
    <3>1. TreeOK(SweepNode(u, k))
      BY <2>1, <2>2, SweptOne
    <3> HIDE DEF T
    <3> QED BY <1>2, <2>2, <3>1
  <2>3. CASE ~(k \in dead /\ k \in NodesInUse(u))
    BY <2>3
  <2> QED BY <2>2, <2>3
<1> HIDE DEF T, Next1
<1>4. g \in [T \X Nat -> T] /\ \A u \in T, k \in Nat : g[<<u, k>>] = Next1(u, k)
  BY <1>3
<1>5. t \in T
  BY <1>2
<1> HIDE DEF g
<1>6. PICK h \in [0..PTMaxNodes -> T] : IsIterated(h, t, g, PTMaxNodes)
  BY <1>1, <1>4, <1>5, IteratedExists
<1>7. \A k \in 0..PTMaxNodes : h[k] = IF k = 0 THEN t ELSE Next1(h[k - 1], k)
  <2> SUFFICES ASSUME NEW k \in 0..PTMaxNodes PROVE h[k] = IF k = 0 THEN t ELSE Next1(h[k - 1], k)
    OBVIOUS
  <2>1. h[k] = IF k = 0 THEN t ELSE g[<<h[k - 1], k>>]
    BY <1>6 DEF IsIterated
  <2>2. k # 0 => h[k - 1] \in T /\ k \in Nat
    BY <1>1
  <2> QED BY <1>4, <2>1, <2>2
<1>8. SweepsUp(h, t, dead)
  <2>1. h[0] = t
    BY <1>1, <1>7
  <2>2. ASSUME NEW k \in 1..PTMaxNodes PROVE h[k] = Next1(h[k - 1], k)
    BY <1>1, <1>7
  <2> QED BY <2>1, <2>2 DEF SweepsUp, Next1
<1>9. \A k \in 0..PTMaxNodes : Shrinks(t, h[k], GoneBy(dead, k))
  BY <1>8, SweptSoFar
<1>10. ASSUME NEW k \in 0..PTMaxNodes
       PROVE h[k] = IF k = 0 THEN t ELSE IF k \in dead THEN SweepNode(h[k - 1], k) ELSE h[k - 1]
  <2>1. CASE k = 0
    BY <1>7, <2>1
  <2>2. CASE k # 0
    <3>1. k - 1 \in 0..PTMaxNodes /\ k \in 1..PTMaxNodes
      BY <1>1, <2>2
    <3>2. h[k] = Next1(h[k - 1], k)
      BY <1>7, <2>2
    <3>3. k \in dead => k \in NodesInUse(h[k - 1])
      <4>1. Shrinks(t, h[k - 1], GoneBy(dead, k - 1))
        BY <1>9, <3>1
      <4> QED BY <1>1, <3>1, <4>1 DEF Shrinks, GoneBy
    <3> QED BY <2>2, <3>2, <3>3 DEF Next1
  <2> QED BY <2>1, <2>2
<1>11. IsSwept(h, t, dead)
  <2> DEFINE r == [k \in 0..PTMaxNodes |->
                     IF k = 0 THEN t ELSE IF k \in dead THEN SweepNode(h[k - 1], k) ELSE h[k - 1]]
  <2>1. h = r
    BY <1>10
  <2> QED BY <2>1 DEF IsSwept
<1> QED BY <1>11

\* The sweep takes away the dead nodes and nothing else.
LEMMA SweptAll ==
  ASSUME NEW t, TreeOK(t), NEW dead \in SUBSET NodesInUse(t), NEW f, f = CHOOSE h : IsSwept(h, t, dead)
  PROVE  TreeOK(f[PTMaxNodes]) /\ Shrinks(t, f[PTMaxNodes], dead)
<1>1. IsSwept(f, t, dead)
  BY SweptExists
<1>2. PTMaxNodes \in Nat /\ dead \subseteq 1..PTMaxNodes
  BY PropTreeAssumption DEF NodesInUse, PTNodes
<1>3. \A k \in 0..PTMaxNodes :
        f[k] = IF k = 0 THEN t ELSE IF k \in dead THEN SweepNode(f[k - 1], k) ELSE f[k - 1]
  BY <1>1 DEF IsSwept
<1>4. SweepsUp(f, t, dead)
  <2>1. f[0] = t
    BY <1>2, <1>3
  <2>2. ASSUME NEW k \in 1..PTMaxNodes PROVE f[k] = IF k \in dead THEN SweepNode(f[k - 1], k) ELSE f[k - 1]
    BY <1>2, <1>3
  <2> QED BY <2>1, <2>2 DEF SweepsUp
<1>5. TreeOK(f[PTMaxNodes]) /\ Shrinks(t, f[PTMaxNodes], GoneBy(dead, PTMaxNodes))
  BY <1>2, <1>4, SweptSoFar
<1>6. GoneBy(dead, PTMaxNodes) = dead
  BY <1>2, GoneIs
<1> QED BY <1>5, <1>6
----------------------------------------------------------------------------
(* The invariant, and the ordered maps.                                    *)

\* The tree t is good, and the scopes f not in lost each count some nodes.
ScopesSound(t, f, lost) ==
    /\ TreeOK(t) /\ lost \subseteq PTScopes /\ f = [s \in PTScopes |-> f[s]]
    /\ \A s \in PTScopes \ lost : \E C : Counts(t, f[s], C)

\* The inductive invariant: the parent links are a forest, and every scope that
\* was not torn counts some set of the nodes of its line.
PropTreeInv == ScopesSound(tree, scope, torn)

\* What Props lists, of any tree, scopes and torn scopes.
PropsIn(t, sc) ==
    LET listed == LineIn(t, sc.lastProp, Listed(t, sc))
    IN [i \in DOMAIN listed |-> <<t.nodes[listed[i]].id, t.nodes[listed[i]].attrs>>]

PropsOf(t, f, lost) == [s \in PTScopes |-> IF s \in lost THEN <<>> ELSE PropsIn(t, f[s])]

\* What an enumeration lists are the pairs of the nodes that count.
LEMMA PropsInIs ==
  ASSUME NEW t, TreeOK(t), NEW sc, NEW C, Counts(t, sc, C)
  PROVE  PropsIn(t, sc) = PairsAt(t, sc.lastProp, C)
<1>1. LineIn(t, sc.lastProp, Listed(t, sc)) = LineIn(t, sc.lastProp, C)
  BY ListedAre
<1> QED BY <1>1 DEF PropsIn, PairsAt, Pair

\* A scope that counts some nodes is not torn.
LEMMA NotTorn ==
  ASSUME NEW h, TreeOK(h), NEW u, NEW E, Counts(h, u, E)
  PROVE  ~Torn(h, u)
<1>1. CASE u.table = NoTable
  BY <1>1 DEF Torn
<1>2. CASE u.table # NoTable
  <2>1. \A id \in PTIds : Finds(h, E, id, u.table[id])
    BY <1>2 DEF Counts, TableFor
  <2>2. E \subseteq On(h, u.lastProp)
    BY CountsFacts
  <2>3. \A id \in PTIds : u.table[id] = NoNode \/ u.table[id] \in On(h, u.lastProp)
    BY <2>1, <2>2 DEF Finds
  <2> QED BY <2>3 DEF Torn
<1> QED BY <1>1, <1>2

\* One scope changes, to one that counts some nodes or to one that is torn; the
\* others list what they did.
Swaps(t, f, lost, s, h, u) ==
    /\ \A E : Counts(h, u, E) =>
         /\ ScopesSound(h, [f EXCEPT ![s] = u], lost)
         /\ PropsOf(h, [f EXCEPT ![s] = u], lost) = [PropsOf(t, f, lost) EXCEPT ![s] = PairsAt(h, u.lastProp, E)]
    /\ ScopesSound(h, [f EXCEPT ![s] = u], lost \cup {s})
    /\ PropsOf(h, [f EXCEPT ![s] = u], lost \cup {s}) = [PropsOf(t, f, lost) EXCEPT ![s] = <<>>]

LEMMA OneScope ==
  ASSUME NEW t, NEW f, NEW lost, ScopesSound(t, f, lost), NEW s \in PTScopes \ lost,
         NEW h, TreeOK(h), Extends(t, h), NEW u
  PROVE  Swaps(t, f, lost, s, h, u)
<1> DEFINE f2 == [f EXCEPT ![s] = u]
           P == PropsOf(t, f, lost)
<1>1. TreeOK(t) /\ lost \subseteq PTScopes /\ f = [r \in PTScopes |-> f[r]]
  BY DEF ScopesSound
<1>2. f2 = [r \in PTScopes |-> f2[r]] /\ f2[s] = u /\ \A r \in PTScopes \ {s} : f2[r] = f[r]
  BY <1>1
<1> HIDE DEF f2
<1>3. ASSUME NEW r \in PTScopes \ lost, r # s
      PROVE (\E C : Counts(h, f2[r], C)) /\ PropsIn(h, f2[r]) = PropsIn(t, f[r])
  <2>1. PICK C : Counts(t, f[r], C)
    BY DEF ScopesSound
  <2>2. Counts(h, f[r], C) /\ PairsAt(h, f[r].lastProp, C) = PairsAt(t, f[r].lastProp, C)
    BY <1>1, <2>1, CountsKept
  <2>3. PropsIn(h, f[r]) = PairsAt(h, f[r].lastProp, C) /\ PropsIn(t, f[r]) = PairsAt(t, f[r].lastProp, C)
    BY <1>1, <2>1, <2>2, PropsInIs
  <2> QED BY <1>2, <1>3, <2>2, <2>3
<1>4. P = [r \in PTScopes |-> IF r \in lost THEN <<>> ELSE PropsIn(t, f[r])]
  BY DEF PropsOf
<1>5. ASSUME NEW E, Counts(h, u, E)
      PROVE /\ ScopesSound(h, f2, lost)
            /\ PropsOf(h, f2, lost) = [P EXCEPT ![s] = PairsAt(h, u.lastProp, E)]
  <2>1. PropsIn(h, u) = PairsAt(h, u.lastProp, E)
    BY <1>5, PropsInIs
  <2>2. ScopesSound(h, f2, lost)
    <3>1. \A r \in PTScopes \ lost : \E C : Counts(h, f2[r], C)
      BY <1>2, <1>3, <1>5
    <3> QED BY <1>1, <1>2, <3>1 DEF ScopesSound
  <2> DEFINE l == PairsAt(h, u.lastProp, E)
             Q == [P EXCEPT ![s] = l]
  <2>3. \A r \in PTScopes : Q[r] = IF r = s THEN l ELSE IF r \in lost THEN <<>> ELSE PropsIn(t, f[r])
    BY <1>4
  <2>4. Q = [r \in PTScopes |-> Q[r]]
    BY <1>4
  <2> HIDE DEF Q, l
  <2>5. \A r \in PTScopes : (IF r \in lost THEN <<>> ELSE PropsIn(h, f2[r])) = Q[r]
    BY <1>2, <1>3, <2>1, <2>3 DEF l
  <2>6. PropsOf(h, f2, lost) = Q
    BY <2>4, <2>5 DEF PropsOf
  <2> QED BY <2>2, <2>6 DEF Q, l
<1>6. /\ ScopesSound(h, f2, lost \cup {s})
      /\ PropsOf(h, f2, lost \cup {s}) = [P EXCEPT ![s] = <<>>]
  <2>1. ScopesSound(h, f2, lost \cup {s})
    <3>1. \A r \in PTScopes \ (lost \cup {s}) : \E C : Counts(h, f2[r], C)
      BY <1>3
    <3> QED BY <1>1, <1>2, <3>1 DEF ScopesSound
  <2> DEFINE Q == [P EXCEPT ![s] = <<>>]
  <2>2. \A r \in PTScopes : Q[r] = IF r = s THEN <<>> ELSE IF r \in lost THEN <<>> ELSE PropsIn(t, f[r])
    BY <1>4
  <2>3. Q = [r \in PTScopes |-> Q[r]]
    BY <1>4
  <2> HIDE DEF Q
  <2>4. \A r \in PTScopes : (IF r \in lost \cup {s} THEN <<>> ELSE PropsIn(h, f2[r])) = Q[r]
    BY <1>3, <2>2
  <2>5. PropsOf(h, f2, lost \cup {s}) = Q
    BY <2>3, <2>4 DEF PropsOf
  <2> QED BY <2>1, <2>5 DEF Q
<1> QED BY <1>5, <1>6 DEF f2, Swaps

\* What every call on one scope comes to.
LEMMA CallIs ==
  ASSUME NEW s, NEW ways, Calls(s, ways)
  PROVE  /\ s \notin torn
         /\ \E w \in ways :
              /\ tree' = w.tree /\ scope' = [scope EXCEPT ![s] = w.scope]
              /\ torn' = torn \cup {s} \/ torn' = torn
              /\ ~w.ok /\ Torn(w.tree, w.scope) => torn' = torn \cup {s}
              /\ ~Torn(w.tree, w.scope) => torn' = torn
<1> DEFINE Breaks(w) == /\ ~w.ok /\ w.scope.table # NoTable
                        /\ ~({w.scope.table[id] : id \in PTIds} \ {NoNode} \subseteq ToSet(Line(w.tree, w.scope.lastProp)))
<1>1. \A w : Breaks(w) <=> ~w.ok /\ Torn(w.tree, w.scope)
  BY Zenon DEF Torn, On
<1>2. s \notin torn /\ \E w \in ways : /\ tree' = w.tree /\ scope' = [scope EXCEPT ![s] = w.scope]
                                       /\ torn' = IF Breaks(w) THEN torn \cup {s} ELSE torn
  BY Zenon DEF Calls
<1> HIDE DEF Breaks
<1>3. PICK w \in ways : /\ tree' = w.tree /\ scope' = [scope EXCEPT ![s] = w.scope]
                        /\ torn' = IF Breaks(w) THEN torn \cup {s} ELSE torn
  BY <1>2
<1>4. (torn' = torn \cup {s} \/ torn' = torn) /\ (Breaks(w) => torn' = torn \cup {s}) /\ (~Breaks(w) => torn' = torn)
  BY <1>3, Zenon
<1>5. /\ ~w.ok /\ Torn(w.tree, w.scope) => torn' = torn \cup {s}
      /\ ~Torn(w.tree, w.scope) => torn' = torn
  BY <1>1, <1>4, Zenon
<1> QED BY <1>2, <1>3, <1>4, <1>5

\* The refinement mapping, of this state and of the next.
LEMMA PropsAreOf ==
  /\ [s \in PTScopes |-> Props(s)] = PropsOf(tree, scope, torn)
  /\ [s \in PTScopes |-> Props(s)]' = PropsOf(tree', scope', torn')
BY DEF Props, PropsOf, PropsIn, ListedProps

\* The scope s alone changes, and its list becomes l.
Becomes1(s, l) ==
    /\ PropTreeInv'
    /\ [r \in PTScopes |-> Props(r)]' = [[r \in PTScopes |-> Props(r)] EXCEPT ![s] = l] /\ torn' = torn

\* A call whose scope still counts some nodes changes its list alone.
LEMMA BecomesIs ==
  ASSUME PropTreeInv, NEW s \in PTScopes, s \notin torn, NEW h, TreeOK(h), Extends(tree, h), NEW u, NEW E, Counts(h, u, E),
         tree' = h, scope' = [scope EXCEPT ![s] = u], torn' = torn
  PROVE  Becomes1(s, PairsAt(h, u.lastProp, E))
<1>1. ScopesSound(tree, scope, torn)
  BY DEF PropTreeInv
<1>2. /\ ScopesSound(h, [scope EXCEPT ![s] = u], torn)
      /\ PropsOf(h, [scope EXCEPT ![s] = u], torn) = [PropsOf(tree, scope, torn) EXCEPT ![s] = PairsAt(h, u.lastProp, E)]
  <2>1. s \in PTScopes \ torn
    OBVIOUS
  <2>2. Swaps(tree, scope, torn, s, h, u)
    BY <1>1, <2>1, OneScope
  <2> QED BY <2>2, Zenon DEF Swaps
<1>3. ScopesSound(tree', scope', torn')
      /\ PropsOf(tree', scope', torn') = [PropsOf(tree, scope, torn) EXCEPT ![s] = PairsAt(h, u.lastProp, E)]
  BY <1>2
<1>4. PropTreeInv'
  BY <1>3 DEF PropTreeInv
<1> QED BY <1>3, <1>4, PropsAreOf DEF Becomes1

\* A call that tears its scope changes no other list.
LEMMA LosesIs ==
  ASSUME PropTreeInv, NEW s \in PTScopes, s \notin torn, NEW h, TreeOK(h), Extends(tree, h), NEW u,
         tree' = h, scope' = [scope EXCEPT ![s] = u], torn' = torn \cup {s}
  PROVE  /\ PropTreeInv'
         /\ [r \in PTScopes |-> Props(r)]' = [[r \in PTScopes |-> Props(r)] EXCEPT ![s] = <<>>]
<1>1. ScopesSound(tree, scope, torn)
  BY DEF PropTreeInv
<1>2. /\ ScopesSound(h, [scope EXCEPT ![s] = u], torn \cup {s})
      /\ PropsOf(h, [scope EXCEPT ![s] = u], torn \cup {s}) = [PropsOf(tree, scope, torn) EXCEPT ![s] = <<>>]
  <2>1. s \in PTScopes \ torn
    OBVIOUS
  <2>2. Swaps(tree, scope, torn, s, h, u)
    BY <1>1, <2>1, OneScope
  <2> QED BY <2>2, Zenon DEF Swaps
<1>3. ScopesSound(tree', scope', torn')
      /\ PropsOf(tree', scope', torn') = [PropsOf(tree, scope, torn) EXCEPT ![s] = <<>>]
  BY <1>2
<1>4. PropTreeInv'
  BY <1>3 DEF PropTreeInv
<1> QED BY <1>3, <1>4, PropsAreOf

LEMMA SoundProps ==
  ASSUME PropTreeInv, NEW s \in PTScopes, s \notin torn, NEW C, Counts(tree, scope[s], C)
  PROVE  [r \in PTScopes |-> Props(r)][s] = PairsAt(tree, scope[s].lastProp, C)
<1>1. PropsOf(tree, scope, torn)[s] = PropsIn(tree, scope[s])
  BY DEF PropsOf
<1>2. PropsIn(tree, scope[s]) = PairsAt(tree, scope[s].lastProp, C)
  BY PropsInIs DEF PropTreeInv, ScopesSound
<1> QED BY <1>1, <1>2, PropsAreOf

\* Adding a property, whatever comes of it, is a step of the ordered maps.
LEMMA AddedStep ==
  ASSUME PropTreeInv, NEW s \in PTScopes, NEW C, Counts(tree, scope[s], C), NEW id \in PTIds, NEW attrs \in PTAttrs,
         NEW ways, \A w \in ways : Added(tree, scope[s], C, id, attrs, w), Calls(s, ways)
  PROVE  PropTreeInv' /\ OP!OrderedPropsStep
<1> DEFINE P == [r \in PTScopes |-> Props(r)]
           L == PairsAt(tree, scope[s].lastProp, C)
<1>1. s \notin torn
  BY CallIs
<1>2. PICK w \in ways : /\ tree' = w.tree /\ scope' = [scope EXCEPT ![s] = w.scope]
                        /\ torn' = torn \cup {s} \/ torn' = torn
                        /\ ~w.ok /\ Torn(w.tree, w.scope) => torn' = torn \cup {s}
                        /\ ~Torn(w.tree, w.scope) => torn' = torn
  BY CallIs
<1>3. P[s] = L
  BY <1>1, SoundProps
<1>4. Added(tree, scope[s], C, id, attrs, w)
  OBVIOUS
<1> DEFINE h == w.tree
           u == w.scope
<1>5. ASSUME TreeOK(h), Extends(tree, h), NEW E, Counts(h, u, E)
      PROVE Becomes1(s, PairsAt(h, u.lastProp, E))
  <2>1. torn' = torn
    BY <1>2, <1>5, NotTorn
  <2>2. tree' = h /\ scope' = [scope EXCEPT ![s] = u]
    BY <1>2
  <2> HIDE DEF h, u
  <2> QED BY <1>1, <1>5, <2>1, <2>2, BecomesIs
<1>6. CASE Puts(tree, scope[s], C, id, attrs, w)
  <2>1. PICK E : Counts(h, u, E) /\ PairsAt(h, u.lastProp, E) = OP!With(L, id, attrs)
    BY <1>6 DEF Puts
  <2>2. Becomes1(s, PairsAt(h, u.lastProp, E))
    BY <1>5, <1>6, <2>1 DEF Puts, Grew
  <2>3. Becomes1(s, OP!With(P[s], id, attrs))
    BY <1>3, <2>1, <2>2
  <2> HIDE DEF P
  <2>4. OP!Put(s, id, attrs)
    BY <2>3 DEF Becomes1, OP!Put, OP!Becomes, P
  <2>5. OP!OrderedPropsStep
    BY <1>1, <2>4 DEF OP!OrderedPropsStep, OP!OrderedPropsNext
  <2> QED BY <2>3, <2>5 DEF Becomes1
<1>7. CASE FailSound(tree, scope[s], C, w)
  <2>1. PICK E : Counts(h, u, E) /\ Spared(PairsAt(h, u.lastProp, E), L)
    BY <1>7 DEF FailSound
  <2> DEFINE l == PairsAt(h, u.lastProp, E)
  <2>2. Becomes1(s, l)
    BY <1>5, <1>7, <2>1 DEF FailSound, Grew
  <2>3. Spared(l, P[s])
    BY <1>3, <2>1
  <2> HIDE DEF P, l
  <2>4. CASE l = P[s]
    <3>1. P' = [P EXCEPT ![s] = l] /\ torn' = torn /\ P = [r \in PTScopes |-> P[r]]
      BY <2>2 DEF Becomes1, P
    <3>2. P' = P /\ torn' = torn
      BY <2>4, <3>1
    <3>3. OP!OrderedPropsStep
      BY <3>2 DEF OP!OrderedPropsStep, P
    <3> QED BY <2>2, <3>3 DEF Becomes1
  <2>5. CASE \E i \in DOMAIN P[s] : l = OP!With(P[s], P[s][i][1], P[s][i][2]) \/ l = OP!Without(P[s], P[s][i][1])
    <3>1. PICK i \in DOMAIN P[s] : l = OP!With(P[s], P[s][i][1], P[s][i][2]) \/ l = OP!Without(P[s], P[s][i][1])
      BY <2>5
    <3>2. Becomes1(s, OP!With(P[s], P[s][i][1], P[s][i][2])) \/ Becomes1(s, OP!Without(P[s], P[s][i][1]))
      BY <2>2, <3>1
    <3>3. OP!FailedPut(s)
      BY <3>2 DEF Becomes1, OP!FailedPut, OP!Becomes, P
    <3>4. OP!OrderedPropsStep
      BY <1>1, <3>3 DEF OP!OrderedPropsStep, OP!OrderedPropsNext
    <3> QED BY <2>2, <3>4 DEF Becomes1
  <2> QED BY <2>3, <2>4, <2>5 DEF Spared
<1>8. CASE Grew(tree, w) /\ ~w.ok /\ Torn(w.tree, w.scope)
  <2>1. torn' = torn \cup {s}
    BY <1>2, <1>8, Zenon
  <2>2. tree' = h /\ scope' = [scope EXCEPT ![s] = u] /\ TreeOK(h) /\ Extends(tree, h)
    BY <1>2, <1>8 DEF Grew
  <2> HIDE DEF h, u
  <2>3. PropTreeInv' /\ P' = [P EXCEPT ![s] = <<>>]
    BY <1>1, <2>1, <2>2, LosesIs
  <2> HIDE DEF P
  <2>4. OP!Lose(s)
    BY <2>1, <2>3 DEF OP!Lose, P
  <2>5. OP!OrderedPropsStep
    BY <1>1, <2>4 DEF OP!OrderedPropsStep, OP!OrderedPropsNext
  <2> QED BY <2>3, <2>5
<1> QED BY <1>4, <1>6, <1>7, <1>8 DEF Added

\* js_RemoveScopeProperty deletes a pair.
LEMMA RemoveStep ==
  ASSUME PropTreeInv, NEW s \in PTScopes, NEW id \in PTIds, RemoveProperty(s, id)
  PROVE  PropTreeInv' /\ OP!OrderedPropsStep
<1> DEFINE n == SearchScope(tree, scope[s], id)
           u == Unlink(tree, scope[s], n)
           P == [r \in PTScopes |-> Props(r)]
           ways == {Outcome(tree, u, TRUE)}
<1>1. n # NoNode /\ Calls(s, ways)
  BY DEF RemoveProperty
<1> HIDE DEF n, ways
<1>2. s \notin torn
  BY <1>1, CallIs
<1>3. PICK w \in ways : /\ tree' = w.tree /\ scope' = [scope EXCEPT ![s] = w.scope]
                        /\ ~Torn(w.tree, w.scope) => torn' = torn
  BY <1>1, CallIs
<1>4. w = Outcome(tree, u, TRUE)
  BY DEF ways
<1>5. w.tree = tree /\ w.scope = u
  BY ONLY <1>4, Zenon DEF Outcome
<1>6. PICK C : Counts(tree, scope[s], C)
  BY <1>2 DEF PropTreeInv, ScopesSound
<1>7. TreeOK(tree) /\ Extends(tree, tree)
  BY DEF PropTreeInv, ScopesSound, Extends
<1>8. n \in C /\ tree.nodes[n].id = id
  BY <1>1, <1>6, <1>7, SearchFinds DEF Finds, n
<1>9. /\ Counts(tree, u, C \ {n})
      /\ PairsAt(tree, u.lastProp, C \ {n}) = OP!Without(PairsAt(tree, scope[s].lastProp, C), id)
  BY <1>6, <1>7, <1>8, UnlinkCounts
<1>10. P[s] = PairsAt(tree, scope[s].lastProp, C)
  BY <1>2, <1>6, SoundProps
<1>11. torn' = torn /\ tree' = tree /\ scope' = [scope EXCEPT ![s] = u]
  BY <1>3, <1>5, <1>7, <1>9, NotTorn
<1> DEFINE D == C \ {n}
<1> HIDE DEF u, P, D
<1>12. Becomes1(s, PairsAt(tree, u.lastProp, D))
  BY <1>2, <1>7, <1>9, <1>11, BecomesIs DEF D
<1>13. Becomes1(s, OP!Without(P[s], id))
  BY <1>9, <1>10, <1>12 DEF D
<1>14. OP!Delete(s, id)
  BY <1>13 DEF Becomes1, OP!Delete, OP!Becomes, P
<1>15. OP!OrderedPropsStep
  BY <1>2, <1>14 DEF OP!OrderedPropsStep, OP!OrderedPropsNext
<1> QED BY <1>13, <1>15 DEF Becomes1

\* js_ClearScope deletes them all.
LEMMA ClearStep ==
  ASSUME PropTreeInv, NEW s \in PTScopes, ClearScope(s)
  PROVE  PropTreeInv' /\ OP!OrderedPropsStep
<1> DEFINE u == EmptyScope
           E == {}
<1>1. TreeOK(tree) /\ Extends(tree, tree) /\ s \notin torn
  BY DEF PropTreeInv, ScopesSound, Extends, ClearScope
<1>2. Counts(tree, u, E) /\ PairsAt(tree, u.lastProp, E) = <<>>
  BY <1>1, EmptyCounts
<1>3. tree' = tree /\ torn' = torn /\ scope' = [scope EXCEPT ![s] = u]
  BY DEF ClearScope
<1> HIDE DEF u, E
<1>4. Becomes1(s, PairsAt(tree, u.lastProp, E))
  BY <1>1, <1>2, <1>3, BecomesIs
<1>5. Becomes1(s, <<>>)
  BY <1>2, <1>4
<1>6. OP!Becomes(s, <<>>)
  BY <1>5 DEF Becomes1, OP!Becomes
<1>7. OP!OrderedPropsStep
  BY <1>1, <1>6 DEF OP!OrderedPropsStep, OP!OrderedPropsNext
<1> QED BY <1>5, <1>7 DEF Becomes1

\* The collector marks every node a sound scope counts.
LEMMA CountedMarked ==
  ASSUME TreeOK(tree), NEW s, NEW C, Counts(tree, scope[s], C)
  PROVE  MarkedNodes(scope[s]) = C
<1> DEFINE sc == scope[s]
<1>1. LineIn(tree, sc.lastProp, Listed(tree, sc)) = LineIn(tree, sc.lastProp, C)
  BY ListedAre
<1>2. Treelike(tree) /\ sc.lastProp \in PTNodes \cup {NoNode} /\ C \subseteq On(tree, sc.lastProp)
  BY CountsFacts
<1>3. ToSet(LineIn(tree, sc.lastProp, C)) = On(tree, sc.lastProp) \cap C
  BY <1>2, LineIs
<1> QED BY <1>1, <1>2, <1>3 DEF MarkedNodes

\* A collection changes no list.
LEMMA SweepStep ==
  ASSUME PropTreeInv, SweepScopeProperties
  PROVE  PropTreeInv' /\ OP!OrderedPropsStep
<1> DEFINE marked == UNION {MarkedNodes(scope[s]) : s \in PTScopes}
           dead == NodesInUse(tree) \ marked
           f == CHOOSE h : IsSwept(h, tree, dead)
           t2 == f[PTMaxNodes]
<1>1. tree' = t2 /\ scope' = scope /\ torn' = torn
  BY Zenon DEF SweepScopeProperties, IsSwept
<1>2. TreeOK(tree) /\ torn \subseteq PTScopes /\ scope = [s \in PTScopes |-> scope[s]]
      /\ \A s \in PTScopes \ torn : \E C : Counts(tree, scope[s], C)
  BY DEF PropTreeInv, ScopesSound
<1>3. TreeOK(t2) /\ Shrinks(tree, t2, dead)
  <2> DEFINE ff == f
             dd == dead
  <2>1. dd \in SUBSET NodesInUse(tree) /\ ff = CHOOSE h : IsSwept(h, tree, dd)
    OBVIOUS
  <2> HIDE DEF ff, dd
  <2>2. TreeOK(ff[PTMaxNodes]) /\ Shrinks(tree, ff[PTMaxNodes], dd)
    BY <1>2, <2>1, SweptAll
  <2> QED BY <2>2 DEF ff, dd
<1> HIDE DEF f, t2
<1>4. ASSUME NEW s \in PTScopes \ torn, NEW C, Counts(tree, scope[s], C)
      PROVE Counts(t2, scope[s], C) /\ PropsIn(t2, scope[s]) = PropsIn(tree, scope[s])
  <2>1. MarkedNodes(scope[s]) = C
    BY <1>2, <1>4, CountedMarked
  <2>2. C \cap dead = {}
    BY <2>1
  <2> HIDE DEF dead
  <2>3. Counts(t2, scope[s], C) /\ PairsAt(t2, scope[s].lastProp, C) = PairsAt(tree, scope[s].lastProp, C)
    BY <1>2, <1>3, <1>4, <2>2, ShrinkKeeps
  <2> QED BY <1>2, <1>3, <1>4, <2>3, PropsInIs
<1> HIDE DEF dead
<1>5. ScopesSound(t2, scope, torn)
  BY <1>2, <1>3, <1>4 DEF ScopesSound
<1>6. PropsOf(t2, scope, torn) = PropsOf(tree, scope, torn)
  <2>1. \A s \in PTScopes \ torn : PropsIn(t2, scope[s]) = PropsIn(tree, scope[s])
    BY <1>2, <1>4
  <2> QED BY <2>1 DEF PropsOf
<1>7. PropTreeInv'
  BY <1>1, <1>5 DEF PropTreeInv
<1>8. [s \in PTScopes |-> Props(s)]' = [s \in PTScopes |-> Props(s)]
  BY <1>1, <1>6, PropsAreOf
<1>9. OP!OrderedPropsStep
  BY <1>1, <1>8 DEF OP!OrderedPropsStep
<1> QED BY <1>7, <1>9

\* The first state.
LEMMA PropTreeInit ==
  ASSUME PTInit
  PROVE  PropTreeInv /\ OP!OrderedPropsInit
<1> DEFINE b == 0
           r == [n \in PTNodes |-> 0]
<1>1. /\ tree = [nodes |-> [n \in PTNodes |-> FreeNode], roots |-> {}]
      /\ scope = [s \in PTScopes |-> EmptyScope] /\ torn = {}
  BY DEF PTInit
<1>2. TreeOK(tree)
  <2>1. tree.nodes = [n \in PTNodes |-> FreeNode] /\ tree.roots = {} /\ tree = [nodes |-> tree.nodes, roots |-> tree.roots]
    BY <1>1
  <2>2. tree.nodes \in [PTNodes -> NodeRecords] /\ \A n \in PTNodes : tree.nodes[n].parent = NoNode
    BY <2>1 DEF NodeRecords, FreeNode
  <2>3. Ranking(tree, r, b)
    BY <2>2 DEF Ranking
  <2>4. Treelike(tree)
    BY <2>2, <2>3 DEF Treelike, Ranked
  <2>5. NodesInUse(tree) = {}
    BY <2>1 DEF NodesInUse
  <2> QED BY <2>1, <2>4, <2>5 DEF TreeOK
<1>3. Counts(tree, EmptyScope, {}) /\ PairsAt(tree, EmptyScope.lastProp, {}) = <<>>
  BY <1>2, EmptyCounts
<1>4. PropTreeInv
  <2>1. torn \subseteq PTScopes /\ scope = [s \in PTScopes |-> scope[s]]
    BY <1>1
  <2>2. \A s \in PTScopes \ torn : scope[s] = EmptyScope
    BY <1>1
  <2>3. \A s \in PTScopes \ torn : \E C : Counts(tree, scope[s], C)
    BY <1>3, <2>2
  <2> QED BY <1>2, <2>1, <2>3 DEF PropTreeInv, ScopesSound
<1>5. PropsIn(tree, EmptyScope) = <<>>
  BY <1>2, <1>3, PropsInIs
<1>6. PropsOf(tree, scope, torn) = [s \in PTScopes |-> <<>>]
  BY <1>1, <1>5 DEF PropsOf
<1>7. OP!OrderedPropsInit
  BY <1>1, <1>6, PropsAreOf DEF OP!OrderedPropsInit
<1> QED BY <1>4, <1>7

\* Every step keeps the invariant and is a step of the ordered maps.
LEMMA PropTreeStep ==
  ASSUME PropTreeInv, PTNext
  PROVE  PropTreeInv' /\ OP!OrderedPropsStep
<1>1. ASSUME NEW s \in PTScopes, NEW e \in PTOffers[s], AddProperty(s, e[1], e[2])
      PROVE PropTreeInv' /\ OP!OrderedPropsStep
  <2> DEFINE ways == AddScopeProperty(tree, scope[s], e[1], e[2])
  <2>1. e[1] \in PTIds /\ e[2] \in PTAttrs
    BY PropTreeAssumption
  <2>2. Calls(s, ways)
    BY <1>1 DEF AddProperty
  <2>3. s \notin torn
    BY <2>2, CallIs
  <2>4. PICK C : Counts(tree, scope[s], C)
    BY <2>3 DEF PropTreeInv, ScopesSound
  <2>5. \A w \in ways : Added(tree, scope[s], C, e[1], e[2], w)
    BY <2>1, <2>4, ScopeAdded DEF PropTreeInv, ScopesSound
  <2> HIDE DEF ways
  <2> QED BY <2>1, <2>2, <2>4, <2>5, AddedStep
<1>2. ASSUME NEW s \in PTScopes, NEW e \in PTOffers[s], ChangeAttrs(s, e[1], e[2])
      PROVE PropTreeInv' /\ OP!OrderedPropsStep
  <2> DEFINE ways == ChangeScopePropertyAttrs(tree, scope[s], e[1], e[2])
  <2>1. e[1] \in PTIds /\ e[2] \in PTAttrs
    BY PropTreeAssumption
  <2>2. Calls(s, ways) /\ SearchScope(tree, scope[s], e[1]) # NoNode
    BY <1>2 DEF ChangeAttrs
  <2>3. s \notin torn
    BY <2>2, CallIs
  <2>4. PICK C : Counts(tree, scope[s], C)
    BY <2>3 DEF PropTreeInv, ScopesSound
  <2>5. \A w \in ways : Added(tree, scope[s], C, e[1], e[2], w)
    BY <2>1, <2>2, <2>4, ScopeChanged DEF PropTreeInv, ScopesSound
  <2> HIDE DEF ways
  <2> QED BY <2>1, <2>2, <2>4, <2>5, AddedStep
<1> QED BY <1>1, <1>2, RemoveStep, ClearStep, SweepStep DEF PTNext

\* What the ancestor line, the table and the counts of a scope say of each
\* other holds of any scope that counts some nodes of its line.
LEMMA CountsExact ==
  ASSUME PropTreeInv
  PROVE  LinesExact
<1> SUFFICES ASSUME NEW s \in PTScopes \ torn
             PROVE LET sc == scope[s]
                       listed == ListedProps(s)
                       line == ToSet(Line(tree, sc.lastProp))
                   IN /\ line \subseteq NodesInUse(tree)
                      /\ sc.lastProp # NoNode => HasProperty(tree, sc, sc.lastProp)
                      /\ Len(listed) = sc.entryCount
                      /\ \A i, j \in DOMAIN listed :
                           tree.nodes[listed[i]].id = tree.nodes[listed[j]].id => i = j
                      /\ sc.table # NoTable =>
                           \A id \in PTIds : sc.table[id] # NoNode =>
                               sc.table[id] \in line /\ tree.nodes[sc.table[id]].id = id
  BY Zenon DEF LinesExact
<1> DEFINE sc == scope[s]
           l == ListedProps(s)
           n == sc.lastProp
<1>1. TreeOK(tree) /\ \E C : Counts(tree, sc, C)
  BY DEF PropTreeInv, ScopesSound
<1>2. PICK C : Counts(tree, sc, C)
  BY <1>1
<1>3. Treelike(tree) /\ n \in PTNodes \cup {NoNode} /\ On(tree, n) \subseteq NodesInUse(tree) /\ C \subseteq On(tree, n)
      /\ DistinctIds(tree, C)
  BY <1>1, <1>2, CountsFacts
<1>4. l = LineIn(tree, n, C)
  BY <1>1, <1>2, ListedAre DEF ListedProps
<1>5. n # NoNode => HasProperty(tree, sc, n)
  <2> SUFFICES ASSUME n # NoNode PROVE HasProperty(tree, sc, n)
    OBVIOUS
  <2>1. n \in C
    BY <1>2 DEF Counts
  <2>2. n \in On(tree, sc.lastProp)
    BY <1>3, <2>1
  <2>3. SearchScope(tree, sc, tree.nodes[n].id) = IF n \in C THEN n ELSE NoNode
    BY <1>1, <1>2, <2>2, FoundIs
  <2> QED BY <2>1, <2>3 DEF HasProperty
<1>6. Len(l) = sc.entryCount
  BY <1>2, <1>4 DEF Counts
<1>7. \A i, j \in DOMAIN l : tree.nodes[l[i]].id = tree.nodes[l[j]].id => i = j
  <2> HIDE DEF l
  <2>1. l \in Seq(PTNodes) /\ ToSet(l) = On(tree, n) \cap C /\ NoTwice(l)
    BY <1>3, <1>4, LineTyped, LineIs
  <2>2. \A i \in DOMAIN l : l[i] \in C
    BY <2>1 DEF ToSet
  <2> QED BY <1>3, <2>1, <2>2 DEF DistinctIds, NoTwice
<1>8. sc.table # NoTable =>
        \A id \in PTIds : sc.table[id] # NoNode => sc.table[id] \in On(tree, n) /\ tree.nodes[sc.table[id]].id = id
  <2>1. sc.table # NoTable => \A id \in PTIds : Finds(tree, C, id, sc.table[id])
    BY <1>2 DEF Counts, TableFor
  <2> QED BY <1>3, <2>1 DEF Finds
<1>9. ToSet(Line(tree, sc.lastProp)) = On(tree, n)
  BY DEF On
<1> QED BY <1>3, <1>5, <1>6, <1>7, <1>8, <1>9

\* The inductive invariant holds in every state.
THEOREM PropTreeInvariant == PTSpec => []PropTreeInv
<1>1. PTInit => PropTreeInv
  BY PropTreeInit
<1>2. PropTreeInv /\ [PTNext]_treeVars => PropTreeInv'
  <2> SUFFICES ASSUME PropTreeInv, [PTNext]_treeVars PROVE PropTreeInv'
    OBVIOUS
  <2>1. CASE PTNext
    BY <2>1, PropTreeStep
  <2>2. CASE UNCHANGED treeVars
    BY <2>2 DEF treeVars, PropTreeInv
  <2> QED BY <2>1, <2>2
<1> QED BY <1>1, <1>2, PTL DEF PTSpec

\* ScopesAreOrderedMaps of every instance.
THEOREM OrderedMapsCorrect == PTSpec => ScopesAreOrderedMaps
<1>1. PTInit => OP!OrderedPropsInit
  BY PropTreeInit
<1>2. PropTreeInv => LinesExact
  BY CountsExact
<1>3. PropTreeInv /\ [PTNext]_treeVars => [UNCHANGED treeVars \/ OP!OrderedPropsStep]_treeVars
  BY PropTreeStep
<1> QED BY <1>1, <1>2, <1>3, PropTreeInvariant, PTL DEF PTSpec, ScopesAreOrderedMaps

\* ... which is a refinement.
THEOREM OrderedMapsRefined == PTSpec => OP!OrderedPropsSpec
<1>1. PTInit => OP!OrderedPropsInit
  BY PropTreeInit
<1>2. PropTreeInv /\ [PTNext]_treeVars
        => [OP!OrderedPropsNext]_<<[s \in PTScopes |-> Props(s)], torn>>
  <2> SUFFICES ASSUME PropTreeInv, [PTNext]_treeVars
               PROVE OP!OrderedPropsNext \/ UNCHANGED <<[s \in PTScopes |-> Props(s)], torn>>
    OBVIOUS
  <2>1. CASE PTNext
    BY <2>1, PropTreeStep DEF OP!OrderedPropsStep
  <2>2. CASE UNCHANGED treeVars
    <3>1. PropsOf(tree', scope', torn') = PropsOf(tree, scope, torn) /\ torn' = torn
      BY <2>2 DEF treeVars
    <3> QED BY <3>1, PropsAreOf
  <2> QED BY <2>1, <2>2
<1> QED BY <1>1, <1>2, PropTreeInvariant, PTL DEF PTSpec, OP!OrderedPropsSpec
=============================================================================
