--------------------------- MODULE StringsProofs ---------------------------
(***************************************************************************)
(* Theorems about Strings, for every finite set of string cells, every set *)
(* of buffers and texts, and every width of a dependent string's fields.   *)
(***************************************************************************)
EXTENDS Strings, FiniteSetTheorems, FunctionTheorems, SequenceTheorems, WellFoundedInduction, TLAPS

----------------------------------------------------------------------------
(* Numbers.                                                                *)

\* Every non-empty set of natural numbers has a least element.
LEMMA SmallestExists ==
  ASSUME NEW T \in SUBSET Nat, T # {}
  PROVE  \E m \in T : \A x \in T : m <= x
<1>1. PICK m \in T : \A x \in T : ~(<<x, m>> \in OpToRel(<, Nat))
  BY NatLessThanWellFounded, WFMin
<1>2. ASSUME NEW x \in T PROVE m <= x
  <2>1. ASSUME x < m PROVE <<x, m>> \in OpToRel(<, Nat)
    BY <2>1 DEF OpToRel
  <2>2. ~(x < m) /\ x \in Nat /\ m \in Nat
    BY <1>1, <2>1
  <2> QED BY ONLY <2>2
<1> QED BY <1>2

LEMMA Division ==
  \A i \in Nat, n \in Nat \ {0} :
     /\ i \div n \in Nat /\ i % n \in 0 .. n - 1
     /\ i = n * (i \div n) + (i % n)
OBVIOUS

LEMMA QuotientIs ==
  ASSUME NEW n \in Nat \ {0}, NEW i \in Nat, NEW q \in Nat, NEW r \in 0 .. n - 1, i = n * q + r
  PROVE  i \div n = q /\ i % n = r
OBVIOUS

----------------------------------------------------------------------------
(* What a cell says.                                                       *)

CellRecs == [live : BOOLEAN, dep : BOOLEAN, prefix : BOOLEAN, word : Nat,
             at : Strs \cup Buffers \cup {0}, mutable : BOOLEAN]

LEMMA CellIs ==
  ASSUME NEW c \in CellRecs
  PROVE  c = [live |-> c.live, dep |-> c.dep, prefix |-> c.prefix, word |-> c.word, at |-> c.at,
              mutable |-> c.mutable]
BY DEF CellRecs

LEMMA WordSays ==
  ASSUME NEW c \in CellRecs
  PROVE  /\ Length(c) \in Nat /\ StartOf(c) \in Nat /\ StartOf(c) <= DepStartMask
         /\ c.dep /\ ~c.prefix => Length(c) <= DepLengthMask
         /\ c.prefix => StartOf(c) = 0
         /\ ~c.dep \/ c.prefix => Length(c) = c.word
<1>1. c.word \in Nat /\ DepLengthMask \in Nat /\ DepStartMask \in Nat
  BY StringsAssumption DEF StringsAssumption, CellRecs
<1> DEFINE w == c.word
           q == w \div (DepLengthMask + 1)
<1>2. /\ q \in Nat /\ w % (DepLengthMask + 1) \in 0..DepLengthMask
      /\ q % (DepStartMask + 1) \in 0..DepStartMask
  <2>1. DepLengthMask + 1 \in Nat \ {0} /\ DepStartMask + 1 \in Nat \ {0}
    BY <1>1
  <2>2. q \in Nat /\ w % (DepLengthMask + 1) \in 0..(DepLengthMask + 1) - 1
    BY <1>1, <2>1, Division
  <2>3. q % (DepStartMask + 1) \in 0..(DepStartMask + 1) - 1
    BY <2>1, <2>2, Division
  <2> QED BY <1>1, <2>2, <2>3
<1> QED BY <1>1, <1>2 DEF Length, StartOf

LEMMA StretchSays ==
  ASSUME NEW c \in CellRecs, NEW start \in Nat, start <= DepStartMask, NEW n \in Nat, n <= DepLengthMask,
         NEW base \in Strs
  PROVE  /\ AsStretch(c, start, n, base) \in CellRecs
         /\ Length(AsStretch(c, start, n, base)) = n
         /\ StartOf(AsStretch(c, start, n, base)) = start
         /\ AsStretch(c, start, n, base).live = c.live /\ AsStretch(c, start, n, base).dep
         /\ AsStretch(c, start, n, base).mutable = c.mutable
         /\ AsStretch(c, start, n, base).at = base
<1> DEFINE m == DepLengthMask + 1
           w == start * m + n
           d == AsStretch(c, start, n, base)
<1>1. m \in Nat \ {0} /\ DepStartMask + 1 \in Nat \ {0} /\ DepStartMask \in Nat
  BY StringsAssumption DEF StringsAssumption
<1>2. n \in 0..m - 1 /\ start * m \in Nat
  BY <1>1, StringsAssumption DEF StringsAssumption
<1>3. w = m * start + n /\ w \in Nat
  BY <1>1, <1>2
<1>4. w \div m = start /\ w % m = n
  BY ONLY <1>1, <1>2, <1>3, start \in Nat, QuotientIs
<1>5. start % (DepStartMask + 1) = start
  <2>1. start = (DepStartMask + 1) * 0 + start /\ start \in 0..(DepStartMask + 1) - 1 /\ 0 \in Nat
    BY <1>1
  <2> QED BY ONLY <1>1, <2>1, start \in Nat, QuotientIs
<1>6. /\ d \in CellRecs
      /\ d.live = c.live /\ d.dep = TRUE /\ d.prefix = FALSE /\ d.word = w
      /\ d.at = base /\ d.mutable = c.mutable
  BY <1>1, <1>3 DEF AsStretch, CellRecs
<1>7. Length(d) = w % m /\ StartOf(d) = (w \div m) % (DepStartMask + 1)
  BY <1>6 DEF Length, StartOf
<1> QED BY <1>4, <1>5, <1>6, <1>7

LEMMA PrefixSays ==
  ASSUME NEW c \in CellRecs, NEW n \in Nat, NEW base \in Strs
  PROVE  /\ AsPrefix(c, n, base) \in CellRecs
         /\ Length(AsPrefix(c, n, base)) = n /\ StartOf(AsPrefix(c, n, base)) = 0
         /\ AsPrefix(c, n, base).live = c.live /\ AsPrefix(c, n, base).dep
         /\ AsPrefix(c, n, base).mutable = c.mutable
         /\ AsPrefix(c, n, base).at = base
<1> DEFINE d == AsPrefix(c, n, base)
<1>1. /\ d \in CellRecs
      /\ d.live = c.live /\ d.dep = TRUE /\ d.prefix = TRUE /\ d.word = n
      /\ d.at = base /\ d.mutable = c.mutable
  BY DEF AsPrefix, CellRecs
<1> QED BY <1>1 DEF CellRecs, Length, StartOf

LEMMA FlatSays ==
  ASSUME NEW c \in CellRecs, NEW n \in Nat, NEW b \in Buffers \cup {0}
  PROVE  /\ AsFlat(c, n, b) \in CellRecs
         /\ Length(AsFlat(c, n, b)) = n
         /\ AsFlat(c, n, b).live = c.live /\ ~AsFlat(c, n, b).dep
         /\ AsFlat(c, n, b).mutable = c.mutable
         /\ AsFlat(c, n, b).at = b
<1> DEFINE d == AsFlat(c, n, b)
<1>1. /\ d \in CellRecs
      /\ d.live = c.live /\ ~d.dep /\ d.word = n
      /\ d.at = b /\ d.mutable = c.mutable
  BY DEF AsFlat, CellRecs
<1> QED BY <1>1 DEF CellRecs, Length

LEMMA FreeSays == FreeCell \in CellRecs /\ ~FreeCell.live /\ ~FreeCell.dep
BY DEF FreeCell, CellRecs

----------------------------------------------------------------------------
(* What cells and buffers mean: val has the text of each live string, and  *)
(* rank goes down from a dependent string to its base.                     *)

Text == Seq(Chars)
Contents == Seq(Chars \cup {Nul})

\* The characters of s are those of t after the first k.
Lies(cs, val, s, t, k) ==
    /\ k \in Nat /\ k + Length(cs[s]) <= Length(cs[t])
    /\ k > 0 => Length(cs[s]) <= DepLengthMask
    /\ \A i \in 1..Length(cs[s]) : val[s][i] = val[t][k + i]

DepMeans(cs, val, rank, s) ==
    /\ cs[s].live /\ cs[s].mutable
    /\ cs[s].at \in Strs /\ cs[cs[s].at].live /\ rank[cs[s].at] < rank[s]
    /\ Lies(cs, val, s, cs[s].at, StartOf(cs[s]))

FlatMeans(cs, bufs, val, s) ==
    /\ cs[s].at \in Buffers \cup {0} /\ Length(cs[s]) < Len(bufs[cs[s].at])
    /\ \A i \in 1..Length(cs[s]) : bufs[cs[s].at][i] = val[s][i]

LiveFlat(cs, s) == cs[s].live /\ ~cs[s].dep

OneOwner(cs) ==
    \A s, t \in Strs : LiveFlat(cs, s) /\ LiveFlat(cs, t) /\ cs[s].at = cs[t].at => s = t

Means(cs, bufs, val, rank) ==
    /\ cs \in [Strs -> CellRecs]
    /\ bufs \in [Buffers \cup {0} -> Contents]
    /\ val \in [Strs -> Text]
    /\ rank \in [Strs -> Nat]
    /\ \A s \in Strs : cs[s].dep => DepMeans(cs, val, rank, s)
    /\ \A s \in Strs : LiveFlat(cs, s) => FlatMeans(cs, bufs, val, s)
    /\ \A s \in Strs : cs[s].live => Len(val[s]) = Length(cs[s])
    /\ OneOwner(cs)

LEMMA StrsAreFinite == IsFiniteSet(Strs) /\ Cardinality(Strs) \in Nat
<1>1. IsFiniteSet(StrCells \cup {Empty})
  BY StringsAssumption, FS_AddElement DEF StringsAssumption
<1> QED BY <1>1, FS_CardinalityType DEF Strs

LEMMA LengthIs ==
  ASSUME NEW cs, NEW bufs, NEW val, NEW rank, Means(cs, bufs, val, rank), NEW s \in Strs
  PROVE  /\ Length(cs[s]) \in Nat /\ StartOf(cs[s]) \in Nat /\ rank[s] \in Nat
         /\ cs[s] \in CellRecs /\ val[s] \in Text
BY WordSays DEF Means

LEMMA LiesThrough ==
  ASSUME NEW cs, NEW bufs, NEW val, NEW rank, Means(cs, bufs, val, rank),
         NEW s \in Strs, NEW t \in Strs, NEW u \in Strs, NEW k, NEW l,
         Lies(cs, val, s, t, k), Lies(cs, val, t, u, l)
  PROVE  Lies(cs, val, s, u, k + l)
<1>1. /\ Length(cs[s]) \in Nat /\ Length(cs[t]) \in Nat /\ Length(cs[u]) \in Nat
      /\ k \in Nat /\ l \in Nat
      /\ k + Length(cs[s]) <= Length(cs[t]) /\ l + Length(cs[t]) <= Length(cs[u])
      /\ DepLengthMask \in Nat
  BY LengthIs, StringsAssumption DEF Lies, StringsAssumption
<1>2. k + l \in Nat /\ k + l + Length(cs[s]) <= Length(cs[u])
  BY <1>1
<1>3. k + l > 0 => Length(cs[s]) <= DepLengthMask
  BY <1>1 DEF Lies
<1>4. ASSUME NEW i \in 1..Length(cs[s]) PROVE val[s][i] = val[u][k + l + i]
  <2>1. k + i \in 1..Length(cs[t]) /\ l + (k + i) = k + l + i
    BY <1>1
  <2>2. val[s][i] = val[t][k + i]
    BY DEF Lies
  <2>3. val[t][k + i] = val[u][l + (k + i)]
    BY <2>1 DEF Lies
  <2> QED BY <2>1, <2>2, <2>3
<1> QED BY <1>2, <1>3, <1>4 DEF Lies

LEMMA LiesInItself ==
  ASSUME NEW cs, NEW bufs, NEW val, NEW rank, Means(cs, bufs, val, rank), NEW s \in Strs
  PROVE  Lies(cs, val, s, s, 0)
<1>1. Length(cs[s]) \in Nat
  BY LengthIs
<1> QED BY <1>1 DEF Lies

----------------------------------------------------------------------------
(* The way from a string down to the one that owns the characters.         *)

Points == [str : Strs, skip : Nat]

Longer(cs, c) ==
    IF cs[c[Len(c)].str].dep THEN Append(c, BaseOf(cs, c[Len(c)])) ELSE c

\* c has the first n steps of the way down from s, or all there are.
IsChain(cs, s, n, c) ==
    /\ c \in Seq(Points) /\ Len(c) \in 1..n + 1
    /\ c[1] = [str |-> s, skip |-> 0]
    /\ \A i \in 1..Len(c) - 1 : cs[c[i].str].dep /\ c[i + 1] = BaseOf(cs, c[i])
    /\ Len(c) = n + 1 \/ ~cs[c[Len(c)].str].dep

IsDown(cs, s, f, n) ==
    f = [m \in 0..n |-> IF m = 0 THEN <<[str |-> s, skip |-> 0]>> ELSE Longer(cs, f[m - 1])]

LEMMA DownExists ==
  ASSUME NEW cs, NEW s, NEW limit \in Nat
  PROVE  \E f : IsDown(cs, s, f, limit)
<1> DEFINE Start == <<[str |-> s, skip |-> 0]>>
           Bad == {n \in Nat : ~\E f : IsDown(cs, s, f, n)}
<1>1. Bad = {}
  <2> SUFFICES ASSUME Bad # {} PROVE FALSE
    OBVIOUS
  <2>1. Bad \in SUBSET Nat
    OBVIOUS
  <2>2. PICK n \in Bad : \A x \in Bad : n <= x
    BY <2>1, SmallestExists
  <2>3. n \in Nat /\ ~\E f : IsDown(cs, s, f, n)
    OBVIOUS
  <2>4. n # 0
    <3>1. IsDown(cs, s, [x \in 0..0 |-> Start], 0)
      BY DEF IsDown
    <3> QED BY <2>3, <3>1
  <2>5. n - 1 \in Nat /\ n - 1 \notin Bad
    BY <2>2, <2>3, <2>4
  <2>6. PICK g : IsDown(cs, s, g, n - 1)
    BY <2>5
  <2> HIDE DEF Bad
  <2> DEFINE h == [x \in 0..n |-> IF x = n THEN Longer(cs, g[n - 1]) ELSE g[x]]
  <2>7. \A x \in 0..n - 1 : g[x] = IF x = 0 THEN Start ELSE Longer(cs, g[x - 1])
    BY <2>5, <2>6 DEF IsDown
  <2>8. \A x \in 0..n : h[x] = IF x = 0 THEN Start ELSE Longer(cs, h[x - 1])
    <3> TAKE x \in 0..n
    <3>1. CASE x = n
      <4>1. h[x] = Longer(cs, g[n - 1]) /\ h[n - 1] = g[n - 1]
        BY <2>3, <2>4, <3>1
      <4> QED BY <2>4, <3>1, <4>1
    <3>2. CASE x # n
      <4>1. x \in 0..n - 1 /\ h[x] = g[x]
        BY <2>3, <3>2
      <4>2. x # 0 => h[x - 1] = g[x - 1]
        BY <2>3, <4>1
      <4> HIDE DEF h
      <4> QED BY <2>7, <4>1, <4>2
    <3> QED BY <3>1, <3>2
  <2>9. IsDown(cs, s, h, n)
    <3> DEFINE b == [x \in 0..n |-> IF x = 0 THEN Start ELSE Longer(cs, h[x - 1])]
    <3>1. \A x \in 0..n : h[x] = b[x]
      BY <2>8
    <3>2. h = b
      BY <3>1
    <3> HIDE DEF h
    <3> QED BY <3>2 DEF IsDown
  <2> QED BY <2>3, <2>9
<1> QED BY <1>1

LEMMA BasesIsDown ==
  ASSUME NEW cs, NEW s
  PROVE  \E f : IsDown(cs, s, f, Cardinality(Strs)) /\ Bases(cs, s) = f[Cardinality(Strs)]
<1> DEFINE N == Cardinality(Strs)
           down == CHOOSE f : IsDown(cs, s, f, N)
<1>1. IsDown(cs, s, down, N)
  BY DownExists, StrsAreFinite
<1>2. Bases(cs, s) = down[N]
  BY DEF Bases, IsDown, Longer
<1> HIDE DEF down, N
<1>3. \E f : IsDown(cs, s, f, N) /\ Bases(cs, s) = f[N]
  BY <1>1, <1>2
<1> QED BY <1>3 DEF N

LEMMA ChainGrows ==
  ASSUME NEW cs, NEW bufs, NEW val, NEW rank, Means(cs, bufs, val, rank),
         NEW s \in Strs, NEW n \in Nat, NEW c, IsChain(cs, s, n, c)
  PROVE  IsChain(cs, s, n + 1, Longer(cs, c))
<1> DEFINE last == c[Len(c)]
           d == Longer(cs, c)
<1>1. c \in Seq(Points) /\ Len(c) \in Nat \ {0} /\ Len(c) <= n + 1 /\ last \in Points
  BY DEF IsChain
<1>2. CASE cs[last.str].dep
  <2>1. BaseOf(cs, last) \in Points
    <3>1. last.str \in Strs /\ last.skip \in Nat
      BY <1>1 DEF Points
    <3>2. cs[last.str].at \in Strs /\ StartOf(cs[last.str]) \in Nat
      BY <1>2, <3>1, LengthIs DEF Means, DepMeans
    <3> QED BY <3>1, <3>2 DEF BaseOf, Points
  <2>2. d = Append(c, BaseOf(cs, last)) /\ Len(c) = n + 1
    BY <1>2 DEF Longer, IsChain
  <2> DEFINE x == BaseOf(cs, last)
  <2> HIDE DEF x
  <2>3. d \in Seq(Points) /\ Len(d) = n + 2 /\ d[n + 2] = x /\ \A i \in 1..n + 1 : d[i] = c[i]
    BY <1>1, <2>1, <2>2 DEF x
  <2>4. d[1] = [str |-> s, skip |-> 0]
    BY <2>3 DEF IsChain
  <2>5. ASSUME NEW i \in 1..n + 1 PROVE cs[d[i].str].dep /\ d[i + 1] = BaseOf(cs, d[i])
    <3>1. CASE i = n + 1
      BY <1>2, <2>2, <2>3, <3>1 DEF x
    <3>2. CASE i # n + 1
      <4>1. i \in 1..Len(c) - 1 /\ i \in 1..n + 1 /\ i + 1 \in 1..n + 1
        BY <2>2, <3>2
      <4>2. d[i] = c[i] /\ d[i + 1] = c[i + 1]
        BY <2>3, <4>1
      <4> QED BY <4>1, <4>2 DEF IsChain
    <3> QED BY <3>1, <3>2
  <2> HIDE DEF d
  <2>6. Len(d) \in 1..(n + 1) + 1 /\ Len(d) = (n + 1) + 1 /\ Len(d) - 1 = n + 1
    BY <2>3
  <2>7. IsChain(cs, s, n + 1, d)
    BY <2>3, <2>4, <2>5, <2>6 DEF IsChain
  <2> QED BY <2>7 DEF d
<1>3. CASE ~cs[last.str].dep
  <2>1. d = c
    BY <1>3 DEF Longer
  <2> QED BY <1>1, <1>3, <2>1 DEF IsChain
<1> QED BY <1>2, <1>3

LEMMA BasesIsChain ==
  ASSUME NEW cs, NEW bufs, NEW val, NEW rank, Means(cs, bufs, val, rank), NEW s \in Strs
  PROVE  IsChain(cs, s, Cardinality(Strs), Bases(cs, s))
<1> DEFINE N == Cardinality(Strs)
<1>1. N \in Nat
  BY StrsAreFinite
<1>2. PICK f : IsDown(cs, s, f, N) /\ Bases(cs, s) = f[N]
  BY BasesIsDown
<1> HIDE DEF N
<1>3. \A m \in 0..N : f[m] = IF m = 0 THEN <<[str |-> s, skip |-> 0]>> ELSE Longer(cs, f[m - 1])
  BY <1>2 DEF IsDown
<1> DEFINE Bad == {m \in 0..N : ~IsChain(cs, s, m, f[m])}
<1>4. Bad = {}
  <2> SUFFICES ASSUME Bad # {} PROVE FALSE
    OBVIOUS
  <2>1. Bad \in SUBSET Nat
    BY <1>1
  <2>2. PICK m \in Bad : \A x \in Bad : m <= x
    BY <2>1, SmallestExists
  <2>3. m \in 0..N /\ ~IsChain(cs, s, m, f[m])
    OBVIOUS
  <2>4. m # 0
    <3> SUFFICES ASSUME m = 0 PROVE FALSE
      OBVIOUS
    <3> DEFINE c == <<[str |-> s, skip |-> 0]>>
    <3>1. f[0] = c
      BY <1>3, <2>3
    <3>2. c \in Seq(Points) /\ Len(c) = 1 /\ c[1] = [str |-> s, skip |-> 0]
      BY DEF Points
    <3> HIDE DEF c
    <3>3. IsChain(cs, s, 0, c)
      BY <3>2 DEF IsChain
    <3> QED BY <2>3, <3>1, <3>3
  <2>5. m - 1 \in Nat /\ m - 1 \in 0..N /\ m - 1 \notin Bad
    BY <1>1, <2>2, <2>3, <2>4
  <2>6. IsChain(cs, s, m - 1, f[m - 1])
    BY <2>5
  <2>7. IsChain(cs, s, (m - 1) + 1, Longer(cs, f[m - 1]))
    BY <2>5, <2>6, ChainGrows
  <2>8. f[m] = Longer(cs, f[m - 1]) /\ (m - 1) + 1 = m
    BY <1>1, <1>3, <2>3, <2>4
  <2> QED BY <2>3, <2>7, <2>8
<1>5. N \in 0..N
  BY <1>1
<1> QED BY <1>2, <1>4, <1>5 DEF N

\* From one string of a chain to a later one: the later one's characters begin earlier.
Leads(cs, val, rank, b, d) ==
    /\ b.skip <= d.skip
    /\ Lies(cs, val, b.str, d.str, d.skip - b.skip)

LEMMA ChainPoints ==
  ASSUME NEW cs, NEW s, NEW n \in Nat, NEW c, IsChain(cs, s, n, c), NEW i \in 1..Len(c)
  PROVE  /\ Len(c) \in Nat \ {0} /\ i \in Nat
         /\ c[i] \in Points /\ c[i].str \in Strs /\ c[i].skip \in Nat
<1>1. c \in Seq(Points) /\ Len(c) \in Nat \ {0}
  BY DEF IsChain
<1>2. c[i] \in Points /\ i \in Nat
  BY <1>1
<1> QED BY <1>1, <1>2 DEF Points

LEMMA NextOnChain ==
  ASSUME NEW cs, NEW bufs, NEW val, NEW rank, Means(cs, bufs, val, rank),
         NEW s, NEW n \in Nat, NEW c, IsChain(cs, s, n, c), NEW i \in 1..Len(c) - 1
  PROVE  /\ i \in 1..Len(c) /\ i + 1 \in 1..Len(c)
         /\ cs[c[i].str].dep /\ cs[c[i].str].at = c[i + 1].str
         /\ rank[c[i + 1].str] < rank[c[i].str]
         /\ c[i + 1].skip = c[i].skip + StartOf(cs[c[i].str])
         /\ Lies(cs, val, c[i].str, c[i + 1].str, StartOf(cs[c[i].str]))
<1>1. i \in 1..Len(c) /\ i + 1 \in 1..Len(c)
  BY DEF IsChain
<1>2. cs[c[i].str].dep /\ c[i + 1] = BaseOf(cs, c[i])
  BY DEF IsChain
<1>3. c[i].str \in Strs
  BY <1>1, ChainPoints
<1>4. c[i + 1].str = cs[c[i].str].at /\ c[i + 1].skip = c[i].skip + StartOf(cs[c[i].str])
  BY <1>2 DEF BaseOf
<1>5. DepMeans(cs, val, rank, c[i].str)
  BY <1>2, <1>3 DEF Means
<1> QED BY <1>1, <1>2, <1>4, <1>5 DEF DepMeans

LEMMA ChainLeads ==
  ASSUME NEW cs, NEW bufs, NEW val, NEW rank, Means(cs, bufs, val, rank),
         NEW s, NEW n \in Nat, NEW c, IsChain(cs, s, n, c), NEW i \in 1..Len(c), NEW j \in i..Len(c)
  PROVE  /\ Leads(cs, val, rank, c[i], c[j])
         /\ i < j => /\ rank[c[j].str] < rank[c[i].str]
                     /\ cs[c[j].str].live
                     /\ c[i].skip + StartOf(cs[c[i].str]) <= c[j].skip
<1> DEFINE Good(m) == /\ Leads(cs, val, rank, c[i], c[m])
                      /\ i < m => /\ rank[c[m].str] < rank[c[i].str]
                                  /\ cs[c[m].str].live
                                  /\ c[i].skip + StartOf(cs[c[i].str]) <= c[m].skip
           Bad == {m \in i..Len(c) : ~Good(m)}
<1>1. Len(c) \in Nat /\ i \in Nat
  BY ChainPoints
<1>2. Bad = {}
  <2> SUFFICES ASSUME Bad # {} PROVE FALSE
    OBVIOUS
  <2>1. Bad \in SUBSET Nat
    BY <1>1
  <2>2. PICK m \in Bad : \A x \in Bad : m <= x
    BY <2>1, SmallestExists
  <2>3. m \in i..Len(c) /\ ~Good(m)
    OBVIOUS
  <2>4. m # i
    <3>1. c[i].skip \in Nat /\ c[i].str \in Strs
      BY ChainPoints
    <3>2. c[i].skip - c[i].skip = 0 /\ c[i].skip <= c[i].skip
      BY <3>1
    <3>3. Leads(cs, val, rank, c[i], c[i])
      BY <3>1, <3>2, LiesInItself DEF Leads
    <3> QED BY <1>1, <2>3, <3>3
  <2> DEFINE l == m - 1
  <2>5. l \in i..Len(c) /\ l \in 1..Len(c) - 1 /\ l \in 1..Len(c) /\ l + 1 = m /\ l \notin Bad
    BY <1>1, <2>2, <2>3, <2>4
  <2>6. Good(l)
    BY <2>5
  <2> HIDE DEF l
  <2>7. /\ cs[c[l].str].dep /\ cs[c[l].str].at = c[m].str
        /\ rank[c[m].str] < rank[c[l].str]
        /\ c[m].skip = c[l].skip + StartOf(cs[c[l].str])
        /\ Lies(cs, val, c[l].str, c[m].str, StartOf(cs[c[l].str]))
        /\ m \in 1..Len(c)
    BY <2>5, NextOnChain
  <2>8. /\ c[i].str \in Strs /\ c[l].str \in Strs /\ c[m].str \in Strs
        /\ c[i].skip \in Nat /\ c[l].skip \in Nat /\ c[m].skip \in Nat
    BY <2>5, <2>7, ChainPoints
  <2>9. StartOf(cs[c[l].str]) \in Nat /\ rank[c[i].str] \in Nat /\ rank[c[l].str] \in Nat
        /\ rank[c[m].str] \in Nat /\ StartOf(cs[c[i].str]) \in Nat
    BY <2>8, LengthIs
  <2>10. Lies(cs, val, c[i].str, c[m].str, (c[l].skip - c[i].skip) + StartOf(cs[c[l].str]))
    BY <2>6, <2>7, <2>8, LiesThrough DEF Leads
  <2>11. Leads(cs, val, rank, c[i], c[m])
    <3>1. (c[l].skip - c[i].skip) + StartOf(cs[c[l].str]) = c[m].skip - c[i].skip
      BY <2>7, <2>8, <2>9
    <3>2. c[i].skip <= c[m].skip
      BY <2>6, <2>7, <2>8, <2>9 DEF Leads
    <3> QED BY <2>10, <3>1, <3>2 DEF Leads
  <2>12. cs[c[m].str].live
    <3>1. DepMeans(cs, val, rank, c[l].str)
      BY <2>7, <2>8 DEF Means
    <3> QED BY <2>7, <3>1 DEF DepMeans
  <2>13. rank[c[m].str] < rank[c[i].str]
    <3>1. CASE l = i
      BY <2>7, <3>1
    <3>2. CASE l # i
      <4>1. i < l
        BY <1>1, <2>5, <3>2
      <4> QED BY <2>6, <2>7, <2>9, <4>1
    <3> QED BY <3>1, <3>2
  <2>14. c[i].skip + StartOf(cs[c[i].str]) <= c[m].skip
    <3>1. CASE l = i
      BY <2>7, <2>8, <2>9, <3>1
    <3>2. CASE l # i
      <4>1. i < l
        BY <1>1, <2>5, <3>2
      <4>2. c[i].skip + StartOf(cs[c[i].str]) <= c[l].skip
        BY <2>6, <4>1
      <4> QED BY <2>7, <2>8, <2>9, <4>2
    <3> QED BY <3>1, <3>2
  <2> QED BY <2>3, <2>11, <2>12, <2>13, <2>14
<1>3. j \in i..Len(c) /\ j \notin Bad
  BY <1>2
<1> QED BY <1>3

LEMMA ChainEnds ==
  ASSUME NEW cs, NEW bufs, NEW val, NEW rank, Means(cs, bufs, val, rank),
         NEW s \in Strs, NEW c, IsChain(cs, s, Cardinality(Strs), c)
  PROVE  ~cs[c[Len(c)].str].dep
<1> DEFINE N == Cardinality(Strs)
           f == [i \in 1..N + 1 |-> c[i].str]
<1>1. N \in Nat /\ IsFiniteSet(Strs)
  BY StrsAreFinite
<1> SUFFICES ASSUME Len(c) = N + 1 PROVE FALSE
  BY DEF IsChain
<1>2. f \in [1..N + 1 -> Strs]
  BY <1>1, ChainPoints
<1>3. IsFiniteSet(1..N + 1) /\ Cardinality(1..N + 1) = N + 1
  <2>1. 1 \in Int /\ N + 1 \in Int /\ ~(1 > N + 1) /\ (N + 1) - 1 + 1 = N + 1
    BY <1>1
  <2> QED BY <2>1, FS_Interval
<1> HIDE DEF N
<1>4. \E x, y \in 1..N + 1 : x # y /\ f[x] = f[y]
  <2>1. Cardinality(Strs) < Cardinality(1..N + 1)
    BY <1>1, <1>3 DEF N
  <2> HIDE DEF f
  <2> QED BY ONLY <1>1, <1>2, <1>3, <2>1, FS_PigeonHole
<1>5. ASSUME NEW x \in 1..N + 1, NEW y \in 1..N + 1, x < y PROVE f[x] # f[y]
  <2>1. x \in 1..Len(c) /\ y \in x..Len(c)
    BY <1>1, <1>5
  <2>2. rank[c[y].str] < rank[c[x].str] /\ c[x].str \in Strs
    BY <1>1, <1>5, <2>1, ChainLeads, ChainPoints DEF N
  <2>3. rank[c[x].str] \in Nat
    BY <2>2, LengthIs
  <2>4. c[x].str # c[y].str
    BY <2>2, <2>3
  <2> QED BY <2>4
<1>6. PICK x, y \in 1..N + 1 : x # y /\ f[x] = f[y]
  BY <1>4
<1>7. x < y \/ y < x
  BY <1>1, <1>6
<1> QED BY <1>5, <1>6, <1>7

----------------------------------------------------------------------------
(* Reading a string's characters.                                          *)

LEMMA SubSeqIs ==
  ASSUME NEW S, NEW T, NEW v \in Seq(S), NEW u \in Seq(T), NEW k \in Nat, NEW n \in Nat, k + n <= Len(v),
         Len(u) = n, \A i \in 1..n : u[i] = v[k + i]
  PROVE  SubSeq(v, k + 1, k + n) = u
<1> DEFINE w == SubSeq(v, k + 1, k + n)
<1>1. k + 1 \in Int /\ k + n \in Int /\ Len(v) \in Nat
  OBVIOUS
<1>2. \A i \in (k + 1)..(k + n) : v[i] \in S
  <2>1. \A i \in (k + 1)..(k + n) : i \in 1..Len(v)
    BY <1>1
  <2> QED BY <2>1
<1>3. /\ w \in Seq(S) /\ Len(w) = IF k + 1 <= k + n THEN (k + n) - (k + 1) + 1 ELSE 0
      /\ \A i \in 1..(k + n) - (k + 1) + 1 : w[i] = v[k + 1 + i - 1]
  BY <1>1, <1>2, SubSeqProperties
<1> HIDE DEF w
<1>4. Len(w) = n
  BY <1>3
<1>5. \A i \in 1..n : w[i] = u[i]
  <2> TAKE i \in 1..n
  <2>1. i \in 1..(k + n) - (k + 1) + 1 /\ k + 1 + i - 1 = k + i
    OBVIOUS
  <2> QED BY <1>3, <2>1
<1>6. w = u
  BY <1>3, <1>4, <1>5, SeqEqual
<1> QED BY <1>6 DEF w

LEMMA OwnerIs ==
  ASSUME NEW cs, NEW bufs, NEW val, NEW rank, Means(cs, bufs, val, rank),
         NEW s \in Strs, cs[s].live, NEW c, c = Bases(cs, s)
  PROVE  /\ IsChain(cs, s, Cardinality(Strs), c)
         /\ Len(c) \in Nat \ {0}
         /\ Owner(c).str \in Strs /\ Owner(c).skip \in Nat
         /\ LiveFlat(cs, Owner(c).str)
         /\ Lies(cs, val, s, Owner(c).str, Owner(c).skip)
         /\ ~cs[s].dep => Owner(c).str = s /\ Owner(c).skip = 0
<1> DEFINE N == Cardinality(Strs)
           n == Len(c)
<1>1. IsChain(cs, s, N, c) /\ N \in Nat
  BY BasesIsChain, StrsAreFinite
<1>2. n \in Nat \ {0} /\ c[1] = [str |-> s, skip |-> 0]
  BY <1>1 DEF IsChain
<1>3. ~cs[c[n].str].dep
  BY <1>1, ChainEnds
<1>4. 1 \in 1..n /\ n \in 1..n /\ c[1].str = s /\ c[1].skip = 0
  BY <1>2
<1>5. c[n].str \in Strs /\ c[n].skip \in Nat
  BY <1>1, <1>4, ChainPoints
<1> HIDE DEF N
<1>6. Leads(cs, val, rank, c[1], c[n]) /\ (1 < n => cs[c[n].str].live)
  BY <1>1, <1>4, ChainLeads
<1>7. Lies(cs, val, s, c[n].str, c[n].skip)
  <2>1. c[n].skip - c[1].skip = c[n].skip
    BY <1>4, <1>5
  <2> QED BY <1>4, <1>6, <2>1 DEF Leads
<1>8. cs[c[n].str].live
  <2>1. CASE n = 1
    BY <1>4, <2>1
  <2>2. CASE n # 1
    <3>1. 1 < n
      BY <1>2, <2>2
    <3> QED BY <1>6, <3>1
  <2> QED BY <2>1, <2>2
<1>9. ~cs[s].dep => n = 1
  <2> SUFFICES ASSUME ~cs[s].dep, n # 1 PROVE FALSE
    OBVIOUS
  <2>1. 1 \in 1..n - 1
    BY <1>2
  <2>2. cs[c[1].str].dep
    BY <1>1, <2>1 DEF IsChain
  <2> QED BY <1>4, <2>2
<1> QED BY <1>1, <1>2, <1>3, <1>4, <1>5, <1>7, <1>8, <1>9 DEF Owner, LiveFlat, N

(* JSSTRING_CHARS finds the text: in the buffer of the string at the end of the chain. *)
LEMMA CharsRead ==
  ASSUME NEW cs, NEW bufs, NEW val, NEW rank, Means(cs, bufs, val, rank),
         NEW s \in Strs, cs[s].live
  PROVE  /\ \E o \in Strs : LiveFlat(cs, o) /\ CharsOf(cs, s).buffer = cs[o].at
                              /\ Lies(cs, val, s, o, CharsOf(cs, s).skip)
                              /\ (~cs[s].dep => o = s /\ CharsOf(cs, s).skip = 0)
         /\ CharsOf(cs, s).buffer \in Buffers \cup {0} /\ bufs[CharsOf(cs, s).buffer] # Freed
         /\ CharsOf(cs, s).skip \in Nat
         /\ CharsOf(cs, s).cells = Minimized(cs, Bases(cs, s))
         /\ TextIn(bufs, CharsOf(cs, s), Length(cs[s])) = val[s]
<1> DEFINE c == Bases(cs, s)
           o == Owner(c).str
           k == Owner(c).skip
           b == cs[o].at
           n == Length(cs[s])
<1>1. /\ o \in Strs /\ k \in Nat /\ LiveFlat(cs, o) /\ Lies(cs, val, s, o, k)
      /\ (~cs[s].dep => o = s /\ k = 0)
  BY OwnerIs
<1>2. CharsOf(cs, s).buffer = b /\ CharsOf(cs, s).skip = k /\ CharsOf(cs, s).cells = Minimized(cs, c)
  BY DEF CharsOf, CharsIn
<1> HIDE DEF c, o, k
<1>3. FlatMeans(cs, bufs, val, o)
  BY <1>1 DEF Means
<1>4. /\ b \in Buffers \cup {0} /\ bufs[b] \in Contents /\ Length(cs[o]) < Len(bufs[b])
      /\ n \in Nat /\ Length(cs[o]) \in Nat /\ Len(bufs[b]) \in Nat
  <2>1. b \in Buffers \cup {0} /\ Length(cs[o]) < Len(bufs[b])
    BY <1>3 DEF FlatMeans
  <2>2. n \in Nat /\ Length(cs[o]) \in Nat
    BY <1>1, LengthIs
  <2>3. bufs[b] \in Contents
    BY <2>1 DEF Means
  <2>4. Len(bufs[b]) \in Nat
    BY <2>3 DEF Contents
  <2> QED BY <2>1, <2>2, <2>3, <2>4
<1>5. bufs[b] # Freed
  BY <1>4 DEF Freed
<1>6. k + n <= Length(cs[o]) /\ k + n <= Len(bufs[b])
  BY <1>1, <1>4 DEF Lies
<1>7. val[s] \in Text /\ Len(val[s]) = n
  BY DEF Means
<1>8. ASSUME NEW i \in 1..n PROVE val[s][i] = bufs[b][k + i]
  <2>1. k + i \in 1..Length(cs[o])
    BY <1>1, <1>4, <1>6
  <2>2. val[s][i] = val[o][k + i]
    BY <1>1 DEF Lies
  <2> QED BY <1>3, <2>1, <2>2 DEF FlatMeans
<1> HIDE DEF b, n
<1>9. SubSeq(bufs[b], k + 1, k + n) = val[s]
  BY <1>1, <1>4, <1>6, <1>7, <1>8, SubSeqIs DEF Text, Contents
<1>10. TextIn(bufs, CharsOf(cs, s), n) = val[s]
  BY <1>2, <1>9 DEF TextIn
<1> QED BY <1>1, <1>2, <1>4, <1>5, <1>10 DEF b, n, c

----------------------------------------------------------------------------
(* js_MinimizeDependentStrings changes no text.                            *)

LEMMA AtSays ==
  ASSUME NEW c \in CellRecs, NEW a \in Strs \cup Buffers \cup {0}, NEW d, d = [c EXCEPT !.at = a]
  PROVE  /\ d \in CellRecs
         /\ d.live = c.live /\ d.dep = c.dep /\ d.mutable = c.mutable /\ d.at = a
         /\ d.prefix = c.prefix /\ d.word = c.word
         /\ Length(d) = Length(c) /\ StartOf(d) = StartOf(c)
<1>1. /\ d \in CellRecs
      /\ d.live = c.live /\ d.dep = c.dep /\ d.mutable = c.mutable /\ d.at = a
      /\ d.prefix = c.prefix /\ d.word = c.word
  BY DEF CellRecs
<1> QED BY <1>1 DEF Length, StartOf

LEMMA RebasedSays ==
  ASSUME NEW cs, NEW bufs, NEW val, NEW rank, Means(cs, bufs, val, rank),
         NEW t \in Strs, cs[t].dep, NEW o \in Strs, NEW k \in Nat, StartOf(cs[t]) <= k,
         Lies(cs, val, t, o, k), NEW r, r = Rebased(cs[t], k, o)
  PROVE  /\ r \in CellRecs /\ r.live = cs[t].live /\ r.dep /\ r.mutable = cs[t].mutable
         /\ Length(r) = Length(cs[t])
         /\ r = cs[t] \/ (r.at = o /\ StartOf(r) = k)
<1>1. cs[t] \in CellRecs /\ Length(cs[t]) \in Nat /\ StartOf(cs[t]) \in Nat
  BY LengthIs
<1>2. CASE k = 0
  <2>1. r = [cs[t] EXCEPT !.at = o]
    BY <1>2 DEF Rebased
  <2>2. StartOf(cs[t]) = 0
    BY <1>1, <1>2
  <2> QED BY <1>1, <1>2, <2>1, <2>2, AtSays
<1>3. CASE k # 0 /\ k <= DepStartMask
  <2>1. r = AsStretch(cs[t], k, Length(cs[t]), o)
    BY <1>3 DEF Rebased
  <2>2. Length(cs[t]) <= DepLengthMask
    BY <1>3 DEF Lies
  <2> QED BY <1>1, <1>3, <2>1, <2>2, StretchSays
<1>4. CASE k # 0 /\ ~(k <= DepStartMask)
  <2>1. r = cs[t]
    BY <1>4 DEF Rebased
  <2> QED BY <1>1, <2>1
<1> QED BY <1>2, <1>3, <1>4

\* Cells that say the same of every string, but for the base of some.
Alike(cs, ds) ==
    /\ ds \in [Strs -> CellRecs]
    /\ \A t \in Strs : /\ ds[t].live = cs[t].live /\ ds[t].dep = cs[t].dep
                       /\ ds[t].mutable = cs[t].mutable /\ Length(ds[t]) = Length(cs[t])
                       /\ ~cs[t].dep => ds[t] = cs[t]

LEMMA MinimizedMeans ==
  ASSUME NEW cs, NEW bufs, NEW val, NEW rank, Means(cs, bufs, val, rank),
         NEW s \in Strs, cs[s].live, NEW ds, ds = Minimized(cs, Bases(cs, s))
  PROVE  Means(ds, bufs, val, rank) /\ Alike(cs, ds)
<1> DEFINE c == Bases(cs, s)
           o == Owner(c).str
           N == Cardinality(Strs)
           place(t) == CHOOSE i \in DOMAIN c : c[i].str = t
           onWay == {c[i].str : i \in {j \in 1..Len(c) - 2 : j <= MinimizeLimit + 1}}
<1>1. /\ IsChain(cs, s, N, c) /\ N \in Nat
      /\ Len(c) \in Nat \ {0} /\ o \in Strs /\ LiveFlat(cs, o)
      /\ Owner(c) = c[Len(c)] /\ c \in Seq(Points)
  BY OwnerIs, StrsAreFinite DEF Owner, IsChain
<1>2. \A t \in Strs : ds[t] = IF t \notin onWay THEN cs[t]
                              ELSE Rebased(cs[t], Owner(c).skip - c[place(t)].skip, o)
  BY DEF Minimized
<1>3. DOMAIN ds = Strs /\ ds = [t \in Strs |-> ds[t]]
  BY DEF Minimized
<1> HIDE DEF c, o, N
<1>4. ASSUME NEW t \in Strs, t \in onWay
      PROVE  /\ cs[t].dep /\ rank[o] < rank[t]
             /\ \E k \in Nat : /\ ds[t] = Rebased(cs[t], k, o)
                               /\ StartOf(cs[t]) <= k /\ Lies(cs, val, t, o, k)
  <2>1. PICK i \in 1..Len(c) - 2 : c[i].str = t
    BY <1>4
  <2>2. i \in 1..Len(c) - 1 /\ i \in DOMAIN c
    BY <1>1
  <2>3. cs[t].dep
    BY <1>1, <2>1, <2>2 DEF IsChain
  <2>4. place(t) \in DOMAIN c /\ c[place(t)].str = t
    BY <2>1, <2>2
  <2> DEFINE j == place(t)
             m == Len(c)
  <2> HIDE DEF place
  <2>5. j \in 1..m /\ m \in Nat /\ j \in Nat
    BY <1>1, <2>4
  <2>6. j # m
    BY <1>1, <2>3, <2>4 DEF o, LiveFlat
  <2>7. j < m /\ m \in j..m
    BY <2>5, <2>6
  <2>8. /\ Leads(cs, val, rank, c[j], c[m]) /\ rank[c[m].str] < rank[c[j].str]
        /\ c[j].skip + StartOf(cs[c[j].str]) <= c[m].skip
    BY <1>1, <2>5, <2>7, ChainLeads
  <2>9. c[m].str = o /\ c[j].str = t /\ Owner(c).skip = c[m].skip
    BY <1>1, <2>4 DEF o
  <2>10. c[j].skip \in Nat /\ c[m].skip \in Nat /\ StartOf(cs[t]) \in Nat
    <3>1. m \in 1..m
      BY <1>1
    <3> QED BY <1>1, <2>5, <3>1, ChainPoints, LengthIs
  <2> DEFINE k == Owner(c).skip - c[j].skip
  <2>11. k \in Nat /\ StartOf(cs[t]) <= k
    BY <2>8, <2>9, <2>10
  <2>12. Lies(cs, val, t, o, k) /\ rank[o] < rank[t]
    BY <2>8, <2>9 DEF Leads
  <2>13. ds[t] = Rebased(cs[t], k, o)
    BY <1>2, <1>4
  <2> QED BY <2>3, <2>11, <2>12, <2>13
<1>5. ASSUME NEW t \in Strs
      PROVE  /\ ds[t] \in CellRecs /\ ds[t].live = cs[t].live /\ ds[t].dep = cs[t].dep
             /\ ds[t].mutable = cs[t].mutable /\ Length(ds[t]) = Length(cs[t])
             /\ ~cs[t].dep => ds[t] = cs[t]
             /\ ds[t] = cs[t] \/ /\ cs[t].dep /\ ds[t].at = o /\ rank[o] < rank[t]
                                 /\ Lies(cs, val, t, o, StartOf(ds[t]))
  <2>1. CASE t \notin onWay
    BY <1>2, <2>1, LengthIs
  <2>2. CASE t \in onWay
    <3>1. PICK k \in Nat : /\ ds[t] = Rebased(cs[t], k, o)
                           /\ StartOf(cs[t]) <= k /\ Lies(cs, val, t, o, k)
      BY <1>4, <2>2
    <3>2. cs[t].dep /\ rank[o] < rank[t]
      BY <1>4, <2>2
    <3>3. /\ ds[t] \in CellRecs /\ ds[t].live = cs[t].live /\ ds[t].dep
          /\ ds[t].mutable = cs[t].mutable /\ Length(ds[t]) = Length(cs[t])
          /\ ds[t] = cs[t] \/ (ds[t].at = o /\ StartOf(ds[t]) = k)
      BY <1>1, <3>1, <3>2, RebasedSays
    <3>4. ds[t].dep = cs[t].dep
      <4>1. ds[t].dep \in BOOLEAN /\ cs[t].dep \in BOOLEAN
        BY <3>3, LengthIs DEF CellRecs
      <4> QED BY <3>2, <3>3, <4>1
    <3> QED BY <3>1, <3>2, <3>3, <3>4
  <2> QED BY <2>1, <2>2
<1> HIDE DEF onWay, place
<1>6. Alike(cs, ds)
  <2>1. ds \in [Strs -> CellRecs]
    BY <1>3, <1>5
  <2> QED BY <1>5, <2>1 DEF Alike
<1>7. ASSUME NEW t \in Strs, ds[t].dep PROVE DepMeans(ds, val, rank, t)
  <2>1. DepMeans(cs, val, rank, t)
    BY <1>5, <1>7 DEF Means
  <2>2. /\ ds[t].at \in Strs /\ cs[ds[t].at].live /\ rank[ds[t].at] < rank[t]
        /\ Lies(cs, val, t, ds[t].at, StartOf(ds[t]))
    <3>1. CASE ds[t] = cs[t]
      BY <2>1, <3>1 DEF DepMeans
    <3>2. CASE ds[t] # cs[t]
      BY <1>1, <1>5, <3>2 DEF LiveFlat
    <3> QED BY <3>1, <3>2
  <2>3. Length(ds[t]) = Length(cs[t]) /\ Length(ds[ds[t].at]) = Length(cs[ds[t].at])
    BY <1>5, <2>2
  <2>4. Lies(ds, val, t, ds[t].at, StartOf(ds[t]))
    BY <2>2, <2>3 DEF Lies
  <2> QED BY <1>5, <2>1, <2>2, <2>4 DEF DepMeans
<1>8. ASSUME NEW t \in Strs, LiveFlat(ds, t) PROVE LiveFlat(cs, t) /\ ds[t] = cs[t]
  BY <1>5, <1>8 DEF LiveFlat
<1>9. ASSUME NEW t \in Strs, LiveFlat(ds, t) PROVE FlatMeans(ds, bufs, val, t)
  BY <1>8, <1>9 DEF FlatMeans, Means
<1>10. OneOwner(ds)
  BY <1>8 DEF OneOwner, Means
<1>11. \A t \in Strs : ds[t].live => Len(val[t]) = Length(ds[t])
  BY <1>5 DEF Means
<1>12. Means(ds, bufs, val, rank)
  BY <1>6, <1>7, <1>9, <1>10, <1>11 DEF Means, Alike
<1> QED BY <1>6, <1>12

----------------------------------------------------------------------------
(* What changes the cells.                                                 *)

\* A cell d for a string that owns its characters.
OwnerCell(d, n, b) == d \in CellRecs /\ d.live /\ ~d.dep /\ Length(d) = n /\ d.at = b

\* s gets a buffer of its own: a fresh string, or a dependent one that keeps its text.
LEMMA PutFlatMeans ==
  ASSUME NEW cs, NEW bufs, NEW val, NEW rank, Means(cs, bufs, val, rank),
         NEW s \in Strs, ~LiveFlat(cs, s), NEW b \in Buffers, bufs[b] = Freed, NEW text \in Text,
         cs[s].live => text = val[s], NEW d, OwnerCell(d, Len(text), b),
         NEW ds, ds = [cs EXCEPT ![s] = d]
  PROVE  Means(ds, [bufs EXCEPT ![b] = Append(text, Nul)], [val EXCEPT ![s] = text], rank)
<1> DEFINE bufs2 == [bufs EXCEPT ![b] = Append(text, Nul)]
           val2 == [val EXCEPT ![s] = text]
           n == Len(text)
<1>1. n \in Nat /\ d \in CellRecs /\ d.live /\ ~d.dep /\ Length(d) = n /\ d.at = b
  BY DEF OwnerCell, Text
<1>2. /\ Append(text, Nul) \in Contents /\ Len(Append(text, Nul)) = n + 1
      /\ \A i \in 1..n : Append(text, Nul)[i] = text[i]
  <2>1. text \in Seq(Chars \cup {Nul}) /\ Nul \in Chars \cup {Nul}
    BY DEF Text
  <2> QED BY <2>1 DEF Contents
<1> DEFINE full == Append(text, Nul)
<1> HIDE DEF full, n
<1>3. /\ ds \in [Strs -> CellRecs] /\ bufs2 \in [Buffers \cup {0} -> Contents] /\ val2 \in [Strs -> Text]
      /\ ds[s] = d /\ bufs2[b] = full /\ val2[s] = text
      /\ \A t \in Strs : t # s => ds[t] = cs[t] /\ val2[t] = val[t]
      /\ \A x \in Buffers \cup {0} : x # b => bufs2[x] = bufs[x]
  BY <1>1, <1>2 DEF Means, full
<1> HIDE DEF bufs2, val2
<1>4. cs[s].live => val2[s] = val[s] /\ Length(cs[s]) = n /\ Length(ds[s]) = Length(cs[s])
  BY <1>1, <1>3 DEF Means, n
<1>5. ASSUME NEW t \in Strs, cs[t].live
      PROVE  ds[t].live /\ val2[t] = val[t] /\ Length(ds[t]) = Length(cs[t])
  BY <1>1, <1>3, <1>4, <1>5
<1>6. ASSUME NEW t \in Strs, ds[t].dep PROVE DepMeans(ds, val2, rank, t)
  <2>1. t # s /\ ds[t] = cs[t]
    BY <1>1, <1>3, <1>6
  <2>2. DepMeans(cs, val, rank, t)
    BY <1>6, <2>1 DEF Means
  <2> DEFINE a == cs[t].at
  <2>3. a \in Strs /\ cs[a].live /\ cs[t].live
    BY <2>2 DEF DepMeans
  <2>4. ds[a].live /\ val2[a] = val[a] /\ Length(ds[a]) = Length(cs[a]) /\ val2[t] = val[t]
    BY <1>5, <2>3
  <2> QED BY <2>1, <2>2, <2>4 DEF DepMeans, Lies
<1>7. ASSUME NEW t \in Strs, LiveFlat(ds, t), t # s
      PROVE  LiveFlat(cs, t) /\ ds[t] = cs[t] /\ FlatMeans(cs, bufs, val, t) /\ cs[t].at # b
  <2>1. LiveFlat(cs, t) /\ ds[t] = cs[t]
    BY <1>3, <1>7 DEF LiveFlat
  <2>2. FlatMeans(cs, bufs, val, t)
    BY <2>1 DEF Means
  <2>3. Length(cs[t]) \in Nat /\ Len(Freed) = 0
    BY LengthIs DEF Freed
  <2>4. cs[t].at # b
    BY <2>2, <2>3 DEF FlatMeans
  <2> QED BY <2>1, <2>2, <2>4
<1>8. ASSUME NEW t \in Strs, LiveFlat(ds, t) PROVE FlatMeans(ds, bufs2, val2, t)
  <2>1. CASE t = s
    BY <1>1, <1>2, <1>3, <2>1 DEF FlatMeans, full
  <2>2. CASE t # s
    BY <1>3, <1>7, <1>8, <2>2 DEF FlatMeans
  <2> QED BY <2>1, <2>2
<1>9. OneOwner(ds)
  <2> SUFFICES ASSUME NEW t \in Strs, NEW u \in Strs, LiveFlat(ds, t), LiveFlat(ds, u), ds[t].at = ds[u].at
               PROVE  t = u
    BY DEF OneOwner
  <2>1. CASE t = s \/ u = s
    BY <1>1, <1>3, <1>7, <2>1
  <2>2. CASE t # s /\ u # s
    BY <1>7, <2>2 DEF OneOwner, Means
  <2> QED BY <2>1, <2>2
<1>10. \A t \in Strs : ds[t].live => Len(val2[t]) = Length(ds[t])
  BY <1>1, <1>3 DEF Means, n
<1>11. rank \in [Strs -> Nat]
  BY DEF Means
<1> HIDE DEF DepMeans
<1>12. Means(ds, bufs2, val2, rank)
  BY <1>3, <1>6, <1>8, <1>9, <1>10, <1>11 DEF Means
<1> QED BY <1>12 DEF bufs2, val2

\* A fresh string becomes dependent on base.
LEMMA PutDepMeans ==
  ASSUME NEW cs, NEW bufs, NEW val, NEW rank, Means(cs, bufs, val, rank),
         NEW s \in Strs, ~cs[s].live, NEW base \in Strs, cs[base].live,
         NEW start \in Nat, NEW n \in Nat, start + n <= Length(cs[base]), start > 0 => n <= DepLengthMask,
         NEW d \in CellRecs, d.live, d.dep, d.mutable, d.at = base, Length(d) = n, StartOf(d) = start,
         NEW text, text = SubSeq(val[base], start + 1, start + n),
         NEW ds, ds = [cs EXCEPT ![s] = d]
  PROVE  /\ text \in Text
         /\ Means(ds, bufs, [val EXCEPT ![s] = text], [rank EXCEPT ![s] = rank[base] + 1])
<1> DEFINE val2 == [val EXCEPT ![s] = text]
           rank2 == [rank EXCEPT ![s] = rank[base] + 1]
<1>1. val[base] \in Text /\ Len(val[base]) = Length(cs[base]) /\ Length(cs[base]) \in Nat
      /\ rank[base] \in Nat /\ base # s
  BY LengthIs DEF Means
<1>2. text \in Text /\ Len(text) = n /\ \A i \in 1..n : text[i] = val[base][start + i]
  <2>1. start + 1 \in Int /\ start + n \in Int
    OBVIOUS
  <2>2. \A i \in (start + 1)..(start + n) : val[base][i] \in Chars
    <3>1. \A i \in (start + 1)..(start + n) : i \in 1..Len(val[base])
      BY <1>1
    <3> QED BY <1>1, <3>1 DEF Text
  <2>3. /\ text \in Seq(Chars)
        /\ Len(text) = IF start + 1 <= start + n THEN (start + n) - (start + 1) + 1 ELSE 0
        /\ \A i \in 1..(start + n) - (start + 1) + 1 : text[i] = val[base][start + 1 + i - 1]
    BY <2>1, <2>2, SubSeqProperties
  <2>4. ASSUME NEW i \in 1..n PROVE text[i] = val[base][start + i]
    <3>1. i \in 1..(start + n) - (start + 1) + 1 /\ start + 1 + i - 1 = start + i
      BY ONLY start \in Nat, n \in Nat, i \in 1..n
    <3> QED BY <2>3, <3>1
  <2> QED BY <2>3, <2>4 DEF Text
<1>3. /\ ds \in [Strs -> CellRecs] /\ val2 \in [Strs -> Text] /\ rank2 \in [Strs -> Nat]
      /\ ds[s] = d /\ val2[s] = text /\ rank2[s] = rank[base] + 1
      /\ \A t \in Strs : t # s => ds[t] = cs[t] /\ val2[t] = val[t] /\ rank2[t] = rank[t]
  BY <1>1, <1>2 DEF Means
<1> HIDE DEF val2, rank2
<1>4. ASSUME NEW t \in Strs, ds[t].dep PROVE DepMeans(ds, val2, rank2, t)
  <2>1. CASE t = s
    <3>1. Length(ds[s]) = n /\ StartOf(ds[s]) = start /\ ds[base] = cs[base] /\ val2[base] = val[base]
          /\ ds[s].at = base
      BY <1>1, <1>3
    <3>2. Lies(ds, val2, s, base, start)
      BY <1>2, <1>3, <3>1 DEF Lies
    <3>3. rank2[base] < rank2[s]
      BY <1>1, <1>3
    <3> QED BY <1>3, <2>1, <3>1, <3>2, <3>3 DEF DepMeans
  <2>2. CASE t # s
    <3>1. ds[t] = cs[t] /\ DepMeans(cs, val, rank, t)
      BY <1>3, <1>4, <2>2 DEF Means
    <3> DEFINE a == cs[t].at
    <3>2. a \in Strs /\ cs[a].live
      BY <3>1 DEF DepMeans
    <3>3. ds[a] = cs[a] /\ val2[a] = val[a] /\ rank2[a] = rank[a] /\ val2[t] = val[t] /\ rank2[t] = rank[t]
      BY <1>3, <2>2, <3>2
    <3> QED BY <3>1, <3>2, <3>3 DEF DepMeans, Lies
  <2> QED BY <2>1, <2>2
<1>5. ASSUME NEW t \in Strs, LiveFlat(ds, t) PROVE t # s /\ LiveFlat(cs, t) /\ ds[t] = cs[t]
  BY <1>3, <1>5 DEF LiveFlat
<1>6. ASSUME NEW t \in Strs, LiveFlat(ds, t) PROVE FlatMeans(ds, bufs, val2, t)
  <2>1. FlatMeans(cs, bufs, val, t)
    BY <1>5, <1>6 DEF Means
  <2> QED BY <1>3, <1>5, <1>6, <2>1 DEF FlatMeans
<1>7. OneOwner(ds)
  BY <1>5 DEF OneOwner, Means
<1>8. \A t \in Strs : ds[t].live => Len(val2[t]) = Length(ds[t])
  BY <1>2, <1>3 DEF Means
<1>9. Means(ds, bufs, val2, rank2)
  BY <1>3, <1>4, <1>6, <1>7, <1>8 DEF Means
<1> QED BY <1>2, <1>9 DEF val2, rank2

\* A string that owns its characters is told whether native code has seen them, or not.
LEMMA PutSameMeans ==
  ASSUME NEW cs, NEW bufs, NEW val, NEW rank, Means(cs, bufs, val, rank),
         NEW s \in Strs, LiveFlat(cs, s), NEW d, OwnerCell(d, Length(cs[s]), cs[s].at),
         NEW ds, ds = [cs EXCEPT ![s] = d]
  PROVE  Means(ds, bufs, val, rank)
<1>1. d \in CellRecs /\ d.live /\ ~d.dep /\ Length(d) = Length(cs[s]) /\ d.at = cs[s].at
  BY DEF OwnerCell
<1>2. /\ ds \in [Strs -> CellRecs] /\ ds[s] = d
      /\ \A t \in Strs : t # s => ds[t] = cs[t]
  BY <1>1 DEF Means
<1>3. \A t \in Strs : /\ Length(ds[t]) = Length(cs[t]) /\ ds[t].at = cs[t].at
                      /\ (ds[t].live <=> cs[t].live) /\ (ds[t].dep <=> cs[t].dep)
  BY <1>1, <1>2 DEF LiveFlat
<1>4. ASSUME NEW t \in Strs, ds[t].dep PROVE DepMeans(ds, val, rank, t)
  <2>1. t # s /\ ds[t] = cs[t] /\ DepMeans(cs, val, rank, t)
    BY <1>1, <1>2, <1>4 DEF Means
  <2> QED BY <1>3, <2>1 DEF DepMeans, Lies
<1>5. ASSUME NEW t \in Strs, LiveFlat(ds, t) PROVE LiveFlat(cs, t) /\ FlatMeans(ds, bufs, val, t)
  <2>1. LiveFlat(cs, t) /\ FlatMeans(cs, bufs, val, t)
    BY <1>3, <1>5 DEF LiveFlat, Means
  <2> QED BY <1>3, <2>1 DEF FlatMeans
<1>6. OneOwner(ds)
  BY <1>3, <1>5 DEF OneOwner, Means
<1>7. \A t \in Strs : ds[t].live => Len(val[t]) = Length(ds[t])
  BY <1>3 DEF Means
<1> QED BY <1>2, <1>4, <1>5, <1>6, <1>7 DEF Means

\* The buffer of a string moves.
LEMMA MovedMeans ==
  ASSUME NEW cs, NEW bufs, NEW val, NEW rank, Means(cs, bufs, val, rank),
         NEW s \in Strs, LiveFlat(cs, s), NEW b \in Buffers, bufs[b] = Freed,
         NEW new \in Contents, Length(cs[s]) < Len(new), \A i \in 1..Length(cs[s]) : new[i] = val[s][i],
         NEW ds, ds = [cs EXCEPT ![s].at = b],
         NEW bufs2, bufs2 = [bufs EXCEPT ![cs[s].at] = Freed, ![b] = new]
  PROVE  Means(ds, bufs2, val, rank)
<1> DEFINE d == [cs[s] EXCEPT !.at = b]
           old == cs[s].at
<1>1. /\ ds = [cs EXCEPT ![s] = d]
      /\ d \in CellRecs /\ d.live = cs[s].live /\ d.dep = cs[s].dep /\ d.mutable = cs[s].mutable
      /\ d.at = b /\ Length(d) = Length(cs[s])
  BY LengthIs, AtSays
<1> HIDE DEF d
<1>2. /\ ds \in [Strs -> CellRecs] /\ ds[s] = d
      /\ \A t \in Strs : t # s => ds[t] = cs[t]
  BY <1>1 DEF Means
<1>3. FlatMeans(cs, bufs, val, s) /\ Length(cs[s]) \in Nat /\ Len(Freed) = 0
  BY LengthIs DEF Means, Freed
<1>4. old \in Buffers \cup {0} /\ old # b
  BY <1>3 DEF FlatMeans
<1>5. /\ bufs2 \in [Buffers \cup {0} -> Contents] /\ bufs2[b] = new
      /\ \A x \in Buffers \cup {0} : x # b /\ x # old => bufs2[x] = bufs[x]
  <2>1. Freed \in Contents
    BY DEF Freed, Contents
  <2> QED BY <1>4, <2>1 DEF Means
<1>6. \A t \in Strs : /\ Length(ds[t]) = Length(cs[t]) /\ (t # s => ds[t].at = cs[t].at)
                      /\ (ds[t].live <=> cs[t].live) /\ (ds[t].dep <=> cs[t].dep)
  BY <1>1, <1>2 DEF LiveFlat
<1>7. ASSUME NEW t \in Strs, ds[t].dep PROVE DepMeans(ds, val, rank, t)
  <2>1. t # s /\ ds[t] = cs[t] /\ DepMeans(cs, val, rank, t)
    BY <1>1, <1>2, <1>7 DEF Means, LiveFlat
  <2> QED BY <1>6, <2>1 DEF DepMeans, Lies
<1>8. ASSUME NEW t \in Strs, LiveFlat(ds, t), t # s
      PROVE  LiveFlat(cs, t) /\ cs[t].at # b /\ cs[t].at # old /\ FlatMeans(cs, bufs, val, t)
  <2>1. LiveFlat(cs, t)
    BY <1>6, <1>8 DEF LiveFlat
  <2>2. FlatMeans(cs, bufs, val, t)
    BY <2>1 DEF Means
  <2>3. Length(cs[t]) \in Nat
    BY LengthIs
  <2>4. cs[t].at # b
    BY <1>3, <2>2, <2>3 DEF FlatMeans
  <2>5. cs[t].at # old
    BY <1>8, <2>1 DEF Means, OneOwner
  <2> QED BY <2>1, <2>2, <2>4, <2>5
<1>9. ASSUME NEW t \in Strs, LiveFlat(ds, t) PROVE FlatMeans(ds, bufs2, val, t)
  <2>1. CASE t = s
    BY <1>1, <1>2, <1>5, <1>6, <2>1 DEF FlatMeans
  <2>2. CASE t # s
    BY <1>5, <1>6, <1>8, <1>9, <2>2 DEF FlatMeans
  <2> QED BY <2>1, <2>2
<1>10. OneOwner(ds)
  <2> SUFFICES ASSUME NEW t \in Strs, NEW u \in Strs, LiveFlat(ds, t), LiveFlat(ds, u), ds[t].at = ds[u].at
               PROVE  t = u
    BY DEF OneOwner
  <2>1. CASE t = s \/ u = s
    BY <1>1, <1>2, <1>6, <1>8, <2>1
  <2>2. CASE t # s /\ u # s
    BY <1>6, <1>8, <2>2 DEF OneOwner, Means
  <2> QED BY <2>1, <2>2
<1>11. \A t \in Strs : ds[t].live => Len(val[t]) = Length(ds[t])
  BY <1>6 DEF Means
<1> HIDE DEF old
<1> QED BY <1>2, <1>5, <1>7, <1>9, <1>10, <1>11 DEF Means

\* left gives its buffer, grown to text, to the fresh string s, and becomes a prefix of it.
HandsOver(cs, ds, bufs, left, s, text, d, p) ==
    /\ LiveFlat(cs, left) /\ ~cs[s].live
    /\ text \in Text /\ bufs[cs[left].at] = Append(text, Nul) /\ Length(cs[left]) <= Len(text)
    /\ OwnerCell(d, Len(text), cs[left].at)
    /\ p \in CellRecs /\ p.live /\ p.dep /\ p.mutable /\ p.at = s
    /\ Length(p) = Length(cs[left]) /\ StartOf(p) = 0
    /\ ds \in [Strs -> CellRecs] /\ ds[s] = d /\ ds[left] = p
    /\ \A t \in Strs : t # s /\ t # left => ds[t] = cs[t]

LEMMA HandedOverMeans ==
  ASSUME NEW cs, NEW bufs, NEW val, NEW rank, Means(cs, bufs, val, rank),
         NEW left \in Strs, NEW s \in Strs, NEW text, NEW d, NEW p, NEW ds,
         HandsOver(cs, ds, bufs, left, s, text, d, p)
  PROVE  \E rank2 : Means(ds, bufs, [val EXCEPT ![s] = text], rank2)
<1>0. /\ LiveFlat(cs, left) /\ ~cs[s].live
      /\ text \in Text /\ bufs[cs[left].at] = Append(text, Nul) /\ Length(cs[left]) <= Len(text)
      /\ OwnerCell(d, Len(text), cs[left].at)
      /\ p \in CellRecs /\ p.live /\ p.dep /\ p.mutable /\ p.at = s
      /\ Length(p) = Length(cs[left]) /\ StartOf(p) = 0
      /\ ds \in [Strs -> CellRecs] /\ ds[s] = d /\ ds[left] = p
      /\ \A t \in Strs : t # s /\ t # left => ds[t] = cs[t]
  BY DEF HandsOver
<1> USE <1>0
<1> DEFINE val2 == [val EXCEPT ![s] = text]
           rank2 == [t \in Strs |-> IF t = s THEN 0 ELSE rank[t] + 1]
           n == Len(text)
           b == cs[left].at
<1>1. d \in CellRecs /\ d.live /\ ~d.dep /\ Length(d) = n /\ d.at = b
  BY DEF OwnerCell
<1>2. left # s /\ n \in Nat /\ Length(cs[left]) \in Nat
  BY LengthIs DEF LiveFlat, Text
<1>3. /\ val2 \in [Strs -> Text] /\ rank2 \in [Strs -> Nat]
      /\ val2[s] = text /\ rank2[s] = 0
      /\ \A t \in Strs : t # s => val2[t] = val[t] /\ rank2[t] = rank[t] + 1
  BY DEF Means
<1>4. /\ Append(text, Nul) \in Contents /\ Len(Append(text, Nul)) = n + 1
      /\ \A i \in 1..n : Append(text, Nul)[i] = text[i]
  <2>1. text \in Seq(Chars \cup {Nul}) /\ Nul \in Chars \cup {Nul}
    BY DEF Text
  <2> QED BY <2>1 DEF Contents
<1>5. FlatMeans(cs, bufs, val, left)
  BY DEF Means
<1>6. \A i \in 1..Length(cs[left]) : val[left][i] = text[i]
  <2> TAKE i \in 1..Length(cs[left])
  <2>1. i \in 1..n
    BY <1>2
  <2>2. bufs[b][i] = val[left][i]
    BY <1>5 DEF FlatMeans
  <2> QED BY <1>4, <2>1, <2>2
<1> DEFINE full == Append(text, Nul)
<1> HIDE DEF full, val2, rank2, n
<1>7. ASSUME NEW t \in Strs, cs[t].live
      PROVE  t # s /\ ds[t].live /\ Length(ds[t]) = Length(cs[t])
  BY <1>7
<1>8. ASSUME NEW t \in Strs, ds[t].dep PROVE DepMeans(ds, val2, rank2, t)
  <2>1. t # s
    BY <1>1, <1>8
  <2>2. CASE t = left
    <3>1. /\ ds[t].at = s /\ s \in Strs /\ ds[s].live /\ StartOf(ds[t]) = 0
          /\ Length(ds[t]) = Length(cs[left]) /\ Length(ds[s]) = n
          /\ val2[t] = val[left] /\ val2[s] = text
      BY <1>1, <1>2, <1>3, <2>2
    <3>2. \A i \in 1..Length(cs[left]) : val[left][i] = text[0 + i]
      BY <1>6
    <3>3. Lies(ds, val2, t, s, 0)
      BY <1>2, <3>1, <3>2 DEF Lies, n
    <3>4. rank2[s] < rank2[t]
      <4>1. rank2[s] = 0 /\ rank2[t] = rank[t] + 1 /\ rank[t] \in Nat
        BY <1>3, <2>1, LengthIs
      <4> QED BY ONLY <4>1
    <3> QED BY <2>2, <3>1, <3>3, <3>4 DEF DepMeans
  <2>3. CASE t # left
    <3>1. ds[t] = cs[t] /\ DepMeans(cs, val, rank, t)
      BY <1>8, <2>1, <2>3 DEF Means
    <3> DEFINE a == cs[t].at
    <3>2. a \in Strs /\ cs[a].live /\ rank[a] < rank[t]
      BY <3>1 DEF DepMeans
    <3>3. a # s /\ ds[a].live /\ Length(ds[a]) = Length(cs[a]) /\ val2[a] = val[a] /\ val2[t] = val[t]
      BY <1>3, <1>7, <2>1, <3>2
    <3>4. rank2[a] < rank2[t]
      <4>1. rank2[a] = rank[a] + 1 /\ rank2[t] = rank[t] + 1 /\ rank[a] \in Nat /\ rank[t] \in Nat
        BY <1>3, <2>1, <3>2, <3>3, LengthIs
      <4> QED BY ONLY <3>2, <4>1
    <3>5. Lies(ds, val2, t, a, StartOf(ds[t]))
      BY <3>1, <3>3 DEF DepMeans, Lies
    <3> QED BY <3>1, <3>2, <3>3, <3>4, <3>5 DEF DepMeans
  <2> QED BY <2>2, <2>3
<1>9. ASSUME NEW t \in Strs, LiveFlat(ds, t), t # s
      PROVE  LiveFlat(cs, t) /\ t # left /\ ds[t] = cs[t] /\ cs[t].at # b
  <2>1. t # left /\ ds[t] = cs[t] /\ LiveFlat(cs, t)
    BY <1>9 DEF LiveFlat
  <2> QED BY <2>1 DEF Means, OneOwner
<1>10. ASSUME NEW t \in Strs, LiveFlat(ds, t) PROVE FlatMeans(ds, bufs, val2, t)
  <2>1. CASE t = s
    <3>1. b \in Buffers \cup {0} /\ bufs[b] = full /\ Len(full) = n + 1
      BY <1>4, <1>5 DEF FlatMeans, full
    <3>2. n < Len(full) /\ \A i \in 1..n : full[i] = text[i]
      BY <1>2, <1>4, <3>1 DEF full
    <3> QED BY <1>1, <1>3, <2>1, <3>1, <3>2 DEF FlatMeans
  <2>2. CASE t # s
    <3>1. ds[t] = cs[t] /\ val2[t] = val[t] /\ FlatMeans(cs, bufs, val, t)
      BY <1>3, <1>9, <1>10, <2>2 DEF Means
    <3> QED BY <3>1 DEF FlatMeans
  <2> QED BY <2>1, <2>2
<1>11. OneOwner(ds)
  <2> SUFFICES ASSUME NEW t \in Strs, NEW u \in Strs, LiveFlat(ds, t), LiveFlat(ds, u), ds[t].at = ds[u].at
               PROVE  t = u
    BY DEF OneOwner
  <2>1. CASE t = s \/ u = s
    BY <1>1, <1>9, <2>1
  <2>2. CASE t # s /\ u # s
    BY <1>9, <2>2 DEF OneOwner, Means
  <2> QED BY <2>1, <2>2
<1>12. \A t \in Strs : ds[t].live => Len(val2[t]) = Length(ds[t])
  <2> SUFFICES ASSUME NEW t \in Strs, ds[t].live PROVE Len(val2[t]) = Length(ds[t])
    OBVIOUS
  <2>1. CASE t = s
    BY <1>1, <1>3, <2>1 DEF n
  <2>2. CASE t # s
    <3>1. cs[t].live /\ val2[t] = val[t]
      BY <1>3, <2>2 DEF LiveFlat
    <3> QED BY <1>7, <3>1 DEF Means
  <2> QED BY <2>1, <2>2
<1>13. Means(ds, bufs, val2, rank2)
  BY <1>3, <1>8, <1>10, <1>11, <1>12 DEF Means
<1> QED BY <1>13 DEF val2

Swept(cs, D) == [t \in Strs |-> IF t \in D THEN FreeCell ELSE cs[t]]
OwnedBy(cs, D) == {cs[t].at : t \in {u \in D : ~cs[u].dep}}
Emptied(bufs, free) == [b \in DOMAIN bufs |-> IF b \in free THEN Freed ELSE bufs[b]]

\* Cells on which no other depends are freed, with the buffers they own.
LEMMA FreedMeans ==
  ASSUME NEW cs, NEW bufs, NEW val, NEW rank, Means(cs, bufs, val, rank),
         NEW D \in SUBSET Strs, \A t \in D : cs[t].live,
         \A t \in Strs \ D : cs[t].dep => cs[t].at \notin D
  PROVE  Means(Swept(cs, D), Emptied(bufs, OwnedBy(cs, D)), val, rank)
<1> DEFINE free == {cs[t].at : t \in {u \in D : ~cs[u].dep}}
           ds == [t \in Strs |-> IF t \in D THEN FreeCell ELSE cs[t]]
           bufs2 == [b \in DOMAIN bufs |-> IF b \in free THEN Freed ELSE bufs[b]]
<1> SUFFICES Means(ds, bufs2, val, rank)
  BY DEF Swept, Emptied, OwnedBy
<1>1. /\ ds \in [Strs -> CellRecs]
      /\ \A t \in Strs : IF t \in D THEN ds[t] = FreeCell ELSE ds[t] = cs[t]
  BY FreeSays DEF Means
<1>2. /\ bufs2 \in [Buffers \cup {0} -> Contents]
      /\ \A b \in Buffers \cup {0} : b \notin free => bufs2[b] = bufs[b]
  <2>1. Freed \in Contents
    BY DEF Freed, Contents
  <2> QED BY <2>1 DEF Means
<1>3. ASSUME NEW t \in Strs, ds[t].dep PROVE DepMeans(ds, val, rank, t)
  <2>1. t \notin D /\ ds[t] = cs[t] /\ DepMeans(cs, val, rank, t)
    BY <1>1, <1>3, FreeSays DEF Means
  <2>2. cs[t].at \in Strs /\ ds[cs[t].at] = cs[cs[t].at]
    BY <1>1, <1>3, <2>1 DEF DepMeans
  <2> QED BY <2>1, <2>2 DEF DepMeans, Lies
<1>4. ASSUME NEW t \in Strs, LiveFlat(ds, t)
      PROVE  t \notin D /\ ds[t] = cs[t] /\ LiveFlat(cs, t)
  BY <1>1, <1>4, FreeSays DEF LiveFlat
<1>5. ASSUME NEW t \in Strs, LiveFlat(ds, t) PROVE FlatMeans(ds, bufs2, val, t)
  <2>1. t \notin D /\ ds[t] = cs[t] /\ LiveFlat(cs, t) /\ FlatMeans(cs, bufs, val, t)
    BY <1>4, <1>5 DEF Means
  <2>2. cs[t].at \notin free
    <3> SUFFICES ASSUME NEW u \in D, ~cs[u].dep, cs[t].at = cs[u].at PROVE FALSE
      OBVIOUS
    <3>1. LiveFlat(cs, u) /\ u \in Strs
      BY DEF LiveFlat
    <3> QED BY <2>1, <3>1 DEF Means, OneOwner
  <2>3. bufs2[cs[t].at] = bufs[cs[t].at]
    BY <1>2, <2>1, <2>2 DEF FlatMeans
  <2> QED BY <2>1, <2>3 DEF FlatMeans
<1>6. OneOwner(ds)
  BY <1>4 DEF OneOwner, Means
<1>7. \A t \in Strs : ds[t].live => Len(val[t]) = Length(ds[t])
  BY <1>1, FreeSays DEF Means
<1>8. val \in [Strs -> Text] /\ rank \in [Strs -> Nat]
  BY DEF Means
<1> QED BY <1>1, <1>2, <1>3, <1>5, <1>6, <1>7, <1>8 DEF Means

----------------------------------------------------------------------------
(* The invariant.                                                          *)

\* The texts of the program's strings, and the bytes remembered, are those of val.
Told(val) ==
    /\ \A s \in heldStrs : texts[s] = val[s]
    /\ \A s \in Strs : byteCache[s] \in {NoBytes, val[s]}

StringsTypeOK ==
    /\ heldStrs \in SUBSET Strs
    /\ texts \in [Strs -> Text]
    /\ byteCache \in [Strs -> Text \cup {NoBytes}]
    /\ kept \in SUBSET (Strs \X (Buffers \cup {0}))

\* Native code keeps pointers into buffers that stay: their owners are immutable.
KeptStays ==
    \A k \in kept : /\ k[1] \in heldStrs /\ LiveFlat(cells, k[1]) /\ ~cells[k[1]].mutable
                    /\ cells[k[1]].at = k[2]

HeldLive ==
    /\ Empty \in heldStrs
    /\ \A s \in heldStrs : cells[s].live
    /\ \A s \in Strs : ~cells[s].live => byteCache[s] = NoBytes

StringsInv ==
    /\ StringsTypeOK /\ KeptStays /\ HeldLive
    /\ \E val, rank : Means(cells, buffers, val, rank) /\ Told(val)

LEMMA InvExact == StringsInv => TextsNeverChange
<1> SUFFICES ASSUME StringsInv PROVE TextsNeverChange
  OBVIOUS
<1>1. PICK val, rank : Means(cells, buffers, val, rank) /\ Told(val)
  BY DEF StringsInv
<1>2. StringsTypeOK /\ KeptStays /\ HeldLive
  BY DEF StringsInv
<1>3. ASSUME NEW s \in heldStrs
      PROVE  /\ cells[s].live /\ buffers[CharsOf(cells, s).buffer] # Freed
             /\ TextIn(buffers, CharsOf(cells, s), Length(cells[s])) = texts[s]
             /\ byteCache[s] \in {NoBytes, texts[s]}
  <2>1. s \in Strs /\ cells[s].live
    BY <1>2 DEF StringsTypeOK, HeldLive
  <2>2. texts[s] = val[s] /\ byteCache[s] \in {NoBytes, val[s]}
    BY <1>1, <2>1 DEF Told
  <2> QED BY <1>1, <2>1, <2>2, CharsRead
<1>4. \A s, t \in Strs : LiveFlat(cells, s) /\ LiveFlat(cells, t) /\ cells[s].at = cells[t].at => s = t
  BY <1>1 DEF Means, OneOwner
<1>5. \A s \in Strs : cells[s].live /\ cells[s].dep => cells[s].mutable
  BY <1>1 DEF Means, DepMeans
<1>6. ASSUME NEW k \in kept PROVE SubSeq(buffers[k[2]], 1, Len(texts[k[1]])) = texts[k[1]]
  <2> DEFINE s == k[1]
             b == k[2]
             n == Len(texts[s])
  <2>1. s \in Strs /\ s \in heldStrs /\ LiveFlat(cells, s) /\ cells[s].at = b
    BY <1>2 DEF StringsTypeOK, KeptStays
  <2>2. texts[s] = val[s] /\ val[s] \in Text /\ Len(val[s]) = Length(cells[s]) /\ Length(cells[s]) \in Nat
    BY <1>1, <2>1, LengthIs DEF Told, Means, LiveFlat
  <2>3. FlatMeans(cells, buffers, val, s) /\ buffers \in [Buffers \cup {0} -> Contents]
    BY <1>1, <2>1 DEF Means
  <2>4. /\ b \in Buffers \cup {0} /\ n < Len(buffers[b])
        /\ \A i \in 1..n : buffers[b][i] = val[s][i]
    BY <2>1, <2>2, <2>3 DEF FlatMeans
  <2>5. buffers[b] \in Contents /\ Len(buffers[b]) \in Nat
    BY <2>3, <2>4 DEF Contents
  <2> HIDE DEF s, b
  <2>6. \A i \in 1..n : val[s][i] = buffers[b][0 + i]
    BY <2>4
  <2>7. 0 + n <= Len(buffers[b]) /\ n \in Nat /\ 0 \in Nat /\ Len(val[s]) = n
    BY <2>2, <2>4, <2>5
  <2> HIDE DEF n
  <2>8. SubSeq(buffers[b], 0 + 1, 0 + n) = val[s]
    BY <2>2, <2>5, <2>6, <2>7, SubSeqIs DEF Text, Contents
  <2>9. 0 + 1 = 1 /\ 0 + n = n
    BY <2>7
  <2>10. SubSeq(buffers[b], 1, n) = texts[s]
    BY <2>2, <2>8, <2>9
  <2> QED BY <2>10 DEF s, b, n
<1> DEFINE live == {s \in Strs : cells[s].live}
           flat == {s \in live : ~cells[s].dep}
<1>7. ASSUME NEW s \in heldStrs PROVE s \in live
  BY <1>2, <1>3 DEF StringsTypeOK
<1>8. \A s, t \in flat : cells[s].at = cells[t].at => s = t
  BY <1>4 DEF LiveFlat
<1>9. (\A s \in Strs \ live : byteCache[s] = NoBytes) /\ (\A s \in live \ flat : cells[s].mutable)
  BY <1>2, <1>5 DEF HeldLive
<1> HIDE DEF live, flat
<1>10. \A s \in heldStrs :
          LET chars == CharsOf(cells, s) IN
          /\ s \in live
          /\ buffers[chars.buffer] # Freed
          /\ TextIn(buffers, chars, Length(cells[s])) = texts[s]
          /\ byteCache[s] \in {NoBytes, texts[s]}
  BY <1>3, <1>7
<1> QED BY <1>6, <1>8, <1>9, <1>10 DEF TextsNeverChange, live, flat

LEMMA FlatCell ==
  ASSUME NEW n \in Nat, NEW b \in Buffers \cup {0}, NEW mutable \in BOOLEAN
  PROVE  OwnerCell(AsFlat([FreeCell EXCEPT !.live = TRUE, !.mutable = mutable], n, b), n, b)
<1> DEFINE c == [FreeCell EXCEPT !.live = TRUE, !.mutable = mutable]
<1>1. c \in CellRecs /\ c.live
  BY DEF FreeCell, CellRecs
<1> HIDE DEF c
<1>2. OwnerCell(AsFlat(c, n, b), n, b)
  BY <1>1, FlatSays DEF OwnerCell
<1> QED BY <1>2 DEF c

LEMMA StringsStart == InitOfStrings => StringsInv
<1> SUFFICES ASSUME InitOfStrings PROVE StringsInv
  OBVIOUS
<1> DEFINE val == [s \in Strs |-> <<>>]
           rank == [s \in Strs |-> 0]
           none == [s \in Strs |-> FreeCell]
           d == AsFlat([FreeCell EXCEPT !.live = TRUE, !.mutable = FALSE], 0, 0)
<1>1. OwnerCell(d, 0, 0)
  BY FlatCell
<1> HIDE DEF d
<1>2. Empty \in Strs /\ cells = [none EXCEPT ![Empty] = d]
  BY DEF Strs, InitOfStrings, Flat, d
<1>3. /\ cells \in [Strs -> CellRecs] /\ cells[Empty] = d
      /\ \A s \in Strs : s # Empty => cells[s] = FreeCell
  BY <1>1, <1>2, FreeSays DEF OwnerCell
<1>4. d.live /\ ~d.dep /\ Length(d) = 0 /\ d.at = 0
  BY <1>1 DEF OwnerCell
<1>5. /\ buffers \in [Buffers \cup {0} -> Contents] /\ Len(buffers[0]) = 1
  <2>1. <<Nul>> \in Contents /\ Freed \in Contents /\ Len(<<Nul>>) = 1
    BY DEF Contents, Freed
  <2> QED BY <2>1 DEF InitOfStrings
<1>6. <<>> \in Text /\ Len(<<>>) = 0
  BY DEF Text
<1>7. Means(cells, buffers, val, rank)
  <2>1. val \in [Strs -> Text] /\ rank \in [Strs -> Nat]
    BY <1>6
  <2>2. \A s \in Strs : ~cells[s].dep /\ (cells[s].live => s = Empty)
    BY <1>3, <1>4, FreeSays
  <2>3. FlatMeans(cells, buffers, val, Empty)
    BY <1>3, <1>4, <1>5 DEF FlatMeans
  <2>4. Len(val[Empty]) = Length(cells[Empty])
    BY <1>2, <1>3, <1>4, <1>6
  <2> HIDE DEF val, rank
  <2> QED BY <1>3, <1>5, <2>1, <2>2, <2>3, <2>4 DEF Means, LiveFlat, OneOwner
<1>8. StringsTypeOK /\ KeptStays /\ HeldLive /\ Told(val)
  BY <1>2, <1>3, <1>4, <1>6 DEF InitOfStrings, StringsTypeOK, KeptStays, HeldLive, Told
<1> QED BY <1>7, <1>8 DEF StringsInv

LEMMA HeapGives ==
  ASSUME NEW val, NEW rank, Means(cells, buffers, val, rank), MayCallString
  PROVE  /\ NewCell \in Strs /\ ~cells[NewCell].live /\ NewCell # Empty
         /\ NewBuffer \in Buffers /\ buffers[NewBuffer] = Freed
<1>1. NewCell \in FreeCells /\ NewBuffer \in FreeBuffers
  BY DEF MayCallString, NewCell, NewBuffer
<1>2. Empty \notin StrCells
  BY StringsAssumption DEF StringsAssumption
<1> QED BY <1>1, <1>2 DEF FreeCells, FreeBuffers, Strs

\* Strings live on with their texts, immutable ones with their buffers.
Follows(cs, ds, val, val2) ==
    \A t \in Strs : /\ cs[t].live => ds[t].live /\ val2[t] = val[t]
                    /\ LiveFlat(cs, t) /\ ~cs[t].mutable =>
                           LiveFlat(ds, t) /\ ~ds[t].mutable /\ ds[t].at = cs[t].at

\* The program gets a fresh string, or none.
HandsOut(val) ==
    \/ UNCHANGED <<heldStrs, texts>>
    \/ \E s \in Strs : /\ ~cells[s].live /\ cells'[s].live
                       /\ heldStrs' = heldStrs \cup {s} /\ texts' = [texts EXCEPT ![s] = val[s]]

\* Native code gets a pointer into the buffer of an immutable string, or none.
PointsInto ==
    \/ kept' = kept
    \/ \E s \in heldStrs : /\ LiveFlat(cells', s) /\ ~cells'[s].mutable
                           /\ kept' = kept \cup {<<s, cells'[s].at>>}

\* The bytes of a string are remembered, or of none.
Caches(val) ==
    \/ byteCache' = byteCache
    \/ \E s \in heldStrs : byteCache' = [byteCache EXCEPT ![s] = val[s]]

LEMMA StepKeepsAll ==
  ASSUME StringsInv, NEW val, NEW rank, Means(cells, buffers, val, rank), Told(val),
         NEW val2, NEW rank2, Means(cells', buffers', val2, rank2),
         Follows(cells, cells', val, val2), HandsOut(val2), PointsInto, Caches(val2)
  PROVE  StringsInv'
<1>0. /\ \A t \in Strs : cells[t].live => cells'[t].live /\ val2[t] = val[t]
      /\ \A t \in Strs : LiveFlat(cells, t) /\ ~cells[t].mutable =>
             LiveFlat(cells', t) /\ ~cells'[t].mutable /\ cells'[t].at = cells[t].at
      /\ \/ UNCHANGED <<heldStrs, texts>>
         \/ \E s \in Strs : /\ ~cells[s].live /\ cells'[s].live
                            /\ heldStrs' = heldStrs \cup {s} /\ texts' = [texts EXCEPT ![s] = val2[s]]
  <2>1. \A t \in Strs : cells[t].live => cells'[t].live /\ val2[t] = val[t]
    BY DEF Follows
  <2>2. \A t \in Strs : LiveFlat(cells, t) /\ ~cells[t].mutable =>
             LiveFlat(cells', t) /\ ~cells'[t].mutable /\ cells'[t].at = cells[t].at
    BY DEF Follows
  <2>3. \/ UNCHANGED <<heldStrs, texts>>
        \/ \E s \in Strs : /\ ~cells[s].live /\ cells'[s].live
                           /\ heldStrs' = heldStrs \cup {s} /\ texts' = [texts EXCEPT ![s] = val2[s]]
    BY DEF HandsOut
  <2> QED BY <2>1, <2>2, <2>3
<1>1. StringsTypeOK /\ KeptStays /\ HeldLive
  BY DEF StringsInv
<1>2. val2 \in [Strs -> Text]
  BY DEF Means
<1>3. StringsTypeOK'
  <2>1. heldStrs' \in SUBSET Strs /\ texts' \in [Strs -> Text]
    BY <1>0, <1>1, <1>2 DEF StringsTypeOK
  <2>2. byteCache' \in [Strs -> Text \cup {NoBytes}]
    BY <1>1, <1>2 DEF StringsTypeOK, Caches
  <2>3. kept' \in SUBSET (Strs \X (Buffers \cup {0}))
    <3>1. CASE kept' = kept
      BY <1>1, <3>1 DEF StringsTypeOK
    <3>2. ASSUME NEW s \in heldStrs, LiveFlat(cells', s), kept' = kept \cup {<<s, cells'[s].at>>}
          PROVE  kept' \in SUBSET (Strs \X (Buffers \cup {0}))
      <4>1. s \in Strs
        BY <1>1 DEF StringsTypeOK
      <4>2. cells'[s].at \in Buffers \cup {0}
        BY <3>2, <4>1 DEF Means, FlatMeans
      <4>3. <<s, cells'[s].at>> \in Strs \X (Buffers \cup {0})
        BY <4>1, <4>2
      <4> QED BY <1>1, <3>2, <4>3 DEF StringsTypeOK
    <3> QED BY <3>1, <3>2 DEF PointsInto
  <2> QED BY <2>1, <2>2, <2>3 DEF StringsTypeOK
<1>4. KeptStays'
  <2> SUFFICES ASSUME NEW k \in kept'
               PROVE  /\ k[1] \in heldStrs' /\ LiveFlat(cells', k[1]) /\ ~cells'[k[1]].mutable
                      /\ cells'[k[1]].at = k[2]
    BY DEF KeptStays, LiveFlat
  <2>1. CASE k \in kept
    <3>1. /\ k[1] \in heldStrs /\ LiveFlat(cells, k[1]) /\ ~cells[k[1]].mutable
          /\ cells[k[1]].at = k[2] /\ k[1] \in Strs
      BY <1>1, <2>1 DEF KeptStays, StringsTypeOK
    <3> QED BY <1>0, <3>1
  <2>2. CASE k \notin kept
    <3>1. PICK s \in heldStrs : LiveFlat(cells', s) /\ ~cells'[s].mutable /\ k = <<s, cells'[s].at>>
      BY <2>2 DEF PointsInto
    <3> QED BY <1>0, <3>1
  <2> QED BY <2>1, <2>2
<1>5. \A s \in Strs : \/ byteCache'[s] = byteCache[s]
                      \/ cells[s].live /\ byteCache'[s] = val2[s]
  <2>1. CASE byteCache' = byteCache
    BY <2>1
  <2>2. ASSUME NEW t \in heldStrs, byteCache' = [byteCache EXCEPT ![t] = val2[t]], NEW s \in Strs
        PROVE  \/ byteCache'[s] = byteCache[s]
               \/ cells[s].live /\ byteCache'[s] = val2[s]
    BY <1>1, <2>2 DEF StringsTypeOK, HeldLive
  <2> QED BY <2>1, <2>2 DEF Caches
<1>6. HeldLive'
  <2>1. ASSUME NEW s \in heldStrs' PROVE cells'[s].live
    BY <1>0, <1>1, <2>1 DEF HeldLive, StringsTypeOK
  <2>2. ASSUME NEW s \in Strs, ~cells'[s].live PROVE byteCache'[s] = NoBytes
    BY <1>0, <1>1, <1>5, <2>2 DEF HeldLive
  <2>3. Empty \in heldStrs'
    BY <1>0, <1>1 DEF HeldLive
  <2> QED BY <2>1, <2>2, <2>3 DEF HeldLive
<1>7. Told(val2)'
  <2>1. ASSUME NEW s \in heldStrs' PROVE texts'[s] = val2[s]
    <3>1. CASE s \in heldStrs
      <4>1. cells[s].live /\ texts[s] = val[s] /\ s \in Strs
        BY <1>1, <3>1 DEF HeldLive, Told, StringsTypeOK
      <4> QED BY <1>0, <1>1, <4>1 DEF StringsTypeOK
    <3>2. CASE s \notin heldStrs
      BY <1>0, <1>1, <2>1, <3>2 DEF StringsTypeOK
    <3> QED BY <3>1, <3>2
  <2>2. ASSUME NEW s \in Strs PROVE byteCache'[s] \in {NoBytes, val2[s]}
    <3>1. byteCache[s] \in {NoBytes, val[s]} /\ (~cells[s].live => byteCache[s] = NoBytes)
      BY <1>1 DEF Told, HeldLive
    <3>2. cells[s].live => val2[s] = val[s]
      BY <1>0
    <3> QED BY <1>5, <3>1, <3>2
  <2> QED BY <2>1, <2>2 DEF Told
<1> QED BY <1>3, <1>4, <1>6, <1>7 DEF StringsInv

LEMMA StepKeeps ==
  ASSUME StringsInv, NEW val, NEW rank, Means(cells, buffers, val, rank), Told(val),
         NEW val2, NEW rank2, Means(cells', buffers', val2, rank2),
         Follows(cells, cells', val, val2), HandsOut(val2), byteCache' = byteCache, kept' = kept
  PROVE  StringsInv'
BY StepKeepsAll DEF PointsInto, Caches

----------------------------------------------------------------------------
(* The calls.                                                              *)

LEMMA NewStringKeeps ==
  ASSUME StringsInv, NEW text \in NewTexts, NEW mutable \in BOOLEAN, NewStringCopyN(text, mutable)
  PROVE  StringsInv'
<1>1. PICK val, rank : Means(cells, buffers, val, rank) /\ Told(val)
  BY DEF StringsInv
<1> DEFINE s == NewCell
           b == NewBuffer
           d == AsFlat([FreeCell EXCEPT !.live = TRUE, !.mutable = mutable], Len(text), b)
           val2 == [val EXCEPT ![s] = text]
<1>2. s \in Strs /\ ~cells[s].live /\ b \in Buffers /\ buffers[b] = Freed
  BY <1>1, HeapGives DEF NewStringCopyN
<1>3. text \in Text /\ Len(text) \in Nat
  BY StringsAssumption DEF StringsAssumption, Text
<1>4. OwnerCell(d, Len(text), b)
  BY <1>2, <1>3, FlatCell
<1>5. /\ cells' = [cells EXCEPT ![s] = d] /\ buffers' = [buffers EXCEPT ![b] = Append(text, Nul)]
      /\ heldStrs' = heldStrs \cup {s} /\ texts' = [texts EXCEPT ![s] = text]
      /\ UNCHANGED <<byteCache, kept>>
  BY DEF NewStringCopyN, Flat, Hand
<1> HIDE DEF s, b, d
<1>6. Means(cells', buffers', val2, rank)
  BY <1>1, <1>2, <1>3, <1>4, <1>5, PutFlatMeans DEF LiveFlat
<1>7. val2[s] = text /\ cells'[s] = d /\ \A t \in Strs : t # s => cells'[t] = cells[t] /\ val2[t] = val[t]
  BY <1>1, <1>2, <1>5 DEF Means
<1>8. d.live
  BY <1>4 DEF OwnerCell
<1> HIDE DEF val2
<1>9. Follows(cells, cells', val, val2)
  BY <1>2, <1>7 DEF Follows, LiveFlat, Alike
<1>10. HandsOut(val2)
  BY <1>2, <1>5, <1>7, <1>8 DEF HandsOut
<1> QED BY <1>1, <1>5, <1>6, <1>9, <1>10, StepKeeps

LEMMA TextOfStretch ==
  ASSUME NEW v \in Text, NEW start \in Nat, NEW n \in Nat, start + n <= Len(v)
  PROVE  SubSeq(v, start + 1, start + n) \in Text /\ Len(SubSeq(v, start + 1, start + n)) = n
<1>1. start + 1 \in Int /\ start + n \in Int /\ Len(v) \in Nat
  BY DEF Text
<1>2. \A i \in (start + 1)..(start + n) : v[i] \in Chars
  <2>1. \A i \in (start + 1)..(start + n) : i \in 1..Len(v)
    BY <1>1
  <2> QED BY <2>1 DEF Text
<1>3. /\ SubSeq(v, start + 1, start + n) \in Seq(Chars)
      /\ Len(SubSeq(v, start + 1, start + n)) =
            IF start + 1 <= start + n THEN (start + n) - (start + 1) + 1 ELSE 0
  BY <1>1, <1>2, SubSeqProperties
<1>4. (IF start + 1 <= start + n THEN (start + n) - (start + 1) + 1 ELSE 0) = n
  OBVIOUS
<1> QED BY <1>3, <1>4 DEF Text

LEMMA NewDependentKeeps ==
  ASSUME StringsInv, NEW base \in heldStrs, NEW start \in 0..MaxText, NEW n \in 1..MaxText,
         NewDependentString(base, start, n)
  PROVE  StringsInv'
<1>1. PICK val, rank : Means(cells, buffers, val, rank) /\ Told(val)
  BY DEF StringsInv
<1> DEFINE s == NewCell
           b == NewBuffer
           chars == CharsOf(cells, base)
           whole == TextIn(buffers, chars, Length(cells[base]))
           text == SubSeq(whole, start + 1, start + n)
           cell == [FreeCell EXCEPT !.live = TRUE, !.mutable = TRUE]
           val2 == [val EXCEPT ![s] = text]
<1>2. /\ s \in Strs /\ ~cells[s].live /\ b \in Buffers /\ buffers[b] = Freed
      /\ cells[s] \in CellRecs
  BY <1>1, HeapGives, LengthIs DEF NewDependentString
<1>3. base \in Strs /\ cells[base].live /\ start \in Nat /\ n \in Nat /\ start + n <= Length(cells[base])
  BY StringsAssumption DEF StringsInv, StringsTypeOK, HeldLive, NewDependentString, StringsAssumption
<1>4. /\ whole = val[base] /\ val[base] \in Text /\ Len(val[base]) = Length(cells[base])
      /\ chars.cells = Minimized(cells, Bases(cells, base))
  <2>1. /\ TextIn(buffers, CharsOf(cells, base), Length(cells[base])) = val[base]
        /\ CharsOf(cells, base).cells = Minimized(cells, Bases(cells, base))
    BY <1>1, <1>3, CharsRead
  <2>2. val[base] \in Text /\ Len(val[base]) = Length(cells[base])
    BY <1>1, <1>3 DEF Means
  <2> QED BY <2>1, <2>2
<1>5. /\ heldStrs' = heldStrs \cup {s} /\ texts' = [texts EXCEPT ![s] = text]
      /\ UNCHANGED <<byteCache, kept>>
      /\ IF Fits(start, n)
         THEN /\ cells' = [cells EXCEPT ![s] = IF start = 0 THEN AsPrefix(cell, n, base)
                                               ELSE AsStretch(cell, start, n, base)]
              /\ buffers' = buffers
         ELSE /\ cells' = Flat(chars.cells, s, n, b, FALSE)
              /\ buffers' = [buffers EXCEPT ![b] = Append(text, Nul)]
  BY DEF NewDependentString, Hand
<1>6. cell \in CellRecs /\ cell.live /\ cell.mutable
  BY DEF FreeCell, CellRecs
<1> HIDE DEF s, b, chars, whole, cell
<1>7. text = SubSeq(val[base], start + 1, start + n) /\ text \in Text /\ Len(text) = n
  BY <1>3, <1>4, TextOfStretch
<1> HIDE DEF text
<1>8. val2[s] = text /\ val2 \in [Strs -> Text] /\ \A t \in Strs : t # s => val2[t] = val[t]
  BY <1>1, <1>2, <1>7 DEF Means
<1>9. CASE Fits(start, n)
  <2> DEFINE d == IF start = 0 THEN AsPrefix(cell, n, base) ELSE AsStretch(cell, start, n, base)
             rank2 == [rank EXCEPT ![s] = rank[base] + 1]
  <2>1. start <= DepStartMask /\ (start > 0 => n <= DepLengthMask)
    BY <1>3, <1>9 DEF Fits
  <2>2. /\ d \in CellRecs /\ d.live /\ d.dep /\ d.mutable /\ d.at = base /\ Length(d) = n
        /\ StartOf(d) = start
    <3>1. CASE start = 0
      BY <1>3, <1>6, <3>1, PrefixSays
    <3>2. CASE start # 0
      <4>1. start > 0
        BY <1>3, <3>2
      <4> QED BY <1>3, <1>6, <2>1, <3>2, <4>1, StretchSays
    <3> QED BY <3>1, <3>2
  <2> HIDE DEF d
  <2>3. cells' = [cells EXCEPT ![s] = d] /\ buffers' = buffers
    BY <1>5, <1>9 DEF d
  <2>4. Means(cells', buffers', val2, rank2)
    BY <1>1, <1>2, <1>3, <1>7, <2>1, <2>2, <2>3, PutDepMeans
  <2>5. cells'[s] = d /\ \A t \in Strs : t # s => cells'[t] = cells[t]
    BY <1>1, <1>2, <2>3 DEF Means
  <2> HIDE DEF val2, rank2
  <2>6. Follows(cells, cells', val, val2)
    BY <1>2, <1>8, <2>5 DEF Follows, LiveFlat, Alike
  <2>7. HandsOut(val2)
    BY <1>2, <1>5, <1>8, <2>2, <2>5 DEF HandsOut
  <2> QED BY <1>1, <1>5, <2>4, <2>6, <2>7, StepKeeps
<1>10. CASE ~Fits(start, n)
  <2> DEFINE cs == chars.cells
             d == AsFlat([FreeCell EXCEPT !.live = TRUE, !.mutable = FALSE], n, b)
  <2>1. Means(cs, buffers, val, rank) /\ Alike(cells, cs)
    BY <1>1, <1>3, <1>4, MinimizedMeans
  <2>2. OwnerCell(d, n, b)
    BY <1>2, <1>3, FlatCell
  <2>3. cells' = [cs EXCEPT ![s] = d] /\ buffers' = [buffers EXCEPT ![b] = Append(text, Nul)]
    BY <1>5, <1>10 DEF Flat
  <2> HIDE DEF d, cs
  <2>4. ~cs[s].live
    BY <1>2, <2>1 DEF Alike
  <2>5. Means(cells', buffers', val2, rank)
    BY <1>2, <1>7, <2>1, <2>2, <2>3, <2>4, PutFlatMeans DEF LiveFlat
  <2>6. cells'[s] = d /\ d.live /\ \A t \in Strs : t # s => cells'[t] = cs[t]
    BY <1>2, <2>1, <2>2, <2>3 DEF Means, OwnerCell
  <2> HIDE DEF val2
  <2>7. Follows(cells, cells', val, val2)
    BY <1>2, <1>8, <2>1, <2>6 DEF Follows, LiveFlat, Alike
  <2>8. HandsOut(val2)
    BY <1>2, <1>5, <1>8, <2>6 DEF HandsOut
  <2> QED BY <1>1, <1>5, <2>5, <2>7, <2>8, StepKeeps
<1> QED BY <1>9, <1>10

LEMMA AlikeTwice ==
  ASSUME NEW cs, NEW ds, NEW es, Alike(cs, ds), Alike(ds, es)
  PROVE  Alike(cs, es)
<1> SUFFICES ASSUME NEW t \in Strs
             PROVE  /\ es[t].live = cs[t].live /\ es[t].dep = cs[t].dep
                    /\ es[t].mutable = cs[t].mutable /\ Length(es[t]) = Length(cs[t])
                    /\ ~cs[t].dep => es[t] = cs[t]
  BY DEF Alike
<1>1. /\ ds[t].live = cs[t].live /\ ds[t].dep = cs[t].dep
      /\ ds[t].mutable = cs[t].mutable /\ Length(ds[t]) = Length(cs[t])
      /\ ~cs[t].dep => ds[t] = cs[t]
  BY DEF Alike
<1>2. /\ es[t].live = ds[t].live /\ es[t].dep = ds[t].dep
      /\ es[t].mutable = ds[t].mutable /\ Length(es[t]) = Length(ds[t])
      /\ ~ds[t].dep => es[t] = ds[t]
  BY DEF Alike
<1> QED BY <1>1, <1>2

LEMMA AlikeFollows ==
  ASSUME NEW cs, NEW ds, Alike(cs, ds), NEW val
  PROVE  Follows(cs, ds, val, val)
BY DEF Alike, Follows, LiveFlat

\* Two texts one after the other.
LEMMA BothTexts ==
  ASSUME NEW v \in Text, NEW w \in Text
  PROVE  /\ v \o w \in Text /\ Len(v \o w) = Len(v) + Len(w)
         /\ Len(v) \in Nat /\ Len(w) \in Nat
         /\ \A i \in 1..Len(v) : (v \o w)[i] = v[i]
<1>1. v \in Seq(Chars) /\ w \in Seq(Chars)
  BY DEF Text
<1>2. v \o w \in Seq(Chars) /\ Len(v \o w) = Len(v) + Len(w) /\ Len(v) \in Nat /\ Len(w) \in Nat
  BY <1>1
<1>3. \A i \in 1..Len(v) : (v \o w)[i] = v[i]
  BY <1>1
<1> QED BY <1>2, <1>3 DEF Text

LEMMA CopyBothKeeps ==
  ASSUME StringsInv, NEW left \in heldStrs, NEW right \in heldStrs, NEW oom,
         MayCallString, CopyBoth(left, right, oom)
  PROVE  StringsInv'
<1>1. PICK val, rank : Means(cells, buffers, val, rank) /\ Told(val)
  BY DEF StringsInv
<1> DEFINE s == NewCell
           b == NewBuffer
           rs == CharsOf(cells, right)
           cs == rs.cells
           ls == CharsOf(cs, left)
           es == ls.cells
           text == TextIn(buffers, ls, Length(cells[left])) \o TextIn(buffers, rs, Length(cells[right]))
           d == AsFlat([FreeCell EXCEPT !.live = TRUE, !.mutable = TRUE], Len(text), b)
           val2 == [val EXCEPT ![s] = text]
<1>2. /\ s \in Strs /\ ~cells[s].live /\ b \in Buffers /\ buffers[b] = Freed
  BY <1>1, HeapGives
<1>3. left \in Strs /\ right \in Strs /\ cells[left].live /\ cells[right].live
  BY DEF StringsInv, StringsTypeOK, HeldLive
<1>4. /\ TextIn(buffers, rs, Length(cells[right])) = val[right]
      /\ cs = Minimized(cells, Bases(cells, right))
  BY <1>1, <1>3, CharsRead
<1> HIDE DEF rs, cs
<1>5. Means(cs, buffers, val, rank) /\ Alike(cells, cs)
  BY <1>1, <1>3, <1>4, MinimizedMeans
<1>6. cs[left].live /\ Length(cs[left]) = Length(cells[left])
  BY <1>3, <1>5 DEF Alike
<1>7. /\ TextIn(buffers, ls, Length(cells[left])) = val[left]
      /\ es = Minimized(cs, Bases(cs, left))
  BY <1>3, <1>5, <1>6, CharsRead
<1> HIDE DEF ls, es
<1>8. Means(es, buffers, val, rank) /\ Alike(cells, es)
  BY <1>3, <1>5, <1>6, <1>7, MinimizedMeans, AlikeTwice
<1>9. text = val[left] \o val[right] /\ val[left] \in Text /\ val[right] \in Text
  BY <1>1, <1>3, <1>4, <1>7 DEF Means
<1>10. /\ IF oom # "" THEN /\ cells' = es /\ buffers' = buffers /\ UNCHANGED <<heldStrs, texts>>
          ELSE /\ cells' = Flat(es, s, Len(text), b, TRUE)
               /\ buffers' = [buffers EXCEPT ![b] = Append(text, Nul)]
               /\ heldStrs' = heldStrs \cup {s} /\ texts' = [texts EXCEPT ![s] = text]
       /\ UNCHANGED <<byteCache, kept>>
  BY DEF CopyBoth, Fail, Hand, es, ls, cs, rs
<1> HIDE DEF s, b, text
<1>11. CASE oom # ""
  <2>1. cells' = es /\ buffers' = buffers /\ HandsOut(val)
    BY <1>10, <1>11 DEF HandsOut
  <2>2. Means(cells', buffers', val, rank) /\ Follows(cells, cells', val, val)
    BY <1>8, <2>1, AlikeFollows
  <2> QED BY <1>1, <1>10, <2>1, <2>2, StepKeeps
<1>12. CASE oom = ""
  <2>1. text \in Text /\ Len(text) \in Nat
    <3>1. val[left] \o val[right] \in Text
      BY <1>9, BothTexts
    <3>2. text \in Text
      BY <1>9, <3>1
    <3> QED BY <3>2 DEF Text
  <2>2. OwnerCell(d, Len(text), b)
    BY <1>2, <2>1, FlatCell
  <2>3. cells' = [es EXCEPT ![s] = d] /\ buffers' = [buffers EXCEPT ![b] = Append(text, Nul)]
    BY <1>10, <1>12 DEF Flat
  <2> HIDE DEF d
  <2>4. ~es[s].live
    BY <1>2, <1>8 DEF Alike
  <2>5. Means(cells', buffers', val2, rank)
    BY <1>2, <1>8, <2>1, <2>2, <2>3, <2>4, PutFlatMeans DEF LiveFlat
  <2>6. /\ cells'[s] = d /\ d.live /\ \A t \in Strs : t # s => cells'[t] = es[t]
        /\ val2[s] = text /\ \A t \in Strs : t # s => val2[t] = val[t]
    BY <1>1, <1>2, <1>8, <2>2, <2>3 DEF Means, OwnerCell
  <2> HIDE DEF val2
  <2>7. Follows(cells, cells', val, val2)
    BY <1>2, <1>8, <2>6 DEF Follows, LiveFlat, Alike
  <2>8. HandsOut(val2)
    BY <1>2, <1>10, <1>12, <2>6 DEF HandsOut
  <2> QED BY <1>1, <1>10, <2>5, <2>7, <2>8, StepKeeps
<1> QED BY <1>11, <1>12

TakesOver(left, right, oom) ==
    /\ OwnsGrowable(cells[left]) /\ Length(cells[right]) > 0
    /\ oom \in {"", "chars", "cell", "shrink"}
    /\ TakeOver(left, right, oom)

LEMMA TakeOverKeeps ==
  ASSUME StringsInv, NEW left \in heldStrs, NEW right \in heldStrs, NEW oom,
         MayCallString, TakesOver(left, right, oom)
  PROVE  StringsInv'
<1>1. PICK val, rank : Means(cells, buffers, val, rank) /\ Told(val)
  BY DEF StringsInv
<1> DEFINE s == NewCell
           b == NewBuffer
           rs == CharsOf(cells, right)
           cs == rs.cells
           old == cells[left].at
           ln == Length(cells[left])
           rn == Length(cells[right])
           grown == SubSeq(buffers[old], 1, ln)
           tail == IF rs.buffer = old THEN SubSeq(grown, rs.skip + 1, rs.skip + rn)
                   ELSE TextIn(buffers, rs, rn)
           text == grown \o tail
           moved(contents) == [buffers EXCEPT ![old] = Freed, ![b] = contents]
           d == AsFlat([FreeCell EXCEPT !.live = TRUE, !.mutable = TRUE], Len(text), b)
           val2 == [val EXCEPT ![s] = text]
<1>2. /\ s \in Strs /\ ~cells[s].live /\ b \in Buffers /\ buffers[b] = Freed
  BY <1>1, HeapGives
<1>3. /\ left \in Strs /\ right \in Strs /\ cells[left].live /\ cells[right].live
      /\ LiveFlat(cells, left) /\ cells[left].mutable
      /\ ln \in Nat /\ rn \in Nat /\ rn > 0
  BY <1>1, LengthIs DEF StringsInv, StringsTypeOK, HeldLive, OwnsGrowable, LiveFlat, TakesOver
<1>4. /\ \E o \in Strs : LiveFlat(cells, o) /\ rs.buffer = cells[o].at /\ Lies(cells, val, right, o, rs.skip)
      /\ TextIn(buffers, rs, rn) = val[right] /\ rs.skip \in Nat
      /\ cs = Minimized(cells, Bases(cells, right))
  BY <1>1, <1>3, CharsRead
<1>5. CASE oom = "chars"
  <2>1. cells' = cs /\ buffers' = buffers /\ UNCHANGED <<heldStrs, texts>> /\ UNCHANGED <<byteCache, kept>>
    BY <1>5 DEF TakeOver, Fail, TakesOver
  <2> HIDE DEF cs, rs
  <2>2. Means(cs, buffers, val, rank) /\ Alike(cells, cs)
    BY <1>1, <1>3, <1>4, MinimizedMeans
  <2>3. Means(cells', buffers', val, rank) /\ Follows(cells, cells', val, val) /\ HandsOut(val)
    BY <2>1, <2>2, AlikeFollows DEF HandsOut
  <2> QED BY <1>1, <2>1, <2>3, StepKeeps
<1>6. CASE oom # "chars"
  <2>1. /\ oom \in {"cell", "shrink"} =>
             /\ cells' = [cs EXCEPT ![left].at = b]
             /\ buffers' = moved(IF oom = "cell" THEN SubSeq(text, 1, ln + 1) ELSE Append(text, Nul))
             /\ UNCHANGED <<heldStrs, texts>>
        /\ oom = "" =>
             /\ cells' = [Flat(cs, s, Len(text), b, TRUE) EXCEPT ![left] = AsPrefix(@, ln, s)]
             /\ buffers' = moved(Append(text, Nul))
             /\ heldStrs' = heldStrs \cup {s} /\ texts' = [texts EXCEPT ![s] = text]
        /\ UNCHANGED <<byteCache, kept>>
    BY <1>6 DEF TakeOver, Fail, Hand, TakesOver
  <2> HIDE DEF rs, cs, s, b
  <2>2. Means(cs, buffers, val, rank) /\ Alike(cells, cs)
    BY <1>1, <1>3, <1>4, MinimizedMeans
  <2>3. cs[left] = cells[left] /\ LiveFlat(cs, left) /\ ~cs[s].live /\ cs[left] \in CellRecs
    BY <1>2, <1>3, <2>2, LengthIs DEF Alike, LiveFlat
  <2>4. grown = val[left] /\ val[left] \in Text /\ val[right] \in Text
        /\ Len(val[left]) = ln /\ Len(val[right]) = rn
    <3>1. FlatMeans(cells, buffers, val, left) /\ buffers \in [Buffers \cup {0} -> Contents]
      BY <1>1, <1>3 DEF Means
    <3>2. old \in Buffers \cup {0} /\ ln < Len(buffers[old]) /\ \A i \in 1..ln : buffers[old][i] = val[left][i]
      BY <3>1 DEF FlatMeans
    <3>3. buffers[old] \in Contents /\ Len(buffers[old]) \in Nat
      BY <3>1, <3>2 DEF Contents
    <3>4. /\ val[left] \in Text /\ Len(val[left]) = ln
          /\ val[right] \in Text /\ Len(val[right]) = rn
      BY <1>1, <1>3 DEF Means
    <3> HIDE DEF old, ln
    <3>5. /\ 0 + ln <= Len(buffers[old]) /\ 0 + 1 = 1 /\ 0 + ln = ln
          /\ \A i \in 1..ln : val[left][i] = buffers[old][0 + i]
      BY <1>3, <3>2, <3>3
    <3>6. SubSeq(buffers[old], 0 + 1, 0 + ln) = val[left]
      BY <1>3, <3>3, <3>4, <3>5, SubSeqIs DEF Text, Contents
    <3> QED BY <3>4, <3>5, <3>6
  <2> HIDE DEF ln, rn, old
  <2>5. tail = val[right]
    <3>1. CASE rs.buffer = old
      <4>1. PICK o \in Strs : LiveFlat(cells, o) /\ rs.buffer = cells[o].at
                               /\ Lies(cells, val, right, o, rs.skip)
        BY <1>4
      <4>2. o = left
        BY <1>1, <1>3, <3>1, <4>1 DEF Means, OneOwner, old
      <4>3. /\ rs.skip + rn <= Len(val[left])
            /\ \A i \in 1..rn : val[right][i] = val[left][rs.skip + i]
        BY <2>4, <4>1, <4>2 DEF Lies, ln, rn
      <4>4. SubSeq(val[left], rs.skip + 1, rs.skip + rn) = val[right]
        BY <1>3, <1>4, <2>4, <4>3, SubSeqIs DEF Text
      <4> QED BY <2>4, <3>1, <4>4
    <3>2. CASE rs.buffer # old
      BY <1>4, <3>2
    <3> QED BY <3>1, <3>2
  <2> HIDE DEF grown, tail
  <2>6. /\ text \in Text /\ Len(text) = ln + rn /\ \A i \in 1..ln : text[i] = val[left][i]
    <3>1. text = val[left] \o val[right]
      BY <2>4, <2>5
    <3> HIDE DEF text
    <3> QED BY <2>4, <3>1, BothTexts
  <2> HIDE DEF text
  <2>7. /\ Append(text, Nul) \in Contents /\ Len(Append(text, Nul)) = ln + rn + 1
        /\ \A i \in 1..ln + rn : Append(text, Nul)[i] = text[i]
    <3>1. text \in Seq(Chars \cup {Nul}) /\ Nul \in Chars \cup {Nul}
      BY <2>6 DEF Text
    <3> QED BY <2>6, <3>1 DEF Contents
  <2>8. ASSUME NEW new \in Contents, ln < Len(new), \A i \in 1..ln : new[i] = text[i]
        PROVE  Means([cs EXCEPT ![left].at = b], moved(new), val, rank)
    <3>1. Length(cs[left]) = ln /\ cs[left].at = old
      BY <2>3 DEF ln, old
    <3>2. \A i \in 1..ln : new[i] = val[left][i]
      BY <2>6, <2>8
    <3> QED BY <1>2, <1>3, <2>2, <2>3, <2>8, <3>1, <3>2, MovedMeans
  <2>9. Means([cs EXCEPT ![left].at = b], moved(Append(text, Nul)), val, rank)
    <3>1. ln < Len(Append(text, Nul)) /\ \A i \in 1..ln : Append(text, Nul)[i] = text[i]
      BY <1>3, <2>7
    <3> DEFINE new == Append(text, Nul)
    <3> HIDE DEF new
    <3>2. Means([cs EXCEPT ![left].at = b], moved(new), val, rank)
      BY <2>7, <2>8, <3>1 DEF new
    <3> QED BY <3>2 DEF new
  <2>10. CASE oom \in {"cell", "shrink"}
    <3> DEFINE new == IF oom = "cell" THEN SubSeq(text, 1, ln + 1) ELSE Append(text, Nul)
    <3>1. Means([cs EXCEPT ![left].at = b], moved(new), val, rank)
      <4>1. CASE oom = "cell"
        <5> DEFINE part == SubSeq(text, 1, ln + 1)
        <5>1. /\ 1 \in Int /\ ln + 1 \in Int /\ 1 <= ln + 1 /\ (ln + 1) - 1 + 1 = ln + 1
              /\ \A i \in 1..ln + 1 : text[i] \in Chars \cup {Nul}
          <6>1. \A i \in 1..ln + 1 : i \in 1..Len(text)
            BY <1>3, <2>6
          <6> QED BY <1>3, <2>6, <6>1 DEF Text
        <5>2. /\ part \in Seq(Chars \cup {Nul}) /\ Len(part) = ln + 1
              /\ \A i \in 1..ln + 1 : part[i] = text[1 + i - 1]
          <6>1. /\ part \in Seq(Chars \cup {Nul})
                /\ Len(part) = IF 1 <= ln + 1 THEN (ln + 1) - 1 + 1 ELSE 0
                /\ \A i \in 1..(ln + 1) - 1 + 1 : part[i] = text[1 + i - 1]
            BY <5>1, SubSeqProperties
          <6> HIDE DEF part
          <6> QED BY <5>1, <6>1
        <5> HIDE DEF part
        <5>3. \A i \in 1..ln : part[i] = text[i]
          <6> TAKE i \in 1..ln
          <6>1. i \in 1..ln + 1 /\ 1 + i - 1 = i
            BY <1>3
          <6> QED BY <5>2, <6>1
        <5>4. part \in Contents /\ ln < Len(part)
          BY <1>3, <5>2 DEF Contents
        <5>5. Means([cs EXCEPT ![left].at = b], moved(part), val, rank)
          BY <2>8, <5>3, <5>4
        <5> QED BY <4>1, <5>5 DEF part
      <4>2. CASE oom # "cell"
        BY <2>9, <4>2
      <4> QED BY <4>1, <4>2
    <3>2. cells' = [cs EXCEPT ![left].at = b] /\ buffers' = moved(new) /\ HandsOut(val)
      BY <2>1, <2>10 DEF HandsOut
    <3> HIDE DEF new, moved
    <3>3. Means(cells', buffers', val, rank)
      BY <3>1, <3>2
    <3>4. Follows(cells, cells', val, val)
      <4>1. cs \in [Strs -> CellRecs]
        BY <2>2 DEF Means
      <4>2. \A t \in Strs : t # left => cells'[t] = cs[t]
        BY <3>2, <4>1
      <4>3. cells'[left].live
        <5>1. cells'[left] = [cs[left] EXCEPT !.at = b]
          BY <1>3, <3>2, <4>1
        <5> QED BY <1>2, <1>3, <2>3, <5>1, AtSays DEF LiveFlat
      <4> QED BY <1>3, <2>2, <4>2, <4>3 DEF Follows, Alike, LiveFlat
    <3> QED BY <1>1, <2>1, <3>2, <3>3, <3>4, StepKeeps
  <2>11. CASE oom = ""
    <3> DEFINE c1 == [cs EXCEPT ![left].at = b]
               b1 == moved(Append(text, Nul))
               p == AsPrefix(cs[left], ln, s)
    <3>1. /\ cells' = [Flat(cs, s, Len(text), b, TRUE) EXCEPT ![left] = AsPrefix(@, ln, s)]
          /\ buffers' = b1 /\ heldStrs' = heldStrs \cup {s} /\ texts' = [texts EXCEPT ![s] = text]
      BY <2>1, <2>11
    <3>2. Means(c1, b1, val, rank)
      BY <2>9
    <3>3. b1[b] = Append(text, Nul)
      <4>1. buffers \in [Buffers \cup {0} -> Contents] /\ b \in Buffers
        BY <1>1, <1>2 DEF Means
      <4> QED BY <4>1
    <3>4. OwnerCell(d, Len(text), b)
      <4>1. Len(text) \in Nat /\ b \in Buffers \cup {0} /\ TRUE \in BOOLEAN
        BY <1>2, <1>3, <2>6
      <4> DEFINE n == Len(text)
      <4> HIDE DEF n
      <4> QED BY <4>1, FlatCell DEF n
    <3>5. /\ p \in CellRecs /\ p.live /\ p.dep /\ p.mutable /\ p.at = s /\ Length(p) = ln /\ StartOf(p) = 0
      <4>1. cs[left].live /\ cs[left].mutable
        BY <1>3, <2>3 DEF LiveFlat
      <4>2. p.at = s
        BY DEF AsPrefix
      <4>3. cs[left] \in CellRecs /\ ln \in Nat /\ s \in Strs
        BY <1>2, <1>3, <2>3
      <4>4. /\ p \in CellRecs /\ Length(p) = ln /\ StartOf(p) = 0
            /\ p.live = cs[left].live /\ p.dep /\ p.mutable = cs[left].mutable
        BY <4>3, PrefixSays
      <4> HIDE DEF p
      <4> QED BY <4>1, <4>2, <4>4
    <3>6. left # s
      BY <1>2, <1>3
    <3>7. cells' = [cs EXCEPT ![s] = d, ![left] = p]
      <4>1. Flat(cs, s, Len(text), b, TRUE) = [cs EXCEPT ![s] = d]
        BY DEF Flat
      <4>2. cs \in [Strs -> CellRecs]
        BY <2>2 DEF Means
      <4> HIDE DEF d
      <4>3. [cs EXCEPT ![s] = d][left] = cs[left]
        BY <1>3, <3>6, <4>2
      <4>4. cells' = [[cs EXCEPT ![s] = d] EXCEPT ![left] = AsPrefix([cs EXCEPT ![s] = d][left], ln, s)]
        BY <3>1, <4>1
      <4> QED BY <4>3, <4>4
    <3> HIDE DEF d, p, b1, moved
    <3>8. /\ cs \in [Strs -> CellRecs] /\ cells' \in [Strs -> CellRecs]
          /\ cells'[s] = d /\ cells'[left] = p
          /\ \A t \in Strs : t # s /\ t # left => cells'[t] = cs[t]
      <4>1. cs \in [Strs -> CellRecs]
        BY <2>2 DEF Means
      <4> QED BY <1>2, <1>3, <3>4, <3>5, <3>6, <3>7, <4>1 DEF OwnerCell
    <3>9. /\ LiveFlat(c1, left) /\ ~c1[s].live /\ c1[left].at = b /\ Length(c1[left]) = ln
          /\ \A t \in Strs : t # left => c1[t] = cs[t]
      <4>1. c1[left] = [cs[left] EXCEPT !.at = b] /\ \A t \in Strs : t # left => c1[t] = cs[t]
        BY <1>3, <3>8
      <4>2. /\ c1[left].live = cs[left].live /\ c1[left].dep = cs[left].dep
            /\ c1[left].at = b /\ Length(c1[left]) = Length(cs[left])
        BY <1>2, <2>3, <4>1, AtSays
      <4> QED BY <1>2, <2>3, <3>6, <4>1, <4>2 DEF LiveFlat, ln
    <3> HIDE DEF c1
    <3>10. \E rank2 : Means(cells', b1, val2, rank2)
      <4>1. b1[c1[left].at] = Append(text, Nul) /\ OwnerCell(d, Len(text), c1[left].at)
            /\ Length(c1[left]) <= Len(text) /\ Length(p) = Length(c1[left])
        BY <1>3, <2>6, <3>3, <3>4, <3>5, <3>9
      <4>2. \A t \in Strs : t # s /\ t # left => cells'[t] = c1[t]
        BY <3>8, <3>9
      <4>3. p.live /\ p.dep /\ p.mutable /\ p.at = s /\ StartOf(p) = 0 /\ p \in CellRecs
        BY <3>5
      <4>4. LiveFlat(c1, left) /\ ~c1[s].live /\ text \in Text /\ left \in Strs /\ s \in Strs
        BY <1>2, <1>3, <2>6, <3>9
      <4>5. cells' \in [Strs -> CellRecs] /\ cells'[s] = d /\ cells'[left] = p
        BY <3>8
      <4> DEFINE ds == cells'
      <4>6. ds \in [Strs -> CellRecs] /\ ds[s] = d /\ ds[left] = p
            /\ \A t \in Strs : t # s /\ t # left => ds[t] = c1[t]
        BY <3>8, <4>2
      <4> HIDE DEF ds
      <4>7. Length(p) = Length(c1[left])
        BY <4>1
      <4>8. HandsOver(c1, ds, b1, left, s, text, d, p)
        BY <4>1, <4>3, <4>4, <4>6, <4>7 DEF HandsOver
      <4>9. \E rank2 : Means(ds, b1, [val EXCEPT ![s] = text], rank2)
        BY ONLY <3>2, <4>4, <4>8, HandedOverMeans
      <4> QED BY <4>9 DEF ds
    <3>11. PICK rank2 : Means(cells', buffers', val2, rank2)
      BY <3>1, <3>10
    <3>12. val2[s] = text /\ \A t \in Strs : t # s => val2[t] = val[t]
      BY <1>1, <1>2 DEF Means
    <3> HIDE DEF val2
    <3>13. Follows(cells, cells', val, val2)
      BY <1>2, <1>3, <2>2, <3>5, <3>8, <3>12 DEF Follows, LiveFlat, Alike
    <3>14. HandsOut(val2)
      <4>1. cells'[s].live
        BY <3>4, <3>8 DEF OwnerCell
      <4> QED BY <1>2, <3>1, <3>12, <4>1 DEF HandsOut
    <3> QED BY <1>1, <2>1, <3>11, <3>13, <3>14, StepKeeps
  <2> QED BY <1>6, <2>10, <2>11 DEF TakesOver
<1> QED BY <1>5, <1>6

LEMMA ConcatKeeps ==
  ASSUME StringsInv, NEW left \in heldStrs, NEW right \in heldStrs,
         NEW oom \in {"", "chars", "cell", "shrink"}, ConcatStrings(left, right, oom)
  PROVE  StringsInv'
<1>1. CASE OwnsGrowable(cells[left])
  <2>1. MayCallString /\ TakesOver(left, right, oom)
    BY <1>1 DEF ConcatStrings, TakesOver
  <2> QED BY <2>1, TakeOverKeeps
<1>2. CASE ~OwnsGrowable(cells[left])
  <2>1. MayCallString /\ CopyBoth(left, right, oom)
    BY <1>2 DEF ConcatStrings
  <2> QED BY <2>1, CopyBothKeeps
<1> QED BY <1>1, <1>2

\* A cell that becomes immutable says what it said.
LEMMA ImmutableSays ==
  ASSUME NEW c, NEW n, NEW b, OwnerCell(c, n, b)
  PROVE  /\ OwnerCell([c EXCEPT !.mutable = FALSE], n, b)
         /\ ~[c EXCEPT !.mutable = FALSE].mutable
<1> DEFINE d == [c EXCEPT !.mutable = FALSE]
<1>1. c \in CellRecs /\ c.live /\ ~c.dep /\ Length(c) = n /\ c.at = b
  BY DEF OwnerCell
<1>2. /\ d \in CellRecs /\ d.live = c.live /\ d.dep = c.dep /\ d.prefix = c.prefix
      /\ d.word = c.word /\ d.at = c.at /\ d.mutable = FALSE
  BY <1>1 DEF CellRecs
<1>3. Length(d) = Length(c)
  BY <1>2 DEF Length
<1> QED BY <1>1, <1>2, <1>3 DEF OwnerCell

LEMMA UndependKeeps ==
  ASSUME StringsInv, NEW s \in heldStrs, NEW immutable \in BOOLEAN, UndependString(s, immutable)
  PROVE  StringsInv'
<1>1. PICK val, rank : Means(cells, buffers, val, rank) /\ Told(val)
  BY DEF StringsInv
<1> DEFINE b == NewBuffer
           chars == CharsOf(cells, s)
           cs == chars.cells
           text == TextIn(buffers, chars, Length(cells[s]))
           cell == IF cells[s].dep THEN AsFlat(cells[s], Length(cells[s]), b) ELSE cells[s]
           d == IF immutable THEN [cell EXCEPT !.mutable = FALSE] ELSE cell
           n == Length(cells[s])
<1>2. b \in Buffers /\ buffers[b] = Freed
  BY <1>1, HeapGives DEF UndependString
<1>3. s \in Strs /\ cells[s].live /\ cells[s] \in CellRecs /\ n \in Nat
  BY <1>1, LengthIs DEF StringsInv, StringsTypeOK, HeldLive
<1>4. /\ cells' = [cs EXCEPT ![s] = d]
      /\ buffers' = IF ~cells[s].dep THEN buffers ELSE [buffers EXCEPT ![b] = Append(text, Nul)]
      /\ kept' = IF immutable THEN kept \cup {<<s, cell.at>>} ELSE kept
      /\ UNCHANGED <<byteCache, heldStrs, texts>>
  BY DEF UndependString
<1>5. text = val[s] /\ cs = Minimized(cells, Bases(cells, s))
  BY <1>1, <1>3, CharsRead
<1> HIDE DEF chars, text, b
<1>6. /\ val[s] \in Text /\ Len(val[s]) = n
      /\ val = [val EXCEPT ![s] = val[s]]
  BY <1>1, <1>3 DEF Means
<1> HIDE DEF cs
<1>7. Means(cs, buffers, val, rank) /\ Alike(cells, cs)
  BY <1>1, <1>3, <1>5, MinimizedMeans
<1> DEFINE at == IF cells[s].dep THEN b ELSE cells[s].at
<1>8. OwnerCell(cell, n, at)
  <2>1. CASE cells[s].dep
    <3>1. b \in Buffers \cup {0}
      BY <1>2
    <3>2. OwnerCell(AsFlat(cells[s], n, b), n, b)
      BY <1>3, <3>1, FlatSays DEF OwnerCell
    <3> QED BY <2>1, <3>2
  <2>2. CASE ~cells[s].dep
    BY <1>3, <2>2 DEF OwnerCell
  <2> QED BY <2>1, <2>2
<1>9. cell.at = at
  BY <1>8 DEF OwnerCell
<1> HIDE DEF cell
<1>10. OwnerCell(d, n, at) /\ (immutable => ~d.mutable)
  BY <1>8, ImmutableSays
<1>11. ~cells[s].dep /\ ~cells[s].mutable => ~d.mutable
  BY <1>8, ImmutableSays DEF cell
<1> HIDE DEF d
<1>12. d.live /\ ~d.dep /\ d.at = at
  BY <1>10 DEF OwnerCell
<1>13. Means(cells', buffers', val, rank)
  <2>1. CASE cells[s].dep
    <3>1. ~LiveFlat(cs, s) /\ buffers' = [buffers EXCEPT ![b] = Append(val[s], Nul)]
      BY <1>3, <1>4, <1>5, <1>7, <2>1 DEF Alike, LiveFlat
    <3>2. OwnerCell(d, Len(val[s]), b)
      BY <1>6, <1>10, <2>1
    <3>3. Means(cells', buffers', [val EXCEPT ![s] = val[s]], rank)
      <4> DEFINE v == val[s]
      <4>1. /\ v \in Text /\ (cs[s].live => v = val[s]) /\ OwnerCell(d, Len(v), b)
            /\ buffers' = [buffers EXCEPT ![b] = Append(v, Nul)]
        BY <1>6, <3>1, <3>2
      <4>2. cells' = [cs EXCEPT ![s] = d] /\ s \in Strs /\ b \in Buffers /\ buffers[b] = Freed
        BY <1>2, <1>3, <1>4
      <4> HIDE DEF v
      <4>3. Means(cells', [buffers EXCEPT ![b] = Append(v, Nul)], [val EXCEPT ![s] = v], rank)
        BY ONLY <1>7, <3>1, <4>1, <4>2, PutFlatMeans
      <4> QED BY <4>1, <4>3 DEF v
    <3> QED BY <1>6, <3>3
  <2>2. CASE ~cells[s].dep
    <3>1. LiveFlat(cs, s) /\ cs[s] = cells[s] /\ buffers' = buffers
      BY <1>3, <1>4, <1>7, <2>2 DEF Alike, LiveFlat
    <3>2. OwnerCell(d, Length(cs[s]), cs[s].at)
      BY <1>10, <2>2, <3>1
    <3> QED BY <1>3, <1>4, <1>7, <3>1, <3>2, PutSameMeans
  <2> QED BY <2>1, <2>2
<1>14. cells'[s] = d /\ \A t \in Strs : t # s => cells'[t] = cs[t]
  BY <1>3, <1>4, <1>7 DEF Means
<1> HIDE DEF n
<1>15. Follows(cells, cells', val, val)
  <2> SUFFICES ASSUME NEW t \in Strs
               PROVE  /\ cells[t].live => cells'[t].live
                      /\ LiveFlat(cells, t) /\ ~cells[t].mutable =>
                             LiveFlat(cells', t) /\ ~cells'[t].mutable /\ cells'[t].at = cells[t].at
    BY DEF Follows
  <2>1. CASE t = s
    BY <1>3, <1>11, <1>12, <1>14, <2>1 DEF LiveFlat
  <2>2. CASE t # s
    BY <1>7, <1>14, <2>2 DEF Alike, LiveFlat
  <2> QED BY <2>1, <2>2
<1>16. PointsInto
  <2>1. CASE immutable
    BY <1>4, <1>9, <1>10, <1>12, <1>14, <2>1 DEF PointsInto, LiveFlat
  <2>2. CASE ~immutable
    BY <1>4, <2>2 DEF PointsInto
  <2> QED BY <2>1, <2>2
<1>17. HandsOut(val) /\ Caches(val)
  BY <1>4 DEF HandsOut, Caches
<1> QED BY <1>1, <1>13, <1>15, <1>16, <1>17, StepKeepsAll

LEMMA GetBytesKeeps ==
  ASSUME StringsInv, NEW s \in heldStrs, GetStringBytes(s)
  PROVE  StringsInv'
<1>1. PICK val, rank : Means(cells, buffers, val, rank) /\ Told(val)
  BY DEF StringsInv
<1> DEFINE chars == CharsOf(cells, s)
           cs == chars.cells
           text == TextIn(buffers, chars, Length(cells[s]))
<1>2. s \in Strs /\ cells[s].live
  BY DEF StringsInv, StringsTypeOK, HeldLive
<1>3. /\ cells' = cs /\ byteCache' = [byteCache EXCEPT ![s] = text]
      /\ buffers' = buffers /\ UNCHANGED <<heldStrs, texts, kept>>
  BY DEF GetStringBytes
<1>4. text = val[s] /\ cs = Minimized(cells, Bases(cells, s))
  BY <1>1, <1>2, CharsRead
<1> HIDE DEF chars, cs, text
<1>5. Means(cs, buffers, val, rank) /\ Alike(cells, cs)
  BY <1>1, <1>2, <1>4, MinimizedMeans
<1>6. Means(cells', buffers', val, rank) /\ Follows(cells, cells', val, val)
  BY <1>3, <1>5, AlikeFollows
<1>7. HandsOut(val) /\ PointsInto /\ Caches(val)
  BY <1>3, <1>4 DEF HandsOut, PointsInto, Caches
<1> QED BY <1>1, <1>6, <1>7, StepKeepsAll

LEMMA ForgetKeeps ==
  ASSUME StringsInv, NEW s \in heldStrs, Forget(s)
  PROVE  StringsInv'
<1>1. PICK val, rank : Means(cells, buffers, val, rank) /\ Told(val)
  BY DEF StringsInv
<1>2. StringsTypeOK /\ KeptStays /\ HeldLive
  BY DEF StringsInv
<1>3. /\ s # Empty /\ heldStrs' = heldStrs \ {s} /\ texts' = [texts EXCEPT ![s] = <<>>]
      /\ kept' = {k \in kept : k[1] # s} /\ cells' = cells /\ buffers' = buffers /\ byteCache' = byteCache
  BY DEF Forget
<1>4. <<>> \in Text
  BY DEF Text
<1>5. StringsTypeOK'
  BY <1>2, <1>3, <1>4 DEF StringsTypeOK
<1>6. KeptStays'
  BY <1>2, <1>3 DEF KeptStays, LiveFlat
<1>7. HeldLive'
  BY <1>2, <1>3 DEF HeldLive
<1>8. Told(val)'
  BY <1>1, <1>2, <1>3 DEF Told, StringsTypeOK
<1>9. Means(cells', buffers', val, rank)
  BY <1>1, <1>3
<1> QED BY <1>5, <1>6, <1>7, <1>8, <1>9 DEF StringsInv

LEMMA CollectKeeps ==
  ASSUME StringsInv, CollectStrings
  PROVE  StringsInv'
<1>1. PICK val, rank : Means(cells, buffers, val, rank) /\ Told(val)
  BY DEF StringsInv
<1>2. StringsTypeOK /\ KeptStays /\ HeldLive
  BY DEF StringsInv
<1> DEFINE marked == UNION {{c.str : c \in Range(Bases(cells, s))} : s \in heldStrs}
           dead == {s \in StrCells : cells[s].live /\ s \notin marked}
           free == {cells[s].at : s \in {t \in dead : ~cells[t].dep}}
<1>3. /\ cells' = [s \in Strs |-> IF s \in dead THEN FreeCell ELSE cells[s]]
      /\ buffers' = [c \in DOMAIN buffers |-> IF c \in free THEN Freed ELSE buffers[c]]
      /\ byteCache' = [s \in Strs |-> IF s \in dead THEN NoBytes ELSE byteCache[s]]
      /\ UNCHANGED <<heldStrs, texts, kept>>
  BY DEF CollectStrings
<1>4. ASSUME NEW s \in heldStrs, NEW i \in 1..Len(Bases(cells, s))
      PROVE  Bases(cells, s)[i].str \in marked
  <2>1. Bases(cells, s) \in Seq(Points)
    BY <1>1, <1>2, BasesIsChain DEF IsChain, StringsTypeOK
  <2>2. Bases(cells, s)[i] \in Range(Bases(cells, s))
    BY <2>1 DEF Range
  <2> QED BY <2>2
<1>5. ASSUME NEW s \in heldStrs PROVE s \in marked
  <2> DEFINE c == Bases(cells, s)
  <2>1. Len(c) \in Nat \ {0} /\ c[1].str = s
    <3>1. IsChain(cells, s, Cardinality(Strs), c)
      BY <1>1, <1>2, BasesIsChain DEF StringsTypeOK
    <3>2. c \in Seq(Points) /\ Len(c) >= 1 /\ c[1] = [str |-> s, skip |-> 0]
      BY <3>1, StrsAreFinite DEF IsChain
    <3> HIDE DEF c
    <3> QED BY <3>2
  <2>2. 1 \in 1..Len(c)
    BY <2>1
  <2> HIDE DEF marked
  <2> QED BY <1>4, <2>1, <2>2
<1>6. ASSUME NEW t \in marked, cells[t].dep PROVE cells[t].at \in marked
  <2>1. PICK s \in heldStrs : t \in {c.str : c \in Range(Bases(cells, s))}
    OBVIOUS
  <2> DEFINE c == Bases(cells, s)
  <2>2. s \in Strs /\ IsChain(cells, s, Cardinality(Strs), c) /\ c \in Seq(Points)
    BY <1>1, <1>2, BasesIsChain DEF IsChain, StringsTypeOK
  <2>3. PICK i \in 1..Len(c) : t = c[i].str
    BY <2>1, <2>2 DEF Range
  <2>4. ~cells[c[Len(c)].str].dep
    BY <1>1, <2>2, ChainEnds
  <2> HIDE DEF c, marked
  <2>5. Len(c) \in Nat /\ i \in 1..Len(c) - 1
    <3>1. Len(c) \in Nat
      BY <2>2
    <3>2. i # Len(c)
      BY <1>6, <2>3, <2>4
    <3> QED BY <3>1, <3>2
  <2>6. c[i + 1] = BaseOf(cells, c[i])
    BY <2>2, <2>5 DEF IsChain
  <2>7. c[i + 1].str = cells[t].at
    BY <2>3, <2>6 DEF BaseOf
  <2>8. i + 1 \in 1..Len(c)
    BY <2>5
  <2> QED BY <1>4, <2>7, <2>8 DEF c
<1> HIDE DEF marked
<1>7. Empty \notin dead /\ dead \in SUBSET Strs /\ \A t \in dead : cells[t].live
  BY StringsAssumption DEF StringsAssumption, Strs
<1>8. ASSUME NEW t \in Strs \ dead, cells[t].dep PROVE cells[t].at \notin dead
  <2>1. cells[t].live
    BY <1>1, <1>8 DEF Means, DepMeans
  <2>2. t \in marked
    <3>1. CASE t = Empty
      BY <1>2, <1>5, <3>1 DEF HeldLive
    <3>2. CASE t # Empty
      BY <1>8, <2>1, <3>2 DEF Strs
    <3> QED BY <3>1, <3>2
  <2> QED BY <1>6, <1>8, <2>2
<1>9. \A s \in heldStrs : s \in Strs /\ s \notin dead
  BY <1>2, <1>5 DEF StringsTypeOK
<1> HIDE DEF dead
<1>10. Means(cells', buffers', val, rank)
  <2>1. cells' = Swept(cells, dead) /\ buffers' = Emptied(buffers, OwnedBy(cells, dead))
    BY <1>3 DEF Swept, Emptied, OwnedBy
  <2>2. Means(Swept(cells, dead), Emptied(buffers, OwnedBy(cells, dead)), val, rank)
    BY <1>1, <1>7, <1>8, FreedMeans
  <2> QED BY <2>1, <2>2
<1>11. /\ \A s \in Strs : IF s \in dead THEN cells'[s] = FreeCell /\ byteCache'[s] = NoBytes
                          ELSE cells'[s] = cells[s] /\ byteCache'[s] = byteCache[s]
       /\ heldStrs' = heldStrs /\ texts' = texts /\ kept' = kept
  BY <1>3
<1>12. StringsTypeOK'
  BY <1>2, <1>3 DEF StringsTypeOK
<1>13. KeptStays'
  BY <1>2, <1>9, <1>11 DEF KeptStays, LiveFlat
<1>14. HeldLive'
  BY <1>2, <1>9, <1>11 DEF HeldLive
<1>15. Told(val)'
  BY <1>1, <1>11 DEF Told
<1> QED BY <1>10, <1>12, <1>13, <1>14, <1>15 DEF StringsInv

----------------------------------------------------------------------------
(* Every step keeps the invariant.                                         *)

LEMMA StutterKeeps ==
  ASSUME StringsInv, UNCHANGED stringVars
  PROVE  StringsInv'
<1>1. /\ cells' = cells /\ buffers' = buffers /\ byteCache' = byteCache
      /\ heldStrs' = heldStrs /\ texts' = texts /\ kept' = kept
  BY DEF stringVars
<1>2. StringsTypeOK' /\ KeptStays' /\ HeldLive'
  BY <1>1 DEF StringsInv, StringsTypeOK, KeptStays, HeldLive, LiveFlat
<1>3. PICK val, rank : Means(cells, buffers, val, rank) /\ Told(val)
  BY DEF StringsInv
<1>4. Means(cells', buffers', val, rank) /\ Told(val)'
  BY <1>1, <1>3 DEF Told
<1> QED BY <1>2, <1>4 DEF StringsInv

LEMMA StringsStep == StringsInv /\ [StringsNext]_stringVars => StringsInv'
<1> SUFFICES ASSUME StringsInv, [StringsNext]_stringVars PROVE StringsInv'
  OBVIOUS
<1>1. ASSUME NEW text \in NewTexts, NEW mutable \in BOOLEAN, NewStringCopyN(text, mutable)
      PROVE  StringsInv'
  BY <1>1, NewStringKeeps
<1>2. ASSUME NEW s \in heldStrs, NEW start \in 0..MaxText, NEW n \in 1..MaxText,
             NewDependentString(s, start, n)
      PROVE  StringsInv'
  BY <1>2, NewDependentKeeps
<1>3. ASSUME NEW l \in heldStrs, NEW r \in heldStrs, NEW oom \in {"", "chars", "cell", "shrink"},
             ConcatStrings(l, r, oom)
      PROVE  StringsInv'
  BY <1>3, ConcatKeeps
<1>4. ASSUME NEW s \in heldStrs, NEW immutable \in BOOLEAN, UndependString(s, immutable)
      PROVE  StringsInv'
  BY <1>4, UndependKeeps
<1>5. ASSUME NEW s \in heldStrs, GetStringBytes(s) PROVE StringsInv'
  BY <1>5, GetBytesKeeps
<1>6. ASSUME NEW s \in heldStrs, Forget(s) PROVE StringsInv'
  BY <1>6, ForgetKeeps
<1>7. CASE CollectStrings
  BY <1>7, CollectKeeps
<1>8. CASE UNCHANGED stringVars
  BY <1>8, StutterKeeps
<1> QED BY <1>1, <1>2, <1>3, <1>4, <1>5, <1>6, <1>7, <1>8 DEF StringsNext

\* Every string stands for one text, and the cells, buffers, remembered bytes and kept pointers of
\* jsstr.c agree on it: a dependent string lies inside its base, no two flat strings own one
\* buffer, and the buffer that native code reads belongs to an immutable string of the program.
THEOREM StringsInvariant == StringsSpec => []StringsInv
<1>1. InitOfStrings => StringsInv
  BY StringsStart
<1>2. StringsInv /\ [StringsNext]_stringVars => StringsInv'
  BY StringsStep
<1> QED BY <1>1, <1>2, PTL DEF StringsSpec

\* A string is a value: the buffers that js_ConcatStrings takes over, the bases that
\* js_MinimizeDependentStrings skips, js_UndependString and a collection leave every text of the
\* program, its remembered bytes and the characters native code reads as they were.
THEOREM TextsCorrect == StringsSpec => []TextsNeverChange
<1>1. StringsInv => TextsNeverChange
  BY InvExact
<1> QED BY <1>1, StringsInvariant, PTL
=============================================================================
