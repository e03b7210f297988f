------------------------------- MODULE Arrays -------------------------------
(***************************************************************************)
(* Arrays (jsarray.c): an object whose length is kept above its indices by *)
(* hooks, and the methods that move its elements in place, one get and one *)
(* set at a time.  What a method is going to do follows from the length it *)
(* reads first and from its arguments: that list of moves is its plan.     *)
(* An element may be a getter or a setter, so each move may fail and end   *)
(* the call; and what sort asks to compare two values may change the array.*)
(*                                                                         *)
(* Lengths stay far below 2^32; JS_HAS_SPARSE_ARRAYS is 0; versions after  *)
(* JavaScript 1.2.  A value is a number, Undef one of them.                *)
(***************************************************************************)
EXTENDS Integers, Sequences, FiniteSets, SequencesExt, FiniteSetsExt, Functions

CONSTANTS
    Arrays,      \* the arrays that a method is called on (inputs)
    Sortings,    \* pairs of a way to compare and an array (inputs)
    Arguments,   \* argument lists of values (inputs)
    Positions,   \* numbers given as positions and counts (inputs)
    Other,       \* an array given to concat (input)
    Undef        \* a number above all other values

\* An array: its indices are below its length.
IsArray(a) ==
  /\ a = [length |-> a.length, at |-> a.at] /\ a.length \in Nat
  /\ DOMAIN a.at \subseteq 0..a.length-1 /\ a.at \in [DOMAIN a.at -> Int]

ASSUME ArraysAssumption ==
  /\ Undef \in Int /\ Positions \subseteq Int /\ Arguments \subseteq Seq(Int)
  /\ \A a \in Arrays \cup {Other} \cup {sorting[2] : sorting \in Sortings} : IsArray(a)

VARIABLES
    array,       \* the object: its length, and its elements by their indices
    made,        \* the array that the method makes
    method,      \* the call: its name and arguments, the array then, and what is left to do
    heap         \* what js_HeapSort has: its vector and where it stands

arrayVars == <<array, made, method, heap>>

(***************************************************************************)
(* InOrder.  A new element raises the length (array_addProperty); to set  *)
(* the length is to delete from the old one down (array_length_setter).    *)
(***************************************************************************)
NewArray == [length |-> 0, at |-> <<>>]

Get(a, i) == IF i \in DOMAIN a.at THEN a.at[i] ELSE Undef

SetLength(a, n) == [length |-> n, at |-> Restrict(a.at, {i \in DOMAIN a.at : i < n \/ i >= a.length})]

PutElement(a, i, v) ==
  [length |-> IF i \notin DOMAIN a.at /\ i >= a.length THEN i + 1 ELSE a.length,
   at |-> [k \in DOMAIN a.at \cup {i} |-> IF k = i THEN v ELSE a.at[k]]]

DeleteElement(a, i) == [a EXCEPT !.at = Restrict(@, DOMAIN @ \ {i})]

\* The elements in order, as a loop over the indices finds them.
InOrder(a) == [k \in 1..a.length |-> Get(a, k - 1)]

(***************************************************************************)
(* Plans.                                                                  *)
(***************************************************************************)
Move(i, j) == [do |-> "move", from |-> i, to |-> j]
Swap(i, j) == [do |-> "swap", from |-> i, to |-> j]
StoreAt(v, i) == [do |-> "store", value |-> v, to |-> i]
Copy(i, j) == [do |-> "copy", from |-> i, to |-> j]     \* into what is made
CopyValue(v, j) == [do |-> "copy value", value |-> v, to |-> j]
Erase(i) == [do |-> "delete", to |-> i]
LengthTo(n) == [do |-> "length", to |-> n]

\* The indices of a loop from one up to another, or down.
Upward(lo, hi) == [k \in 1..Max({hi - lo + 1, 0}) |-> lo + k - 1]
Downward(hi, lo) == [k \in 1..Max({hi - lo + 1, 0}) |-> hi - k + 1]

Moves(indices, by) == [k \in DOMAIN indices |-> Move(indices[k], indices[k] + by)]
Copies(indices, first) == [k \in DOMAIN indices |-> Copy(indices[k], indices[k] - first)]
Stores(args, start) == [k \in DOMAIN args |-> StoreAt(args[k], start + k - 1)]
CopyValues(args, start) == [k \in DOMAIN args |-> CopyValue(args[k], start + k - 1)]

\* A position counted from the end if negative, within the array.
Clamp(d, len) == IF d < 0 THEN Max({d + len, 0}) ELSE Min({d, len})

ReversePlan(len) == [k \in 1..(len \div 2) |-> Swap(k - 1, len - k)]

PushPlan(len, args) == Stores(args, len) \o <<LengthTo(len + Len(args))>>

PopPlan(len) ==
  IF len > 0 THEN <<Copy(len - 1, 0), Erase(len - 1), LengthTo(len - 1)>> ELSE <<LengthTo(0)>>

ShiftPlan(len) ==
  IF len > 0
  THEN <<Copy(0, 0)>> \o Moves(Upward(1, len - 1), -1) \o <<Erase(len - 1), LengthTo(len - 1)>>
  ELSE <<LengthTo(0)>>

UnshiftPlan(len, args) ==
  IF args # <<>>
  THEN Moves(Downward(len - 1, 0), Len(args)) \o Stores(args, 0) \o <<LengthTo(len + Len(args))>>
  ELSE <<>>

\* How many elements a splice takes out, which need not be given: a list of one
\* number or none.
CountGiven(most, howMany) == IF howMany = <<>> THEN most ELSE Min({Max({howMany[1], 0}), most})

\* Mutant: the elements behind the removed ones are moved apart from the lowest up.
SplicePlanUpward(len, start, howMany, args) ==
  LET begin == Clamp(start, len)
      count == CountGiven(len - begin, howMany)
      end == begin + count
      far == Len(args) - count
  IN  Copies(Upward(begin, end - 1), begin)
        \o (IF far = 0 THEN <<>> ELSE Moves(Upward(end, len - 1), far))
        \o Stores(args, begin)
        \o <<LengthTo(len + far)>>

SplicePlan(len, start, howMany, args) ==
  LET begin == Clamp(start, len)
      count == CountGiven(len - begin, howMany)
      end == begin + count
      far == Len(args) - count
  IN  Copies(Upward(begin, end - 1), begin)
        \o (IF far > 0 THEN Moves(Downward(len - 1, end), far)
            ELSE IF far < 0 THEN Moves(Upward(end, len - 1), far) ELSE <<>>)
        \o Stores(args, begin)
        \o <<LengthTo(len + far)>>

\* The array, then an argument that is an array, then values.
ConcatPlan(len, args) ==
  Copies(Upward(0, len - 1), 0)
    \o CopyValues(InOrder(Other), len) \o CopyValues(args, len + Other.length)

SlicePlan(len, start, stop) ==
  LET begin == Clamp(start, len)
      end == IF stop = <<>> THEN len ELSE Clamp(stop[1], len)
  IN  Copies(Upward(begin, end - 1), begin)

(***************************************************************************)
(* Calls.  One is made, and a call that fails does no more.                *)
(***************************************************************************)
Given(start, howMany, args) == [start |-> start, howMany |-> howMany, args |-> args]

MethodCall(name, given, plan) ==
  /\ method.name = "none"
  /\ method' = [name |-> name, given |-> given, before |-> array, plan |-> plan]
  /\ UNCHANGED <<array, made, heap>>

CallMethod ==
  LET len == array.length
      none == Given(0, <<>>, <<>>)
      counts == {<<>>} \cup {<<p>> : p \in Positions}
  IN  \/ MethodCall("reverse", none, ReversePlan(len))
      \/ MethodCall("pop", none, PopPlan(len))
      \/ MethodCall("shift", none, ShiftPlan(len))
      \/ \E args \in Arguments :
           \/ MethodCall("push", Given(0, <<>>, args), PushPlan(len, args))
           \/ MethodCall("unshift", Given(0, <<>>, args), UnshiftPlan(len, args))
           \/ MethodCall("concat", Given(0, <<>>, args), ConcatPlan(len, args))
           \/ \E start \in Positions, howMany \in counts :
                /\ howMany = <<>> => args = <<>>
                /\ MethodCall("splice", Given(start, howMany, args), SplicePlan(len, start, howMany, args))
      \/ \E start \in Positions, stop \in counts :
           MethodCall("slice", Given(start, stop, <<>>), SlicePlan(len, start, stop))

\* The next step of the plan.
Carry(a, step) ==
  CASE step.do = "move" -> PutElement(a, step.to, Get(a, step.from))
    [] step.do = "swap" -> PutElement(PutElement(a, step.from, Get(a, step.to)), step.to, Get(a, step.from))
    [] step.do = "store" -> PutElement(a, step.to, step.value)
    [] step.do = "delete" -> DeleteElement(a, step.to)
    [] step.do = "length" -> SetLength(a, step.to)
    [] OTHER -> a

CarryOut ==
  /\ method.plan # <<>> /\ heap.at = "none"
  /\ LET step == Head(method.plan)
     IN  /\ array' = Carry(array, step)
         /\ made' = CASE step.do = "copy" -> PutElement(made, step.to, Get(array, step.from))
                        [] step.do = "copy value" -> PutElement(made, step.to, step.value)
                        [] OTHER -> made
  /\ method' = [method EXCEPT !.plan = Tail(@)]
  /\ UNCHANGED heap

(***************************************************************************)
(* js_HeapSort, a heap whose root is kept in the last place of the vector  *)
(* and whose node n, from 2 up, in place n - 1.  "order" compares as       *)
(* sort_compare does for itself, undefined last; "any" is a function of    *)
(* the program's, which may answer anything, and change the array.         *)
(***************************************************************************)
Place(n) == n - 1

NoHeap == [vec |-> <<>>, building |-> FALSE, first |-> 0, lo |-> 0, hi |-> 0, pivot |-> Undef,
           at |-> "none"]

Sorts == {"sort by order", "sort by any"}

IsLess(x, y) == IF method.name = "sort by order" THEN {x < y} ELSE BOOLEAN

\* HeapSortHelper(building, lo, hi) begins.
Helper(vec, building, lo, hi) ==
  /\ heap' = [vec |-> vec, building |-> building, first |-> lo, lo |-> lo, hi |-> hi,
              pivot |-> IF lo = 1 THEN Undef ELSE vec[Place(lo)],
              at |-> IF lo = 1 THEN "root" ELSE "down"]
  /\ UNCHANGED method

\* The sort is over: InitArrayElements.
WriteBack(vec) ==
  /\ heap' = NoHeap
  /\ method' = [method EXCEPT !.plan = Stores(vec, 0)]

HelperReturns(vec) ==
  IF heap.building /\ heap.first > 1 THEN Helper(vec, TRUE, heap.first - 1, heap.hi)
  ELSE IF heap.hi > 2 THEN Helper(vec, FALSE, 1, heap.hi - 1)
  ELSE WriteBack(vec)

Sort(order) ==
  LET vec == InOrder(array)
      nel == Len(vec)
  IN  /\ method.name = "none" /\ <<order, array>> \in Sortings
      /\ method' = [name |-> order, given |-> Given(0, <<>>, <<>>), before |-> array, plan |-> <<>>]
      /\ UNCHANGED <<array, made>>
      /\ heap' = [vec |-> vec, building |-> TRUE, first |-> nel \div 2 + 1, lo |-> 0, hi |-> nel,
                  pivot |-> Undef, at |-> "next"]

\* A comparison may run the program's function, which may empty the array.
MayChangeArray ==
  array' \in {array} \cup (IF method.name = "sort by any" THEN {SetLength(array, 0)} ELSE {})

SortFirst ==
  /\ heap.at = "next"
  /\ HelperReturns(heap.vec)
  /\ UNCHANGED <<array, made>>

\* lo = 1: the larger kid of the root goes to the root's place.
SortRoot ==
  LET vec == heap.vec
      hi == heap.hi
  IN  /\ heap.at = "root"
      /\ MayChangeArray
      /\ \E right \in IsLess(vec[Place(2)], vec[Place(3)]) :
          LET j == IF 2 < hi /\ right THEN 3 ELSE 2
          IN  \E below \in IsLess(vec[hi], vec[Place(j)]) :
               IF (heap.building \/ hi = 2) /\ ~below THEN HelperReturns(vec)
               ELSE /\ heap' = [heap EXCEPT !.pivot = vec[hi], !.vec[hi] = vec[Place(j)],
                                           !.lo = j, !.at = "down"]
                    /\ UNCHANGED method
      /\ UNCHANGED made

\* The pivot sinks to its place.
SortDown ==
  LET vec == heap.vec
      lo == heap.lo
      settled == [vec EXCEPT ![Place(lo)] = heap.pivot]
  IN  /\ heap.at = "down"
      /\ IF lo > heap.hi \div 2 THEN HelperReturns(settled) /\ UNCHANGED array
         ELSE /\ MayChangeArray
              /\ \E right \in IF 2 * lo < heap.hi THEN IsLess(vec[Place(2 * lo)], vec[Place(2 * lo + 1)])
                              ELSE {FALSE} :
                  LET j == IF right THEN 2 * lo + 1 ELSE 2 * lo
                  IN  \E below \in IsLess(heap.pivot, vec[Place(j)]) :
                       IF below
                       THEN /\ heap' = [heap EXCEPT !.vec[Place(lo)] = vec[Place(j)], !.lo = j]
                            /\ UNCHANGED method
                       ELSE HelperReturns(settled)
      /\ UNCHANGED made

-----------------------------------------------------------------------------

ArraysInitOf(a) ==
  /\ array = a
  /\ made = NewArray
  /\ method = [name |-> "none", given |-> Given(0, <<>>, <<>>), before |-> NewArray, plan |-> <<>>]
  /\ heap = NoHeap

ArraysInit == \E a \in Arrays \cup {sorting[2] : sorting \in Sortings} : ArraysInitOf(a)

ArraysNext ==
  \/ array \in Arrays /\ CallMethod
  \/ CarryOut
  \/ \E order \in Sorts : Sort(order)
  \/ SortFirst
  \/ SortRoot
  \/ SortDown

ArraysSpec == ArraysInit /\ [][ArraysNext]_arrayVars

(***************************************************************************)
(* What the methods are to do, from the elements as a sequence.            *)
(***************************************************************************)
\* An index from 0 to the length for a position that may be negative or too large.
Bounded(p, len) == CHOOSE i \in 0..len :
  \/ i = p
  \/ i = p + len /\ p < 0
  \/ i = 0 /\ p + len < 0
  \/ i = len /\ p > len

Taken(s, given) ==
  LET from == Bounded(given.start, Len(s))
      most == Len(s) - from
      count == IF given.howMany = <<>> THEN most
               ELSE CHOOSE n \in 0..most : \/ n = given.howMany[1]
                                           \/ n = 0 /\ given.howMany[1] < 0
                                           \/ n = most /\ given.howMany[1] > most
  IN  [before |-> SubSeq(s, 1, from), itself |-> SubSeq(s, from + 1, from + count),
       after |-> SubSeq(s, from + count + 1, Len(s))]

Meant(name, given, s) ==
  CASE name = "reverse" -> Reverse(s)
    [] name = "push" -> s \o given.args
    [] name = "unshift" -> given.args \o s
    [] name = "pop" -> IF s = <<>> THEN s ELSE Front(s)
    [] name = "shift" -> IF s = <<>> THEN s ELSE Tail(s)
    [] name = "splice" -> Taken(s, given).before \o given.args \o Taken(s, given).after
    [] OTHER -> s

MeantResult(name, given, s) ==
  CASE name = "pop" -> IF s = <<>> THEN s ELSE <<Last(s)>>
    [] name = "shift" -> IF s = <<>> THEN s ELSE <<Head(s)>>
    [] name = "splice" -> Taken(s, given).itself
    [] name = "concat" -> s \o InOrder(Other) \o given.args
    [] name = "slice" ->
         LET stop == IF given.howMany = <<>> THEN Len(s) ELSE Bounded(given.howMany[1], Len(s))
         IN  SubSeq(s, Bounded(given.start, Len(s)) + 1, stop)
    [] OTHER -> <<>>

(***************************************************************************)
(* Properties.                                                             *)
(***************************************************************************)
\* Every index is below the length, at every get and set of a method.
LengthCovers ==
  \A a \in {array, made} : \A i \in DOMAIN a.at : i < a.length

\* In the middle of push, pop, shift, unshift and splice, where a getter or setter
\* may fail, no element is lost that the method is not to remove: the moves never
\* run over an element they have not moved.
NothingLost ==
  method.name \in {"push", "pop", "shift", "unshift", "splice"} =>
    LET s == InOrder(method.before)
        kept == Meant(method.name, [method.given EXCEPT !.args = <<>>], s)
    IN  Range(kept) \subseteq Range(InOrder(array))

Times(v, s) == Cardinality({k \in DOMAIN s : s[k] = v})

\* A method that came to its end did what it is to do.  A sort leaves the same values in the
\* array, whatever the comparisons answered and even when one of them emptied it (it does
\* nothing else here), and in order if they have one.
MethodsDone ==
  (method.name # "none" /\ method.plan = <<>> /\ heap = NoHeap) =>
    LET s == InOrder(method.before)
        now == InOrder(array)
    IN  IF method.name \in Sorts
        THEN /\ \A v \in Range(s) \cup Range(now) : Times(v, s) = Times(v, now)
             /\ method.name = "sort by order" => \A k \in 2..Len(now) : now[k - 1] <= now[k]
        ELSE /\ now = Meant(method.name, method.given, s)
             /\ InOrder(made) = MeantResult(method.name, method.given, s)

(* The array methods (jsarray.c), interrupted or not, whatever their arguments. *)
ArrayMethodsExact == LengthCovers /\ NothingLost /\ MethodsDone
=============================================================================
