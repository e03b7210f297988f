----------------------------- MODULE HeapAndCallsProofs -----------------------------
(***************************************************************************)
(* Theorems about GcHeap, for every set of cells, arenas, roots and        *)
(* limits; about Frames: an activation, lazily reflected and copied as it  *)
(* is, implements Activation, for every number of formals, arguments,      *)
(* variables and values; and about Watch, for every set of properties and  *)
(* of watchpoints and every depth to which handlers nest.                  *)
(***************************************************************************)
EXTENDS GcHeap, Frames, Watch, FiniteSetTheorems, SequenceTheorems, TLAPS

(* The heap of cells. *)

(* Every action leaves gcPoke alone or assigns it. *)
LEMMA PokeStep == gcPoke \in BOOLEAN /\ [Next]_vars => gcPoke' \in BOOLEAN
  BY DEF Next, vars, gcVars, rootVars, Allocate, Mutate, Collect, Lifecycle, TakeCell,
         AllocRecycled, AllocFresh, AllocFreshIf, AllocLastDitch, AllocFail, SetSlot, ClearSlot,
         UndependString, Push, Pop, LockGCThing, LockUnless, UnlockGCThing, UnlockLeaving, RemoveRoot, AddRoot,
         ForceGC, MarkPhase, MarkPhaseFrom, SweepThing, SweepKeeping, FinalizeObject, FreePhase, FreePhaseTo, DestroyContext,
         FinishLanding, NewContext

LEMMA InitType == Init => DataTypeOK
  BY HeapAssumption DEF HeapAssumption, Init, DataTypeOK, Types

(* The other variables keep their types, action by action. *)
LEMMA TypeStep == DataTypeOK /\ [Next]_vars => DataTypeOK'
<1> SUFFICES ASSUME DataTypeOK, [Next]_vars PROVE DataTypeOK'
  OBVIOUS
<1> USE HeapAssumption DEF HeapAssumption
<1>1. ASSUME NEW ty \in Types, NEW base,
             AllocRecycled(ty, base) \/ AllocFresh(ty, base)
      PROVE  DataTypeOK'
  <2> PICK c \in Things : TakeCell(c, ty, base)
    BY <1>1 DEF AllocRecycled, AllocFresh, AllocFreshIf, DataTypeOK
  <2>1. base \in SUBSET Things
    BY DEF TakeCell, Holdable, Reach
  <2>2. carved' \in SUBSET Things /\ freeList' \in SUBSET Things
    BY <1>1 DEF AllocRecycled, AllocFresh, AllocFreshIf, DataTypeOK
  <2> QED BY <2>1, <2>2 DEF TakeCell, DataTypeOK, gcVars
<1>2. CASE \E ty \in Types : AllocLastDitch(ty)
  BY <1>2 DEF AllocLastDitch, DataTypeOK, StartGC, SkipGC, heapVars, rootVars
<1>3. CASE AllocFail
  BY <1>3 DEF AllocFail, DataTypeOK, heapVars, rootVars, gcVars
<1>4. CASE \E o, t \in Things : SetSlot(o, t) \/ ClearSlot(o, t)
  BY <1>4 DEF SetSlot, ClearSlot, DataTypeOK, rootVars
<1>5. CASE \E t \in Things : UndependString(t) \/ Push(t) \/ Pop(t)
  BY <1>5 DEF UndependString, Push, Pop, DataTypeOK, heapVars, rootVars, gcVars
<1>6. CASE \E t \in Things : LockGCThing(t)
  BY <1>6 DEF LockGCThing, LockUnless, DataTypeOK, gcVars
<1>7. CASE \E t \in Things : UnlockGCThing(t)
  <2> PICK t \in Things : UnlockGCThing(t)
    BY <1>7
  <2>1. lockBits[t] \in 0 .. Stuck /\ gcLocksHash[t] \in Nat
    BY DEF DataTypeOK
  <2>2. lockBits' \in [Things -> 0 .. Stuck] /\ gcLocksHash' \in [Things -> Nat]
    BY <2>1 DEF UnlockGCThing, UnlockLeaving, DataTypeOK
  <2> QED BY <2>2 DEF UnlockGCThing, UnlockLeaving, DataTypeOK
<1>8. CASE \E r \in RootIds : RemoveRoot(r) \/ \E v \in Things \cup {Null} : AddRoot(r, v)
  BY <1>8 DEF RemoveRoot, AddRoot, DataTypeOK, heapVars, gcVars
<1>9. CASE ForceGC
  BY <1>9 DEF ForceGC, DataTypeOK, StartGC, SkipGC, heapVars
<1>10. CASE MarkPhase
  <2>1. mark' \in SUBSET Things /\ reached' \in SUBSET Things
    BY <1>10 DEF MarkPhase, MarkPhaseFrom, MarkFrom, Holdable, Reach
  <2> QED BY <1>10, <2>1 DEF MarkPhase, MarkPhaseFrom, DataTypeOK, heapVars, rootVars
<1>11. CASE \E t \in Things : SweepThing(t)
  BY <1>11 DEF SweepThing, SweepKeeping, Finalize, DataTypeOK, Types, rootVars
<1>12. CASE FinalizeObject
  BY <1>12 DEF FinalizeObject, Finalize, DataTypeOK, Types, rootVars
<1>13. CASE FreePhase
  <2>1. carved' \in SUBSET Things /\ freeList' \in SUBSET Things
    BY <1>13 DEF FreePhase, FreePhaseTo, DataTypeOK
  <2> QED BY <1>13, <2>1 DEF FreePhase, FreePhaseTo, DataTypeOK, rootVars
<1>14. CASE DestroyContext
  BY <1>14 DEF DestroyContext, DataTypeOK, StartGC, heapVars
<1>15. CASE FinishLanding
  BY <1>15 DEF FinishLanding, DataTypeOK, StartGC, SkipGC, heapVars, rootVars
<1>16. CASE NewContext
  BY <1>16 DEF NewContext, DataTypeOK, heapVars, rootVars, gcVars
<1>17. CASE UNCHANGED vars
  BY <1>17 DEF DataTypeOK, vars, heapVars, rootVars, gcVars
<1> QED
  BY <1>1, <1>2, <1>3, <1>4, <1>5, <1>6, <1>7, <1>8, <1>9, <1>10, <1>11, <1>12,
     <1>13, <1>14, <1>15, <1>16, <1>17
  DEF Next, Allocate, Mutate, Collect, Lifecycle

(* The flag bytes, the freelist, the hash of locks and the collector's state keep
   their types (js_AllocGCThing, js_GC). *)
THEOREM TypeCorrect == Spec => []TypeOK
<1>1. Init => TypeOK
  BY InitType DEF Init, TypeOK
<1>2. TypeOK /\ [Next]_vars => TypeOK'
  BY TypeStep, PokeStep DEF TypeOK
<1> QED BY <1>1, <1>2, PTL DEF Spec

----------------------------------------------------------------------------
(* Reach is the least set that holds S and is closed under references. *)
LEMMA ReachClosed ==
  ASSUME NEW refs \in [Things -> SUBSET Things], NEW S \in SUBSET Things
  PROVE  /\ S \subseteq Reach(refs, S)
         /\ Reach(refs, S) \subseteq Things
         /\ \A u \in Reach(refs, S) : refs[u] \subseteq Reach(refs, S)
<1>1. S \subseteq Reach(refs, S) /\ Reach(refs, S) \subseteq Things
  BY DEF Reach
<1>2. ASSUME NEW u \in Reach(refs, S), NEW t \in refs[u]
      PROVE  t \in Reach(refs, S)
  <2>1. u \in Things /\ t \in Things
    BY <1>2 DEF Reach
  <2>2. ASSUME NEW C \in SUBSET Things, S \subseteq C, \A w \in C : refs[w] \subseteq C
        PROVE  t \in C
    BY <1>2, <2>1, <2>2 DEF Reach
  <2> QED BY <2>1, <2>2 DEF Reach
<1> QED BY <1>1, <1>2

LEMMA ReachLeast ==
  ASSUME NEW refs \in [Things -> SUBSET Things], NEW S \in SUBSET Things,
         NEW C \in SUBSET Things, S \subseteq C, \A u \in C : refs[u] \subseteq C
  PROVE  Reach(refs, S) \subseteq C
  BY DEF Reach

(* Adding things that refer to nothing, or are there already, adds only them. *)
LEMMA ReachLeaves ==
  ASSUME NEW refs \in [Things -> SUBSET Things], NEW S \in SUBSET Things,
         NEW L \in SUBSET Things, \A t \in L : refs[t] = {} \/ t \in S
  PROVE  Reach(refs, S \cup L) \subseteq Reach(refs, S) \cup L
<1> DEFINE C == Reach(refs, S) \cup L
<1>1. /\ S \subseteq Reach(refs, S) /\ Reach(refs, S) \subseteq Things
      /\ \A u \in Reach(refs, S) : refs[u] \subseteq Reach(refs, S)
  BY ReachClosed
<1>2. C \in SUBSET Things /\ S \cup L \subseteq C
  BY <1>1
<1>3. \A u \in C : refs[u] \subseteq C
  BY <1>1
<1> HIDE DEF C
<1>4. Reach(refs, S \cup L) \subseteq C
  BY <1>2, <1>3, ReachLeast
<1> QED BY <1>4 DEF C

LEMMA HoldableClosed ==
  ASSUME DataTypeOK
  PROVE  /\ MarkRoots \subseteq Holdable /\ Locked \subseteq Holdable
         /\ Holdable \subseteq Things
         /\ \A u \in Holdable : slots[u] \subseteq Holdable
<1>1. MarkRoots \cup Locked \in SUBSET Things /\ slots \in [Things -> SUBSET Things]
  BY DEF MarkRoots, Locked, DataTypeOK
<1> QED BY <1>1, ReachClosed DEF Holdable

LEMMA LockedHoldable == DataTypeOK /\ NoDangling => Locked \subseteq live
  BY HoldableClosed DEF NoDangling

(* To bound what a step makes holdable it is enough to look at the roots, the locks
   and the references of the things in the bound. *)
LEMMA HoldableBound ==
  ASSUME DataTypeOK', NEW C \in SUBSET Things,
         MarkRoots' \subseteq C, Locked' \subseteq C, \A u \in C : slots'[u] \subseteq C
  PROVE  Holdable' \subseteq C
<1>1. (MarkRoots \cup Locked)' \in SUBSET Things /\ slots' \in [Things -> SUBSET Things]
  BY DEF MarkRoots, Locked, DataTypeOK
<1>2. Holdable' = Reach(slots', (MarkRoots \cup Locked)')
  BY DEF Holdable, Reach
<1> QED BY <1>1, <1>2, ReachLeast

(* A cell the allocator may take holds no thing, so nothing leads to it. *)
LEMMA AllocatedCell ==
  ASSUME HeapInv, NEW ty \in Types, NEW base,
         AllocRecycled(ty, base) \/ AllocFresh(ty, base)
  PROVE  \E c \in Things :
            /\ TakeCell(c, ty, base)
            /\ c \notin live /\ c \notin Holdable
            /\ lockBits[c] = 0 /\ gcLocksHash[c] = 0
            /\ c \notin freeList' /\ c \in carved'
            /\ freeList' \subseteq freeList /\ carved \subseteq carved'
<1>1. PICK c \in Things :
        /\ TakeCell(c, ty, base) /\ c \notin live
        /\ c \notin freeList' /\ c \in carved'
        /\ freeList' \subseteq freeList /\ carved \subseteq carved'
  <2>1. CASE AllocRecycled(ty, base)
    <3> PICK c \in freeList : freeList' = freeList \ {c} /\ TakeCell(c, ty, base)
      BY <2>1 DEF AllocRecycled
    <3>1. c \in Things /\ c \notin live
      BY DEF HeapInv, TypeOK, DataTypeOK, CellsInv
    <3>2. c \in carved' /\ carved \subseteq carved'
      BY <2>1 DEF AllocRecycled, HeapInv, CellsInv
    <3> QED BY <3>1, <3>2
  <2>2. CASE AllocFresh(ty, base)
    <3> PICK c \in Things \ carved : carved' = carved \cup {c} /\ TakeCell(c, ty, base)
      BY <2>2 DEF AllocFresh, AllocFreshIf
    <3>1. c \notin live /\ freeList' = freeList /\ freeList = {}
      BY <2>2 DEF AllocFresh, AllocFreshIf, HeapInv, CellsInv
    <3> QED BY <3>1
  <2> QED BY <2>1, <2>2
<1>2. c \notin Holdable
  BY <1>1 DEF HeapInv, NoDangling
<1>3. lockBits[c] = 0 /\ gcLocksHash[c] = 0
  <2>1. c \notin MarkRoots /\ c \notin Locked
    BY <1>2, HoldableClosed DEF HeapInv, TypeOK
  <2> QED BY <2>1 DEF MarkRoots, Locked, HeapInv, TypeOK, DataTypeOK
<1> QED BY <1>1, <1>2, <1>3

----------------------------------------------------------------------------
(* Cells: a live cell stays carved and off the freelist. *)
LEMMA CellsStep ==
  ASSUME HeapInv, [Next]_vars
  PROVE  CellsInv'
<1> USE DEF HeapInv, CellsInv
<1>1. ASSUME NEW ty \in Types, NEW base,
             AllocRecycled(ty, base) \/ AllocFresh(ty, base)
      PROVE  CellsInv'
  <2> PICK c \in Things :
        /\ TakeCell(c, ty, base) /\ c \notin freeList' /\ c \in carved'
        /\ freeList' \subseteq freeList /\ carved \subseteq carved'
    BY <1>1, AllocatedCell
  <2> QED BY DEF TakeCell
<1>2. CASE \E t \in Things : SweepThing(t)
  BY <1>2 DEF SweepThing, SweepKeeping, Finalize
<1>3. CASE FinalizeObject
  BY <1>3 DEF FinalizeObject, Finalize
<1>4. CASE FreePhase
  BY <1>4 DEF FreePhase, FreePhaseTo, Arena, TypeOK, DataTypeOK
<1>5. CASE UNCHANGED <<live, carved, freeList>>
  BY <1>5
<1>6. (\E ty \in Types : AllocLastDitch(ty)) \/ AllocFail \/ Mutate \/ MarkPhase
        \/ Lifecycle \/ UNCHANGED vars => UNCHANGED <<live, carved, freeList>>
  BY DEF AllocLastDitch, AllocFail, Mutate, MarkPhase, MarkPhaseFrom, Lifecycle, SetSlot, ClearSlot,
         UndependString, Push, Pop, LockGCThing, LockUnless, UnlockGCThing, UnlockLeaving, RemoveRoot, AddRoot,
         ForceGC, DestroyContext, FinishLanding, NewContext, vars, heapVars
<1> QED
  BY <1>1, <1>2, <1>3, <1>4, <1>5, <1>6 DEF Next, Allocate, Collect

(* Locks: the flag byte and gcLocksHash move together. *)
LEMMA LocksStep ==
  ASSUME HeapInv, [Next]_vars
  PROVE  /\ LeavesInv'
         /\ \A t \in Things : gcLocksHash'[t] > 0 <=> (type'[t] = "object" /\ lockBits'[t] > 0)
<1> DEFINE Agree == \A t \in Things : gcLocksHash[t] > 0 <=> (type[t] = "object" /\ lockBits[t] > 0)
<1> SUFFICES LeavesInv' /\ Agree'
  OBVIOUS
<1>0. DataTypeOK /\ LeavesInv /\ Agree /\ Locked \subseteq Holdable
  BY HoldableClosed DEF HeapInv, TypeOK, LocksAgree
<1>1. ASSUME NEW ty \in Types, NEW base,
             AllocRecycled(ty, base) \/ AllocFresh(ty, base)
      PROVE  LeavesInv' /\ Agree'
  <2> PICK c \in Things :
        TakeCell(c, ty, base) /\ lockBits[c] = 0 /\ gcLocksHash[c] = 0
    BY <1>1, AllocatedCell
  <2>1. ty # "mutable" => base = {}
    BY DEF TakeCell
  <2> QED BY <1>0, <2>1 DEF TakeCell, LeavesInv, Locked, DataTypeOK
<1>2. CASE \E o, t \in Things : SetSlot(o, t) \/ ClearSlot(o, t)
  BY <1>0, <1>2 DEF SetSlot, ClearSlot, LeavesInv, Locked, DataTypeOK, rootVars
<1>3. CASE \E t \in Things : UndependString(t)
  BY <1>0, <1>3 DEF UndependString, LeavesInv, Locked, DataTypeOK, rootVars
<1>4. CASE \E t \in Things : LockGCThing(t)
  BY <1>0, <1>4, HeapAssumption DEF HeapAssumption, LockGCThing, LockUnless, LeavesInv, Locked, DataTypeOK
<1>5. CASE \E t \in Things : UnlockGCThing(t)
  <2> PICK t \in Things : UnlockGCThing(t)
    BY <1>5
  <2>1. type' = type /\ slots' = slots /\ type[t] \in LockTypes
    BY DEF UnlockGCThing, UnlockLeaving
  <2>2. \A u \in Things \ {t} : lockBits'[u] = lockBits[u] /\ gcLocksHash'[u] = gcLocksHash[u]
    BY <1>0 DEF UnlockGCThing, UnlockLeaving, DataTypeOK
  <2>3. gcLocksHash'[t] > 0 <=> (type[t] = "object" /\ lockBits'[t] > 0)
    BY <1>0, HeapAssumption DEF HeapAssumption, UnlockGCThing, UnlockLeaving, DataTypeOK
  <2> QED BY <1>0, <2>1, <2>2, <2>3 DEF LeavesInv, Locked
<1>6. CASE \E t \in Things : SweepThing(t)
  BY <1>0, <1>6 DEF SweepThing, SweepKeeping, Finalize, LeavesInv, Locked, DataTypeOK, rootVars
<1>7. CASE FinalizeObject
  BY <1>0, <1>7 DEF FinalizeObject, Finalize, LeavesInv, Locked, DataTypeOK, rootVars,
                  HeapInv, SweepInv
<1>8. CASE UNCHANGED <<type, lockBits, gcLocksHash, slots>>
  BY <1>0, <1>8 DEF LeavesInv, Locked
<1>9. \/ \E ty \in Types : AllocLastDitch(ty)
      \/ AllocFail \/ ForceGC \/ MarkPhase \/ FreePhase \/ Lifecycle \/ UNCHANGED vars
      \/ \E t \in Things : Push(t) \/ Pop(t)
      \/ \E r \in RootIds : RemoveRoot(r) \/ \E v \in Things \cup {Null} : AddRoot(r, v)
      => UNCHANGED <<type, lockBits, gcLocksHash, slots>>
  BY DEF AllocLastDitch, AllocFail, ForceGC, MarkPhase, MarkPhaseFrom, FreePhase, FreePhaseTo, Lifecycle, Push, Pop,
         RemoveRoot, AddRoot, DestroyContext, FinishLanding, NewContext, vars, heapVars, rootVars
<1> QED
  BY <1>1, <1>2, <1>3, <1>4, <1>5, <1>6, <1>7, <1>8, <1>9 DEF Next, Allocate, Mutate, Collect

----------------------------------------------------------------------------
(* Only an allocation makes anything holdable that was not. *)
LEMMA HoldableStep ==
  ASSUME HeapInv, [Next]_vars, DataTypeOK',
         ~ \E ty \in Types, base \in {{}} \cup {{t} : t \in Things} :
              AllocRecycled(ty, base) \/ AllocFresh(ty, base)
  PROVE  Holdable' \subseteq Holdable
<1> DEFINE Bounded == /\ MarkRoots' \subseteq Holdable /\ Locked' \subseteq Holdable
                      /\ \A u \in Holdable : slots'[u] \subseteq Holdable
<1> SUFFICES Bounded
  BY HoldableClosed, HoldableBound DEF HeapInv, TypeOK
<1>0. /\ DataTypeOK /\ MarkRoots \subseteq Holdable /\ Locked \subseteq Holdable
      /\ Holdable \subseteq Things
      /\ \A u \in Holdable : slots[u] \subseteq Holdable
  BY HoldableClosed DEF HeapInv, TypeOK
<1>1. CASE \E o, t \in Things : SetSlot(o, t) \/ ClearSlot(o, t)
  <2> PICK o \in Things, t \in Things : SetSlot(o, t) \/ ClearSlot(o, t)
    BY <1>1
  <2>1. MarkRoots' = MarkRoots /\ Locked' = Locked
    BY DEF SetSlot, ClearSlot, MarkRoots, Locked, rootVars
  <2>2. \A u \in Holdable : slots'[u] \subseteq Holdable
    BY <1>0 DEF SetSlot, ClearSlot, DataTypeOK
  <2> QED BY <1>0, <2>1, <2>2
<1>2. CASE \E t \in Things : UndependString(t)
  <2>1. MarkRoots' = MarkRoots /\ Locked' = Locked
    BY <1>2 DEF UndependString, MarkRoots, Locked, rootVars
  <2>2. \A u \in Holdable : slots'[u] \subseteq Holdable
    BY <1>0, <1>2 DEF UndependString, DataTypeOK
  <2> QED BY <1>0, <2>1, <2>2
<1>3. CASE \E t \in Things : Push(t) \/ Pop(t)
  <2>1. Locked' = Locked /\ slots' = slots
    BY <1>3 DEF Push, Pop, Locked, heapVars
  <2>2. MarkRoots' \subseteq Holdable
    BY <1>0, <1>3 DEF Push, Pop, MarkRoots
  <2> QED BY <1>0, <2>1, <2>2
<1>4. CASE \E t \in Things : LockGCThing(t)
  <2> PICK t \in Things : LockGCThing(t)
    BY <1>4
  <2>1. slots' = slots /\ t \in Holdable
    BY DEF LockGCThing, LockUnless
  <2>2. Locked' \subseteq Locked \cup {t} /\ MarkRoots' \subseteq MarkRoots \cup {t}
    BY <1>0 DEF LockGCThing, LockUnless, Locked, MarkRoots, DataTypeOK
  <2> QED BY <1>0, <2>1, <2>2
<1>5. CASE \E t \in Things : UnlockGCThing(t)
  <2> PICK t \in Things : UnlockGCThing(t)
    BY <1>5
  <2>1. slots' = slots /\ t \in Holdable
    BY DEF UnlockGCThing, UnlockLeaving
  <2>2. Locked' \subseteq Locked \cup {t} /\ MarkRoots' \subseteq MarkRoots \cup {t}
    BY <1>0 DEF UnlockGCThing, UnlockLeaving, Locked, MarkRoots, DataTypeOK
  <2> QED BY <1>0, <2>1, <2>2
<1>6. CASE \E r \in RootIds : RemoveRoot(r) \/ \E v \in Things \cup {Null} : AddRoot(r, v)
  <2>1. slots' = slots /\ Locked' = Locked
    BY <1>6 DEF RemoveRoot, AddRoot, heapVars, Locked
  <2>2. MarkRoots' \subseteq Holdable
    BY <1>0, <1>6, HeapAssumption
    DEF HeapAssumption, RemoveRoot, AddRoot, MarkRoots, DataTypeOK
  <2> QED BY <1>0, <2>1, <2>2
<1>7. CASE ForceGC \/ DestroyContext
  <2>1. slots' = slots /\ Locked' = Locked
    BY <1>7 DEF ForceGC, DestroyContext, heapVars, Locked
  <2>2. MarkRoots' \subseteq Holdable
    BY <1>0, <1>7, HeapAssumption DEF HeapAssumption, ForceGC, DestroyContext, MarkRoots
  <2> QED BY <1>0, <2>1, <2>2
<1>8. CASE (\E t \in Things : SweepThing(t)) \/ FinalizeObject
  <2>1. MarkRoots' = MarkRoots /\ Locked' = Locked
    BY <1>8 DEF SweepThing, SweepKeeping, FinalizeObject, MarkRoots, Locked, rootVars
  <2>2. \A u \in Holdable : slots'[u] \subseteq Holdable
    BY <1>0, <1>8 DEF SweepThing, SweepKeeping, FinalizeObject, Finalize, DataTypeOK
  <2> QED BY <1>0, <2>1, <2>2
<1>9. CASE UNCHANGED <<lockBits, slots, rootVars>>
  BY <1>0, <1>9 DEF MarkRoots, Locked, rootVars
<1>10. (\E ty \in Types : AllocLastDitch(ty)) \/ AllocFail \/ MarkPhase \/ FreePhase
         \/ FinishLanding \/ NewContext \/ UNCHANGED vars => UNCHANGED <<lockBits, slots, rootVars>>
  BY DEF AllocLastDitch, AllocFail, MarkPhase, MarkPhaseFrom, FreePhase, FreePhaseTo, FinishLanding, NewContext,
         vars, heapVars
<1> QED
  BY <1>1, <1>2, <1>3, <1>4, <1>5, <1>6, <1>7, <1>8, <1>9, <1>10
  DEF Next, Allocate, Mutate, Collect, Lifecycle

(* What the roots lead to, apart from the locks on leaves, is all that is holdable. *)
LEMMA HoldableSplit ==
  ASSUME HeapInv, "mutable" \notin LockTypes
  PROVE  Holdable \subseteq Reach(slots, MarkRoots) \cup Locked
<1>1. MarkRoots \in SUBSET Things /\ Locked \in SUBSET Things
      /\ slots \in [Things -> SUBSET Things]
  BY DEF MarkRoots, Locked, HeapInv, TypeOK, DataTypeOK
<1>2. ASSUME NEW t \in Locked PROVE slots[t] = {} \/ t \in MarkRoots
  <2>1. t \in Things /\ lockBits[t] > 0 /\ type[t] \in LockTypes /\ type[t] \in Types
    BY DEF Locked, HeapInv, LeavesInv, TypeOK, DataTypeOK
  <2>2. CASE type[t] = "object"
    BY <2>1, <2>2 DEF HeapInv, LocksAgree, MarkRoots
  <2>3. CASE type[t] = "string"
    BY <2>1, <2>3 DEF HeapInv, LeavesInv
  <2> QED BY <2>1, <2>2, <2>3 DEF Types
<1> QED BY <1>1, <1>2, ReachLeaves DEF Holdable

LEMMA ReachMonotone ==
  ASSUME NEW refs \in [Things -> SUBSET Things], NEW S \in SUBSET Things,
         NEW refs2 \in [Things -> SUBSET Things], NEW S2 \in SUBSET Things,
         S2 \subseteq S, \A u \in Things : refs2[u] \subseteq refs[u]
  PROVE  Reach(refs2, S2) \subseteq Reach(refs, S)
<1> DEFINE C == Reach(refs, S)
<1>1. C \in SUBSET Things /\ S \subseteq C /\ \A u \in C : refs[u] \subseteq C
  BY ReachClosed
<1>2. S2 \subseteq C /\ \A u \in C : refs2[u] \subseteq C
  BY <1>1
<1> HIDE DEF C
<1>3. Reach(refs2, S2) \subseteq C
  BY <1>1, <1>2, ReachLeast
<1> QED BY <1>3 DEF C

(* While the collector runs, the part of the heap the roots lead to only shrinks. *)
LEMMA MarkedStep ==
  ASSUME DataTypeOK, DataTypeOK', MarkRoots' \subseteq MarkRoots,
         \A u \in Things : slots'[u] \subseteq slots[u]
  PROVE  Reach(slots, MarkRoots)' \subseteq Reach(slots, MarkRoots)
<1>1. /\ slots \in [Things -> SUBSET Things] /\ slots' \in [Things -> SUBSET Things]
      /\ MarkRoots \in SUBSET Things /\ MarkRoots' \in SUBSET Things
  BY DEF DataTypeOK, MarkRoots
<1>2. Reach(slots, MarkRoots)' = Reach(slots', MarkRoots')
  BY DEF Reach
<1> QED BY <1>1, <1>2, ReachMonotone

(* The sweep only finalizes what the program cannot name. *)
LEMMA SweptIsGarbage ==
  ASSUME HeapInv, "mutable" \notin LockTypes, phase = "sweep",
         NEW t \in unswept, t \notin mark, lockBits[t] = 0
  PROVE  t \notin Holdable
<1>1. t \in Things
  BY DEF HeapInv, TypeOK, DataTypeOK
<1>2. t \notin Reach(slots, MarkRoots)
  BY DEF HeapInv, SweepInv
<1>3. t \notin Locked
  BY DEF Locked
<1> QED BY <1>2, <1>3, HoldableSplit

LEMMA DanglingStep ==
  ASSUME HeapInv, [Next]_vars, DataTypeOK', "mutable" \notin LockTypes
  PROVE  NoDangling'
<1> DEFINE Alloc == \E ty \in Types, base \in {{}} \cup {{t} : t \in Things} :
                      AllocRecycled(ty, base) \/ AllocFresh(ty, base)
<1>0. Holdable \subseteq live /\ live' \in SUBSET Things
  BY DEF HeapInv, NoDangling, DataTypeOK
<1>1. CASE Alloc
  <2> PICK ty \in Types, base \in {{}} \cup {{t} : t \in Things} :
        AllocRecycled(ty, base) \/ AllocFresh(ty, base)
    BY <1>1
  <2> PICK c \in Things : TakeCell(c, ty, base) /\ c \notin Holdable
    BY AllocatedCell
  <2>0. /\ DataTypeOK /\ MarkRoots \subseteq Holdable /\ Locked \subseteq Holdable
        /\ Holdable \subseteq Things
        /\ \A u \in Holdable : slots[u] \subseteq Holdable
    BY HoldableClosed DEF HeapInv, TypeOK
  <2>1. MarkRoots' \subseteq Holdable \cup {c} /\ Locked' \subseteq Holdable \cup {c}
    BY <2>0 DEF TakeCell, MarkRoots, Locked, DataTypeOK
  <2>2. \A u \in Holdable \cup {c} : slots'[u] \subseteq Holdable \cup {c}
    <3>1. slots'[c] \subseteq Holdable
      BY <2>0 DEF TakeCell, DataTypeOK
    <3>2. \A u \in Holdable : slots'[u] = slots[u]
      BY <2>0 DEF TakeCell, DataTypeOK
    <3> QED BY <2>0, <3>1, <3>2
  <2>3. Holdable' \subseteq Holdable \cup {c}
    BY <2>0, <2>1, <2>2, HoldableBound
  <2> QED BY <1>0, <2>3 DEF NoDangling, TakeCell
<1>2. ~Alloc => Holdable' \subseteq Holdable
  BY HoldableStep
<1>3. CASE \E t \in Things : SweepThing(t)
  <2> PICK t \in Things : SweepThing(t)
    BY <1>3
  <2>1. ~Alloc
    BY DEF SweepThing, SweepKeeping, AllocRecycled, AllocFresh, AllocFreshIf, MayAllocate
  <2>2. CASE live' = live
    BY <1>0, <1>2, <2>1, <2>2 DEF NoDangling
  <2>3. CASE live' # live
    <3>1. live' = live \ {t} /\ phase = "sweep" /\ t \in unswept /\ t \notin mark /\ lockBits[t] = 0
      BY <2>3 DEF SweepThing, SweepKeeping, Finalize
    <3>2. t \notin Holdable
      BY <3>1, SweptIsGarbage
    <3> QED BY <1>0, <1>2, <2>1, <3>1, <3>2 DEF NoDangling
  <2> QED BY <2>2, <2>3
<1>4. CASE FinalizeObject
  <2>1. ~Alloc
    BY <1>4, HeapAssumption DEF FinalizeObject, AllocRecycled, AllocFresh, AllocFreshIf, MayAllocate,
       HeapInv, SweepInv
  <2>2. finalizing \notin Holdable
    BY <1>4 DEF FinalizeObject, HeapInv, SweepInv
  <2> QED BY <1>0, <1>2, <1>4, <2>1, <2>2 DEF NoDangling, FinalizeObject, Finalize
<1>5. CASE ~Alloc /\ live' = live
  BY <1>0, <1>2, <1>5 DEF NoDangling
<1>6. (\E ty \in Types : AllocLastDitch(ty)) \/ AllocFail \/ Mutate \/ MarkPhase \/ FreePhase
        \/ Lifecycle \/ UNCHANGED vars => live' = live
  BY DEF AllocLastDitch, AllocFail, Mutate, MarkPhase, MarkPhaseFrom, FreePhase, FreePhaseTo, Lifecycle, SetSlot, ClearSlot,
         UndependString, Push, Pop, LockGCThing, LockUnless, UnlockGCThing, UnlockLeaving, RemoveRoot, AddRoot,
         ForceGC, DestroyContext, FinishLanding, NewContext, vars, heapVars
<1> QED
  BY <1>1, <1>3, <1>4, <1>5, <1>6 DEF Next, Allocate, Collect

(* The collector's own state. *)
LEMMA SweepStep ==
  ASSUME HeapInv, [Next]_vars, DataTypeOK', "mutable" \notin LockTypes
  PROVE  SweepInv'
<1> DEFINE RM == Reach(slots, MarkRoots)
           Quiet == UNCHANGED <<mark, unswept, finalizing, reached>>
<1>0. DataTypeOK /\ SweepInv /\ Holdable \subseteq live /\ Null \notin Things
  BY HeapAssumption DEF HeapAssumption, HeapInv, TypeOK, NoDangling
<1>1. CASE phase # "sweep" /\ phase' # "sweep" /\ Quiet
  BY <1>0, <1>1 DEF SweepInv
<1>2. CASE phase = "sweep" /\ phase' = "sweep" /\ Quiet /\ UNCHANGED <<slots, live>>
           /\ MarkRoots' \subseteq MarkRoots /\ Holdable' \subseteq Holdable
  <2>1. RM' \subseteq RM
    BY <1>0, <1>2, MarkedStep DEF DataTypeOK
  <2> QED BY <1>0, <1>2, <2>1 DEF SweepInv
<1>3. CASE MarkPhase
  <2>1. mark = {} /\ finalizing = Null
    BY <1>0, <1>3 DEF MarkPhase, MarkPhaseFrom, SweepInv
  <2>2. [t \in Things |-> IF t \in mark THEN {} ELSE slots[t]] = slots
    BY <1>0, <2>1 DEF DataTypeOK
  <2>3. MarkFrom(MarkRoots) = RM
    <3>1. mark \cup MarkRoots = MarkRoots
      BY <2>1
    <3> QED BY <2>2, <3>1 DEF MarkFrom
  <2>4. RM \subseteq Holdable
    <3>1. /\ slots \in [Things -> SUBSET Things]
          /\ MarkRoots \in SUBSET Things /\ MarkRoots \cup Locked \in SUBSET Things
      BY <1>0 DEF DataTypeOK, MarkRoots, Locked
    <3> QED BY <3>1, ReachMonotone DEF Holdable
  <2>5. RM' = RM /\ Holdable' = Holdable
    BY <1>3 DEF MarkPhase, MarkPhaseFrom, Reach, MarkRoots, Locked, Holdable, heapVars, rootVars
  <2>6. /\ mark' = RM /\ unswept' = live /\ reached' = Holdable /\ live' = live
        /\ finalizing' = Null /\ phase' = "sweep"
    BY <1>3, <2>1, <2>3 DEF MarkPhase, MarkPhaseFrom, heapVars
  <2>7. finalizing' \notin Holdable \cup live
    BY <1>0, <2>6 DEF DataTypeOK
  <2> QED BY <1>0, <2>4, <2>5, <2>6, <2>7 DEF SweepInv
<1>4. CASE \E t \in Things : SweepThing(t)
  <2> PICK t \in Things : SweepThing(t)
    BY <1>4
  <2>1. /\ phase = "sweep" /\ phase' = "sweep" /\ finalizing = Null /\ t \in unswept
        /\ unswept' = unswept \ {t} /\ reached' = reached
    BY DEF SweepThing, SweepKeeping
  <2>2. MarkRoots' = MarkRoots /\ \A u \in Things : slots'[u] \subseteq slots[u]
    BY <1>0 DEF SweepThing, SweepKeeping, Finalize, MarkRoots, rootVars, DataTypeOK
  <2>3. RM' \subseteq RM
    BY <1>0, <2>2, MarkedStep
  <2>4. Holdable' \subseteq Holdable
    BY HoldableStep DEF SweepThing, SweepKeeping, AllocRecycled, AllocFresh, AllocFreshIf, MayAllocate
  <2>5. CASE t \in mark
    <3>1. mark' = mark \ {t} /\ live' = live /\ finalizing' = Null
      BY <2>5 DEF SweepThing, SweepKeeping
    <3> QED BY <1>0, <2>1, <2>3, <2>4, <2>5, <3>1 DEF SweepInv
  <2>6. CASE t \notin mark /\ lockBits[t] > 0
    <3>1. mark' = mark /\ live' = live /\ finalizing' = Null
      BY <2>6 DEF SweepThing, SweepKeeping
    <3>2. t \in reached
      BY <1>0, <2>1, <2>6, HoldableClosed DEF SweepInv, Locked
    <3> QED BY <1>0, <2>1, <2>3, <2>4, <2>6, <3>1, <3>2 DEF SweepInv
  <2>7. CASE t \notin mark /\ lockBits[t] = 0 /\ type[t] = "object"
    <3>1. mark' = mark /\ live' = live /\ finalizing' = t
      BY <2>7 DEF SweepThing, SweepKeeping
    <3>2. t \notin Holdable
      BY <2>1, <2>7, SweptIsGarbage
    <3>3. finalizing' \notin Holdable' \cup unswept'
      <4> HIDE DEF Holdable
      <4>1. t \notin unswept'
        BY <2>1
      <4> QED BY <2>4, <3>1, <3>2, <4>1
    <3>4. live' \subseteq reached' \cup unswept' \cup {finalizing'}
      BY <1>0, <2>1, <3>1 DEF SweepInv, DataTypeOK
    <3> QED BY <1>0, <2>1, <2>3, <2>4, <2>7, <3>1, <3>3, <3>4 DEF SweepInv
  <2>8. CASE t \notin mark /\ lockBits[t] = 0 /\ type[t] # "object"
    <3>1. mark' = mark /\ live' = live \ {t} /\ finalizing' = Null
      BY <2>1, <2>8 DEF SweepThing, SweepKeeping, Finalize
    <3> QED BY <1>0, <2>1, <2>3, <2>4, <2>8, <3>1 DEF SweepInv
  <2> QED BY <2>5, <2>6, <2>7, <2>8 DEF SweepThing, SweepKeeping
<1>5. CASE FinalizeObject
  <2>1. /\ phase = "sweep" /\ phase' = "sweep" /\ finalizing' = Null
        /\ UNCHANGED <<mark, unswept, reached>> /\ live' = live \ {finalizing}
    BY <1>0, <1>5 DEF FinalizeObject, Finalize, SweepInv, DataTypeOK
  <2>2. MarkRoots' = MarkRoots /\ \A u \in Things : slots'[u] \subseteq slots[u]
    BY <1>0, <1>5 DEF FinalizeObject, Finalize, MarkRoots, rootVars, DataTypeOK
  <2>3. RM' \subseteq RM
    BY <1>0, <2>2, MarkedStep
  <2>4. Holdable' \subseteq Holdable
    BY <1>5, <2>1, HoldableStep DEF AllocRecycled, AllocFresh, AllocFreshIf, MayAllocate
  <2>5. Null \notin Holdable \cup unswept
    BY <1>0, HoldableClosed DEF DataTypeOK
  <2> QED BY <1>0, <2>1, <2>3, <2>4, <2>5 DEF SweepInv
<1>6. CASE FreePhase
  <2>1. phase = "sweep" /\ phase' # "sweep" /\ unswept = {} /\ finalizing = Null
        /\ UNCHANGED <<mark, unswept, finalizing>>
    BY <1>6 DEF FreePhase, FreePhaseTo
  <2> QED BY <1>0, <2>1 DEF SweepInv
<1>7. ASSUME \/ \E r \in RootIds : RemoveRoot(r)
             \/ \E t \in Things : UnlockGCThing(t)
             \/ ForceGC
      PROVE  SweepInv'
  <2>1. CASE phase = "sweep"
    <3>1. phase' = "sweep" /\ Quiet /\ UNCHANGED <<slots, live>>
      BY <1>0, <1>7, <2>1
      DEF RemoveRoot, UnlockGCThing, UnlockLeaving, ForceGC, Mutator, heapVars
    <3>2. MarkRoots' \subseteq MarkRoots
      BY <1>0, <1>7, HeapAssumption
      DEF HeapAssumption, RemoveRoot, UnlockGCThing, UnlockLeaving, ForceGC, MarkRoots, DataTypeOK
    <3>3. Holdable' \subseteq Holdable
      BY <2>1, HoldableStep DEF AllocRecycled, AllocFresh, AllocFreshIf, MayAllocate
    <3> QED BY <1>2, <2>1, <3>1, <3>2, <3>3
  <2>2. CASE phase # "sweep"
    <3>1. phase' # "sweep" /\ Quiet
      BY <1>0, <1>7, <2>2
      DEF RemoveRoot, UnlockGCThing, UnlockLeaving, ForceGC, StartGC, SkipGC
    <3> QED BY <1>1, <2>2, <3>1
  <2> QED BY <2>1, <2>2
<1>8. ASSUME \/ \E ty \in Types, base \in {{}} \cup {{t} : t \in Things} :
                  AllocRecycled(ty, base) \/ AllocFresh(ty, base)
             \/ \E ty \in Types : AllocLastDitch(ty)
             \/ AllocFail \/ Lifecycle
             \/ \E o, t \in Things : SetSlot(o, t) \/ ClearSlot(o, t)
             \/ \E t \in Things : UndependString(t) \/ Push(t) \/ Pop(t) \/ LockGCThing(t)
             \/ \E r \in RootIds, v \in Things \cup {Null} : AddRoot(r, v)
      PROVE  SweepInv'
  <2>1. CASE NewContext
    <3>1. UNCHANGED <<heapVars, rootVars, gcVars>>
      BY <2>1 DEF NewContext
    <3>2. RM' = RM /\ Holdable' = Holdable
      BY <3>1 DEF Reach, MarkRoots, Locked, Holdable, heapVars, rootVars
    <3>3. UNCHANGED <<phase, mark, unswept, finalizing, reached, live>>
      BY <3>1 DEF heapVars, gcVars
    <3> QED BY <1>0, <3>2, <3>3 DEF SweepInv
  <2>2. CASE ~NewContext
    <3>1. phase # "sweep" /\ phase' # "sweep" /\ Quiet
      BY <1>8, <2>2
      DEF AllocRecycled, AllocFresh, AllocFreshIf, TakeCell, MayAllocate, AllocLastDitch, AllocFail,
          Lifecycle, SetSlot, ClearSlot, UndependString, Push, Pop, LockGCThing, LockUnless, AddRoot,
          DestroyContext, FinishLanding, Mutator, StartGC, SkipGC, gcVars
    <3> QED BY <1>1, <3>1
  <2> QED BY <2>1, <2>2
<1>9. CASE UNCHANGED vars
  <2>1. RM' = RM /\ Holdable' = Holdable
    BY <1>9 DEF Reach, MarkRoots, Locked, Holdable, vars, heapVars, rootVars
  <2>2. UNCHANGED <<phase, mark, unswept, finalizing, reached, live>>
    BY <1>9 DEF vars, heapVars, gcVars
  <2> QED BY <1>0, <2>1, <2>2 DEF SweepInv
<1> QED
  BY <1>3, <1>4, <1>5, <1>6, <1>7, <1>8, <1>9 DEF Next, Allocate, Mutate, Collect

----------------------------------------------------------------------------
(* If the embedder locks no dependent string, the heap's invariant is inductive. *)
THEOREM HeapInvariant ==
  ASSUME "mutable" \notin LockTypes
  PROVE  Spec => []HeapInv
<1>1. Init => HeapInv
  <2> SUFFICES ASSUME Init PROVE HeapInv
    OBVIOUS
  <2>1. DataTypeOK /\ gcPoke \in BOOLEAN
    BY InitType DEF Init
  <2>2. MarkRoots = {} /\ Locked = {}
    BY HeapAssumption DEF HeapAssumption, Init, MarkRoots, Locked
  <2>3. Holdable \subseteq {}
    <3>1. slots \in [Things -> SUBSET Things]
      BY <2>1 DEF DataTypeOK
    <3>2. Holdable = Reach(slots, {})
      BY <2>2 DEF Holdable
    <3>3. Reach(slots, {}) \subseteq {}
      BY ONLY <3>1, ReachLeast
    <3> QED BY <3>2, <3>3
  <2>4. NoDangling /\ CellsInv /\ LocksAgree /\ LeavesInv /\ SweepInv
    BY <2>2, <2>3 DEF Init, NoDangling, CellsInv, LocksAgree, LeavesInv, SweepInv
  <2> QED BY <2>1, <2>4 DEF HeapInv, TypeOK
<1>2. HeapInv /\ [Next]_vars => HeapInv'
  <2> SUFFICES ASSUME HeapInv, [Next]_vars PROVE HeapInv'
    OBVIOUS
  <2>1. TypeOK'
    BY TypeStep, PokeStep DEF HeapInv, TypeOK
  <2>2. NoDangling' /\ SweepInv'
    BY <2>1, DanglingStep, SweepStep DEF TypeOK
  <2>3. CellsInv' /\ LeavesInv'
    BY CellsStep, LocksStep
  <2>4. LocksAgree'
    <3>1. (Locked \subseteq live)'
      BY <2>1, <2>2, LockedHoldable, PTL DEF TypeOK, NoDangling
    <3> QED BY <3>1, LocksStep DEF LocksAgree, Locked
  <2> QED BY <2>1, <2>2, <2>3, <2>4 DEF HeapInv
<1> QED BY <1>1, <1>2, PTL DEF Spec

(* Nothing the program can still name is ever freed (js_GC and its finalizers). *)
THEOREM NeverDangling ==
  ASSUME "mutable" \notin LockTypes
  PROVE  Spec => []NoDangling
  BY HeapInvariant, PTL DEF HeapInv

(* An object's lock bit and its entry in gcLocksHash never part. *)
THEOREM LocksNeverPart ==
  ASSUME "mutable" \notin LockTypes
  PROVE  Spec => []LocksAgree
  BY HeapInvariant, PTL DEF HeapInv

(* A collection frees all the garbage there was when its last cycle began. *)
THEOREM AllGarbageCollected ==
  ASSUME "mutable" \notin LockTypes
  PROVE  Spec => CollectsAllGarbage
<1>1. HeapInv /\ [Next]_vars =>
        [phase = "sweep" /\ phase' # "sweep" => live \subseteq reached /\ mark = {}]_vars
  <2> SUFFICES ASSUME HeapInv, [Next]_vars, phase = "sweep", phase' # "sweep"
               PROVE  live \subseteq reached /\ mark = {}
    OBVIOUS
  <2>1. unswept = {} /\ finalizing = Null
    BY DEF Next, vars, gcVars, Allocate, Mutate, Collect, Lifecycle, TakeCell, AllocRecycled,
       AllocFresh, AllocFreshIf, AllocLastDitch, AllocFail, SetSlot, ClearSlot, UndependString, Push, Pop,
       LockGCThing, LockUnless, UnlockGCThing, UnlockLeaving, RemoveRoot, AddRoot, ForceGC, MarkPhase, MarkPhaseFrom, SweepThing, SweepKeeping,
       FinalizeObject, FreePhase, FreePhaseTo, DestroyContext, FinishLanding, NewContext, Mutator,
       StartGC, SkipGC
  <2> QED BY <2>1, HeapAssumption DEF HeapAssumption, HeapInv, SweepInv, TypeOK, DataTypeOK
<1> QED BY <1>1, HeapInvariant, PTL DEF Spec, CollectsAllGarbage

----------------------------------------------------------------------------
(* The accounting: gcBytes and the freelist follow the live things. *)
LEMMA AccountStep ==
  ASSUME HeapInv, HeapInv', AccountInv, [Next]_vars
  PROVE  AccountInv'
<1>0. /\ DataTypeOK /\ CellsInv /\ CellsInv' /\ SweepInv
      /\ IsFiniteSet(live) /\ IsFiniteSet(carved) /\ Null \notin Things
      /\ MaxCells \in Nat
  <2>1. IsFiniteSet(Things) /\ Null \notin Things /\ MaxCells \in Nat
    BY HeapAssumption DEF HeapAssumption
  <2>2. live \subseteq Things /\ carved \subseteq Things
    BY DEF HeapInv, TypeOK, DataTypeOK
  <2> QED BY <2>1, <2>2, FS_Subset DEF HeapInv, TypeOK
<1> USE DEF AccountInv, HeapAccounting, WithinMaxBytes
<1>1. ASSUME NEW ty \in Types, NEW base,
             AllocRecycled(ty, base) \/ AllocFresh(ty, base)
      PROVE  AccountInv'
  <2>1. phase = "mutator" /\ freeList = carved \ live
    BY <1>1 DEF AllocRecycled, AllocFresh, AllocFreshIf, MayAllocate
  <2>2. ASSUME NEW c, c \notin live, TakeCell(c, ty, base)
        PROVE  /\ gcBytes' = Cardinality(live') /\ live' = live \cup {c}
               /\ UNCHANGED <<phase, unswept, finalizing>>
    BY <1>0, <2>2, FS_AddElement DEF TakeCell, gcVars
  <2>3. CASE AllocRecycled(ty, base)
    <3> PICK c \in freeList : freeList' = freeList \ {c} /\ TakeCell(c, ty, base)
      BY <2>3 DEF AllocRecycled
    <3>1. carved' = carved /\ c \notin live /\ c \in carved
      BY <2>1, <2>3 DEF AllocRecycled
    <3> QED BY <1>0, <2>1, <2>2, <3>1
  <2>4. CASE AllocFresh(ty, base)
    <3> PICK c \in Things \ carved : carved' = carved \cup {c} /\ TakeCell(c, ty, base)
      BY <2>4 DEF AllocFresh, AllocFreshIf
    <3>1. freeList' = {} /\ carved = live /\ gcBytes < MaxCells /\ c \notin live
      BY <1>0, <2>1, <2>4 DEF AllocFresh, AllocFreshIf, CellsInv
    <3>2. Cardinality(carved') = gcBytes + 1
      BY <1>0, <3>1, FS_AddElement
    <3>3. Cardinality(carved') <= MaxCells
      BY <1>0, <3>1, <3>2 DEF DataTypeOK
    <3> QED BY <1>0, <2>1, <2>2, <3>1, <3>3
  <2> QED BY <1>1, <2>3, <2>4
<1>2. ASSUME NEW t \in live, live' = live \ {t}, gcBytes' = gcBytes - 1
      PROVE  gcBytes' = Cardinality(live')
  BY <1>0, <1>2, FS_RemoveElement
<1>3. CASE \E t \in Things : SweepThing(t)
  <2> PICK t \in Things : SweepThing(t)
    BY <1>3
  <2>1. /\ phase' = "sweep" /\ carved' = carved /\ t \in live /\ finalizing = Null
        /\ unswept' = unswept \ {t}
    BY DEF SweepThing, SweepKeeping
  <2>2. \/ live' = live /\ gcBytes' = gcBytes /\ finalizing' \in {t, Null}
        \/ live' = live \ {t} /\ gcBytes' = gcBytes - 1 /\ finalizing' = Null
    BY <2>1 DEF SweepThing, SweepKeeping, Finalize
  <2> QED BY <1>0, <1>2, <2>1, <2>2 DEF CellsInv
<1>4. CASE FinalizeObject
  <2>1. /\ phase' = phase /\ phase = "sweep" /\ carved' = carved /\ finalizing \in live
        /\ unswept' = unswept /\ finalizing \notin unswept /\ finalizing' = Null
        /\ live' = live \ {finalizing} /\ gcBytes' = gcBytes - 1
    BY <1>0, <1>4 DEF FinalizeObject, Finalize, SweepInv, DataTypeOK
  <2> QED BY <1>0, <1>2, <2>1 DEF CellsInv
<1>5. CASE FreePhase
  <2>1. /\ live' = live /\ gcBytes' = gcBytes /\ freeList' = carved' \ live
        /\ carved' \subseteq carved /\ UNCHANGED <<unswept, finalizing>>
    BY <1>5 DEF FreePhase, FreePhaseTo
  <2>2. Cardinality(carved') <= Cardinality(carved)
    BY <1>0, <2>1, FS_Subset
  <2>3. Cardinality(carved') \in Nat /\ Cardinality(carved) \in Nat
    BY <1>0, <2>1, FS_Subset, FS_CardinalityType
  <2>4. Cardinality(carved') <= MaxCells
    BY <1>0, <2>2, <2>3
  <2> QED BY <1>0, <2>1, <2>4 DEF CellsInv
<1>6. CASE MarkPhase
  BY <1>0, <1>6 DEF MarkPhase, MarkPhaseFrom, heapVars, SweepInv
<1>7. CASE UNCHANGED <<live, carved, freeList, gcBytes, unswept, finalizing>>
           /\ (phase' = "mutator" => phase = "mutator")
  BY <1>7
<1>8. (\E ty \in Types : AllocLastDitch(ty)) \/ AllocFail \/ Mutate
        \/ Lifecycle \/ UNCHANGED vars
      => UNCHANGED <<live, carved, freeList, gcBytes, unswept, finalizing>>
         /\ (phase' = "mutator" => phase = "mutator")
  BY DEF AllocLastDitch, AllocFail, Mutate, Lifecycle, SetSlot, ClearSlot,
         UndependString, Push, Pop, LockGCThing, LockUnless, UnlockGCThing, UnlockLeaving, RemoveRoot, AddRoot,
         ForceGC, DestroyContext, FinishLanding, NewContext, StartGC, SkipGC, Mutator,
         vars, heapVars, gcVars
<1> QED
  BY <1>1, <1>3, <1>4, <1>5, <1>6, <1>7, <1>8 DEF Next, Allocate, Collect

LEMMA AccountInvariant ==
  ASSUME "mutable" \notin LockTypes
  PROVE  Spec => []AccountInv
<1>1. Init => AccountInv
  BY HeapAssumption, FS_EmptySet
  DEF HeapAssumption, Init, AccountInv, HeapAccounting, WithinMaxBytes
<1>2. HeapInv /\ HeapInv' /\ AccountInv /\ [Next]_vars => AccountInv'
  BY AccountStep
<1> QED BY <1>1, <1>2, HeapInvariant, PTL DEF Spec

(* No cell is lost or handed out twice: js_AllocGCThing and the sweep of js_GC keep *)
(* gcBytes, the freelist and the carved cells in agreement.                        *)
THEOREM AccountsKept ==
  ASSUME "mutable" \notin LockTypes
  PROVE  Spec => []HeapAccounting
<1>1. AccountInv => HeapAccounting
  BY DEF AccountInv
<1> QED BY <1>1, AccountInvariant, PTL

(* The heap never outgrows gcMaxBytes, although js_AllocGCThing compares gcBytes with *)
(* it only when the freelist is empty.                                               *)
THEOREM LimitKept ==
  ASSUME "mutable" \notin LockTypes
  PROVE  Spec => []WithinMaxBytes
<1>1. AccountInv => WithinMaxBytes
  BY DEF AccountInv
<1> QED BY <1>1, AccountInvariant, PTL

-----------------------------------------------------------------------------
(* Activations. *)

AllCells == ArgvSlots \cup VarCells
AllNames == ArgsNames \cup {"arguments"}
Slots == JSValues \cup {NoSlot}

FramesTypeOK ==
    /\ fp \in [live : BOOLEAN, argc : 0 .. MaxActuals, cells : [AllCells -> JSValues],
               overridden : SUBSET AllNames]
    /\ argsObj \in [made : BOOLEAN, elems : [ElementIds -> Slots],
                    names : [ArgsNames -> Slots \cup ArgsNames], deleted : SUBSET ElementIds]
    /\ callObj \in [made : BOOLEAN, slots : [Formals \cup VarCells -> Slots],
                    arguments : Slots \cup {"arguments"}]

(* Until it is made, the arguments object has nothing to say. *)
NotMade ==
    ~argsObj.made =>
        /\ \A i \in ElementIds : argsObj.elems[i] = NoSlot
        /\ \A a \in ArgsNames : a \notin fp.overridden
        /\ argsObj.deleted = {}

(* While the function runs, `arguments' has a slot exactly when it was assigned. *)
ArgumentsSlot ==
    /\ OverriddenArguments => callObj.arguments # NoSlot
    /\ fp.live /\ ~OverriddenArguments => callObj.arguments = NoSlot

FramesInv == FramesTypeOK /\ NotMade /\ ArgumentsSlot

(* What Activation sees of the activation. *)
Cell == [c \in ArgvSlots \cup VarCells |-> ShownCell(c)]
Element == [i \in ElementIds |-> ShownElement(i)]
Attribute == [a \in ArgsNames \cup {"arguments"} |-> ShownName(a)]
Joined == {i \in ElementIds : ArgInFrame(i)}
Seen == {i \in ElementIds : argsObj.elems[i] # NoSlot}

----------------------------------------------------------------------------
LEMMA FramesStart == FramesInit => FramesInv
<1> SUFFICES ASSUME FramesInit PROVE FramesInv
  OBVIOUS
<1> USE FramesAssumption DEF FramesAssumption, FramesInit, FramesInv
<1>1. FramesTypeOK
  BY DEF FramesTypeOK, AllCells, AllNames, Slots, ArgvSlots, Formals
<1>2. NotMade /\ ArgumentsSlot
  BY DEF NotMade, ArgumentsSlot, OverriddenArguments
<1> QED BY <1>1, <1>2

(* What is shown is a value, and what is in the frame has a cell there. *)
LEMMA ShownIsValue ==
  ASSUME FramesInv
  PROVE  /\ \A i \in ElementIds : ArgInFrame(i) => i \in ArgvSlots /\ fp.cells[i] \in JSValues
         /\ Formals \subseteq ArgvSlots
         /\ \A i \in ElementIds : ElementOf(i) \in JSValues /\ ResolvedElem(i) \in Slots
         /\ \A a \in ArgsNames : NameOf(a) \in JSValues \cup ArgsNames
BY FramesAssumption DEF FramesAssumption, FramesInv, FramesTypeOK, AllCells, AllNames, Slots,
   ArgInFrame, MAXARGS, ArgvSlots, Formals, ElementOf, ResolvedElem, NameOf, NameInFrame

(* The invariant, by what a step changes. *)
LEMMA TypesKept == ASSUME FramesInv, FramesNext PROVE FramesTypeOK'
<1> USE FramesAssumption DEF FramesAssumption, FramesInv, FramesTypeOK, AllCells, AllNames, Slots
<1>1. CASE GetArgsObject
  BY <1>1 DEF GetArgsObject
<1>2. ASSUME NEW i \in ElementIds, GetElem(i) \/ DeleteElem(i) PROVE FramesTypeOK'
  <2>1. CASE GetElem(i)
    BY ShownIsValue, <2>1 DEF GetElem
  <2>2. CASE DeleteElem(i)
    BY <2>2 DEF DeleteElem
  <2> QED BY <1>2, <2>1, <2>2
<1>3. ASSUME NEW i \in ElementIds, NEW v \in JSValues, SetElem(i, v) PROVE FramesTypeOK'
  BY ShownIsValue, <1>3 DEF SetElem
<1>4. ASSUME NEW a \in ArgsNames, GetArgsName(a) \/ DeleteArgsName(a) PROVE FramesTypeOK'
  BY ShownIsValue, <1>4 DEF GetArgsName, DeleteArgsName, Override
<1>5. ASSUME NEW a \in ArgsNames, NEW v \in JSValues, SetArgsName(a, v) PROVE FramesTypeOK'
  BY <1>5 DEF SetArgsName, Override
<1>6. ASSUME NEW c \in Formals \cup VarCells, GetByName(c) PROVE FramesTypeOK'
  BY ShownIsValue, <1>6 DEF GetByName
<1>7. ASSUME NEW c \in Formals \cup VarCells, NEW v \in JSValues, SetCell(c, v) \/ SetByName(c, v)
      PROVE  FramesTypeOK'
  BY ShownIsValue, <1>7 DEF SetCell, SetByName
<1>8. ASSUME NEW v \in JSValues, SetArguments(v) PROVE FramesTypeOK'
  BY <1>8 DEF SetArguments, Override
<1>9. CASE LeaveFrame
  BY ShownIsValue, <1>9 DEF LeaveFrame, Put, CallSlot
<1> QED BY <1>1, <1>2, <1>3, <1>4, <1>5, <1>6, <1>7, <1>8, <1>9 DEF FramesNext

LEMMA OthersKept == ASSUME FramesInv, FramesNext PROVE NotMade' /\ ArgumentsSlot'
<1> USE FramesAssumption DEF FramesAssumption, FramesInv, FramesTypeOK, NotMade, ArgumentsSlot,
        OverriddenArguments, AllNames, Slots
<1>1. CASE GetArgsObject
  BY <1>1 DEF GetArgsObject
<1>2. ASSUME NEW i \in ElementIds, GetElem(i) \/ DeleteElem(i) PROVE NotMade' /\ ArgumentsSlot'
  BY <1>2 DEF GetElem, DeleteElem
<1>3. ASSUME NEW i \in ElementIds, NEW v \in JSValues, SetElem(i, v) PROVE NotMade' /\ ArgumentsSlot'
  BY <1>3 DEF SetElem
<1>4. ASSUME NEW a \in ArgsNames, GetArgsName(a) \/ DeleteArgsName(a) PROVE NotMade' /\ ArgumentsSlot'
  BY <1>4 DEF GetArgsName, DeleteArgsName, Override
<1>5. ASSUME NEW a \in ArgsNames, NEW v \in JSValues, SetArgsName(a, v) PROVE NotMade' /\ ArgumentsSlot'
  BY <1>5 DEF SetArgsName, Override
<1>6. ASSUME NEW c \in Formals \cup VarCells, GetByName(c) PROVE NotMade' /\ ArgumentsSlot'
  BY <1>6 DEF GetByName
<1>7. ASSUME NEW c \in Formals \cup VarCells, NEW v \in JSValues, SetCell(c, v) \/ SetByName(c, v)
      PROVE  NotMade' /\ ArgumentsSlot'
  BY <1>7 DEF SetCell, SetByName
<1>8. ASSUME NEW v \in JSValues, SetArguments(v) PROVE NotMade' /\ ArgumentsSlot'
  BY <1>8 DEF SetArguments, Override
<1>9. CASE LeaveFrame
  BY <1>9 DEF LeaveFrame, Put
<1> QED BY <1>1, <1>2, <1>3, <1>4, <1>5, <1>6, <1>7, <1>8, <1>9 DEF FramesNext

LEMMA FramesStays == ASSUME FramesInv, UNCHANGED frameVars PROVE FramesInv'
<1>1. fp' = fp /\ argsObj' = argsObj /\ callObj' = callObj
  BY DEF frameVars
<1> QED BY <1>1 DEF FramesInv, FramesTypeOK, NotMade, ArgumentsSlot, OverriddenArguments

(* The activation's state agrees with its flags. *)
THEOREM FramesInvariant == FramesSpec => []FramesInv
<1>1. FramesInv /\ [FramesNext]_frameVars => FramesInv'
  BY TypesKept, OthersKept, FramesStays DEF FramesInv
<1> QED BY <1>1, FramesStart, PTL DEF FramesSpec

----------------------------------------------------------------------------
(* Steps of Activation, by what they do with what it sees. *)
LEMMA Looks ==
  ASSUME Cell' = Cell, Element' = Element, Attribute' = Attribute, Joined' = Joined, Seen \subseteq Seen'
  PROVE  AC!Step(JSValues, AC!LeaveKeepingUnseen)
BY DEF AC!Step, AC!Look, Cell, Element, Attribute, Joined, Seen

LEMMA AssignsCell ==
  ASSUME NEW c \in AllCells, NEW v \in JSValues, Cell' = [Cell EXCEPT ![c] = v],
         Element' = [i \in ElementIds |-> IF i = c /\ i \in Joined THEN v ELSE Element[i]],
         Attribute' = Attribute, Joined' = Joined, Seen' = Seen
  PROVE  AC!Step(JSValues, AC!LeaveKeepingUnseen)
BY DEF AC!Step, AC!AssignCell, Cell, Element, Attribute, Joined, Seen, AllCells

LEMMA AssignsElement ==
  ASSUME NEW i \in ElementIds, NEW v \in JSValues, Element' = [Element EXCEPT ![i] = v],
         Cell' = IF i \in Joined THEN [Cell EXCEPT ![i] = v] ELSE Cell,
         Attribute' = Attribute, Joined' = Joined, Seen \subseteq Seen'
  PROVE  AC!Step(JSValues, AC!LeaveKeepingUnseen)
BY DEF AC!Step, AC!AssignElement, Cell, Element, Attribute, Joined, Seen

LEMMA DeletesElement ==
  ASSUME NEW i \in ElementIds, Element' = [Element EXCEPT ![i] = VOID], Joined' = Joined \ {i},
         Cell' = Cell, Attribute' = Attribute
  PROVE  AC!Step(JSValues, AC!LeaveKeepingUnseen)
BY DEF AC!Step, AC!DeleteElement, Cell, Element, Attribute, Joined, Seen

LEMMA AssignsAttribute ==
  ASSUME NEW a \in AllNames, NEW v \in JSValues, Attribute' = [Attribute EXCEPT ![a] = v],
         Cell' = Cell, Element' = Element, Joined' = Joined, Seen' = Seen
  PROVE  AC!Step(JSValues, AC!LeaveKeepingUnseen)
BY DEF AC!Step, AC!AssignAttribute, Cell, Element, Attribute, Joined, Seen, AllNames

LEMMA Leaves ==
  ASSUME Joined' = {}, Cell' = Cell, Attribute' = Attribute,
         \A i \in ElementIds : i \notin Joined \cap Seen => Element'[i] = Element[i]
  PROVE  AC!Step(JSValues, AC!LeaveKeepingUnseen)
BY DEF AC!Step, AC!LeaveKeepingUnseen, Cell, Element, Attribute, Joined, Seen

----------------------------------------------------------------------------
(* Each step of Frames is one of Activation. *)
LEMMA MakeLooks ==
  ASSUME FramesInv, GetArgsObject
  PROVE  AC!Step(JSValues, AC!LeaveKeepingUnseen)
<1> USE FramesAssumption DEF FramesAssumption, FramesInv, FramesTypeOK, AllCells, AllNames, Slots
<1>1. Cell' = Cell
  BY DEF Cell, ShownCell, ArgvSlots, GetArgsObject
<1>2. Element' = Element
  BY DEF Element, ShownElement, ElementOf, ArgInFrame, MAXARGS, ArgvSlots, NotMade, GetArgsObject
<1>3. Attribute' = Attribute
  BY DEF Attribute, ShownName, NameOf, NameInFrame, OverriddenArguments, NotMade, GetArgsObject
<1>4. Joined' = Joined
  BY DEF Joined, ArgInFrame, MAXARGS, NotMade, GetArgsObject
<1>5. Seen \subseteq Seen'
  BY DEF Seen, GetArgsObject
<1> QED BY <1>1, <1>2, <1>3, <1>4, <1>5, Looks

LEMMA GetElemLooks ==
  ASSUME FramesInv, NEW i \in ElementIds, GetElem(i)
  PROVE  AC!Step(JSValues, AC!LeaveKeepingUnseen)
<1> USE FramesAssumption DEF FramesAssumption, FramesInv, FramesTypeOK, AllCells, AllNames, Slots
<1>1. Cell' = Cell
  BY DEF Cell, ShownCell, ArgvSlots, GetElem
<1>2. Element' = Element
  BY DEF Element, ShownElement, ElementOf, ArgInFrame, MAXARGS, ArgvSlots, ResolvedElem, GetElem
<1>3. Attribute' = Attribute
  BY DEF Attribute, ShownName, NameOf, NameInFrame, OverriddenArguments, GetElem
<1>4. Joined' = Joined
  BY DEF Joined, ArgInFrame, MAXARGS, GetElem
<1>5. Seen \subseteq Seen'
  BY ShownIsValue DEF Seen, GetElem
<1> QED BY <1>1, <1>2, <1>3, <1>4, <1>5, Looks

LEMMA SetElemAssigns ==
  ASSUME FramesInv, NEW i \in ElementIds, NEW v \in JSValues, SetElem(i, v)
  PROVE  AC!Step(JSValues, AC!LeaveKeepingUnseen)
<1> USE FramesAssumption DEF FramesAssumption, FramesInv, FramesTypeOK, AllCells, AllNames, Slots
<1>1. Cell' = IF i \in Joined THEN [Cell EXCEPT ![i] = v] ELSE Cell
  BY DEF Cell, ShownCell, ArgvSlots, Joined, ArgInFrame, MAXARGS, SetElem
<1>2. Element' = [Element EXCEPT ![i] = v]
  <2>1. ASSUME NEW j \in ElementIds
        PROVE  ShownElement(j)' = IF j = i THEN v ELSE ShownElement(j)
    <3>1. CASE ArgInFrame(i)
      BY <3>1, ShownIsValue DEF ShownElement, ElementOf, ArgInFrame, MAXARGS, SetElem
    <3>2. CASE ~ArgInFrame(i)
      BY <3>2 DEF ShownElement, ElementOf, ArgInFrame, MAXARGS, SetElem
    <3> QED BY <3>1, <3>2
  <2> QED BY <2>1 DEF Element
<1>3. Attribute' = Attribute
  BY DEF Attribute, ShownName, NameOf, NameInFrame, OverriddenArguments, SetElem
<1>4. Joined' = Joined
  BY DEF Joined, ArgInFrame, MAXARGS, SetElem
<1>5. Seen \subseteq Seen'
  BY DEF Seen, SetElem
<1> QED BY <1>1, <1>2, <1>3, <1>4, <1>5, AssignsElement

LEMMA DeleteElemDeletes ==
  ASSUME FramesInv, NEW i \in ElementIds, DeleteElem(i)
  PROVE  AC!Step(JSValues, AC!LeaveKeepingUnseen)
<1> USE FramesAssumption DEF FramesAssumption, FramesInv, FramesTypeOK, AllCells, AllNames, Slots
<1>1. Cell' = Cell
  BY DEF Cell, ShownCell, ArgvSlots, DeleteElem
<1>2. Element' = [Element EXCEPT ![i] = VOID]
  BY DEF Element, ShownElement, ElementOf, ArgInFrame, MAXARGS, ArgvSlots, DeleteElem
<1>3. Attribute' = Attribute
  BY DEF Attribute, ShownName, NameOf, NameInFrame, OverriddenArguments, DeleteElem
<1>4. Joined' = Joined \ {i}
  BY DEF Joined, ArgInFrame, MAXARGS, DeleteElem
<1> QED BY <1>1, <1>2, <1>3, <1>4, DeletesElement

LEMMA GetNameLooks ==
  ASSUME FramesInv, NEW a \in ArgsNames, GetArgsName(a)
  PROVE  AC!Step(JSValues, AC!LeaveKeepingUnseen)
<1> USE FramesAssumption DEF FramesAssumption, FramesInv, FramesTypeOK, AllCells, AllNames, Slots
<1>1. Cell' = Cell
  BY DEF Cell, ShownCell, ArgvSlots, GetArgsName
<1>2. Element' = Element
  BY DEF Element, ShownElement, ElementOf, ArgInFrame, MAXARGS, ArgvSlots, GetArgsName
<1>3. Attribute' = Attribute
  BY DEF Attribute, ShownName, NameOf, NameInFrame, OverriddenArguments, ResolvedName, GetArgsName
<1>4. Joined' = Joined
  BY DEF Joined, ArgInFrame, MAXARGS, GetArgsName
<1>5. Seen \subseteq Seen'
  BY DEF Seen, GetArgsName
<1> QED BY <1>1, <1>2, <1>3, <1>4, <1>5, Looks

LEMMA SetNameAssigns ==
  ASSUME FramesInv, NEW a \in ArgsNames, NEW v \in JSValues, SetArgsName(a, v)
  PROVE  AC!Step(JSValues, AC!LeaveKeepingUnseen)
<1> USE FramesAssumption DEF FramesAssumption, FramesInv, FramesTypeOK, AllCells, AllNames, Slots
<1>1. Cell' = Cell
  BY DEF Cell, ShownCell, ArgvSlots, SetArgsName, Override
<1>2. Element' = Element
  BY DEF Element, ShownElement, ElementOf, ArgInFrame, MAXARGS, ArgvSlots, SetArgsName, Override
<1>3. Attribute' = [Attribute EXCEPT ![a] = v]
  BY DEF Attribute, ShownName, NameOf, NameInFrame, OverriddenArguments, SetArgsName, Override
<1>4. Joined' = Joined
  BY DEF Joined, ArgInFrame, MAXARGS, SetArgsName, Override
<1>5. Seen' = Seen
  BY DEF Seen, SetArgsName, Override
<1> QED BY <1>1, <1>2, <1>3, <1>4, <1>5, AssignsAttribute

LEMMA DeleteNameAssigns ==
  ASSUME FramesInv, NEW a \in ArgsNames, DeleteArgsName(a)
  PROVE  AC!Step(JSValues, AC!LeaveKeepingUnseen)
<1> USE FramesAssumption DEF FramesAssumption, FramesInv, FramesTypeOK, AllCells, AllNames, Slots
<1>1. Cell' = Cell
  BY DEF Cell, ShownCell, ArgvSlots, DeleteArgsName, Override
<1>2. Element' = Element
  BY DEF Element, ShownElement, ElementOf, ArgInFrame, MAXARGS, ArgvSlots, DeleteArgsName, Override
<1>3. Attribute' = [Attribute EXCEPT ![a] = VOID]
  BY DEF Attribute, ShownName, NameOf, NameInFrame, OverriddenArguments, DeleteArgsName, Override
<1>4. Joined' = Joined
  BY DEF Joined, ArgInFrame, MAXARGS, DeleteArgsName, Override
<1>5. Seen' = Seen
  BY DEF Seen, DeleteArgsName, Override
<1> QED BY <1>1, <1>2, <1>3, <1>4, <1>5, AssignsAttribute

LEMMA SetCellAssigns ==
  ASSUME FramesInv, NEW c \in Formals \cup VarCells, NEW v \in JSValues, SetCell(c, v)
  PROVE  AC!Step(JSValues, AC!LeaveKeepingUnseen)
<1> USE FramesAssumption DEF FramesAssumption, FramesInv, FramesTypeOK, AllCells, AllNames, Slots
<1>1. Cell' = [Cell EXCEPT ![c] = v]
  BY DEF Cell, ShownCell, ArgvSlots, SetCell, Formals
<1>2. Element' = [i \in ElementIds |-> IF i = c /\ i \in Joined THEN v ELSE Element[i]]
  BY DEF Element, ShownElement, ElementOf, ArgInFrame, MAXARGS, ArgvSlots, Joined, NotMade, SetCell, Formals
<1>3. Attribute' = Attribute
  BY DEF Attribute, ShownName, NameOf, NameInFrame, OverriddenArguments, SetCell, Formals
<1>4. Joined' = Joined
  BY DEF Joined, ArgInFrame, MAXARGS, SetCell, Formals
<1>5. Seen' = Seen
  BY DEF Seen, SetCell, Formals
<1>6. c \in AllCells
  BY ShownIsValue
<1> QED BY ONLY <1>1, <1>2, <1>3, <1>4, <1>5, <1>6, v \in JSValues, AssignsCell

LEMMA GetByNameLooks ==
  ASSUME FramesInv, NEW c \in Formals \cup VarCells, GetByName(c)
  PROVE  AC!Step(JSValues, AC!LeaveKeepingUnseen)
<1> USE FramesAssumption DEF FramesAssumption, FramesInv, FramesTypeOK, AllCells, AllNames, Slots
<1>1. Cell' = Cell
  BY DEF Cell, ShownCell, ArgvSlots, GetByName, Formals
<1>2. Element' = Element
  BY DEF Element, ShownElement, ElementOf, ArgInFrame, MAXARGS, ArgvSlots, GetByName, Formals
<1>3. Attribute' = Attribute
  BY DEF Attribute, ShownName, NameOf, NameInFrame, OverriddenArguments, GetByName, Formals
<1>4. Joined' = Joined
  BY DEF Joined, ArgInFrame, MAXARGS, GetByName, Formals
<1>5. Seen \subseteq Seen'
  BY DEF Seen, GetByName, Formals
<1> QED BY <1>1, <1>2, <1>3, <1>4, <1>5, Looks

LEMMA SetByNameAssigns ==
  ASSUME FramesInv, NEW c \in Formals \cup VarCells, NEW v \in JSValues, SetByName(c, v)
  PROVE  AC!Step(JSValues, AC!LeaveKeepingUnseen)
<1> USE FramesAssumption DEF FramesAssumption, FramesInv, FramesTypeOK, AllCells, AllNames, Slots
<1>1. Cell' = [Cell EXCEPT ![c] = v]
  BY DEF Cell, ShownCell, ArgvSlots, SetByName, Formals
<1>2. Element' = [i \in ElementIds |-> IF i = c /\ i \in Joined THEN v ELSE Element[i]]
  BY DEF Element, ShownElement, ElementOf, ArgInFrame, MAXARGS, ArgvSlots, Joined, NotMade, SetByName, Formals
<1>3. Attribute' = Attribute
  BY DEF Attribute, ShownName, NameOf, NameInFrame, OverriddenArguments, SetByName, Formals
<1>4. Joined' = Joined
  BY DEF Joined, ArgInFrame, MAXARGS, SetByName, Formals
<1>5. Seen' = Seen
  BY DEF Seen, SetByName, Formals
<1>6. c \in AllCells
  BY ShownIsValue
<1> QED BY ONLY <1>1, <1>2, <1>3, <1>4, <1>5, <1>6, v \in JSValues, AssignsCell

LEMMA SetArgumentsAssigns ==
  ASSUME FramesInv, NEW v \in JSValues, SetArguments(v)
  PROVE  AC!Step(JSValues, AC!LeaveKeepingUnseen)
<1> USE FramesAssumption DEF FramesAssumption, FramesInv, FramesTypeOK, AllCells, AllNames, Slots
<1>1. Cell' = Cell
  BY DEF Cell, ShownCell, ArgvSlots, SetArguments, Override
<1>2. Element' = Element
  BY DEF Element, ShownElement, ElementOf, ArgInFrame, MAXARGS, ArgvSlots, SetArguments, Override
<1>3. Attribute' = [Attribute EXCEPT !["arguments"] = v]
  BY DEF Attribute, ShownName, NameOf, NameInFrame, OverriddenArguments, SetArguments, Override
<1>4. Joined' = Joined
  BY DEF Joined, ArgInFrame, MAXARGS, SetArguments, Override
<1>5. Seen' = Seen
  BY DEF Seen, SetArguments, Override
<1> QED BY <1>1, <1>2, <1>3, <1>4, <1>5, AssignsAttribute

LEMMA LeaveLeaves ==
  ASSUME FramesInv, LeaveFrame
  PROVE  AC!Step(JSValues, AC!LeaveKeepingUnseen)
<1> USE FramesAssumption DEF FramesAssumption, FramesInv, FramesTypeOK, AllCells, AllNames, Slots
<1>1. Joined' = {}
  BY DEF Joined, ArgInFrame, MAXARGS, LeaveFrame, Put, CallSlot, ResolvedElem, Formals
<1>2. Cell' = Cell
  BY DEF Cell, ShownCell, ArgvSlots, LeaveFrame, Put, CallSlot, ResolvedElem, Formals
<1>3. Attribute' = Attribute
  BY DEF Attribute, ShownName, NameOf, NameInFrame, OverriddenArguments, ArgumentsSlot, NotMade, LeaveFrame, Put, CallSlot, ResolvedElem, Formals
<1>4. \A i \in ElementIds : i \notin Joined \cap Seen => Element'[i] = Element[i]
  BY DEF Element, ShownElement, ElementOf, ArgInFrame, MAXARGS, ArgvSlots, Joined, Seen, NotMade, LeaveFrame, Put, CallSlot, ResolvedElem, Formals
<1> QED BY <1>1, <1>2, <1>3, <1>4, Leaves

----------------------------------------------------------------------------
LEMMA FastReads == FramesInv => FastReadsAgree
<1> SUFFICES ASSUME FramesInv PROVE FastReadsAgree
  OBVIOUS
<1> USE FramesAssumption DEF FramesAssumption, FramesInv, FramesTypeOK, NotMade
<1>1. ASSUME fp.live, ~OverriddenArguments, NEW i \in ElementIds, i < MAXARGS
      PROVE  ArgSub(i) = ElementOf(i)
  BY <1>1 DEF ArgSub, ElementOf, ArgInFrame, MAXARGS
<1>2. ASSUME fp.live, ~OverriddenArguments
      PROVE  ArgCnt = NameOf("length")
  BY <1>2 DEF ArgCnt, NameOf, NameInFrame
<1> QED BY <1>1, <1>2 DEF FastReadsAgree

LEMMA EveryStep ==
  ASSUME FramesInv, FramesNext
  PROVE  AC!Step(JSValues, AC!LeaveKeepingUnseen)
<1>1. ASSUME NEW i \in ElementIds,
             GetElem(i) \/ DeleteElem(i) \/ \E v \in JSValues : SetElem(i, v)
      PROVE  AC!Step(JSValues, AC!LeaveKeepingUnseen)
  BY <1>1, GetElemLooks, DeleteElemDeletes, SetElemAssigns
<1>2. ASSUME NEW a \in ArgsNames,
             GetArgsName(a) \/ DeleteArgsName(a) \/ \E v \in JSValues : SetArgsName(a, v)
      PROVE  AC!Step(JSValues, AC!LeaveKeepingUnseen)
  BY <1>2, GetNameLooks, DeleteNameAssigns, SetNameAssigns
<1>3. ASSUME NEW c \in Formals \cup VarCells,
             GetByName(c) \/ \E v \in JSValues : SetCell(c, v) \/ SetByName(c, v)
      PROVE  AC!Step(JSValues, AC!LeaveKeepingUnseen)
  BY <1>3, GetByNameLooks, SetCellAssigns, SetByNameAssigns
<1> QED BY <1>1, <1>2, <1>3, MakeLooks, SetArgumentsAssigns, LeaveLeaves DEF FramesNext

(* An activation implements Activation, leaving aside an argument that was  *)
(* seen as an element: whatever js_GetArgsObject, args_resolve,             *)
(* call_resolve and their getters and setters reflected, in whatever order, *)
(* js_PutCallObject and js_PutArgsObject keep what the program sees; and    *)
(* JSOP_ARGSUB and JSOP_ARGCNT say what the arguments object would.         *)
THEOREM ActivationsCorrect == FramesSpec => ActivationsOutliveFrames
<1>1. FramesInv /\ FramesInv' /\ [FramesNext]_frameVars
        => [FastReadsAgree' /\ (UNCHANGED frameVars \/ AC!Step(JSValues, AC!LeaveKeepingUnseen))]_frameVars
  <2> SUFFICES ASSUME FramesInv, FramesInv', FramesNext
               PROVE  FastReadsAgree' /\ AC!Step(JSValues, AC!LeaveKeepingUnseen)
    OBVIOUS
  <2>1. FastReadsAgree'
    BY FastReads, PTL
  <2>2. AC!Step(JSValues, AC!LeaveKeepingUnseen)
    BY EveryStep
  <2> QED BY <2>1, <2>2
<1>2. FramesSpec => []FramesInv
  BY FramesInvariant
<1> QED BY <1>1, <1>2, PTL DEF ActivationsOutliveFrames, FramesSpec

----------------------------------------------------------------------------
(* Watchpoints. *)

WatchRecords ==
    [prop : WatchedProps \cup {"none"}, nrefs : Nat, state : {"unused", "listed", "freed"},
     cleared : Nat]

WatchCalls == [wp : WatchPoints, phase : {"handler", "setter"}]

WatchTypeOK ==
    /\ watch \in [WatchPoints -> WatchRecords]
    /\ setterOf \in [WatchedProps -> {"absent", "plain", "js_watch_set"}]
    /\ running \in Seq(WatchCalls)

(* A property has one watchpoint at most, of a property that the program knows, and
   nobody clears a watchpoint before it is made. *)
OneEach ==
    /\ \A v, w \in WatchPoints : watch[v].state = "listed" /\ watch[w].state = "listed"
                                   /\ watch[v].prop = watch[w].prop => v = w
    /\ \A w \in WatchPoints : watch[w].state = "listed" =>
          watch[w].prop \in WatchedProps /\ setterOf[watch[w].prop] # "plain"
    /\ \A w \in WatchPoints : watch[w].state = "unused" => watch[w].cleared = 0

WatchInv == WatchTypeOK /\ WatchpointsHeld /\ OneEach

----------------------------------------------------------------------------
(* One reference more, and one less. *)
LEMMA HeldOnce ==
  ASSUME NEW r \in WatchRecords
  PROVE  /\ HoldWatchPoint(r) \in WatchRecords /\ HoldWatchPoint(r).nrefs = r.nrefs + 1
         /\ HoldWatchPoint(r).prop = r.prop /\ HoldWatchPoint(r).state = r.state
         /\ HoldWatchPoint(r).cleared = r.cleared
BY DEF WatchRecords, HoldWatchPoint, Held

LEMMA DroppedOnce ==
  ASSUME NEW r \in WatchRecords, r.nrefs > 0
  PROVE  /\ DropWatchPoint(r) \in WatchRecords /\ DropWatchPoint(r).nrefs = r.nrefs - 1
         /\ DropWatchPoint(r).prop = r.prop /\ DropWatchPoint(r).cleared = r.cleared
         /\ DropWatchPoint(r).state = IF r.nrefs = 1 THEN "freed" ELSE r.state
<1>1. /\ r = [prop |-> r.prop, nrefs |-> r.nrefs, state |-> r.state, cleared |-> r.cleared]
      /\ r.prop \in WatchedProps \cup {"none"} /\ r.nrefs \in Nat /\ r.cleared \in Nat
      /\ r.state \in {"unused", "listed", "freed"}
  BY DEF WatchRecords
<1>2. CASE r.nrefs = 1
  <2>1. DropWatchPoint(r) = [prop |-> r.prop, nrefs |-> 0, state |-> "freed", cleared |-> r.cleared]
    BY <1>1, <1>2 DEF DropWatchPoint
  <2> QED BY <1>1, <1>2, <2>1 DEF WatchRecords
<1>3. CASE r.nrefs # 1
  <2>1. DropWatchPoint(r) = [prop |-> r.prop, nrefs |-> r.nrefs - 1, state |-> r.state,
                            cleared |-> r.cleared]
    BY <1>1, <1>3 DEF DropWatchPoint
  <2> QED BY <1>1, <1>3, <2>1 DEF WatchRecords
<1> QED BY <1>2, <1>3

(* JS_ClearWatchPoint drops a reference and counts it. *)
LEMMA ClearedOnce ==
  ASSUME NEW r \in WatchRecords, r.nrefs > 0
  PROVE  /\ ClearedOf(r) \in WatchRecords /\ ClearedOf(r).nrefs = r.nrefs - 1
         /\ ClearedOf(r).prop = r.prop /\ ClearedOf(r).cleared = r.cleared + 1
         /\ ClearedOf(r).state = IF r.nrefs = 1 THEN "freed" ELSE r.state
<1>1. PICK d : d = DropWatchPoint(r)
  OBVIOUS
<1>2. /\ d \in WatchRecords /\ d.nrefs = r.nrefs - 1 /\ d.prop = r.prop /\ d.cleared = r.cleared
      /\ d.state = IF r.nrefs = 1 THEN "freed" ELSE r.state
  BY <1>1, DroppedOnce
<1>3. ClearedOf(r) = [prop |-> d.prop, nrefs |-> d.nrefs, state |-> d.state, cleared |-> d.cleared + 1]
  BY <1>1, <1>2 DEF WatchRecords, ClearedOf
<1> QED BY <1>2, <1>3 DEF WatchRecords

(* js_watch_set works with a watchpoint. *)
LEMMA CallTypes ==
  ASSUME WatchTypeOK
  PROVE  /\ DOMAIN running = 1 .. Len(running) /\ Len(running) \in Nat
         /\ \A i \in DOMAIN running : /\ running[i] \in WatchCalls
                                     /\ running[i].wp \in WatchPoints
<1>1. DOMAIN running = 1 .. Len(running) /\ Len(running) \in Nat
  BY DEF WatchTypeOK
<1>2. \A i \in DOMAIN running : running[i] \in WatchCalls
  BY <1>1 DEF WatchTypeOK
<1>3. \A x \in WatchCalls : x.wp \in WatchPoints
  BY DEF WatchCalls
<1> QED BY <1>1, <1>2, <1>3

(* The calls under way on a watchpoint are finitely many, and a call that begins or
   returns is one more or one less of its own. *)
LEMMA CallsFinite ==
  ASSUME WatchTypeOK, NEW w \in WatchPoints
  PROVE  IsFiniteSet(RunningOn(w)) /\ Cardinality(RunningOn(w)) \in Nat
<1>1. DOMAIN running = 1 .. Len(running) /\ Len(running) \in Nat
  BY DEF WatchTypeOK
<1>2. IsFiniteSet(1 .. Len(running))
  BY <1>1, FS_Interval
<1>3. RunningOn(w) \subseteq 1 .. Len(running)
  BY <1>1 DEF RunningOn
<1> QED BY <1>2, <1>3, FS_Subset, FS_CardinalityType

LEMMA CallBegins ==
  ASSUME WatchTypeOK, NEW w \in WatchPoints, NEW v \in WatchPoints,
         running' = Append(running, [wp |-> w, phase |-> "handler"])
  PROVE  Cardinality(RunningOn(v)') = Cardinality(RunningOn(v)) + (IF v = w THEN 1 ELSE 0)
<1>1. DOMAIN running = 1 .. Len(running) /\ Len(running) \in Nat
  BY DEF WatchTypeOK
<1>2. /\ DOMAIN running' = 1 .. Len(running) + 1 /\ running'[Len(running) + 1].wp = w
      /\ \A i \in 1 .. Len(running) : running'[i] = running[i]
  BY <1>1 DEF WatchTypeOK
<1>3. CASE v = w
  <2>1. RunningOn(v)' = RunningOn(v) \cup {Len(running) + 1} /\ Len(running) + 1 \notin RunningOn(v)
    BY <1>1, <1>2, <1>3 DEF RunningOn
  <2> QED BY <2>1, <1>3, CallsFinite, FS_AddElement
<1>4. CASE v # w
  <2>1. RunningOn(v)' = RunningOn(v)
    BY <1>1, <1>2, <1>4 DEF RunningOn
  <2> QED BY <2>1, <1>4, CallsFinite
<1> QED BY <1>3, <1>4

LEMMA CallReturns ==
  ASSUME WatchTypeOK, running # <<>>, NEW v \in WatchPoints,
         running' = SubSeq(running, 1, Len(running) - 1)
  PROVE  Cardinality(RunningOn(v)') =
             Cardinality(RunningOn(v)) - (IF v = InnermostHandler.wp THEN 1 ELSE 0)
<1>1. DOMAIN running = 1 .. Len(running) /\ Len(running) \in Nat /\ Len(running) > 0
  BY DEF WatchTypeOK
<1>2. /\ DOMAIN running' = 1 .. Len(running) - 1
      /\ \A i \in 1 .. Len(running) - 1 : running'[i] = running[i]
  BY <1>1 DEF WatchTypeOK
<1>3. CASE v = InnermostHandler.wp
  <2>1. RunningOn(v)' = RunningOn(v) \ {Len(running)} /\ Len(running) \in RunningOn(v)
    BY <1>1, <1>2, <1>3 DEF RunningOn, InnermostHandler
  <2> QED BY <2>1, <1>3, CallsFinite, FS_RemoveElement
<1>4. CASE v # InnermostHandler.wp
  <2>1. RunningOn(v)' = RunningOn(v)
    BY <1>1, <1>2, <1>4 DEF RunningOn, InnermostHandler
  <2> QED BY <2>1, <1>4, CallsFinite
<1> QED BY <1>3, <1>4

----------------------------------------------------------------------------
LEMMA WatchStarts == WatchInit => WatchInv
<1> SUFFICES ASSUME WatchInit PROVE WatchInv
  OBVIOUS
<1>1. WatchTypeOK /\ OneEach
  BY DEF WatchInit, NoWatchPoint, WatchTypeOK, WatchRecords, OneEach
<1>2. \A w \in WatchPoints : Cardinality(RunningOn(w)) = 0
  BY FS_EmptySet DEF WatchInit, RunningOn
<1> QED BY <1>1, <1>2 DEF WatchInit, NoWatchPoint, WatchInv, WatchpointsHeld

LEMMA SetWatchKeeps == ASSUME WatchInv, NEW p \in WatchedProps, SetWatchPoint(p) PROVE WatchInv'
<1> USE DEF WatchInv
<1> PICK w \in WatchPoints :
      /\ watch[w].state = "unused"
      /\ watch' = [watch EXCEPT ![w] = [prop |-> p, nrefs |-> 1, state |-> "listed", cleared |-> 0]]
  BY DEF SetWatchPoint
<1>1. running' = running /\ setterOf' = [setterOf EXCEPT ![p] = "js_watch_set"] /\ ListedPoints(p) = {}
  BY DEF SetWatchPoint
<1>2. WatchTypeOK'
  BY <1>1 DEF WatchTypeOK, WatchRecords
<1>3. OneEach'
  BY <1>1 DEF OneEach, WatchTypeOK, ListedPoints
<1>4. \A v \in WatchPoints : RunningOn(v)' = RunningOn(v) /\ Cardinality(RunningOn(v)) \in Nat
  BY <1>1, CallsFinite DEF RunningOn
<1>5. watch[w].nrefs = 0 /\ RunningOn(w) = {} /\ Cardinality(RunningOn(w)) = 0
  <2>1. watch[w].state = "unused" /\ watch[w].cleared = 0
    BY DEF OneEach
  <2>2. ~(watch[w].state = "listed" \/ watch[w].cleared > 1)
    BY <2>1
  <2>3. RunningOn(w) = {}
    BY <2>2 DEF WatchpointsHeld, RunningOn
  <2>4. watch[w].nrefs = 0
    BY <2>1 DEF WatchpointsHeld
  <2> QED BY <2>3, <2>4, FS_EmptySet
<1>6. WatchpointsHeld'
  <2>1. \A i \in DOMAIN running : running[i].wp \in WatchPoints /\ running[i].wp # w
    BY <1>5, CallTypes DEF RunningOn
  <2>2. /\ \A v \in WatchPoints \ {w} : watch'[v] = watch[v]
        /\ watch'[w].nrefs = 1 /\ watch'[w].state = "listed" /\ watch'[w].cleared = 0
    BY DEF WatchTypeOK
  <2>3. \A i \in DOMAIN running' : watch'[running'[i].wp].state = "listed"
                                     \/ watch'[running'[i].wp].cleared > 1
    BY <1>1, <2>1, <2>2 DEF WatchpointsHeld
  <2>4. ASSUME NEW v \in WatchPoints
        PROVE  /\ watch'[v].state = "listed" =>
                      watch'[v].nrefs + watch'[v].cleared = 1 + Cardinality(RunningOn(v)')
               /\ watch'[v].nrefs = 0 <=> watch'[v].state # "listed"
    <3>1. Cardinality(RunningOn(v)') = Cardinality(RunningOn(v))
      BY <1>4
    <3>2. CASE v = w
      BY <1>5, <2>2, <3>1, <3>2
    <3>3. CASE v # w
      BY <2>2, <3>1, <3>3 DEF WatchpointsHeld
    <3> QED BY <3>2, <3>3
  <2> QED BY <2>3, <2>4 DEF WatchpointsHeld
<1> QED BY <1>2, <1>3, <1>6

(* A watchpoint cleared for the first time while calls work with it keeps one
   reference for each of them. *)
LEMMA ClearWatchKeeps == ASSUME WatchInv, NEW p \in WatchedProps, ClearWatchPoint(p) PROVE WatchInv'
<1> USE DEF WatchInv
<1> PICK w \in ListedPoints(p) :
      /\ watch' = [watch EXCEPT ![w] = ClearedOf(@)]
      /\ UNCHANGED <<setterOf, running>>
  BY DEF ClearWatchPoint
<1>1. /\ w \in WatchPoints /\ watch[w].state = "listed" /\ watch[w] \in WatchRecords
      /\ watch[w].nrefs \in Nat /\ watch[w].cleared \in Nat
  BY DEF ListedPoints, WatchTypeOK, WatchRecords
<1>2. \A v \in WatchPoints : RunningOn(v)' = RunningOn(v) /\ Cardinality(RunningOn(v)) \in Nat
  BY CallsFinite DEF RunningOn
<1>3. /\ watch[w].nrefs + watch[w].cleared = 1 + Cardinality(RunningOn(w))
      /\ watch[w].nrefs > 0
  BY <1>1, <1>2 DEF WatchpointsHeld
<1>4. /\ \A v \in WatchPoints \ {w} : watch'[v] = watch[v]
      /\ watch'[w] \in WatchRecords /\ watch'[w].nrefs = watch[w].nrefs - 1 /\ watch'[w].prop = watch[w].prop
      /\ watch'[w].cleared = watch[w].cleared + 1
      /\ watch'[w].state = IF watch[w].nrefs = 1 THEN "freed" ELSE "listed"
  BY <1>1, <1>3, ClearedOnce DEF WatchTypeOK
<1>5. WatchTypeOK'
  BY <1>1, <1>4 DEF WatchTypeOK
<1>6. OneEach'
  BY <1>1, <1>4 DEF OneEach
<1>7. watch[w].nrefs = 1 /\ RunningOn(w) # {} => watch'[w].cleared > 1
  BY <1>1, <1>2, <1>3, <1>4, CallsFinite, FS_EmptySet
<1>8. \A i \in DOMAIN running' : watch'[running'[i].wp].state = "listed"
                                   \/ watch'[running'[i].wp].cleared > 1
  <2> SUFFICES ASSUME NEW i \in DOMAIN running
               PROVE  watch'[running[i].wp].state = "listed" \/ watch'[running[i].wp].cleared > 1
    OBVIOUS
  <2>1. running[i].wp \in WatchPoints
    BY CallTypes
  <2>2. running[i].wp = w => RunningOn(w) # {}
    BY DEF RunningOn
  <2> QED BY <1>1, <1>4, <1>7, <2>1, <2>2 DEF WatchpointsHeld
<1>9. ASSUME NEW v \in WatchPoints
      PROVE  /\ watch'[v].state = "listed" =>
                    watch'[v].nrefs + watch'[v].cleared = 1 + Cardinality(RunningOn(v)')
             /\ watch'[v].nrefs = 0 <=> watch'[v].state # "listed"
  BY <1>1, <1>2, <1>3, <1>4 DEF WatchpointsHeld
<1>10. WatchpointsHeld'
  BY <1>8, <1>9 DEF WatchpointsHeld
<1> QED BY <1>5, <1>6, <1>10

LEMMA SetPropertyKeeps == ASSUME WatchInv, NEW p \in WatchedProps, SetProperty(p) PROVE WatchInv'
<1> USE DEF WatchInv
<1> PICK w \in ListedPoints(p) :
      /\ watch' = [watch EXCEPT ![w] = HoldWatchPoint(@)]
      /\ running' = Append(running, [wp |-> w, phase |-> "handler"])
  BY DEF SetProperty
<1>1. /\ w \in WatchPoints /\ watch[w].state = "listed" /\ setterOf' = setterOf
      /\ watch[w] \in WatchRecords /\ watch[w].nrefs \in Nat /\ watch[w].cleared \in Nat
  BY DEF ListedPoints, SetProperty, WatchTypeOK, WatchRecords
<1>2. /\ \A v \in WatchPoints \ {w} : watch'[v] = watch[v]
      /\ watch'[w] \in WatchRecords /\ watch'[w].nrefs = watch[w].nrefs + 1 /\ watch'[w].prop = watch[w].prop
      /\ watch'[w].state = "listed" /\ watch'[w].cleared = watch[w].cleared
  BY <1>1, HeldOnce DEF WatchTypeOK
<1>3. WatchTypeOK'
  <2>1. [wp |-> w, phase |-> "handler"] \in WatchCalls
    BY <1>1 DEF WatchCalls
  <2>2. running' \in Seq(WatchCalls)
    BY <2>1 DEF WatchTypeOK
  <2> QED BY <1>1, <1>2, <2>2 DEF WatchTypeOK
<1>4. OneEach'
  BY <1>1, <1>2 DEF OneEach
<1>5. \A v \in WatchPoints :
         /\ Cardinality(RunningOn(v)') = Cardinality(RunningOn(v)) + (IF v = w THEN 1 ELSE 0)
         /\ Cardinality(RunningOn(v)) \in Nat
  BY <1>1, CallBegins, CallsFinite
<1>6. \A i \in DOMAIN running' : watch'[running'[i].wp].state = "listed"
                                   \/ watch'[running'[i].wp].cleared > 1
  BY <1>1, <1>2 DEF WatchpointsHeld, WatchTypeOK
<1>7. ASSUME NEW v \in WatchPoints
      PROVE  /\ watch'[v].state = "listed" =>
                    watch'[v].nrefs + watch'[v].cleared = 1 + Cardinality(RunningOn(v)')
             /\ watch'[v].nrefs = 0 <=> watch'[v].state # "listed"
  <2>1. watch[v].nrefs \in Nat /\ watch[v].cleared \in Nat
    BY DEF WatchTypeOK, WatchRecords
  <2>2. CASE v = w
    BY <1>1, <1>2, <1>5, <2>1, <2>2 DEF WatchpointsHeld
  <2>3. CASE v # w
    <3>1. watch'[v] = watch[v] /\ Cardinality(RunningOn(v)') = Cardinality(RunningOn(v))
      BY <1>2, <1>5, <2>3
    <3> QED BY <3>1 DEF WatchpointsHeld
  <2> QED BY <2>2, <2>3
<1>8. WatchpointsHeld'
  BY <1>6, <1>7 DEF WatchpointsHeld
<1> QED BY <1>3, <1>4, <1>8

LEMMA HandlerKeeps == ASSUME WatchInv, HandlerDone PROVE WatchInv'
<1> USE DEF WatchInv
<1>1. /\ running' = [running EXCEPT ![Len(running)].phase = "setter"]
      /\ watch' = watch /\ setterOf' = setterOf /\ Len(running) \in 1 .. Len(running)
  BY DEF HandlerDone, WatchTypeOK
<1>2. WatchTypeOK'
  <2> DEFINE n == Len(running)
  <2>1. running[n] \in WatchCalls
    BY <1>1, CallTypes
  <2>2. [running[n] EXCEPT !.phase = "setter"] \in WatchCalls
    BY <2>1 DEF WatchCalls
  <2>3. running' \in Seq(WatchCalls)
    BY <1>1, <2>2, CallTypes DEF WatchTypeOK
  <2> QED BY <1>1, <2>3 DEF WatchTypeOK
<1>3. DOMAIN running' = DOMAIN running /\ \A i \in DOMAIN running : running'[i].wp = running[i].wp
  BY <1>1 DEF WatchTypeOK
<1>4. \A v \in WatchPoints : RunningOn(v)' = RunningOn(v)
  BY <1>3 DEF RunningOn
<1>5. OneEach' /\ WatchpointsHeld'
  BY <1>1, <1>3, <1>4 DEF OneEach, WatchpointsHeld
<1> QED BY <1>2, <1>5

(* A call that returns with its watchpoint listed drops its own reference, and one
   whose watchpoint was freed drops nothing. *)
LEMMA ReturnKeeps == ASSUME WatchInv, WatchSetReturns PROVE WatchInv'
<1> USE DEF WatchInv
<1> PICK w \in WatchPoints : running # <<>> /\ w = InnermostHandler.wp
  <2>1. running # <<>>
    BY DEF WatchSetReturns
  <2> QED BY <2>1, CallTypes DEF InnermostHandler, WatchTypeOK
<1>1. /\ running # <<>> /\ setterOf' = setterOf
      /\ watch' = [watch EXCEPT ![w] = IF @.state = "listed" THEN DropWatchPoint(@) ELSE @]
      /\ running' = SubSeq(running, 1, Len(running) - 1)
  BY DEF WatchSetReturns
<1>2. /\ DOMAIN running = 1 .. Len(running) /\ Len(running) \in DOMAIN running
      /\ DOMAIN running' = 1 .. Len(running) - 1
      /\ \A i \in 1 .. Len(running) - 1 : running'[i] = running[i] /\ i \in DOMAIN running
  BY <1>1 DEF WatchTypeOK
<1>3. Len(running) \in RunningOn(w)
  BY <1>2, CallTypes DEF InnermostHandler, RunningOn
<1>4. watch[w] \in WatchRecords /\ watch[w].nrefs \in Nat /\ watch[w].cleared \in Nat
  BY DEF WatchTypeOK, WatchRecords
<1>5. \A v \in WatchPoints :
         /\ Cardinality(RunningOn(v)') = Cardinality(RunningOn(v)) - (IF v = w THEN 1 ELSE 0)
         /\ Cardinality(RunningOn(v)) \in Nat
  BY <1>1, CallReturns, CallsFinite
<1>6. running' \in Seq(WatchCalls)
  BY <1>1, <1>2, CallTypes DEF WatchTypeOK
<1>7. ASSUME NEW i \in DOMAIN running'
      PROVE  running'[i].wp \in WatchPoints /\ running'[i] = running[i] /\ i \in DOMAIN running
  BY <1>2, CallTypes
<1>8. CASE watch[w].state # "listed"
  <2>1. watch' = watch
    BY <1>1, <1>8 DEF WatchTypeOK
  <2>2. \A v \in WatchPoints : watch[v].state = "listed" =>
           Cardinality(RunningOn(v)') = Cardinality(RunningOn(v))
    BY <1>5, <1>8
  <2>3. WatchpointsHeld'
    BY <1>7, <2>1, <2>2 DEF WatchpointsHeld
  <2> QED BY <1>1, <1>6, <2>1, <2>3 DEF WatchTypeOK, OneEach
<1>9. CASE watch[w].state = "listed"
  <2>1. /\ Cardinality(RunningOn(w)) > 0 /\ watch[w].nrefs > 0
        /\ watch[w].nrefs + watch[w].cleared = 1 + Cardinality(RunningOn(w))
    BY <1>3, <1>4, <1>5, <1>9, CallsFinite, FS_EmptySet DEF WatchpointsHeld
  <2>2. /\ \A v \in WatchPoints \ {w} : watch'[v] = watch[v]
        /\ watch'[w] \in WatchRecords /\ watch'[w].nrefs = watch[w].nrefs - 1
        /\ watch'[w].prop = watch[w].prop /\ watch'[w].cleared = watch[w].cleared
        /\ watch'[w].state = IF watch[w].nrefs = 1 THEN "freed" ELSE "listed"
    BY <1>1, <1>4, <1>9, <2>1, DroppedOnce DEF WatchTypeOK
  <2>3. WatchTypeOK' /\ OneEach'
    BY <1>1, <1>6, <1>9, <2>2 DEF WatchTypeOK, OneEach
  <2>4. watch[w].nrefs = 1 /\ RunningOn(w)' # {} => watch'[w].cleared > 1
    <3> SUFFICES ASSUME watch[w].nrefs = 1, RunningOn(w)' # {} PROVE watch'[w].cleared > 1
      OBVIOUS
    <3>1. RunningOn(w)' \subseteq RunningOn(w)
      BY <1>7 DEF RunningOn
    <3>2. IsFiniteSet(RunningOn(w)')
      BY <3>1, CallsFinite, FS_Subset
    <3>3. Cardinality(RunningOn(w)') \in Nat /\ Cardinality(RunningOn(w)') # 0
      BY <3>2, FS_EmptySet, FS_CardinalityType
    <3>4. Cardinality(RunningOn(w)') = Cardinality(RunningOn(w)) - 1
      BY <1>5
    <3> QED BY <1>4, <1>5, <2>1, <2>2, <3>3, <3>4
  <2>5. ASSUME NEW i \in DOMAIN running'
        PROVE  watch'[running'[i].wp].state = "listed" \/ watch'[running'[i].wp].cleared > 1
    <3>1. running'[i].wp = w => RunningOn(w)' # {}
      BY DEF RunningOn
    <3> QED BY <1>7, <1>9, <2>2, <2>4, <3>1 DEF WatchpointsHeld
  <2>6. ASSUME NEW v \in WatchPoints
        PROVE  /\ watch'[v].state = "listed" =>
                      watch'[v].nrefs + watch'[v].cleared = 1 + Cardinality(RunningOn(v)')
               /\ watch'[v].nrefs = 0 <=> watch'[v].state # "listed"
    <3>1. watch[v].nrefs \in Nat /\ watch[v].cleared \in Nat
      BY DEF WatchTypeOK, WatchRecords
    <3>2. CASE v = w
      <4>1. Cardinality(RunningOn(w)') = Cardinality(RunningOn(w)) - 1
        BY <1>5
      <4>2. watch'[w].nrefs + watch'[w].cleared = 1 + Cardinality(RunningOn(w)')
        BY <1>4, <1>5, <2>1, <2>2, <4>1
      <4>3. watch'[w].nrefs = 0 <=> watch'[w].state # "listed"
        BY <1>4, <2>1, <2>2
      <4> QED BY <3>2, <4>2, <4>3
    <3>3. CASE v # w
      BY <1>5, <2>2, <3>1, <3>3 DEF WatchpointsHeld
    <3> QED BY <3>2, <3>3
  <2>7. WatchpointsHeld'
    BY <2>5, <2>6 DEF WatchpointsHeld
  <2> QED BY <2>3, <2>7
<1> QED BY <1>8, <1>9

(* Deleting a property, and defining it again. *)
LEMMA PropertyKeeps ==
  ASSUME WatchInv, NEW p \in WatchedProps, DeleteProperty(p) \/ DefineProperty(p)
  PROVE  WatchInv'
<1> USE DEF WatchInv
<1>1. watch' = watch /\ running' = running
  BY DEF DeleteProperty, DefineProperty
<1>2. WatchTypeOK' /\ OneEach'
  BY <1>1 DEF WatchTypeOK, OneEach, DeleteProperty, DefineProperty, SetterOfNew, ListedPoints
<1> QED BY <1>1, <1>2 DEF WatchpointsHeld, RunningOn

(* The counts of the watchpoints, and their properties' setters. *)
THEOREM WatchInvariant == WatchSpec => []WatchInv
<1>1. ASSUME WatchInv, [WatchNext]_watchVars PROVE WatchInv'
  <2>1. CASE UNCHANGED watchVars
    <3>1. watch' = watch /\ setterOf' = setterOf /\ running' = running
      BY <2>1 DEF watchVars
    <3> QED BY <1>1, <3>1 DEF WatchInv, WatchTypeOK, WatchpointsHeld, OneEach, RunningOn
  <2>2. CASE WatchNext
    BY <1>1, <2>2, SetWatchKeeps, ClearWatchKeeps, SetPropertyKeeps, HandlerKeeps, ReturnKeeps, PropertyKeeps
       DEF WatchNext
  <2> QED BY <1>1, <2>1, <2>2
<1> QED BY <1>1, WatchStarts, PTL DEF WatchSpec

(* However the handlers and setters that js_watch_set calls clear, watch, set, delete and
   define again, no watchpoint under way is freed, and no watched property is assigned
   behind its watchpoint's back. *)
THEOREM WatchingCorrect == WatchSpec => []WatchingSound
<1>1. WatchInv => WatchingSound
  <2> SUFFICES ASSUME WatchInv, NEW p \in WatchedProps
               PROVE  /\ Cardinality(ListedPoints(p)) <= 1
                      /\ ListedPoints(p) # {} => setterOf[p] \in {"js_watch_set", "absent"}
    BY DEF WatchInv, WatchingSound, WatchedAreHeard
  <2>1. \A v, w \in ListedPoints(p) : v = w
    BY DEF ListedPoints, WatchInv, OneEach
  <2>2. Cardinality(ListedPoints(p)) <= 1
    <3>1. CASE ListedPoints(p) = {}
      BY <3>1, FS_EmptySet
    <3>2. CASE ListedPoints(p) # {}
      <4> PICK w \in ListedPoints(p) : TRUE
        BY <3>2
      <4>1. ListedPoints(p) = {w}
        BY <2>1
      <4>2. Cardinality({w}) = 1
        BY FS_Singleton
      <4> QED BY <4>1, <4>2
    <3> QED BY <3>1, <3>2
  <2>3. ListedPoints(p) # {} => setterOf[p] \in {"js_watch_set", "absent"}
    BY DEF ListedPoints, WatchInv, OneEach, WatchTypeOK
  <2> QED BY <2>2, <2>3
<1> QED BY <1>1, WatchInvariant, PTL
=============================================================================
