------------------------------- MODULE GcHeap -------------------------------
(***************************************************************************)
(* The garbage-collected heap of the engine (jsgc.c), in the shipped       *)
(* single-threaded build: allocation from the freelist, from an arena and  *)
(* after a "last ditch" collection; roots, deep locks on objects and       *)
(* counted locks on strings; the mark, sweep and free phases of js_GC,     *)
(* restarted when a finalizer asks for another collection; and the final   *)
(* collections of js_DestroyContext.                                       *)
(*                                                                         *)
(* A thing is a cell of the GC arenas.  Doubles and external strings are   *)
(* leaves with the same control as flat strings, so "string" stands for    *)
(* all of them; "mutable" is GCX_MUTABLE_STRING, which may depend on a     *)
(* base string.  The atom table is left to its own component: a pinned     *)
(* atom is one more root here.                                             *)
(***************************************************************************)
EXTENDS Integers, FiniteSets

CONSTANTS
    Things,      \* the cells of every arena malloc can ever supply
    ArenaOf,     \* [Things -> arena]
    RootIds,     \* addresses an embedder may pass to JS_AddRoot
    LockTypes,   \* types of the things the embedder locks
    Null,        \* the null pointer
    Absent,      \* the value at an address that is not in gcRootsHash
    MaxCells,    \* rt->gcMaxBytes, in cells
    Stuck,       \* lock bits all set: a lock count that is never changed again
    MaxLocks,    \* bound: calls counted in one gcLocksHash entry
    MaxLevel,    \* bound: rt->gcLevel
    MaxStack,    \* bound: values the stack frames hold
    MaxSlots     \* bound: references one object holds

Types == {"object", "string", "mutable"}

ASSUME HeapAssumption ==
    /\ IsFiniteSet(Things)
    /\ Null \notin Things /\ Absent \notin Things \cup {Null}
    /\ LockTypes \subseteq Types
    /\ MaxCells \in Nat /\ Stuck \in Nat \ {0, 1} /\ MaxLocks \in Nat
    /\ MaxLevel \in Nat \ {0} /\ MaxStack \in Nat /\ MaxSlots \in Nat

VARIABLES
    type, live, mark, lockBits,      \* the flag byte: type, ~GCF_FINAL, GCF_MARK, GCF_LOCKMASK
    carved, freeList,                \* cells below a->avail; rt->gcFreeList
    gcLocksHash,                     \* deep-lock counts, 0 for no entry
    slots,                           \* an object's references; a dependent string's base
    roots,                           \* gcRootsHash: the value at each registered address
    stack, newborn,                  \* values in frames; cx->newborn[type]
    gcBytes, gcPoke, gcLevel,
    phase,                           \* where js_GC stands; "mutator" when it does not run
    unswept, finalizing,             \* the sweep's position; the thing whose finalizer runs
    reached,                         \* what the last mark phase found reachable or locked
    pending,                         \* type of an allocation waiting for its last ditch GC
    rtState                          \* rt->state

heapVars == <<type, live, lockBits, carved, freeList, slots, gcBytes>>
rootVars == <<gcLocksHash, roots, stack, newborn>>
gcVars   == <<mark, gcPoke, gcLevel, phase, unswept, finalizing, reached>>
vars     == <<heapVars, rootVars, gcVars, pending, rtState>>

----------------------------------------------------------------------------
(* Everything a chain of references leads to from S: the least set that holds S
   and what its members refer to. *)
Reach(refs, S) ==
    {t \in Things : \A C \in SUBSET Things :
        (S \subseteq C /\ \A u \in C : refs[u] \subseteq C) => t \in C}

(* What js_GC marks first: gcRootsHash, gcLocksHash, the frames, the newborns. *)
MarkRoots ==
    ({roots[r] : r \in RootIds} \cup {newborn[ty] : ty \in Types}
        \cup {t \in Things : gcLocksHash[t] > 0} \cup stack) \cap Things

(* js_MarkGCThing from each thing of S: a marked thing is not entered again. *)
MarkFrom(S) ==
    Reach([t \in Things |-> IF t \in mark THEN {} ELSE slots[t]], mark \cup S)

Locked == {t \in Things : lockBits[t] > 0}

(* What the program may still use. *)
Holdable == Reach(slots, MarkRoots \cup Locked)

Arena(t) == {u \in Things : ArenaOf[u] = ArenaOf[t]}

(* The arena holding t is pool->current with room left. *)
Partial(t) == Arena(t) \cap carved # {} /\ ~(Arena(t) \subseteq carved)

Mutator == phase = "mutator" /\ pending = Null /\ rtState = "UP"

----------------------------------------------------------------------------
Init ==
    /\ type = [t \in Things |-> "object"]
    /\ live = {} /\ mark = {} /\ carved = {} /\ freeList = {}
    /\ lockBits = [t \in Things |-> 0]
    /\ gcLocksHash = [t \in Things |-> 0]
    /\ slots = [t \in Things |-> {}]
    /\ roots = [r \in RootIds |-> Absent]
    /\ stack = {} /\ newborn = [ty \in Types |-> Null]
    /\ gcBytes = 0 /\ gcPoke = FALSE /\ gcLevel = 0
    /\ phase = "mutator" /\ unswept = {} /\ finalizing = Null /\ reached = {}
    /\ pending = Null /\ rtState = "UP"

(* js_AllocGCThing's tail: the cell becomes the newborn of its type.  Only a
   dependent string is born with a reference (js_NewDependentString). *)
TakeCell(c, ty, base) ==
    /\ base \in SUBSET {b \in Holdable : ty = "mutable" /\ type[b] # "object"}
    /\ Cardinality(base) <= 1
    /\ newborn' = [newborn EXCEPT ![ty] = c]
    /\ type' = [type EXCEPT ![c] = ty]
    /\ slots' = [slots EXCEPT ![c] = base]
    /\ live' = live \cup {c}
    /\ gcBytes' = gcBytes + 1
    /\ pending' = Null
    /\ UNCHANGED <<lockBits, gcLocksHash, roots, stack, gcVars, rtState>>

(* A first attempt, or the retry after the last ditch GC. *)
MayAllocate(ty) ==
    /\ phase = "mutator" /\ rtState = "UP"
    /\ pending \in {Null, ty}

AllocRecycled(ty, base) ==
    /\ MayAllocate(ty)
    /\ \E c \in freeList :
        /\ freeList' = freeList \ {c}
        /\ TakeCell(c, ty, base)
    /\ UNCHANGED carved

(* The next cell of the current arena, or the first of a new one, if room holds. *)
AllocFreshIf(ty, base, room) ==
    /\ MayAllocate(ty)
    /\ freeList = {} /\ room
    /\ \E c \in Things \ carved :
        /\ (\E t \in Things : Partial(t)) => Partial(c)
        /\ carved' = carved \cup {c}
        /\ TakeCell(c, ty, base)
    /\ UNCHANGED freeList

(* Mutant: the limit itself passes the test. *)
AllocFreshAtLimit(ty, base) == AllocFreshIf(ty, base, gcBytes <= MaxCells)

AllocFresh(ty, base) == AllocFreshIf(ty, base, gcBytes < MaxCells)

(* js_GC's entry: nothing happens without a poke, and the callback may decline. *)
StartGC ==
    /\ gcLevel' = 1
    /\ phase' = "mark"
    /\ UNCHANGED <<mark, unswept, finalizing, reached>>

SkipGC == UNCHANGED <<gcLevel, phase, mark, unswept, finalizing, reached>>

(* No free cell, and the heap is at its limit, too much was malloc'ed since the
   last GC, or malloc failed: poke, collect, and try once more. *)
AllocLastDitch(ty) ==
    /\ Mutator
    /\ freeList = {}
    /\ gcPoke' = TRUE
    /\ pending' = ty
    /\ StartGC \/ SkipGC
    /\ UNCHANGED <<heapVars, rootVars, rtState>>

(* The retry found no cell either (gcMaxBytes, or malloc failed): out of memory. *)
AllocFail ==
    /\ phase = "mutator" /\ pending # Null /\ rtState = "UP"
    /\ freeList = {}
    /\ pending' = Null
    /\ UNCHANGED <<heapVars, rootVars, gcVars, rtState>>

----------------------------------------------------------------------------
(* The program's own steps, each on things it can still name. *)
SetSlot(o, t) ==
    /\ Mutator
    /\ o \in Holdable /\ t \in Holdable /\ type[o] = "object"
    /\ Cardinality(slots[o] \cup {t}) <= MaxSlots
    /\ slots' = [slots EXCEPT ![o] = @ \cup {t}]
    /\ gcPoke' = TRUE
    /\ UNCHANGED <<type, live, lockBits, carved, freeList, gcBytes, rootVars,
                   mark, gcLevel, phase, unswept, finalizing, reached, pending, rtState>>

ClearSlot(o, t) ==
    /\ Mutator
    /\ o \in Holdable /\ type[o] = "object" /\ t \in slots[o]
    /\ slots' = [slots EXCEPT ![o] = @ \ {t}]
    /\ gcPoke' = TRUE
    /\ UNCHANGED <<type, live, lockBits, carved, freeList, gcBytes, rootVars,
                   mark, gcLevel, phase, unswept, finalizing, reached, pending, rtState>>

(* js_UndependString copies the characters: the base is no longer needed. *)
UndependString(s) ==
    /\ Mutator
    /\ s \in Holdable /\ type[s] = "mutable" /\ slots[s] # {}
    /\ slots' = [slots EXCEPT ![s] = {}]
    /\ UNCHANGED <<type, live, lockBits, carved, freeList, gcBytes, rootVars,
                   gcVars, pending, rtState>>

Push(t) ==
    /\ Mutator
    /\ t \in Holdable \ stack /\ Cardinality(stack) < MaxStack
    /\ stack' = stack \cup {t}
    /\ UNCHANGED <<heapVars, gcLocksHash, roots, newborn, gcVars, pending, rtState>>

Pop(t) ==
    /\ Mutator
    /\ t \in stack
    /\ stack' = stack \ {t}
    /\ UNCHANGED <<heapVars, gcLocksHash, roots, newborn, gcVars, pending, rtState>>

(* js_AddRootRT of an address holding v, or a write to an address already there. *)
AddRoot(r, v) ==
    /\ Mutator
    /\ v \in Holdable \cup {Null}
    /\ roots' = [roots EXCEPT ![r] = v]
    /\ UNCHANGED <<heapVars, gcLocksHash, stack, newborn, gcVars, pending, rtState>>

(* Finalizers may remove roots and locks: js_GC runs them with gcRunning set. *)
MayRelease == Mutator \/ finalizing # Null

RemoveRoot(r) ==
    /\ MayRelease
    /\ roots[r] # Absent
    /\ roots' = [roots EXCEPT ![r] = Absent]
    /\ gcPoke' = TRUE
    /\ UNCHANGED <<heapVars, gcLocksHash, stack, newborn,
                   mark, gcLevel, phase, unswept, finalizing, reached, pending, rtState>>

(* js_LockGCThingRT, unless full holds: an object is counted in gcLocksHash under one lock bit; any
   other thing is counted in the lock bits, and the highest count is for ever. *)
LockUnless(t, full) ==
    /\ Mutator
    /\ t \in Holdable /\ type[t] \in LockTypes
    /\ ~full
    /\ IF type[t] = "object"
         THEN /\ gcLocksHash[t] < MaxLocks
              /\ lockBits' = [lockBits EXCEPT ![t] = 1]
              /\ gcLocksHash' = [gcLocksHash EXCEPT ![t] = @ + 1]
         ELSE /\ lockBits' = [lockBits EXCEPT ![t] = @ + 1]
              /\ UNCHANGED gcLocksHash
    /\ UNCHANGED <<type, live, carved, freeList, slots, gcBytes, roots, stack,
                   newborn, gcVars, pending, rtState>>

(* Mutant: the count of a string may overflow its bits. *)
LockOverflows(t) == LockUnless(t, FALSE)

LockGCThing(t) == LockUnless(t, lockBits[t] = Stuck)

(* js_UnlockGCThingRT, which leaves an object the lock bits kept: only objects are
   defended against a call too many. *)
UnlockLeaving(t, kept) ==
    /\ MayRelease
    /\ t \in Holdable /\ type[t] \in LockTypes
    /\ \/ /\ lockBits[t] = Stuck \/ (type[t] = "object" /\ 0 \in {lockBits[t], gcLocksHash[t]})
          /\ UNCHANGED <<lockBits, gcLocksHash>>
       \/ /\ lockBits[t] \notin {0, Stuck} /\ type[t] = "object" /\ gcLocksHash[t] > 0
          /\ gcLocksHash' = [gcLocksHash EXCEPT ![t] = @ - 1]
          /\ lockBits' = [lockBits EXCEPT ![t] = kept]
       \/ /\ lockBits[t] # Stuck /\ type[t] # "object"
          /\ lockBits' = [lockBits EXCEPT ![t] = IF @ = 0 THEN Stuck ELSE @ - 1]
          /\ UNCHANGED gcLocksHash
    /\ gcPoke' = TRUE
    /\ UNCHANGED <<type, live, carved, freeList, slots, gcBytes, roots, stack, newborn,
                   mark, gcLevel, phase, unswept, finalizing, reached, pending, rtState>>

(* Mutant: any unlock clears the bit. *)
UnlockClears(t) == UnlockLeaving(t, 0)

(* The lock bit goes with the entry, when its count drops to zero. *)
UnlockGCThing(t) == UnlockLeaving(t, IF gcLocksHash[t] = 1 THEN 0 ELSE lockBits[t])

----------------------------------------------------------------------------
(* JS_GC, and JS_MaybeGC when it decides to: js_ForceGC drops the newborns, pokes
   and collects.  Called from a finalizer, it only asks for one more cycle. *)
ForceGC ==
    /\ newborn' = [ty \in Types |-> Null]
    /\ gcPoke' = TRUE
    /\ UNCHANGED <<heapVars, gcLocksHash, roots, stack, pending, rtState>>
    /\ \/ Mutator /\ (StartGC \/ SkipGC)
       \/ /\ finalizing # Null
          /\ gcLevel' = IF rtState = "UP" THEN gcLevel + 1 ELSE gcLevel
          /\ gcLevel' <= MaxLevel
          /\ UNCHANGED <<phase, mark, unswept, finalizing, reached>>

(* The whole mark phase: nothing else runs meanwhile. *)
MarkPhaseFrom(S) ==
    /\ phase = "mark"
    /\ phase' = "sweep"
    /\ mark' = MarkFrom(S)
    /\ unswept' = live
    /\ reached' = Holdable
    /\ UNCHANGED <<heapVars, rootVars, gcPoke, gcLevel, finalizing, pending, rtState>>

(* Mutant: the newborns are not marked. *)
MarkPhaseNoNewborns ==
    MarkPhaseFrom((stack \cup {roots[r] : r \in RootIds}
                         \cup {t \in Things : gcLocksHash[t] > 0}) \cap Things)

MarkPhase == MarkPhaseFrom(MarkRoots)

(* Mutant: the thing is not taken off gcBytes. *)
FinalizeUncounted(t) ==
    /\ live' = live \ {t}
    /\ type' = [type EXCEPT ![t] = "object"]
    /\ slots' = [slots EXCEPT ![t] = {}]
    /\ UNCHANGED gcBytes

(* The flag byte becomes GCF_FINAL. *)
Finalize(t) ==
    /\ live' = live \ {t}
    /\ type' = [type EXCEPT ![t] = "object"]
    /\ slots' = [slots EXCEPT ![t] = {}]
    /\ gcBytes' = gcBytes - 1

(* One turn of the sweep loop.  An object's finalizer calls out, so it takes
   steps of its own; those of the other types do not.  kept: the marks left. *)
SweepKeeping(t, kept) ==
    /\ phase = "sweep" /\ finalizing = Null
    /\ t \in unswept
    /\ unswept' = unswept \ {t}
    /\ \/ /\ t \in mark
          /\ mark' = kept
          /\ UNCHANGED <<type, live, slots, gcBytes, finalizing>>
       \/ /\ t \notin mark /\ lockBits[t] > 0
          /\ UNCHANGED <<type, live, slots, gcBytes, mark, finalizing>>
       \/ /\ t \notin mark /\ lockBits[t] = 0 /\ type[t] = "object"
          /\ finalizing' = t
          /\ UNCHANGED <<type, live, slots, gcBytes, mark>>
       \/ /\ t \notin mark /\ lockBits[t] = 0 /\ type[t] # "object"
          /\ Finalize(t)
          /\ UNCHANGED <<mark, finalizing>>
    /\ UNCHANGED <<lockBits, carved, freeList, rootVars,
                   gcPoke, gcLevel, phase, reached, pending, rtState>>

(* Mutant: GCF_MARK is not cleared. *)
SweepKeepsMark(t) == SweepKeeping(t, mark)

SweepThing(t) == SweepKeeping(t, mark \ {t})

(* The class's finalize hook is done: drop the map and the slots. *)
FinalizeObject ==
    /\ finalizing # Null
    /\ Finalize(finalizing)
    /\ finalizing' = Null
    /\ UNCHANGED <<lockBits, carved, freeList, rootVars, mark, gcPoke, gcLevel,
                   phase, unswept, reached, pending, rtState>>

(* Free the arenas with no live thing, thread the other free cells onto the
   freelist, and start over with gcLevel at level or leave js_GC. *)
FreePhaseTo(level) ==
    /\ phase = "sweep" /\ unswept = {} /\ finalizing = Null
    /\ carved' = {t \in carved : Arena(t) \cap live # {}}
    /\ freeList' = carved' \ live
    /\ IF gcLevel > 1
         THEN /\ gcLevel' = level /\ phase' = "mark"
              /\ UNCHANGED gcPoke
         ELSE /\ gcLevel' = 0 /\ phase' = "mutator"
              /\ gcPoke' = FALSE
    /\ reached' = {}
    /\ UNCHANGED <<type, live, lockBits, slots, gcBytes, rootVars, mark, unswept,
                   finalizing, pending, rtState>>

(* Mutant: gcLevel stays up when the collection restarts. *)
FreePhaseKeepsLevel == FreePhaseTo(gcLevel)

FreePhase == FreePhaseTo(1)

----------------------------------------------------------------------------
(* js_DestroyContext of the last context, up to js_ForceGC: its frames and
   newborns are gone, and the final collection cannot be declined. *)
DestroyContext ==
    /\ Mutator
    /\ rtState' = "LANDING"
    /\ stack' = {} /\ newborn' = [ty \in Types |-> Null]
    /\ gcPoke' = TRUE
    /\ StartGC
    /\ UNCHANGED <<heapVars, gcLocksHash, roots, pending>>

(* After the forced collection: "Iterate until no finalizer removes a GC root or
   lock", then take the runtime down. *)
FinishLanding ==
    /\ rtState = "LANDING" /\ phase = "mutator"
    /\ IF gcPoke THEN StartGC /\ UNCHANGED rtState
                 ELSE SkipGC /\ rtState' = "DOWN"
    /\ UNCHANGED <<heapVars, rootVars, gcPoke, pending>>

(* js_NewContext brings the runtime up again. *)
NewContext ==
    /\ rtState = "DOWN"
    /\ rtState' = "UP"
    /\ UNCHANGED <<heapVars, rootVars, gcVars, pending>>

----------------------------------------------------------------------------
Allocate ==
    \/ \E ty \in Types, base \in {{}} \cup {{t} : t \in Things} :
        AllocRecycled(ty, base) \/ AllocFresh(ty, base)
    \/ \E ty \in Types : AllocLastDitch(ty)
    \/ AllocFail

Mutate ==
    \/ \E o, t \in Things : SetSlot(o, t) \/ ClearSlot(o, t)
    \/ \E t \in Things : UndependString(t) \/ Push(t) \/ Pop(t)
    \/ \E t \in Things : LockGCThing(t) \/ UnlockGCThing(t)
    \/ \E r \in RootIds : RemoveRoot(r) \/ \E v \in Things \cup {Null} : AddRoot(r, v)
    \/ ForceGC

Collect ==
    \/ MarkPhase
    \/ \E t \in Things : SweepThing(t)
    \/ FinalizeObject
    \/ FreePhase

Lifecycle == DestroyContext \/ FinishLanding \/ NewContext

Next == Allocate \/ Mutate \/ Collect \/ Lifecycle

Spec == Init /\ [][Next]_vars

(* js_GC runs on the calling thread: it keeps going, whatever finalizers do. *)
FairSpec == Spec /\ WF_vars(Collect)

----------------------------------------------------------------------------
DataTypeOK ==
    /\ type \in [Things -> Types] /\ lockBits \in [Things -> 0 .. Stuck]
    /\ live \subseteq Things /\ mark \subseteq Things
    /\ carved \subseteq Things /\ freeList \subseteq Things
    /\ gcLocksHash \in [Things -> Nat]
    /\ slots \in [Things -> SUBSET Things]
    /\ roots \in [RootIds -> Things \cup {Null, Absent}]
    /\ stack \subseteq Things /\ newborn \in [Types -> Things \cup {Null}]
    /\ gcBytes \in Int /\ gcLevel \in Nat
    /\ phase \in {"mutator", "mark", "sweep"}
    /\ unswept \subseteq Things /\ finalizing \in Things \cup {Null}
    /\ reached \subseteq Things
    /\ pending \in Types \cup {Null} /\ rtState \in {"UP", "LANDING", "DOWN"}

TypeOK == DataTypeOK /\ gcPoke \in BOOLEAN

(* A thing the program can still name, through a root, a frame, a newborn, a
   lock or a chain of references, is never freed: neither while it runs nor at
   any point of a sweep, whatever the finalizers release (js_GC). *)
NoDangling == Holdable \subseteq live

(* No cell is lost and none is handed out twice: outside the collector the
   freelist is exactly the carved cells that hold no thing, and gcBytes, which
   decides when allocation may grow the heap, counts the live things. *)
HeapAccounting ==
    /\ gcBytes = Cardinality(live) /\ live \subseteq carved
    /\ phase = "mutator" => freeList = carved \ live

(* js_AllocGCThing keeps the heap under rt->gcMaxBytes, though it tests gcBytes
   only when the freelist is empty. *)
WithinMaxBytes == Cardinality(carved) <= MaxCells

(* The lock bit of an object and its entry in gcLocksHash, which alone protects
   what the object refers to, stay in step across sweeps and finalizers. *)
LocksAgree ==
    \A t \in Things :
        /\ gcLocksHash[t] > 0 <=> (type[t] = "object" /\ lockBits[t] > 0)
        /\ lockBits[t] > 0 => t \in live

(* What a collection leaves behind is what its last mark phase had reached:
   it frees all garbage older than that, and every cycle of a restarted
   collection finds the mark bits clear (js_GC). *)
CollectsAllGarbage ==
    [][phase = "sweep" /\ phase' # "sweep" => live \subseteq reached /\ mark = {}]_vars

(* A collection ends, though finalizers may ask for more cycles: each cycle can
   only finalize things no finalizer can replace (js_GC's restart). *)
GcTerminates == gcLevel > 0 ~> gcLevel = 0

(* What NoDangling rests on.  A live cell is neither free nor beyond a->avail; only
   objects and dependent strings refer to anything; and what is locked is of a type
   the embedder locks. *)
CellsInv == live \subseteq carved /\ freeList \subseteq carved \ live

LeavesInv ==
    /\ \A t \in Things : type[t] = "string" => slots[t] = {}
    /\ \A t \in Locked : type[t] \in LockTypes

(* A collection starts with no mark left from the one before; until the sweep
   reaches it, a thing the roots lead to carries its mark. *)
SweepInv ==
    /\ phase # "sweep" => mark = {} /\ unswept = {} /\ finalizing = Null
    /\ phase = "sweep" =>
        /\ mark \subseteq unswept /\ mark \subseteq reached
        /\ Reach(slots, MarkRoots) \cap unswept \subseteq mark
        /\ Holdable \subseteq reached
        /\ live \subseteq reached \cup unswept \cup {finalizing}
        /\ finalizing \notin Holdable \cup unswept

(* The inductive invariant of the heap. *)
HeapInv == TypeOK /\ NoDangling /\ LocksAgree /\ CellsInv /\ LeavesInv /\ SweepInv

(* What the accounting rests on besides: the sweep looks at live things only. *)
AccountInv ==
    /\ HeapAccounting /\ WithinMaxBytes
    /\ unswept \subseteq live /\ finalizing \in live \cup {Null}

(* js_MarkGCThing's JS_ASSERT(flags != GCF_FINAL): marking never meets a freed
   thing. *)
MarkSeesLive == phase = "mark" => MarkFrom(MarkRoots) \subseteq live

(* js_DestroyContext: "Iterate until no finalizer removes a GC root or lock",
   so that the runtime goes down with no garbage left unfinalized. *)
DownWithoutGarbage == rtState = "DOWN" => live \subseteq Holdable
=============================================================================
