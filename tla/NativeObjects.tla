---------------------------- MODULE NativeObjects ----------------------------
(***************************************************************************)
(* Properties of native objects (jsobj.c, jsinterp.h): lookup along the    *)
(* prototypes with resolve hooks, get, set, define, delete and clear, the  *)
(* slots that hold the values, and the runtime's property cache, on one    *)
(* thread.  Each call may stop at a hook (resolve, getter, setter,         *)
(* addProperty, delProperty, a watch handler, finalizers), and a hook may  *)
(* make any of the calls: "hooks" is the stack of the calls that wait.     *)
(*                                                                         *)
(* A JSScopeProperty is its id, its slot and a kind that stands for its    *)
(* attributes, getter and setter; PropTree has the lists they form.  A     *)
(* value is known by the id it was stored under.                           *)
(*                                                                         *)
(* A call that a hook interrupted goes on with the property it had found,  *)
(* whatever became of it: js_GetProperty and js_SetProperty check only     *)
(* that its slot is below freeslot.  A value stored where the object has   *)
(* no such property any more is marked (Astray), and so is an entry of the *)
(* cache about one (stray).  A property that a collection in the hook      *)
(* freed is read as it was, and a store beyond the slots changes nothing   *)
(* here.                                                                   *)
(***************************************************************************)
EXTENDS Integers, Sequences, SequencesExt, FiniteSetsExt

CONSTANTS
    JSObjects, PropIds,
    ProtoChain,        \* object -> itself and its prototypes
    ScopeChain,        \* the objects a name is looked up in
    Resolvers,         \* objects whose class has a resolve hook
    HookedClass,       \* objects whose class has a getter and a setter
    Mortal,            \* objects that may die and have their cell used again
    PropOffers,        \* the definitions <<object, id, kind>> the program makes (inputs)
    CacheHash,         \* PROPERTY_CACHE_HASH
    Reserved,          \* JSSLOT_FREE
    InitialSlots,      \* JS_INITIAL_NSLOTS
    MaxNslots,         \* bound: slots of an object
    MaxPending,        \* bound: calls that wait at once
    MaxPropCalls,      \* bound: calls of a behaviour
    NoProp             \* a null pointer

VARIABLES
    objs,         \* object -> its scope (owned or not), properties, freeslot and slots
    cache,        \* rt->propertyCache
    resolving,    \* cx->resolvingTable: object, id and flag
    hooks,        \* the calls that wait for a hook, innermost last
    propCalls     \* calls made (a bound)

objectVars == <<objs, cache, resolving, hooks, propCalls>>

Void == 0          \* PropIds are positive numbers
SPROP_INVALID_SLOT == -1    \* 0xffffffff, which no freeslot exceeds

\* plain: no getter or setter; constant: JSPROP_READONLY and JSPROP_PERMANENT too;
\* hooked: a getter and a setter; shared: these and JSPROP_SHARED;
\* half, whole: JSPROP_GETTER, JSPROP_GETTER and JSPROP_SETTER, shared.
Slotless == {"shared", "half", "whole"}
Unhooked == {"plain", "constant"}
Kinds == Unhooked \cup {"hooked"} \cup Slotless

ASSUME NativeObjectsAssumption ==
    /\ PropIds \subseteq Nat \ {Void} /\ PropIds # {}
    /\ NoProp \notin JSObjects \cup [id : PropIds, kind : Kinds, slot : Int]
    /\ ScopeChain \in Seq(JSObjects) /\ ScopeChain # <<>>
    /\ ProtoChain \in [JSObjects -> Seq(JSObjects)]
    /\ DOMAIN CacheHash = JSObjects \X PropIds
    /\ PropOffers \subseteq JSObjects \X PropIds \X Kinds
    /\ Mortal \subseteq JSObjects
    /\ Reserved \in Nat \ {0} /\ InitialSlots \in Nat /\ Reserved <= InitialSlots

-----------------------------------------------------------------------------
(* Slots. *)

NoProps == [id \in PropIds |-> NoProp]

FreshObject(o) ==
    [owns |-> Len(ProtoChain[o]) = 1, props |-> NoProps, freeslot |-> Reserved,
     slots |-> [i \in 1..InitialSlots |-> Void]]

HasValidSlot(ob, sprop) == sprop.slot # SPROP_INVALID_SLOT /\ sprop.slot < ob.freeslot

SetSlot(ob, slot, v) == [ob EXCEPT !.slots[slot + 1] = v]

\* What was stored in a slot for a property that did not have it (any more).
Astray == {-id : id \in PropIds}

\* The value of a call on sprop goes where sprop says.
StoreFor(ob, sprop) ==
    LET mine == ob.props[sprop.id] # NoProp /\ ob.props[sprop.id].slot = sprop.slot IN
    SetSlot(ob, sprop.slot, IF mine THEN sprop.id ELSE -sprop.id)

\* The slot is the old freeslot.
AllocSlot(ob) ==
    LET more == IF ob.freeslot < Len(ob.slots) THEN 0 ELSE (ob.freeslot + 1) \div 2 IN
    [ob EXCEPT !.slots = @ \o [i \in 1..more |-> Void], !.freeslot = @ + 1]

\* Mutant: the slot keeps the value of the property deleted.
FreeSlotOnly(ob, slot) ==
    [ob EXCEPT !.freeslot = IF @ = slot + 1 THEN slot ELSE @]

FreeSlot(ob, slot) ==
    LET free == IF ob.freeslot = slot + 1 THEN slot ELSE ob.freeslot
        shrinks == Len(ob.slots) > InitialSlots /\ free < Len(ob.slots) \div 2
        nslots == IF shrinks THEN Max({InitialSlots, free + free \div 2}) ELSE Len(ob.slots)
    IN [SetSlot(ob, slot, Void) EXCEPT !.freeslot = free, !.slots = SubSeq(@, 1, nslots)]

-----------------------------------------------------------------------------
(* An object's own properties. *)

Sprop(id, kind, slot) == [id |-> id, kind |-> kind, slot |-> slot]

\* js_AddScopeProperty for a caller that leaves the slot to it.
AddToScope(ob, id, kind) ==
    LET old == ob.props[id]
        kept == old # NoProp /\ kind \notin Slotless /\ HasValidSlot(ob, old)
    IN IF kind \in Slotless THEN [ob EXCEPT !.props[id] = Sprop(id, kind, SPROP_INVALID_SLOT)]
       ELSE IF kept THEN [ob EXCEPT !.props[id] = Sprop(id, kind, old.slot)]
       ELSE [AllocSlot(ob) EXCEPT !.props[id] = Sprop(id, kind, ob.freeslot)]

ChangeKind(ob, id, kind) == [ob EXCEPT !.props[id].kind = kind]

RemoveScopeProperty(ob, id) ==
    LET sprop == ob.props[id] IN
    IF sprop = NoProp THEN ob
    ELSE [(IF HasValidSlot(ob, sprop) THEN FreeSlot(ob, sprop.slot) ELSE ob)
             EXCEPT !.props[id] = NoProp]

\* An object that shared its prototype's scope gets one of its own.
OwnScope(ob) == [ob EXCEPT !.owns = TRUE]

-----------------------------------------------------------------------------
(* The property cache. *)

NoEntry == [obj |-> NoProp, prop |-> NoProp, stray |-> FALSE]

FlushPropertyCache(c) ==
    IF c.empty THEN c ELSE [c EXCEPT !.table = [h \in DOMAIN @ |-> NoEntry], !.empty = TRUE]

FillCache(c, o, id, sprop, stray) ==
    IF c.disabled THEN c
    ELSE [c EXCEPT !.table[CacheHash[<<o, id>>]] =
                       IF sprop = NoProp THEN NoEntry
                       ELSE [obj |-> o, prop |-> sprop, stray |-> stray],
                   !.empty = FALSE]

\* The cached property of o with this id, if the entry is about it.
TestCache(c, o, id) ==
    LET e == c.table[CacheHash[<<o, id>>]] IN
    IF e.obj = o /\ e.prop.id = id THEN e.prop ELSE NoProp

\* The entry stays, though o loses the property.
LeftStray(c, o, id) ==
    IF TestCache(c, o, id) = NoProp THEN c
    ELSE [c EXCEPT !.table[CacheHash[<<o, id>>]].stray = TRUE]

-----------------------------------------------------------------------------
(* cx->resolvingTable: a key is an object and an id. *)

Resolving(r, o, id, flag) == <<o, id, flag>> \in r

StartResolving(r, o, id, flag) == r \cup {<<o, id, flag>>}

\* Mutant: the entry goes, whatever flags remain.
StopAll(r, o, id, flag) == {k \in r : k[1] # o \/ k[2] # id}

StopResolving(r, o, id, flag) == r \ {<<o, id, flag>>}

-----------------------------------------------------------------------------
(* A call under way: what is asked (call, obj, id, kind), where its lookup *)
(* stands or what it found (at, sprop), and the hook it waits for (phase). *)
(* "st" is the state of the variables.                                     *)

Now == [objs |-> objs, cache |-> cache, resolving |-> resolving, hooks |-> hooks]

Call(call, o, id, kind) ==
    [call |-> call, obj |-> o, id |-> id, kind |-> kind, at |-> o, sprop |-> NoProp, phase |-> ""]

WaitFor(st, f, phase, at, sprop) ==
    [st EXCEPT !.hooks = Append(@, [f EXCEPT !.phase = phase, !.at = at, !.sprop = sprop])]

\* The cache is told of sprop, which o may not have any more.
Told(st, o, sprop) ==
    LET stray == ~st.objs[o].owns \/ st.objs[o].props[sprop.id] # sprop IN
    [st EXCEPT !.cache = FillCache(@, o, sprop.id, sprop, stray)]

Cached(st, o, id) == Told(st, o, st.objs[o].props[id])

\* Mutant: the cache is not told.
RemoveQuietly(st, o, id) == [st EXCEPT !.objs[o] = RemoveScopeProperty(@, id)]

RemoveAndForget(st, o, id) ==
    [st EXCEPT !.cache = FillCache(@, o, id, NoProp, FALSE), !.objs[o] = RemoveScopeProperty(@, id)]

\* The property's value is read, and read again after its getter ran.
GetFrom(st, f, pobj, sprop) ==
    IF sprop.kind \in Unhooked THEN st ELSE WaitFor(st, f, "getter", pobj, sprop)

StoreIn(st, f, sprop) ==
    IF sprop.kind \in Unhooked
    THEN [st EXCEPT !.objs[f.obj] = IF sprop.slot < Len(@.slots) THEN StoreFor(@, sprop) ELSE @]
    ELSE IF sprop.kind = "half" THEN st
    ELSE WaitFor(st, f, "setter", f.obj, sprop)

\* Make or overwrite obj's property and tell the class of it.
AddThenHook(st, f, kind) ==
    LET ob == AddToScope(OwnScope(st.objs[f.obj]), f.id, kind) IN
    WaitFor([st EXCEPT !.objs[f.obj] = ob], f, "add", f.obj, ob.props[f.id])

ClassKind(o) == IF o \in HookedClass THEN "hooked" ELSE "plain"

Found(st, f, pobj) ==
    LET sprop == st.objs[pobj].props[f.id] IN
    CASE f.call = "get" -> GetFrom(st, f, pobj, sprop)
      [] f.call = "name" -> GetFrom(Cached(st, pobj, f.id), f, pobj, sprop)
      [] f.call = "set" /\ sprop.kind = "constant" -> st
      [] f.call = "set" /\ sprop.kind # "constant" ->
           IF pobj = f.obj \/ sprop.kind \in Slotless THEN StoreIn(st, f, sprop)
           ELSE AddThenHook(st, f, ClassKind(f.obj))
      [] f.call = "define" ->
           IF pobj = f.obj /\ sprop.kind = "half"
           THEN Cached([st EXCEPT !.objs[pobj] = ChangeKind(@, f.id, "whole")],
                       pobj, f.id)
           ELSE AddThenHook(st, f, f.kind)
      [] f.call = "attributes" ->
           IF sprop.kind # "plain" THEN st
           ELSE Cached([st EXCEPT !.objs[pobj] = ChangeKind(@, f.id, f.kind)],
                       pobj, f.id)
      [] f.call = "delete" ->
           IF pobj # f.obj \/ sprop.kind = "constant" THEN st
           ELSE WaitFor(st, f, "delete", pobj, sprop)

\* Nothing, unless the call makes the property; a name is left to NextInScope.
Missed(st, f) ==
    CASE f.call = "set" -> AddThenHook(st, f, ClassKind(f.obj))
      [] f.call = "define" -> AddThenHook(st, f, f.kind)
      [] OTHER -> st

\* js_LookupProperty over the objects of chain: it stops at one that has the property or may
\* resolve it; where it is being resolved already, the lookup finds nothing.
LookUp(st, f, chain) ==
    LET has(o) == st.objs[o].owns /\ st.objs[o].props[f.id] # NoProp
        stop == SelectInSeq(chain, LAMBDA o : has(o) \/ o \in Resolvers)
        o == chain[stop]
    IN IF stop = 0 THEN [miss |-> TRUE, st |-> Missed(st, f)]
       ELSE IF has(o) THEN [miss |-> FALSE, st |-> Found(st, f, o)]
       ELSE IF Resolving(st.resolving, o, f.id, "lookup") THEN [miss |-> TRUE, st |-> Missed(st, f)]
       ELSE [miss |-> FALSE,
             st |-> WaitFor([st EXCEPT !.resolving = StartResolving(@, o, f.id, "lookup")],
                            f, "resolve", o, NoProp)]

\* js_FindProperty in the objects of scopes: in each the cache first, then a lookup.
FindProperty(st, f, scopes) ==
    LET asks(i) == [f EXCEPT !.obj = scopes[i]]
        hit(i) == TestCache(st.cache, scopes[i], f.id)
        found(i) == LookUp(st, asks(i), ProtoChain[scopes[i]])
        stops == {i \in DOMAIN scopes : hit(i) # NoProp \/ ~found(i).miss}
        here == Min(stops)
    IN IF stops = {} THEN st
       ELSE IF hit(here) # NoProp THEN GetFrom(st, asks(here), scopes[here], hit(here))
       ELSE found(here).st

ScopesFrom(o) == SubSeq(ScopeChain, SelectInSeq(ScopeChain, LAMBDA p : p = o), Len(ScopeChain))

\* The lookup goes on past f.at, and a name past f.obj.
LookFurther(st, f) ==
    LET chain == ProtoChain[f.obj]
        rest == SubSeq(chain, SelectInSeq(chain, LAMBDA o : o = f.at) + 1, Len(chain))
        found == LookUp(st, f, rest)
    IN IF found.miss /\ f.call = "name" THEN FindProperty(st, f, Tail(ScopesFrom(f.obj)))
       ELSE found.st

-----------------------------------------------------------------------------
Go(st) ==
    /\ objs' = st.objs
    /\ cache' = st.cache
    /\ resolving' = st.resolving
    /\ hooks' = st.hooks

\* Anybody may call while nothing waits, and the hook that is waited for.
MayCall ==
    /\ propCalls < MaxPropCalls
    /\ Len(hooks) < MaxPending
    /\ \A o \in JSObjects : objs[o].freeslot < MaxNslots
    /\ propCalls' = propCalls + 1

InitOfObjects ==
    /\ objs = [o \in JSObjects |-> FreshObject(o)]
    /\ cache = [table |-> [h \in {CacheHash[k] : k \in DOMAIN CacheHash} |-> NoEntry],
                empty |-> TRUE, disabled |-> FALSE]
    /\ resolving = {}
    /\ hooks = <<>>
    /\ propCalls = 0

\* js_GetProperty by way of CACHED_GET, and js_SetProperty of CACHED_SET: a hit spares the
\* lookup, but not for a constant.  What it tells may be stale: CACHED_SET checks the slot.
GetNative(o, id) ==
    /\ MayCall
    /\ LET hit == TestCache(cache, o, id) IN
       Go(IF hit # NoProp THEN GetFrom(Now, Call("hit", o, id, ""), o, hit)
          ELSE LookUp(Now, Call("get", o, id, ""), ProtoChain[o]).st)

SetNative(o, id) ==
    /\ MayCall
    /\ LET f == Call("set", o, id, "")
           hit == TestCache(cache, o, id)
       IN Go(IF hit = NoProp \/ hit.kind = "constant" THEN LookUp(Now, f, ProtoChain[o]).st
             ELSE IF hit.kind \in Unhooked /\ ~HasValidSlot(objs[o], hit) THEN Now
             ELSE StoreIn(Now, f, hit))

\* A variable's value, wherever the scope chain has it.
GetName(id) ==
    /\ MayCall
    /\ Go(FindProperty(Now, Call("name", Head(ScopeChain), id, ""), ScopeChain))

\* js_DefineNativeProperty: half of an accessor first looks for the other half.
DefineNative(o, id, kind) ==
    /\ MayCall
    /\ LET f == Call("define", o, id, kind) IN
       Go(IF kind = "half" THEN LookUp(Now, f, ProtoChain[o]).st ELSE AddThenHook(Now, f, kind))

SetAttributes(o, id) ==
    /\ MayCall
    /\ Go(LookUp(Now, Call("attributes", o, id, "constant"), ProtoChain[o]).st)

DeleteNative(o, id) ==
    /\ MayCall
    /\ Go(LookUp(Now, Call("delete", o, id, ""), ProtoChain[o]).st)

Emptied(ob) ==
    [ob EXCEPT !.props = NoProps, !.freeslot = Reserved, !.slots = [i \in DOMAIN ob.slots |-> Void]]

\* js_Clear: out of the cache, then out of the scope.
Clear(o) ==
    /\ MayCall
    /\ objs[o].owns
    /\ objs' = [objs EXCEPT ![o] = Emptied(@)]
    /\ LET out == {CacheHash[<<o, id>>] : id \in {i \in PropIds : objs[o].props[i] # NoProp}} IN
       cache' = IF cache.disabled THEN cache
                ELSE [cache EXCEPT !.table = [h \in DOMAIN @ |-> IF h \in out THEN NoEntry ELSE @[h]]]
    /\ UNCHANGED <<resolving, hooks>>

\* obj_watch_handler, called by the setter that is under way.
RunWatchHandler ==
    /\ MayCall
    /\ hooks # <<>>
    /\ LET f == Last(hooks) IN
        /\ f.phase = "setter"
        /\ ~Resolving(resolving, f.obj, f.id, "watch")
        /\ resolving' = StartResolving(resolving, f.obj, f.id, "watch")
        /\ hooks' = Append(hooks, [Call("watch", f.obj, f.id, "") EXCEPT !.phase = "watch"])
    /\ UNCHANGED <<objs, cache>>

\* js_GC: with the cache off and flushed, finalizers run; then o's cell is a new object's.
StartSweep(o) ==
    /\ MayCall
    /\ ~cache.disabled
    /\ \A i \in DOMAIN hooks : o \notin {hooks[i].obj, hooks[i].at}
    /\ cache' = [FlushPropertyCache(cache) EXCEPT !.disabled = TRUE]
    /\ hooks' = Append(hooks, [Call("gc", o, CHOOSE id \in PropIds : TRUE, "") EXCEPT !.phase = "gc"])
    /\ UNCHANGED <<objs, resolving>>

-----------------------------------------------------------------------------
(* The hook that is waited for returns, f its call and st the rest.        *)

Hook == Last(hooks)
Below == [Now EXCEPT !.hooks = Front(@)]

HookReturns(phase) ==
    /\ hooks # <<>> /\ Hook.phase = phase
    /\ UNCHANGED propCalls

Resolved == [Below EXCEPT !.resolving = StopResolving(@, Hook.at, Hook.id, "lookup")]

ResolveFails == HookReturns("resolve") /\ Go(Resolved)

\* The hook says in which object it defined the property, if it did.
ResolveReturns(obj2) ==
    /\ HookReturns("resolve")
    /\ Go(IF obj2 # NoProp /\ objs[obj2].owns /\ objs[obj2].props[Hook.id] # NoProp
          THEN Found(Resolved, Hook, obj2) ELSE LookFurther(Resolved, Hook))

\* The getter's value goes into the slot; js_GetProperty alone puts it in the cache.
GetterReturns(ok) ==
    /\ HookReturns("getter")
    /\ LET set == [Below EXCEPT !.objs[Hook.at] = StoreFor(@, Hook.sprop)] IN
       Go(IF ~ok \/ ~HasValidSlot(objs[Hook.at], Hook.sprop) THEN Below
          ELSE IF Hook.call = "get" THEN Told(set, Hook.at, Hook.sprop)
          ELSE set)

SetterReturns(ok) ==
    /\ HookReturns("setter")
    /\ Go(IF ok /\ HasValidSlot(objs[Hook.obj], Hook.sprop)
          THEN [Below EXCEPT !.objs[Hook.obj] = StoreFor(@, Hook.sprop)] ELSE Below)

\* The class refuses the property: it goes, and the cache is not told.
AddFails ==
    /\ HookReturns("add")
    /\ Go([Below EXCEPT !.objs[Hook.obj] = RemoveScopeProperty(@, Hook.id),
                        !.cache = LeftStray(@, Hook.obj, Hook.id)])

\* The slot gets its first value; a set then goes on as if the property had been found.
AddReturns ==
    /\ HookReturns("add")
    /\ LET first(ob) == IF Hook.call = "set" THEN SetSlot(ob, Hook.sprop.slot, Void)
                        ELSE StoreFor(ob, Hook.sprop)
           slotted == IF ~HasValidSlot(objs[Hook.obj], Hook.sprop) THEN Below
                      ELSE [Below EXCEPT !.objs[Hook.obj] = first(@)]
           known == Told(slotted, Hook.obj, Hook.sprop)
       IN Go(IF Hook.call = "set" THEN StoreIn(known, Hook, Hook.sprop) ELSE known)

DeleteReturns(ok) ==
    /\ HookReturns("delete")
    /\ Go(IF ok THEN RemoveAndForget(Below, Hook.obj, Hook.id) ELSE Below)

WatchReturns ==
    /\ HookReturns("watch")
    /\ Go([Below EXCEPT !.resolving = StopResolving(@, Hook.obj, Hook.id, "watch")])

EndSweep ==
    /\ HookReturns("gc")
    /\ Go([Below EXCEPT !.objs[Hook.obj] = IF Hook.obj \in Mortal THEN FreshObject(Hook.obj) ELSE @,
                        !.cache.disabled = FALSE])

ObjectsNext ==
    \/ \E o \in JSObjects, id \in PropIds :
          GetNative(o, id) \/ SetNative(o, id) \/ DeleteNative(o, id) \/ SetAttributes(o, id)
    \/ \E d \in PropOffers : DefineNative(d[1], d[2], d[3])
    \/ \E id \in PropIds : GetName(id)
    \/ \E o \in JSObjects : Clear(o)
    \/ \E o \in Mortal : StartSweep(o)
    \/ RunWatchHandler
    \/ ResolveFails \/ AddFails \/ AddReturns \/ WatchReturns \/ EndSweep
    \/ \E obj2 \in JSObjects \cup {NoProp} : ResolveReturns(obj2)
    \/ \E ok \in BOOLEAN : GetterReturns(ok) \/ SetterReturns(ok) \/ DeleteReturns(ok)

ObjectsSpec == InitOfObjects /\ [][ObjectsNext]_objectVars

-----------------------------------------------------------------------------
\* What the property cache says an object has, the object has: an interpreter that asks the
\* cache alone (CACHED_GET, CACHED_SET, js_FindProperty) sees what a lookup would find.  But for
\* a property being defined again, of which the cache is told when addProperty has returned, and
\* for entries that went stray: filled by a call whose property went while its hook ran, or left
\* behind when addProperty failed.
CacheExact ==
    \A h \in DOMAIN cache.table :
        LET e == cache.table[h]
            redefined == \E i \in DOMAIN hooks : hooks[i].phase = "add" /\ hooks[i].obj = e.obj
                                                   /\ hooks[i].id = e.prop.id
        IN e # NoEntry /\ ~e.stray =>
             objs[e.obj].owns /\ (objs[e.obj].props[e.prop.id] = e.prop \/ redefined)

Slotted(ob, id) == ob.props[id] # NoProp /\ ob.props[id].kind \notin Slotless

\* No two properties of an object share a slot; each slot lies below freeslot and holds what
\* was stored under the property's own id; what is free is void (js_AllocSlot relies on it):
\* but for what a call stored whose property went while its hook ran, in any slot.
SlotsExact ==
    \A o \in JSObjects :
        LET ob == objs[o] IN
        /\ \A id \in PropIds : Slotted(ob, id) =>
             /\ ob.props[id].slot \in Reserved..ob.freeslot - 1
             /\ ob.slots[ob.props[id].slot + 1] \in {Void, id} \cup Astray
        /\ \A i, j \in PropIds :
             Slotted(ob, i) /\ Slotted(ob, j) /\ ob.props[i].slot = ob.props[j].slot => i = j
        /\ \A s \in ob.freeslot + 1..Len(ob.slots) : ob.slots[s] \in {Void} \cup Astray

\* "Check whether sprop is still around (was not deleted), and whether it has a slot" (jsobj.c:
\* 2882-2886): no call stores its value in a slot that another property has meanwhile.
StoresInOwnSlot ==
    \A o \in JSObjects, id \in PropIds :
        Slotted(objs[o], id) => objs[o].slots[objs[o].props[id].slot + 1] \notin Astray

\* The resolving table holds exactly the lookups and watch handlers under way, each once:
\* neither recurs on its own object and id, and none is left behind to hide a property.
ResolvingExact ==
    LET under == {i \in DOMAIN hooks : hooks[i].phase \in {"resolve", "watch"}}
        key(i) == <<hooks[i].at, hooks[i].id, IF hooks[i].phase = "watch" THEN "watch" ELSE "lookup">>
    IN /\ resolving = {key(i) : i \in under}
       /\ \A i, j \in under : key(i) = key(j) => i = j
=============================================================================
