------------------------ MODULE NativeObjectsProofs ------------------------
(***************************************************************************)
(* Objects, their slots, the property cache and the resolving table        *)
(* (NativeObjects) keep ObjectsInv, whatever calls the hooks make while    *)
(* other calls wait.  It says what each of the four variables holds and    *)
(* what ties them:                                                         *)
(*   SlotsSound      an object's properties, its freeslot and its slots;   *)
(*   Waits           what a waiting call knows;                            *)
(*   CacheSound      an entry is in its place and true of its object, or   *)
(*                   the property is being defined again, or it is stray;  *)
(*                   the cache is off exactly while one collector's        *)
(*                   finalizers run;                                       *)
(*   ResolvingSound  the keys are those of the calls that wait.            *)
(* Each operation is a chain of small steps on a state st; a lemma says    *)
(* that a step keeps Sound(st), and the actions are put together of these. *)
(***************************************************************************)
EXTENDS NativeObjects, SequenceTheorems, WellFoundedInduction, TLAPS

(* What the variables hold. *)

Props == {p \in [id : PropIds, kind : Kinds, slot : Nat \cup {SPROP_INVALID_SLOT}] :
            p.kind \in Slotless <=> p.slot = SPROP_INVALID_SLOT}

(* What a slot holds that is no property's own value, and what it may hold. *)
Unclaimed == {Void} \cup Astray
Values == PropIds \cup Unclaimed

Objects == [owns : BOOLEAN, props : [PropIds -> Props \cup {NoProp}], freeslot : Nat,
            slots : Seq(Values)]

Entries == [obj : JSObjects \cup {NoProp}, prop : Props \cup {NoProp}, stray : BOOLEAN]

Places == {CacheHash[k] : k \in DOMAIN CacheHash}

Caches == [table : [Places -> Entries], empty : BOOLEAN, disabled : BOOLEAN]

LookUps == {"get", "name", "set", "define", "attributes", "delete"}

Phases == {"resolve", "getter", "setter", "add", "delete", "watch", "gc"}

Calls == [call : LookUps \cup {"hit", "watch", "gc"}, obj : JSObjects, id : PropIds, kind : Kinds \cup {""},
          at : JSObjects, sprop : Props \cup {NoProp}, phase : Phases \cup {""}]

Scopes == {ScopeChain[i] : i \in DOMAIN ScopeChain}

Keys == JSObjects \X PropIds \X {"lookup", "watch"}

States == [objs : [JSObjects -> Objects], cache : Caches, resolving : SUBSET Keys, hooks : Seq(Calls)]

(* A call for a property says what it asks. *)
Asks(f) ==
    /\ f \in Calls
    /\ f.call \in LookUps
    /\ f.call = "define" => f.kind \in Kinds
    /\ f.call = "attributes" => f.kind = "constant"
    /\ f.call = "name" => f.obj \in Scopes

(* A call that reads a property, which the cache may have told it of. *)
Reads(f) == f \in Calls /\ (Asks(f) \/ f.call = "hit")

(* A call that waits. *)
Waits(f) ==
    /\ f \in Calls
    /\ f.phase \in Phases
    /\ f.phase = "getter" => Reads(f)
    /\ f.phase \notin {"getter", "watch", "gc"} => Asks(f)
    /\ f.phase \in {"getter", "setter", "add", "delete"} => f.sprop # NoProp /\ f.sprop.id = f.id
    /\ f.phase \in {"setter", "add", "delete", "watch"} => f.at = f.obj

(* An object's properties and slots. *)
SlotsSound(ob) ==
    /\ Reserved <= ob.freeslot /\ ob.freeslot <= Len(ob.slots)
    /\ \A id \in PropIds : ob.props[id] # NoProp => ob.props[id].id = id
    /\ \A id \in PropIds : Slotted(ob, id) =>
          /\ ob.props[id].slot \in Reserved..ob.freeslot - 1
          /\ ob.slots[ob.props[id].slot + 1] \in {id} \cup Unclaimed
    /\ \A i, j \in PropIds :
          Slotted(ob, i) /\ Slotted(ob, j) /\ ob.props[i].slot = ob.props[j].slot => i = j
    /\ \A s \in ob.freeslot + 1..Len(ob.slots) : ob.slots[s] \in Unclaimed

Redefined(hs, o, id) ==
    \E i \in DOMAIN hs : hs[i].phase = "add" /\ hs[i].obj = o /\ hs[i].id = id

EntrySound(os, hs, h, e) ==
    /\ e.obj \in JSObjects /\ e.prop \in Props
    /\ h = CacheHash[<<e.obj, e.prop.id>>]
    /\ ~e.stray => os[e.obj].owns
                    /\ (os[e.obj].props[e.prop.id] = e.prop \/ Redefined(hs, e.obj, e.prop.id))

CacheSound(c, os, hs) ==
    /\ \A h \in Places : c.table[h] # NoEntry => ~c.empty /\ ~c.disabled /\ EntrySound(os, hs, h, c.table[h])
    /\ c.disabled <=> \E i \in DOMAIN hs : hs[i].phase = "gc"
    /\ \A i, j \in DOMAIN hs : hs[i].phase = "gc" /\ hs[j].phase = "gc" => i = j

Key(f) == <<f.at, f.id, IF f.phase = "watch" THEN "watch" ELSE "lookup">>

ResolvingSound(r, hs) ==
    LET under == {i \in DOMAIN hs : hs[i].phase \in {"resolve", "watch"}} IN
    /\ r = {Key(hs[i]) : i \in under}
    /\ \A i, j \in under : Key(hs[i]) = Key(hs[j]) => i = j

Sound(st) ==
    /\ st \in States
    /\ \A o \in JSObjects : SlotsSound(st.objs[o])
    /\ \A i \in DOMAIN st.hooks : Waits(st.hooks[i])
    /\ CacheSound(st.cache, st.objs, st.hooks)
    /\ ResolvingSound(st.resolving, st.hooks)

ObjectsInv == Sound(Now)

----------------------------------------------------------------------------
(* Extremes *)

LEMMA MinIsMember ==
  ASSUME NEW T \in SUBSET Nat, T # {}
  PROVE  Min(T) \in T
<1>1. PICK m \in T : \A x \in T : ~(<<x, m>> \in OpToRel(<, Nat))
  BY NatLessThanWellFounded, WFMin
<1>2. ASSUME NEW x \in T PROVE m <= x
  <2>1. ASSUME x < m PROVE <<x, m>> \in OpToRel(<, Nat)
    BY <2>1 DEF OpToRel
  <2>2. ~(x < m) /\ x \in Nat /\ m \in Nat
    BY <1>1, <2>1
  <2> QED BY ONLY <2>2
<1> QED BY <1>2 DEF Min

LEMMA MaxOfTwo ==
  ASSUME NEW a \in Nat, NEW b \in Nat
  PROVE  Max({a, b}) \in {a, b} /\ a <= Max({a, b}) /\ b <= Max({a, b})
<1>1. \E x \in {a, b} : \A y \in {a, b} : x >= y
  <2>1. CASE a <= b
    BY <2>1
  <2>2. CASE ~(a <= b)
    BY <2>2
  <2> QED BY <2>1, <2>2
<1>2. Max({a, b}) \in {a, b} /\ \A y \in {a, b} : Max({a, b}) >= y
  BY <1>1 DEF Max
<1> QED BY <1>2

----------------------------------------------------------------------------
(* Slots: what each step on an object leaves true of it.                   *)

LEMMA PropIsProp ==
  ASSUME NEW id \in PropIds, NEW kind \in Kinds, NEW slot \in Nat,
         NEW s, s = IF kind \in Slotless THEN SPROP_INVALID_SLOT ELSE slot
  PROVE  /\ Sprop(id, kind, s) \in Props /\ Sprop(id, kind, s) # NoProp
         /\ Sprop(id, kind, s).id = id /\ Sprop(id, kind, s).kind = kind
         /\ Sprop(id, kind, s).slot = s
BY NativeObjectsAssumption DEF Sprop, Props, SPROP_INVALID_SLOT

LEMMA PropsAreProps == NoProp \notin Props /\ Void \notin PropIds /\ PropIds \subseteq Nat
BY NativeObjectsAssumption DEF Props, SPROP_INVALID_SLOT

LEMMA OwnSlot ==
  ASSUME NEW ob \in Objects, SlotsSound(ob), NEW id \in PropIds, ob.props[id] # NoProp
  PROVE  /\ ob.props[id] \in Props /\ ob.props[id].id = id
         /\ HasValidSlot(ob, ob.props[id]) <=> ob.props[id].kind \notin Slotless
         /\ ob.props[id].kind \notin Slotless =>
              ob.props[id].slot \in Nat /\ ob.props[id].slot \in Reserved..ob.freeslot - 1
<1> DEFINE p == ob.props[id]
<1>1. p \in Props /\ p.id = id /\ ob.freeslot \in Nat
  BY DEF SlotsSound, Objects
<1>2. p.kind \notin Slotless => p.slot \in Reserved..ob.freeslot - 1
  BY DEF SlotsSound, Slotted
<1>3. p.kind \in Slotless <=> p.slot = SPROP_INVALID_SLOT
  BY <1>1 DEF Props
<1>4. Reserved \in Nat
  BY NativeObjectsAssumption
<1> HIDE DEF p
<1>5. p.kind \notin Slotless => p.slot \in Nat /\ p.slot < ob.freeslot
  BY <1>1, <1>2, <1>4
<1>6. HasValidSlot(ob, p) <=> p.kind \notin Slotless
  BY <1>3, <1>5 DEF HasValidSlot
<1> QED BY <1>1, <1>2, <1>5, <1>6 DEF p

(* Whatever became of the property: its slot is one of the object's. *)
LEMMA ValidSlot ==
  ASSUME NEW ob \in Objects, SlotsSound(ob), NEW p \in Props, HasValidSlot(ob, p)
  PROVE  p.kind \notin Slotless /\ p.slot < Len(ob.slots)
<1>1. p.slot # SPROP_INVALID_SLOT /\ p.slot < ob.freeslot /\ p.slot \in Nat \cup {SPROP_INVALID_SLOT}
  BY DEF HasValidSlot, Props
<1>2. ob.freeslot \in Nat /\ ob.freeslot <= Len(ob.slots) /\ Len(ob.slots) \in Nat
  BY DEF SlotsSound, Objects
<1>3. p.kind \notin Slotless
  BY <1>1 DEF Props
<1> QED BY <1>1, <1>2, <1>3

(* What a call on p may leave in p's slot: its value only where p has the slot. *)
Leaves(ob, p, v) ==
    v \in Unclaimed \/ (v = p.id /\ ob.props[p.id] # NoProp /\ ob.props[p.id].slot = p.slot)

LEMMA SetSlotSound ==
  ASSUME NEW ob \in Objects, SlotsSound(ob), NEW p \in Props, p.kind \notin Slotless,
         p.slot < Len(ob.slots), NEW v, Leaves(ob, p, v)
  PROVE  /\ SetSlot(ob, p.slot, v) \in Objects /\ SlotsSound(SetSlot(ob, p.slot, v))
         /\ SetSlot(ob, p.slot, v).props = ob.props
         /\ SetSlot(ob, p.slot, v).owns = ob.owns
         /\ SetSlot(ob, p.slot, v).freeslot = ob.freeslot
         /\ SetSlot(ob, p.slot, v).slots = [ob.slots EXCEPT ![p.slot + 1] = v]
         /\ Len(SetSlot(ob, p.slot, v).slots) = Len(ob.slots)
<1> DEFINE after == SetSlot(ob, p.slot, v)
<1>0. p.slot \in Nat /\ p.id \in PropIds /\ p.slot # SPROP_INVALID_SLOT
  BY DEF Props
<1>1. /\ p.slot + 1 \in 1..Len(ob.slots) /\ ob.freeslot \in Nat /\ Reserved \in Nat
      /\ Reserved <= ob.freeslot /\ ob.freeslot <= Len(ob.slots)
  BY <1>0, NativeObjectsAssumption DEF SlotsSound, Objects
<1>2. ob.slots \in Seq(Values) /\ v \in Values
  BY <1>0 DEF Objects, Values, Leaves
<1>3. /\ [ob.slots EXCEPT ![p.slot + 1] = v] \in Seq(Values)
      /\ Len([ob.slots EXCEPT ![p.slot + 1] = v]) = Len(ob.slots)
      /\ \A k \in 1..Len(ob.slots) :
            [ob.slots EXCEPT ![p.slot + 1] = v][k] = IF k = p.slot + 1 THEN v ELSE ob.slots[k]
  BY ONLY <1>1, <1>2, ExceptSeq
<1>4. /\ after.props = ob.props /\ after.owns = ob.owns /\ after.freeslot = ob.freeslot
      /\ after.slots = [ob.slots EXCEPT ![p.slot + 1] = v]
  BY DEF SetSlot, Objects
<1>5. after \in Objects
  BY <1>3 DEF SetSlot, Objects
<1> HIDE DEF after
<1>6. /\ Len(after.slots) = Len(ob.slots)
      /\ \A k \in 1..Len(ob.slots) : after.slots[k] = IF k = p.slot + 1 THEN v ELSE ob.slots[k]
  BY <1>3, <1>4
<1>a. v \notin Unclaimed => v = p.id /\ Slotted(ob, p.id) /\ ob.props[p.id].slot = p.slot
  <2>1. v \notin Unclaimed => v = p.id /\ ob.props[p.id] # NoProp /\ ob.props[p.id].slot = p.slot
    BY DEF Leaves
  <2>2. ob.props[p.id] # NoProp => ob.props[p.id] \in Props
    BY <1>0, OwnSlot
  <2> QED BY <1>0, <2>1, <2>2 DEF Slotted, Props
<1>7. ASSUME NEW id \in PropIds, Slotted(after, id)
      PROVE  /\ after.props[id].slot \in Reserved..after.freeslot - 1
             /\ after.slots[after.props[id].slot + 1] \in {id} \cup Unclaimed
  <2>1. /\ Slotted(ob, id) /\ ob.props[id].slot \in Reserved..ob.freeslot - 1
        /\ ob.slots[ob.props[id].slot + 1] \in {id} \cup Unclaimed
        /\ after.props[id].slot = ob.props[id].slot
    BY <1>4, <1>7 DEF SlotsSound, Slotted
  <2>2. ob.props[id].slot \in Int /\ ob.props[id].slot + 1 \in 1..Len(ob.slots)
    BY <1>1, <2>1
  <2>3. CASE ob.props[id].slot = p.slot
    <3>1. v \notin Unclaimed => id = v
      BY <1>0, <1>a, <2>1, <2>3 DEF SlotsSound
    <3>2. after.slots[ob.props[id].slot + 1] = v
      BY <1>1, <1>6, <2>3
    <3> QED BY <1>4, <2>1, <3>1, <3>2
  <2>4. CASE ob.props[id].slot # p.slot
    <3>1. ob.props[id].slot + 1 # p.slot + 1
      BY ONLY <1>0, <2>2, <2>4
    <3>2. after.slots[ob.props[id].slot + 1] = ob.slots[ob.props[id].slot + 1]
      BY <1>6, <2>2, <3>1
    <3> QED BY <1>4, <2>1, <3>2
  <2> QED BY <2>3, <2>4
<1>8. ASSUME NEW s \in ob.freeslot + 1..Len(ob.slots) PROVE after.slots[s] \in Unclaimed
  <2>1. s \in 1..Len(ob.slots) /\ ob.slots[s] \in Unclaimed
    BY <1>1 DEF SlotsSound
  <2>2. v \notin Unclaimed => s # p.slot + 1
    <3>1. v \notin Unclaimed => p.slot \in Reserved..ob.freeslot - 1
      BY <1>0, <1>a DEF SlotsSound
    <3> QED BY <1>0, <1>1, <3>1
  <2> QED BY <1>6, <2>1, <2>2
<1>9. SlotsSound(after)
  BY <1>4, <1>6, <1>7, <1>8 DEF SlotsSound, Slotted
<1> QED BY <1>4, <1>5, <1>6, <1>9 DEF after

LEMMA StoreForSound ==
  ASSUME NEW ob \in Objects, SlotsSound(ob), NEW p \in Props, p.kind \notin Slotless,
         p.slot < Len(ob.slots)
  PROVE  /\ StoreFor(ob, p) \in Objects /\ SlotsSound(StoreFor(ob, p))
         /\ StoreFor(ob, p).props = ob.props /\ StoreFor(ob, p).owns = ob.owns
<1>1. p.id \in PropIds
  BY DEF Props
<1>2. PICK v : StoreFor(ob, p) = SetSlot(ob, p.slot, v) /\ Leaves(ob, p, v)
  <2>1. CASE ob.props[p.id] # NoProp /\ ob.props[p.id].slot = p.slot
    <3>1. StoreFor(ob, p) = SetSlot(ob, p.slot, p.id)
      BY <2>1 DEF StoreFor
    <3>2. Leaves(ob, p, p.id)
      BY <2>1 DEF Leaves
    <3> QED BY <3>1, <3>2
  <2>2. CASE ~(ob.props[p.id] # NoProp /\ ob.props[p.id].slot = p.slot)
    <3>1. StoreFor(ob, p) = SetSlot(ob, p.slot, -p.id)
      BY <2>2 DEF StoreFor
    <3>2. Leaves(ob, p, -p.id)
      BY <1>1 DEF Leaves, Unclaimed, Astray
    <3> QED BY <3>1, <3>2
  <2> QED BY <2>1, <2>2
<1>3. Leaves(ob, p, v)
  BY <1>2
<1>4. /\ SetSlot(ob, p.slot, v) \in Objects /\ SlotsSound(SetSlot(ob, p.slot, v))
      /\ SetSlot(ob, p.slot, v).props = ob.props /\ SetSlot(ob, p.slot, v).owns = ob.owns
  BY ONLY <1>3, SetSlotSound, ob \in Objects, SlotsSound(ob), p \in Props, p.kind \notin Slotless,
          p.slot < Len(ob.slots)
<1> QED BY ONLY <1>2, <1>4

(* js_AllocSlot: the slot above all others, and void. *)
LEMMA AllocSlotSound ==
  ASSUME NEW ob \in Objects, SlotsSound(ob)
  PROVE  /\ AllocSlot(ob) \in Objects /\ SlotsSound([AllocSlot(ob) EXCEPT !.freeslot = ob.freeslot])
         /\ AllocSlot(ob).props = ob.props /\ AllocSlot(ob).owns = ob.owns
         /\ AllocSlot(ob).freeslot = ob.freeslot + 1
         /\ AllocSlot(ob).freeslot <= Len(AllocSlot(ob).slots)
<1> DEFINE more == IF ob.freeslot < Len(ob.slots) THEN 0 ELSE (ob.freeslot + 1) \div 2
           added == [i \in 1..more |-> Void]
           after == AllocSlot(ob)
           raised == [after EXCEPT !.freeslot = ob.freeslot]
<1>1. ob.freeslot \in Nat /\ ob.freeslot >= 1 /\ ob.freeslot <= Len(ob.slots) /\ ob.slots \in Seq(Values)
  BY NativeObjectsAssumption DEF SlotsSound, Objects
<1>2. more \in Nat /\ ob.freeslot + 1 <= Len(ob.slots) + more
  BY <1>1
<1> HIDE DEF more
<1>3. added \in Seq(Values) /\ Len(added) = more
  <2>1. Void \in Values
    BY DEF Values, Unclaimed
  <2> QED BY <1>2, <2>1
<1>4. /\ ob.slots \o added \in Seq(Values) /\ Len(ob.slots \o added) = Len(ob.slots) + more
      /\ \A k \in 1..Len(ob.slots) : (ob.slots \o added)[k] = ob.slots[k]
      /\ \A k \in Len(ob.slots) + 1..Len(ob.slots) + more : (ob.slots \o added)[k] = Void
  BY <1>1, <1>2, <1>3
<1> HIDE DEF added
<1>5. /\ after.props = ob.props /\ after.owns = ob.owns /\ after.freeslot = ob.freeslot + 1
      /\ after.slots = ob.slots \o added
  BY DEF AllocSlot, Objects, more, added
<1>6. after \in Objects
  <2> DEFINE longer == ob.slots \o added
  <2>1. after = [ob EXCEPT !.slots = longer, !.freeslot = ob.freeslot + 1]
    BY DEF AllocSlot, more, added
  <2>2. longer \in Seq(Values) /\ ob.freeslot + 1 \in Nat
    BY <1>1, <1>4
  <2> HIDE DEF after, longer
  <2> QED BY <2>1, <2>2 DEF Objects
<1>7. /\ raised.props = ob.props /\ raised.freeslot = ob.freeslot /\ raised.slots = ob.slots \o added
  BY <1>5, <1>6 DEF Objects
<1>8. ASSUME NEW id \in PropIds, Slotted(raised, id)
      PROVE  /\ raised.props[id].slot \in Reserved..raised.freeslot - 1
             /\ raised.slots[raised.props[id].slot + 1] \in {id} \cup Unclaimed
  <2>1. /\ Slotted(ob, id) /\ ob.props[id].slot \in Reserved..ob.freeslot - 1
        /\ ob.slots[ob.props[id].slot + 1] \in {id} \cup Unclaimed
    BY <1>7, <1>8 DEF SlotsSound, Slotted
  <2>2. Reserved \in Nat /\ Len(ob.slots) \in Nat
    BY <1>1, NativeObjectsAssumption
  <2>3. ob.props[id].slot + 1 \in 1..Len(ob.slots)
    BY ONLY <1>1, <2>1, <2>2
  <2> QED BY <1>4, <1>7, <2>1, <2>3
<1>9. \A s \in raised.freeslot + 1..Len(raised.slots) : raised.slots[s] \in Unclaimed
  <2>1. ASSUME NEW s \in ob.freeslot + 1..Len(ob.slots) + more PROVE (ob.slots \o added)[s] \in Unclaimed
    <3>1. CASE s <= Len(ob.slots)
      <4>1. s \in ob.freeslot + 1..Len(ob.slots) /\ s \in 1..Len(ob.slots)
        BY <1>1, <1>2, <3>1
      <4> QED BY <1>4, <4>1 DEF SlotsSound
    <3>2. CASE ~(s <= Len(ob.slots))
      <4>1. s \in Len(ob.slots) + 1..Len(ob.slots) + more
        BY <1>1, <1>2, <3>2
      <4> QED BY <1>4, <4>1 DEF Unclaimed
    <3> QED BY <3>1, <3>2
  <2> QED BY <1>4, <1>7, <2>1
<1>10. SlotsSound(raised)
  <2>1. Reserved <= raised.freeslot /\ raised.freeslot <= Len(raised.slots)
    BY <1>1, <1>2, <1>4, <1>7 DEF SlotsSound
  <2>2. /\ \A id \in PropIds : raised.props[id] # NoProp => raised.props[id].id = id
        /\ \A i, j \in PropIds :
             Slotted(raised, i) /\ Slotted(raised, j) /\ raised.props[i].slot = raised.props[j].slot
               => i = j
    BY <1>7 DEF SlotsSound, Slotted
  <2> QED BY <1>8, <1>9, <2>1, <2>2 DEF SlotsSound
<1> QED BY <1>2, <1>4, <1>5, <1>6, <1>10

(* A property that takes a slot of its own. *)
LEMMA TakesSlot ==
  ASSUME NEW ob \in Objects, NEW id \in PropIds, NEW p \in Props, p.id = id, p.kind \notin Slotless,
         SlotsSound(ob), p.slot \in Reserved..ob.freeslot - 1, ob.slots[p.slot + 1] \in {id} \cup Unclaimed,
         \A j \in PropIds : Slotted(ob, j) /\ j # id => ob.props[j].slot # p.slot
  PROVE  LET after == [ob EXCEPT !.props[id] = p] IN
         after \in Objects /\ SlotsSound(after) /\ after.props = [ob.props EXCEPT ![id] = p]
         /\ after.owns = ob.owns /\ after.freeslot = ob.freeslot
<1> DEFINE after == [ob EXCEPT !.props[id] = p]
<1>1. /\ after \in Objects /\ after.props = [ob.props EXCEPT ![id] = p] /\ after.owns = ob.owns
      /\ after.freeslot = ob.freeslot /\ after.slots = ob.slots
      /\ \A j \in PropIds : after.props[j] = IF j = id THEN p ELSE ob.props[j]
  BY DEF Objects
<1> HIDE DEF after
<1>2. \A j \in PropIds : Slotted(after, j) <=> (j = id \/ Slotted(ob, j))
  BY <1>1, PropsAreProps DEF Slotted
<1>3. /\ Reserved <= after.freeslot /\ after.freeslot <= Len(after.slots)
      /\ \A j \in PropIds : after.props[j] # NoProp => after.props[j].id = j
      /\ \A s \in after.freeslot + 1..Len(after.slots) : after.slots[s] \in Unclaimed
  BY <1>1 DEF SlotsSound
<1>4. \A j \in PropIds : Slotted(after, j) =>
          /\ after.props[j].slot \in Reserved..after.freeslot - 1
          /\ after.slots[after.props[j].slot + 1] \in {j} \cup Unclaimed
  BY <1>1, <1>2 DEF SlotsSound
<1>5. \A i, j \in PropIds :
          Slotted(after, i) /\ Slotted(after, j) /\ after.props[i].slot = after.props[j].slot => i = j
  BY <1>1, <1>2 DEF SlotsSound
<1>6. SlotsSound(after)
  BY <1>3, <1>4, <1>5 DEF SlotsSound
<1> QED BY <1>1, <1>6 DEF after

(* A property that goes, or has no slot. *)
LEMMA LosesSlot ==
  ASSUME NEW ob \in Objects, NEW id \in PropIds, NEW p \in Props \cup {NoProp},
         p # NoProp => p.id = id /\ p.kind \in Slotless, SlotsSound(ob)
  PROVE  LET after == [ob EXCEPT !.props[id] = p] IN
         after \in Objects /\ SlotsSound(after) /\ after.props = [ob.props EXCEPT ![id] = p]
         /\ after.owns = ob.owns /\ after.freeslot = ob.freeslot
<1> DEFINE after == [ob EXCEPT !.props[id] = p]
<1>1. /\ after \in Objects /\ after.props = [ob.props EXCEPT ![id] = p] /\ after.owns = ob.owns
      /\ after.freeslot = ob.freeslot /\ after.slots = ob.slots
      /\ \A j \in PropIds : after.props[j] = IF j = id THEN p ELSE ob.props[j]
  BY DEF Objects
<1> HIDE DEF after
<1>2. \A j \in PropIds : Slotted(after, j) <=> (j # id /\ Slotted(ob, j))
  BY <1>1, PropsAreProps DEF Slotted
<1>3. SlotsSound(after)
  BY <1>1, <1>2 DEF SlotsSound
<1> QED BY <1>1, <1>3 DEF after

LEMMA AddToScopeSound ==
  ASSUME NEW ob \in Objects, SlotsSound(ob), NEW id \in PropIds, NEW kind \in Kinds
  PROVE  LET after == AddToScope(ob, id, kind) IN
         /\ after \in Objects /\ SlotsSound(after) /\ after.owns = ob.owns
         /\ after.props[id] \in Props /\ after.props[id].id = id /\ after.props[id].kind = kind
         /\ \A j \in PropIds \ {id} : after.props[j] = ob.props[j]
<1> DEFINE after == AddToScope(ob, id, kind)
           old == ob.props[id]
<1> SUFFICES
         /\ after \in Objects /\ SlotsSound(after) /\ after.owns = ob.owns
         /\ after.props[id] \in Props /\ after.props[id].id = id /\ after.props[id].kind = kind
         /\ \A j \in PropIds \ {id} : after.props[j] = ob.props[j]
  OBVIOUS
<1>1. CASE kind \in Slotless
  <2>1. Sprop(id, kind, SPROP_INVALID_SLOT) \in Props /\ Sprop(id, kind, SPROP_INVALID_SLOT).id = id
        /\ Sprop(id, kind, SPROP_INVALID_SLOT).kind = kind
    BY <1>1, PropIsProp, 0 \in Nat
  <2>2. after = [ob EXCEPT !.props[id] = Sprop(id, kind, SPROP_INVALID_SLOT)]
    BY <1>1 DEF AddToScope
  <2>3. ob.props \in [PropIds -> Props \cup {NoProp}]
    BY DEF Objects
  <2> HIDE DEF after
  <2> QED BY <1>1, <2>1, <2>2, <2>3, LosesSlot
<1>2. CASE kind \notin Slotless /\ old # NoProp /\ HasValidSlot(ob, old)
  <2>1. old \in Props /\ old.id = id /\ old.kind \notin Slotless
    BY <1>2, OwnSlot
  <2>2. /\ old.slot \in Reserved..ob.freeslot - 1 /\ ob.slots[old.slot + 1] \in {id} \cup Unclaimed
        /\ old.slot \in Nat
        /\ \A j \in PropIds : Slotted(ob, j) /\ j # id => ob.props[j].slot # old.slot
    <3>1. Slotted(ob, id) /\ old.slot \in Nat
      BY <1>2, <2>1, OwnSlot DEF Slotted
    <3> QED BY <3>1 DEF SlotsSound
  <2> DEFINE p == Sprop(id, kind, old.slot)
  <2>3. p \in Props /\ p.id = id /\ p.kind = kind /\ p.slot = old.slot
    BY <1>2, <2>2, PropIsProp
  <2>4. after = [ob EXCEPT !.props[id] = p]
    BY <1>2 DEF AddToScope
  <2>5. ob.props \in [PropIds -> Props \cup {NoProp}]
    BY DEF Objects
  <2> HIDE DEF after, p, old
  <2>6. /\ after \in Objects /\ SlotsSound(after) /\ after.owns = ob.owns
        /\ after.freeslot = ob.freeslot /\ after.props = [ob.props EXCEPT ![id] = p]
    BY <1>2, <2>2, <2>3, <2>4, TakesSlot
  <2>7. \A j \in PropIds : after.props[j] = IF j = id THEN p ELSE ob.props[j]
    BY <2>5, <2>6
  <2> QED BY <2>3, <2>6, <2>7
<1>3. CASE kind \notin Slotless /\ ~(old # NoProp /\ HasValidSlot(ob, old))
  <2> DEFINE more == AllocSlot(ob)
             p == Sprop(id, kind, ob.freeslot)
  <2>1. /\ more \in Objects /\ SlotsSound([more EXCEPT !.freeslot = ob.freeslot])
        /\ more.props = ob.props /\ more.owns = ob.owns
        /\ more.freeslot = ob.freeslot + 1 /\ more.freeslot <= Len(more.slots)
    BY AllocSlotSound
  <2>2. ob.freeslot \in Nat /\ Reserved <= ob.freeslot /\ Reserved \in Nat /\ Len(more.slots) \in Nat
        /\ ob.props \in [PropIds -> Props \cup {NoProp}]
    BY <2>1, NativeObjectsAssumption DEF Objects, SlotsSound
  <2>3. p \in Props /\ p.id = id /\ p.kind = kind /\ p.slot = ob.freeslot
    BY <1>3, <2>2, PropIsProp
  <2>4. after = [more EXCEPT !.props[id] = p]
    BY <1>3 DEF AddToScope
  <2>5. ~Slotted(ob, id)
    BY <1>3, OwnSlot DEF Slotted
  <2> HIDE DEF after, more, p
  <2>6. \A j \in PropIds : Slotted(ob, j) => ob.props[j].slot \in Reserved..ob.freeslot - 1
    BY DEF SlotsSound
  <2>7. /\ \A s \in ob.freeslot + 1..Len(more.slots) : more.slots[s] \in Unclaimed
        /\ \A j \in PropIds : Slotted(ob, j) => more.slots[ob.props[j].slot + 1] \in {j} \cup Unclaimed
    <3> DEFINE m == [more EXCEPT !.freeslot = ob.freeslot]
    <3>1. m.freeslot = ob.freeslot /\ m.slots = more.slots /\ m.props = ob.props
      BY <2>1 DEF Objects
    <3>2. SlotsSound(m)
      BY <2>1
    <3> HIDE DEF m
    <3> QED BY <3>1, <3>2 DEF SlotsSound, Slotted
  <2>8. SlotsSound(more)
    <3>1. Reserved <= more.freeslot
      BY <2>1, <2>2
    <3>2. \A s \in more.freeslot + 1..Len(more.slots) : more.slots[s] \in Unclaimed
      BY <2>1, <2>2, <2>7
    <3>3. \A j \in PropIds : Slotted(more, j) =>
            /\ more.props[j].slot \in Reserved..more.freeslot - 1
            /\ more.slots[more.props[j].slot + 1] \in {j} \cup Unclaimed
      BY <2>1, <2>2, <2>6, <2>7 DEF Slotted
    <3>4. /\ \A j \in PropIds : more.props[j] # NoProp => more.props[j].id = j
          /\ \A i, j \in PropIds :
               Slotted(more, i) /\ Slotted(more, j) /\ more.props[i].slot = more.props[j].slot => i = j
      BY <2>1 DEF SlotsSound, Slotted
    <3> QED BY <2>1, <3>1, <3>2, <3>3, <3>4 DEF SlotsSound
  <2>9. /\ ob.freeslot \in Reserved..more.freeslot - 1 /\ more.slots[ob.freeslot + 1] \in Unclaimed
        /\ \A j \in PropIds : Slotted(more, j) /\ j # id => more.props[j].slot # ob.freeslot
    BY <2>1, <2>2, <2>6, <2>7 DEF Slotted
  <2>10. /\ after \in Objects /\ SlotsSound(after) /\ after.owns = more.owns
         /\ after.freeslot = more.freeslot /\ after.props = [more.props EXCEPT ![id] = p]
    BY <1>3, <2>1, <2>3, <2>4, <2>8, <2>9, TakesSlot
  <2>11. \A j \in PropIds : after.props[j] = IF j = id THEN p ELSE ob.props[j]
    BY <2>1, <2>2, <2>10
  <2> QED BY <2>1, <2>3, <2>10, <2>11
<1> QED BY <1>1, <1>2, <1>3

LEMMA Halves == \A a \in Nat, b \in Nat : a < b \div 2 => a \div 2 \in Nat /\ a + (a \div 2) <= b
OBVIOUS

(* js_FreeSlot, called for a property that goes. *)
LEMMA RemoveSound ==
  ASSUME NEW ob \in Objects, SlotsSound(ob), NEW id \in PropIds
  PROVE  LET after == RemoveScopeProperty(ob, id) IN
         /\ after \in Objects /\ SlotsSound(after) /\ after.owns = ob.owns
         /\ after.props = [ob.props EXCEPT ![id] = NoProp]
<1> DEFINE after == RemoveScopeProperty(ob, id)
           sprop == ob.props[id]
           gone == [ob EXCEPT !.props[id] = NoProp]
<1> SUFFICES
         /\ after \in Objects /\ SlotsSound(after) /\ after.owns = ob.owns
         /\ after.props = [ob.props EXCEPT ![id] = NoProp]
  OBVIOUS
<1>0. ob.props \in [PropIds -> Props \cup {NoProp}]
  BY DEF Objects
<1>1. /\ gone \in Objects /\ SlotsSound(gone) /\ gone.props = [ob.props EXCEPT ![id] = NoProp]
      /\ gone.owns = ob.owns /\ gone.freeslot = ob.freeslot
  BY LosesSlot
<1>2. CASE sprop = NoProp
  <2>1. after = ob /\ [ob.props EXCEPT ![id] = NoProp] = ob.props
    BY <1>0, <1>2 DEF RemoveScopeProperty
  <2> QED BY <2>1
<1>3. CASE sprop # NoProp /\ ~HasValidSlot(ob, sprop)
  <2>1. after = gone
    BY <1>3 DEF RemoveScopeProperty
  <2> HIDE DEF after, gone
  <2> QED BY <1>1, <2>1
<1>4. CASE sprop # NoProp /\ HasValidSlot(ob, sprop)
  <2>1. /\ sprop \in Props /\ sprop.id = id /\ sprop.kind \notin Slotless
        /\ sprop.slot \in Nat /\ sprop.slot \in Reserved..ob.freeslot - 1
        /\ sprop.slot < Len(ob.slots)
    BY <1>4, OwnSlot, ValidSlot
  <2> DEFINE slot == sprop.slot
             void == SetSlot(ob, slot, Void)
             free == IF ob.freeslot = slot + 1 THEN slot ELSE ob.freeslot
             shrinks == Len(ob.slots) > InitialSlots /\ free < Len(ob.slots) \div 2
             nslots == IF shrinks THEN Max({InitialSlots, free + free \div 2}) ELSE Len(ob.slots)
  <2>2. /\ void \in Objects /\ SlotsSound(void) /\ void.props = ob.props /\ void.owns = ob.owns
        /\ void.freeslot = ob.freeslot
    <3>1. PICK v : v = Void /\ Leaves(ob, sprop, v)
      BY DEF Leaves, Unclaimed
    <3>2. void = SetSlot(ob, sprop.slot, v)
      BY <3>1
    <3>3. Leaves(ob, sprop, v)
      BY <3>1
    <3> HIDE DEF void, sprop
    <3>4. LET x == SetSlot(ob, sprop.slot, v) IN
          x \in Objects /\ SlotsSound(x) /\ x.props = ob.props /\ x.owns = ob.owns /\ x.freeslot = ob.freeslot
      BY ONLY <2>1, <3>3, SetSlotSound, ob \in Objects, SlotsSound(ob)
    <3> QED BY ONLY <3>2, <3>4
  <2>3. /\ void.slots \in Seq(Values) /\ Len(void.slots) = Len(ob.slots)
        /\ ob.freeslot \in Nat /\ ob.freeslot <= Len(ob.slots) /\ Reserved <= ob.freeslot
        /\ slot \in Reserved..ob.freeslot - 1 /\ Reserved \in Nat /\ InitialSlots \in Nat
        /\ slot \in Nat /\ Len(ob.slots) \in Nat
        /\ void.slots[slot + 1] = Void
    <3>1. /\ ob.slots \in Seq(Values) /\ ob.freeslot \in Nat /\ Reserved \in Nat
          /\ ob.freeslot <= Len(ob.slots) /\ Reserved <= ob.freeslot /\ InitialSlots \in Nat
      BY NativeObjectsAssumption DEF SlotsSound, Objects
    <3>2. slot \in Reserved..ob.freeslot - 1
      BY <2>1
    <3>3. slot + 1 \in 1..Len(ob.slots)
      BY <3>1, <3>2
    <3>4. void.slots = [ob.slots EXCEPT ![slot + 1] = Void]
      BY DEF SetSlot, Objects
    <3> QED BY <2>2, <3>1, <3>2, <3>3, <3>4 DEF Objects
  <2>4. free \in Nat /\ Reserved <= free /\ free <= ob.freeslot
    BY <2>3
  <2>5. nslots \in Nat /\ free <= nslots /\ nslots <= Len(ob.slots)
    <3>1. CASE shrinks
      <4> DEFINE half == free \div 2
      <4>1. half \in Nat /\ free + half <= Len(ob.slots)
        BY <2>3, <2>4, <3>1, Halves
      <4> HIDE DEF half, free
      <4>2. Max({InitialSlots, free + half}) \in {InitialSlots, free + half}
            /\ free + half <= Max({InitialSlots, free + half})
        BY <2>3, <2>4, <4>1, MaxOfTwo
      <4>3. nslots = Max({InitialSlots, free + half})
        BY <3>1 DEF half
      <4>4. InitialSlots <= Len(ob.slots)
        BY <2>3, <3>1
      <4> HIDE DEF nslots
      <4>5. nslots \in {InitialSlots, free + half} /\ free + half <= nslots
        BY <4>2, <4>3
      <4> QED BY ONLY <2>3, <2>4, <4>1, <4>4, <4>5
    <3>2. CASE ~shrinks
      <4>1. nslots = Len(ob.slots)
        BY <3>2
      <4> HIDE DEF nslots, free
      <4> QED BY ONLY <2>3, <2>4, <4>1
    <3> QED BY <3>1, <3>2
  <2>6. after = [[void EXCEPT !.freeslot = free, !.slots = SubSeq(@, 1, nslots)] EXCEPT !.props[id] = NoProp]
    BY <1>4 DEF RemoveScopeProperty, FreeSlot
  <2>a. free # ob.freeslot => free = slot /\ ob.freeslot = slot + 1
    OBVIOUS
  <2> HIDE DEF free, nslots, void, after, slot
  <2>7. /\ SubSeq(void.slots, 1, nslots) \in Seq(Values)
        /\ Len(SubSeq(void.slots, 1, nslots)) = nslots
        /\ \A k \in 1..nslots : SubSeq(void.slots, 1, nslots)[k] = void.slots[k]
    BY <2>3, <2>5
  <2>8. /\ after \in Objects /\ after.freeslot = free /\ after.owns = ob.owns
        /\ after.slots = SubSeq(void.slots, 1, nslots)
        /\ after.props = [ob.props EXCEPT ![id] = NoProp]
    BY <2>2, <2>4, <2>6, <2>7 DEF Objects
  <2>9. \A j \in PropIds : after.props[j] = IF j = id THEN NoProp ELSE ob.props[j]
    BY <1>0, <2>8
  <2>10. ASSUME NEW j \in PropIds, Slotted(ob, j), j # id
         PROVE  ob.props[j].slot \in Reserved..free - 1
    <3>1. ob.props[j].slot \in Reserved..ob.freeslot - 1
      BY <2>10 DEF SlotsSound
    <3>2. Slotted(ob, id)
      BY <1>4, <2>1 DEF Slotted
    <3>3. ob.props[j].slot # slot
      BY <2>10, <3>2 DEF SlotsSound, slot
    <3> QED BY ONLY <2>3, <2>4, <2>a, <3>1, <3>3
  <2>11. ASSUME NEW j \in PropIds, Slotted(after, j)
         PROVE  /\ Slotted(ob, j) /\ j # id /\ after.props[j] = ob.props[j] /\ ob.props[j].slot \in Reserved..free - 1
                /\ after.slots[ob.props[j].slot + 1] \in {j} \cup Unclaimed
    <3>1. Slotted(ob, j) /\ j # id /\ after.props[j] = ob.props[j]
      BY <2>9, <2>11 DEF Slotted
    <3>3. ob.props[j].slot \in Reserved..free - 1
      BY <2>10, <3>1
    <3>4. void.slots[ob.props[j].slot + 1] \in {j} \cup Unclaimed
      BY <2>2, <3>1 DEF SlotsSound, Slotted
    <3>5. ob.props[j].slot + 1 \in 1..nslots
      BY <2>3, <2>4, <2>5, <3>3
    <3> QED BY <2>7, <2>8, <3>1, <3>3, <3>4, <3>5
  <2>12. ASSUME NEW s \in free + 1..nslots PROVE after.slots[s] \in Unclaimed
    <3>1. s \in 1..nslots /\ s \in 1..Len(ob.slots)
      BY <2>3, <2>4, <2>5
    <3>2. s = slot + 1 \/ s \in ob.freeslot + 1..Len(void.slots)
      BY <2>3, <2>4, <2>5, <2>a
    <3>3. void.slots[s] \in Unclaimed
      BY <2>2, <2>3, <3>2 DEF SlotsSound, Unclaimed
    <3> QED BY <2>7, <2>8, <3>1, <3>3
  <2>13. SlotsSound(after)
    <3>1. Reserved <= after.freeslot /\ after.freeslot <= Len(after.slots)
      BY <2>4, <2>5, <2>7, <2>8
    <3>2. \A j \in PropIds : after.props[j] # NoProp => after.props[j].id = j
      BY <2>9 DEF SlotsSound
    <3>3. \A i, j \in PropIds :
            Slotted(after, i) /\ Slotted(after, j) /\ after.props[i].slot = after.props[j].slot => i = j
      BY <2>11 DEF SlotsSound
    <3> QED BY <2>7, <2>8, <2>11, <2>12, <3>1, <3>2, <3>3 DEF SlotsSound
  <2> QED BY <2>8, <2>13
<1> QED BY <1>2, <1>3, <1>4

LEMMA ChangeKindSound ==
  ASSUME NEW ob \in Objects, SlotsSound(ob), NEW id \in PropIds, NEW kind \in Kinds,
         ob.props[id] # NoProp, ob.props[id].kind \in Slotless <=> kind \in Slotless
  PROVE  LET after == ChangeKind(ob, id, kind) IN
         /\ after \in Objects /\ SlotsSound(after) /\ after.owns = ob.owns
         /\ after.props[id] \in Props /\ after.props[id].id = id /\ after.props[id].kind = kind
         /\ \A j \in PropIds \ {id} : after.props[j] = ob.props[j]
<1> DEFINE after == ChangeKind(ob, id, kind)
           p == [ob.props[id] EXCEPT !.kind = kind]
<1>1. ob.props[id] \in Props /\ ob.props[id].id = id
  BY OwnSlot
<1>2. p \in Props /\ p.id = id /\ p.kind = kind /\ p.slot = ob.props[id].slot
  BY <1>1 DEF Props
<1>3. /\ after \in Objects /\ after.owns = ob.owns /\ after.freeslot = ob.freeslot
      /\ after.slots = ob.slots
      /\ \A j \in PropIds : after.props[j] = IF j = id THEN p ELSE ob.props[j]
  <2>1. after = [ob EXCEPT !.props = [ob.props EXCEPT ![id] = p]]
    BY DEF ChangeKind, Objects
  <2> HIDE DEF after, p
  <2> QED BY <1>2, <2>1 DEF Objects
<1> HIDE DEF after, p
<1>4. \A j \in PropIds : /\ Slotted(after, j) <=> Slotted(ob, j)
                         /\ Slotted(ob, j) => after.props[j].slot = ob.props[j].slot
  BY <1>2, <1>3, PropsAreProps DEF Slotted
<1>5. SlotsSound(after)
  BY <1>2, <1>3, <1>4 DEF SlotsSound
<1> QED BY <1>2, <1>3, <1>5 DEF after

LEMMA VoidSlots ==
  ASSUME NEW ob, NEW n \in Nat, Reserved <= n,
         ob.owns \in BOOLEAN, ob.props = NoProps, ob.freeslot = Reserved,
         ob.slots = [i \in 1..n |-> Void], DOMAIN ob = {"owns", "props", "freeslot", "slots"},
         ob = [owns |-> ob.owns, props |-> ob.props, freeslot |-> ob.freeslot, slots |-> ob.slots]
  PROVE  ob \in Objects /\ SlotsSound(ob)
<1>1. ob.slots \in Seq(Values) /\ Len(ob.slots) = n /\ Reserved \in Nat
  <2>1. \A i \in 1..n : Void \in Values
    BY DEF Values, Unclaimed
  <2>2. [i \in 1..n |-> Void] \in Seq(Values) /\ Len([i \in 1..n |-> Void]) = n
    BY ONLY <2>1, n \in Nat
  <2> QED BY <2>2, NativeObjectsAssumption
<1>2. ob.props \in [PropIds -> Props \cup {NoProp}] /\ \A id \in PropIds : ob.props[id] = NoProp
  BY DEF NoProps
<1>3. ob \in Objects
  BY <1>1, <1>2 DEF Objects
<1>4. \A s \in ob.freeslot + 1..Len(ob.slots) : ob.slots[s] \in Unclaimed
  BY <1>1 DEF Unclaimed
<1> QED BY <1>1, <1>2, <1>3, <1>4 DEF SlotsSound, Slotted

LEMMA FreshSound ==
  ASSUME NEW o \in JSObjects
  PROVE  FreshObject(o) \in Objects /\ SlotsSound(FreshObject(o))
<1> DEFINE ob == FreshObject(o)
<1>1. /\ ob = [owns |-> ob.owns, props |-> ob.props, freeslot |-> ob.freeslot, slots |-> ob.slots]
      /\ DOMAIN ob = {"owns", "props", "freeslot", "slots"}
      /\ ob.owns \in BOOLEAN /\ ob.props = NoProps /\ ob.freeslot = Reserved
      /\ ob.slots = [i \in 1..InitialSlots |-> Void]
  BY DEF FreshObject
<1> HIDE DEF ob
<1>2. InitialSlots \in Nat /\ Reserved <= InitialSlots
  BY NativeObjectsAssumption
<1>3. ob \in Objects /\ SlotsSound(ob)
  BY ONLY <1>1, <1>2, VoidSlots
<1> QED BY <1>3 DEF ob

----------------------------------------------------------------------------
(* The stack of waiting calls, and what hangs on it. *)

LEMMA Pushed ==
  ASSUME NEW hs \in Seq(Calls), NEW f \in Calls
  PROVE  /\ Append(hs, f) \in Seq(Calls)
         /\ DOMAIN hs = 1..Len(hs) /\ Len(hs) \in Nat
         /\ DOMAIN Append(hs, f) = 1..Len(hs) + 1
         /\ \A i \in 1..Len(hs) : Append(hs, f)[i] = hs[i]
         /\ Append(hs, f)[Len(hs) + 1] = f
OBVIOUS

LEMMA Popped ==
  ASSUME NEW hs \in Seq(Calls), hs # <<>>
  PROVE  /\ Front(hs) \in Seq(Calls)
         /\ DOMAIN hs = 1..Len(hs) /\ Len(hs) \in Nat \ {0}
         /\ DOMAIN Front(hs) = 1..Len(hs) - 1
         /\ \A i \in 1..Len(hs) - 1 : Front(hs)[i] = hs[i]
         /\ Last(hs) = hs[Len(hs)] /\ Last(hs) \in Calls
<1>1. Len(hs) \in Nat \ {0}
  OBVIOUS
<1>2. Len(hs) - 1 \in Nat /\ Len(hs) - 1 <= Len(hs)
  BY <1>1
<1> QED BY <1>1, <1>2 DEF Front, Last

LEMMA ResolvingPush ==
  ASSUME NEW hs \in Seq(Calls), NEW f \in Calls, NEW r, ResolvingSound(r, hs),
         f.phase \notin {"resolve", "watch"}
  PROVE  ResolvingSound(r, Append(hs, f))
<1> DEFINE under == {i \in DOMAIN hs : hs[i].phase \in {"resolve", "watch"}}
           hs2 == Append(hs, f)
<1>1. /\ DOMAIN hs = 1..Len(hs) /\ DOMAIN hs2 = 1..Len(hs) + 1 /\ Len(hs) \in Nat
      /\ hs2[Len(hs) + 1] = f /\ \A i \in 1..Len(hs) : hs2[i] = hs[i]
  BY Pushed
<1> HIDE DEF hs2
<1>2. {i \in DOMAIN hs2 : hs2[i].phase \in {"resolve", "watch"}} = under /\ \A i \in under : hs2[i] = hs[i]
  BY <1>1
<1>3. ResolvingSound(r, hs2)
  BY <1>2 DEF ResolvingSound
<1> QED BY <1>3 DEF hs2

LEMMA ResolvingPushKey ==
  ASSUME NEW hs \in Seq(Calls), NEW f \in Calls, NEW r, ResolvingSound(r, hs),
         f.phase \in {"resolve", "watch"}, Key(f) \notin r
  PROVE  ResolvingSound(r \cup {Key(f)}, Append(hs, f))
<1> DEFINE under == {i \in DOMAIN hs : hs[i].phase \in {"resolve", "watch"}}
           hs2 == Append(hs, f)
           top == Len(hs) + 1
<1>1. /\ DOMAIN hs = 1..Len(hs) /\ DOMAIN hs2 = 1..top /\ Len(hs) \in Nat
      /\ hs2[top] = f /\ \A i \in 1..Len(hs) : hs2[i] = hs[i]
  BY Pushed
<1> HIDE DEF hs2
<1>2. {i \in DOMAIN hs2 : hs2[i].phase \in {"resolve", "watch"}} = under \cup {top}
      /\ \A i \in under : hs2[i] = hs[i]
  BY <1>1
<1>3. r = {Key(hs[i]) : i \in under} /\ \A i, j \in under : Key(hs[i]) = Key(hs[j]) => i = j
  BY DEF ResolvingSound
<1>4. \A i \in under : Key(hs2[i]) \in r /\ Key(hs2[i]) = Key(hs[i])
  BY <1>2, <1>3
<1> HIDE DEF under
<1>5. {Key(hs2[i]) : i \in under \cup {top}} = r \cup {Key(f)}
  BY <1>1, <1>3, <1>4
<1>6. ASSUME NEW i \in under \cup {top}, NEW j \in under \cup {top}, Key(hs2[i]) = Key(hs2[j])
      PROVE  i = j
  BY <1>1, <1>3, <1>4, <1>6
<1>7. ResolvingSound(r \cup {Key(f)}, hs2)
  BY <1>2, <1>5, <1>6 DEF ResolvingSound
<1> QED BY <1>7 DEF hs2

LEMMA ResolvingPop ==
  ASSUME NEW hs \in Seq(Calls), hs # <<>>, NEW r, ResolvingSound(r, hs)
  PROVE  /\ Last(hs).phase \notin {"resolve", "watch"} => ResolvingSound(r, Front(hs))
         /\ Last(hs).phase \in {"resolve", "watch"} => ResolvingSound(r \ {Key(Last(hs))}, Front(hs))
<1> DEFINE under == {i \in DOMAIN hs : hs[i].phase \in {"resolve", "watch"}}
           hs2 == Front(hs)
           below == {i \in DOMAIN hs2 : hs2[i].phase \in {"resolve", "watch"}}
           top == Len(hs)
<1>1. /\ DOMAIN hs = 1..top /\ DOMAIN hs2 = 1..top - 1 /\ top \in Nat \ {0}
      /\ Last(hs) = hs[top] /\ \A i \in 1..top - 1 : hs2[i] = hs[i]
  BY Popped
<1> HIDE DEF hs2, top
<1>2. below = under \ {top} /\ \A i \in below : hs2[i] = hs[i]
  BY <1>1
<1>3. r = {Key(hs[i]) : i \in under} /\ \A i, j \in under : Key(hs[i]) = Key(hs[j]) => i = j
  BY DEF ResolvingSound
<1>4. top \in under <=> Last(hs).phase \in {"resolve", "watch"}
  BY <1>1
<1> HIDE DEF under
<1>5. \A i, j \in below : Key(hs2[i]) = Key(hs2[j]) => i = j
  BY <1>2, <1>3
<1>6. CASE top \notin under
  <2>1. {Key(hs2[i]) : i \in below} = r
    BY <1>2, <1>3, <1>6
  <2>2. ResolvingSound(r, hs2)
    BY <1>5, <2>1 DEF ResolvingSound
  <2> QED BY <1>4, <1>6, <2>2 DEF hs2
<1>7. CASE top \in under
  <2>1. \A i \in below : Key(hs2[i]) # Key(hs[top]) /\ Key(hs2[i]) = Key(hs[i])
    BY <1>2, <1>3, <1>7
  <2>2. {Key(hs2[i]) : i \in below} = r \ {Key(hs[top])}
    BY <1>2, <1>3, <1>7, <2>1
  <2>3. ResolvingSound(r \ {Key(Last(hs))}, hs2)
    BY <1>1, <1>5, <2>2 DEF ResolvingSound
  <2> QED BY <1>4, <1>7, <2>3 DEF hs2
<1> QED BY <1>6, <1>7

LEMMA RedefinedMore ==
  ASSUME NEW hs \in Seq(Calls), NEW f \in Calls, NEW o, NEW id, Redefined(hs, o, id)
  PROVE  Redefined(Append(hs, f), o, id)
<1>1. PICK i \in DOMAIN hs : hs[i].phase = "add" /\ hs[i].obj = o /\ hs[i].id = id
  BY DEF Redefined
<1>2. i \in DOMAIN Append(hs, f) /\ Append(hs, f)[i] = hs[i]
  BY Pushed
<1> QED BY <1>1, <1>2 DEF Redefined

LEMMA RedefinedLess ==
  ASSUME NEW hs \in Seq(Calls), hs # <<>>, NEW o, NEW id, Redefined(hs, o, id)
  PROVE  Redefined(Front(hs), o, id) \/ (Last(hs).phase = "add" /\ Last(hs).obj = o /\ Last(hs).id = id)
<1>1. PICK i \in DOMAIN hs : hs[i].phase = "add" /\ hs[i].obj = o /\ hs[i].id = id
  BY DEF Redefined
<1>2. CASE i = Len(hs)
  BY <1>1, <1>2, Popped
<1>3. CASE i # Len(hs)
  <2>1. i \in DOMAIN Front(hs) /\ Front(hs)[i] = hs[i]
    BY <1>3, Popped
  <2> QED BY <1>1, <2>1 DEF Redefined
<1> QED BY <1>2, <1>3

LEMMA CachePush ==
  ASSUME NEW hs \in Seq(Calls), NEW f \in Calls, f.phase # "gc", NEW c, NEW os, CacheSound(c, os, hs)
  PROVE  CacheSound(c, os, Append(hs, f))
<1> DEFINE hs2 == Append(hs, f)
<1>1. /\ DOMAIN hs = 1..Len(hs) /\ DOMAIN hs2 = 1..Len(hs) + 1 /\ Len(hs) \in Nat
      /\ hs2[Len(hs) + 1] = f /\ \A i \in 1..Len(hs) : hs2[i] = hs[i]
  BY Pushed
<1>2. \A h, e : EntrySound(os, hs, h, e) => EntrySound(os, hs2, h, e)
  BY RedefinedMore DEF EntrySound
<1> HIDE DEF hs2
<1>3. \A i \in DOMAIN hs2 : hs2[i].phase = "gc" => i \in DOMAIN hs /\ hs[i] = hs2[i]
  BY <1>1
<1>4. \A i \in DOMAIN hs : i \in DOMAIN hs2 /\ hs[i] = hs2[i]
  BY <1>1
<1>5. CacheSound(c, os, hs2)
  BY <1>2, <1>3, <1>4 DEF CacheSound
<1> QED BY <1>5 DEF hs2

LEMMA CachePop ==
  ASSUME NEW hs \in Seq(Calls), hs # <<>>, Last(hs).phase # "gc", NEW c, NEW os, CacheSound(c, os, hs),
         Last(hs).phase = "add" =>
            \A h \in Places : LET e == c.table[h] IN
               e # NoEntry /\ e.obj = Last(hs).obj /\ e.prop.id = Last(hs).id
                 => e.stray \/ os[e.obj].props[e.prop.id] = e.prop
  PROVE  CacheSound(c, os, Front(hs))
<1> DEFINE hs2 == Front(hs)
<1>1. /\ DOMAIN hs = 1..Len(hs) /\ DOMAIN hs2 = 1..Len(hs) - 1 /\ Len(hs) \in Nat \ {0}
      /\ Last(hs) = hs[Len(hs)] /\ \A i \in 1..Len(hs) - 1 : hs2[i] = hs[i]
  BY Popped
<1>2. ASSUME NEW h \in Places, c.table[h] # NoEntry
      PROVE  EntrySound(os, hs2, h, c.table[h])
  <2>1. EntrySound(os, hs, h, c.table[h])
    BY <1>2 DEF CacheSound
  <2> DEFINE e == c.table[h]
  <2>2. e.stray \/ os[e.obj].props[e.prop.id] = e.prop \/ Redefined(hs2, e.obj, e.prop.id)
    BY <1>2, <2>1, RedefinedLess DEF EntrySound
  <2> QED BY <2>1, <2>2 DEF EntrySound
<1> HIDE DEF hs2
<1>3. \A i \in DOMAIN hs : hs[i].phase = "gc" => i \in DOMAIN hs2 /\ hs2[i] = hs[i]
  BY <1>1
<1>4. \A i \in DOMAIN hs2 : i \in DOMAIN hs /\ hs[i] = hs2[i]
  BY <1>1
<1>5. CacheSound(c, os, hs2)
  BY <1>2, <1>3, <1>4 DEF CacheSound
<1> QED BY <1>5 DEF hs2

LEMMA WaitsPush ==
  ASSUME NEW hs \in Seq(Calls), NEW f \in Calls, Waits(f), \A i \in DOMAIN hs : Waits(hs[i])
  PROVE  \A i \in DOMAIN Append(hs, f) : Waits(Append(hs, f)[i])
<1>1. \A i \in DOMAIN Append(hs, f) : (i \in DOMAIN hs /\ Append(hs, f)[i] = hs[i]) \/ Append(hs, f)[i] = f
  BY Pushed
<1> QED BY <1>1

LEMMA WaitsPop ==
  ASSUME NEW hs \in Seq(Calls), hs # <<>>, \A i \in DOMAIN hs : Waits(hs[i])
  PROVE  Waits(Last(hs)) /\ \A i \in DOMAIN Front(hs) : Waits(Front(hs)[i])
<1>1. \A i \in DOMAIN Front(hs) : i \in DOMAIN hs /\ Front(hs)[i] = hs[i]
  BY Popped
<1>2. Len(hs) \in DOMAIN hs /\ Last(hs) = hs[Len(hs)]
  BY Popped
<1> QED BY <1>1, <1>2

(* What the cache tells of an object. *)
LEMMA CacheTells ==
  ASSUME NEW st, Sound(st), NEW o \in JSObjects, NEW id \in PropIds
  PROVE  LET hit == TestCache(st.cache, o, id) IN
         /\ hit # NoProp => hit \in Props /\ hit.id = id /\ ~st.cache.disabled
         /\ hit = NoProp =>
              \A h \in Places : st.cache.table[h] # NoEntry =>
                 st.cache.table[h].obj # o \/ st.cache.table[h].prop.id # id
<1> DEFINE hit == TestCache(st.cache, o, id)
           h == CacheHash[<<o, id>>]
           e == st.cache.table[h]
<1>1. h \in Places
  BY NativeObjectsAssumption DEF Places
<1>2. ASSUME e.obj = o PROVE e # NoEntry
  BY <1>2, NativeObjectsAssumption DEF NoEntry
<1>3. ASSUME hit # NoProp
      PROVE  hit \in Props /\ hit.id = id /\ ~st.cache.disabled
  <2>1. hit = e.prop /\ e.obj = o /\ e.prop.id = id
    BY <1>3 DEF TestCache
  <2>2. EntrySound(st.objs, st.hooks, h, e) /\ ~st.cache.disabled
    BY <1>1, <1>2, <2>1 DEF Sound, CacheSound
  <2> QED BY <2>1, <2>2 DEF EntrySound
<1>4. ASSUME hit = NoProp, NEW g \in Places, st.cache.table[g] # NoEntry,
             st.cache.table[g].obj = o, st.cache.table[g].prop.id = id
      PROVE  FALSE
  <2>1. EntrySound(st.objs, st.hooks, g, st.cache.table[g])
    BY <1>4 DEF Sound, CacheSound
  <2>2. g = h /\ e.prop \in Props
    BY <1>4, <2>1 DEF EntrySound
  <2> QED BY <1>4, <2>2, PropsAreProps DEF TestCache
<1> QED BY <1>3, <1>4

----------------------------------------------------------------------------
(* States, and the steps calls are made of. *)

StateOf(os, c, r, hs) == [objs |-> os, cache |-> c, resolving |-> r, hooks |-> hs]

LEMMA Shape == \A st \in States : st = StateOf(st.objs, st.cache, st.resolving, st.hooks)
BY DEF States, StateOf

LEMMA SoundOf ==
  ASSUME NEW os, NEW c, NEW r, NEW hs
  PROVE  Sound(StateOf(os, c, r, hs)) <=>
           /\ os \in [JSObjects -> Objects] /\ c \in Caches /\ r \in SUBSET Keys /\ hs \in Seq(Calls)
           /\ \A o \in JSObjects : SlotsSound(os[o])
           /\ \A i \in DOMAIN hs : Waits(hs[i])
           /\ CacheSound(c, os, hs)
           /\ ResolvingSound(r, hs)
<1>1. /\ StateOf(os, c, r, hs).objs = os /\ StateOf(os, c, r, hs).cache = c
      /\ StateOf(os, c, r, hs).resolving = r /\ StateOf(os, c, r, hs).hooks = hs
  BY DEF StateOf
<1>2. StateOf(os, c, r, hs) \in States <=>
        (os \in [JSObjects -> Objects] /\ c \in Caches /\ r \in SUBSET Keys /\ hs \in Seq(Calls))
  BY DEF StateOf, States
<1> HIDE DEF StateOf
<1> QED BY <1>1, <1>2 DEF Sound

(* Something about o changes, in the object or in what the cache says. *)
LEMMA ObjectStep ==
  ASSUME NEW st, Sound(st), NEW o \in JSObjects, NEW ob \in Objects, SlotsSound(ob),
         NEW c \in Caches, c.disabled = st.cache.disabled,
         \A h \in Places : c.table[h] # NoEntry =>
            /\ ~c.empty /\ ~c.disabled
            /\ IF c.table[h].obj = o
               THEN EntrySound([st.objs EXCEPT ![o] = ob], st.hooks, h, c.table[h])
               ELSE c.table[h] = st.cache.table[h]
  PROVE  Sound(StateOf([st.objs EXCEPT ![o] = ob], c, st.resolving, st.hooks))
<1> DEFINE os == [st.objs EXCEPT ![o] = ob]
<1>1. /\ st.objs \in [JSObjects -> Objects] /\ st.resolving \in SUBSET Keys /\ st.hooks \in Seq(Calls)
      /\ \A u \in JSObjects : SlotsSound(st.objs[u])
      /\ \A i \in DOMAIN st.hooks : Waits(st.hooks[i])
      /\ CacheSound(st.cache, st.objs, st.hooks) /\ ResolvingSound(st.resolving, st.hooks)
  BY DEF Sound, States
<1>2. os \in [JSObjects -> Objects] /\ \A u \in JSObjects : os[u] = IF u = o THEN ob ELSE st.objs[u]
  BY <1>1
<1> HIDE DEF os
<1>3. \A u \in JSObjects : SlotsSound(os[u])
  BY <1>1, <1>2
<1>4. ASSUME NEW h \in Places, c.table[h] # NoEntry
      PROVE  ~c.empty /\ ~c.disabled /\ EntrySound(os, st.hooks, h, c.table[h])
  <2>1. CASE c.table[h].obj = o
    BY <1>4, <2>1 DEF os
  <2>2. CASE c.table[h].obj # o
    <3>1. c.table[h] = st.cache.table[h]
      BY <1>4, <2>2
    <3>2. EntrySound(st.objs, st.hooks, h, c.table[h])
      BY <1>1, <1>4, <3>1 DEF CacheSound
    <3>3. c.table[h].obj \in JSObjects /\ os[c.table[h].obj] = st.objs[c.table[h].obj]
      BY <1>2, <2>2, <3>2 DEF EntrySound
    <3>4. EntrySound(os, st.hooks, h, c.table[h])
      BY <3>2, <3>3 DEF EntrySound
    <3> QED BY <1>4, <3>4
  <2> QED BY <2>1, <2>2
<1>5. CacheSound(c, os, st.hooks)
  BY <1>1, <1>4 DEF CacheSound
<1>6. Sound(StateOf(os, c, st.resolving, st.hooks))
  BY <1>1, <1>2, <1>3, <1>5, SoundOf
<1> QED BY <1>6 DEF os

(* The object alone changes, and the cache's entries stay true of it. *)
LEMMA ObjectAlone ==
  ASSUME NEW st, Sound(st), NEW o \in JSObjects, NEW ob \in Objects, SlotsSound(ob),
         NEW id \in PropIds,
         st.objs[o].owns => ob.owns,
         \A j \in PropIds \ {id} : ob.props[j] = st.objs[o].props[j],
         \/ ob.props[id] = st.objs[o].props[id]
         \/ Redefined(st.hooks, o, id)
         \/ TestCache(st.cache, o, id) = NoProp
  PROVE  Sound(StateOf([st.objs EXCEPT ![o] = ob], st.cache, st.resolving, st.hooks))
<1> DEFINE os == [st.objs EXCEPT ![o] = ob]
<1>1. /\ st.cache \in Caches /\ st.objs \in [JSObjects -> Objects]
      /\ CacheSound(st.cache, st.objs, st.hooks)
  BY DEF Sound, States
<1>2. os[o] = ob
  BY <1>1
<1>3. ASSUME NEW h \in Places, st.cache.table[h] # NoEntry, st.cache.table[h].obj = o
      PROVE  EntrySound(os, st.hooks, h, st.cache.table[h])
  <2> DEFINE e == st.cache.table[h]
  <2>1. EntrySound(st.objs, st.hooks, h, e)
    BY <1>1, <1>3 DEF CacheSound
  <2>2. e.prop \in Props /\ e.prop.id \in PropIds
    BY <1>3, <2>1 DEF EntrySound, Props
  <2>3. e.prop.id = id => TestCache(st.cache, o, id) # NoProp
    BY <1>3, CacheTells
  <2> HIDE DEF os
  <2>4. \/ ob.props[e.prop.id] = st.objs[o].props[e.prop.id]
        \/ Redefined(st.hooks, o, e.prop.id)
    BY <2>2, <2>3
  <2> QED BY <1>2, <1>3, <2>1, <2>4 DEF EntrySound
<1>4. \A h \in Places : st.cache.table[h] # NoEntry => ~st.cache.empty /\ ~st.cache.disabled
  BY <1>1 DEF CacheSound
<1> QED BY <1>1, <1>3, <1>4, ObjectStep

(* A slot of o is set, and nothing else. *)
SlotOf(st, o, ob) == [st EXCEPT !.objs[o] = ob]

LEMMA SlotOfSound ==
  ASSUME NEW st, Sound(st), NEW o \in JSObjects, NEW ob \in Objects, SlotsSound(ob),
         ob.props = st.objs[o].props, ob.owns = st.objs[o].owns
  PROVE  /\ Sound(SlotOf(st, o, ob)) /\ SlotOf(st, o, ob).objs[o] = ob
         /\ SlotOf(st, o, ob).hooks = st.hooks
<1> DEFINE after == SlotOf(st, o, ob)
<1>1. st \in States /\ st.objs \in [JSObjects -> Objects]
  BY DEF Sound, States
<1>2. after = StateOf([st.objs EXCEPT ![o] = ob], st.cache, st.resolving, st.hooks)
  <2>1. after = [st EXCEPT !.objs = [st.objs EXCEPT ![o] = ob]]
    BY DEF SlotOf
  <2> HIDE DEF after
  <2> QED BY <1>1, <2>1 DEF States, StateOf
<1> HIDE DEF after
<1>3. PICK id : id \in PropIds
  BY NativeObjectsAssumption
<1>4. /\ st.objs[o].owns => ob.owns
      /\ \A j \in PropIds \ {id} : ob.props[j] = st.objs[o].props[j]
      /\ ob.props[id] = st.objs[o].props[id]
  OBVIOUS
<1>5. Sound(after)
  BY <1>2, <1>3, <1>4, ObjectAlone
<1>6. after.objs[o] = ob /\ after.hooks = st.hooks
  BY <1>1, <1>2 DEF StateOf
<1> QED BY <1>5, <1>6 DEF after

(* The cache is told of sprop, and o may have changed in that property. *)
LEMMA FilledSound ==
  ASSUME NEW st, Sound(st), NEW o \in JSObjects, NEW ob \in Objects, SlotsSound(ob),
         NEW id \in PropIds, st.objs[o].owns => ob.owns,
         \A j \in PropIds \ {id} : ob.props[j] = st.objs[o].props[j],
         NEW sprop \in Props \cup {NoProp}, sprop # NoProp => sprop.id = id,
         NEW stray \in BOOLEAN, sprop # NoProp => stray \/ (ob.owns /\ ob.props[id] = sprop)
  PROVE  LET c == FillCache(st.cache, o, id, sprop, stray) IN
         /\ Sound(StateOf([st.objs EXCEPT ![o] = ob], c, st.resolving, st.hooks))
         /\ \A h \in Places : LET e == c.table[h] IN
              e # NoEntry /\ e.obj = o /\ e.prop.id = id => e.stray \/ ob.props[id] = e.prop
<1> DEFINE c == FillCache(st.cache, o, id, sprop, stray)
           place == CacheHash[<<o, id>>]
           filled == [obj |-> o, prop |-> sprop, stray |-> stray]
           new == IF sprop = NoProp THEN NoEntry ELSE filled
           os == [st.objs EXCEPT ![o] = ob]
<1>1. /\ st.objs \in [JSObjects -> Objects] /\ st.cache \in Caches
      /\ CacheSound(st.cache, st.objs, st.hooks)
  BY DEF Sound, States
<1>2. os[o] = ob
  BY <1>1
<1>3. place \in Places
  BY NativeObjectsAssumption DEF Places
<1>4. filled.obj = o /\ filled.prop = sprop /\ filled.stray = stray /\ filled \in Entries /\ NoEntry \in Entries
  BY DEF Entries, NoEntry
<1> HIDE DEF filled
<1>5. /\ c \in Caches /\ c.disabled = st.cache.disabled
      /\ st.cache.disabled => c = st.cache
      /\ ~st.cache.disabled => ~c.empty /\ ~c.disabled
                               /\ \A h \in Places : c.table[h] = IF h = place THEN new ELSE st.cache.table[h]
  <2>1. CASE st.cache.disabled
    BY <1>1, <2>1 DEF FillCache
  <2>2. CASE ~st.cache.disabled
    <3>1. c = [st.cache EXCEPT !.table = [st.cache.table EXCEPT ![place] = new], !.empty = FALSE]
      BY <2>2 DEF FillCache, filled
    <3>2. new \in Entries
      BY <1>4
    <3> HIDE DEF c, new, place
    <3> QED BY <1>1, <1>3, <2>2, <3>1, <3>2 DEF Caches
  <2> QED BY <2>1, <2>2
<1> HIDE DEF c, os
<1>6. ASSUME NEW h \in Places, c.table[h] # NoEntry
      PROVE  /\ ~c.empty /\ ~c.disabled
             /\ c.table[h].obj = o => /\ EntrySound(os, st.hooks, h, c.table[h])
                                      /\ c.table[h].prop.id = id =>
                                           c.table[h].stray \/ ob.props[id] = c.table[h].prop
             /\ c.table[h].obj # o => c.table[h] = st.cache.table[h]
  <2>1. ~st.cache.disabled
    BY <1>1, <1>5, <1>6 DEF CacheSound
  <2>2. CASE h = place
    <3>1. c.table[h] = filled /\ sprop # NoProp
      BY <1>5, <1>6, <2>1, <2>2
    <3>2. c.table[h].obj = o /\ c.table[h].prop = sprop /\ c.table[h].stray = stray
      BY <1>4, <3>1
    <3>3. stray \/ (ob.owns /\ ob.props[id] = sprop)
      BY <3>1
    <3>4. EntrySound(os, st.hooks, h, c.table[h])
      BY <1>2, <2>2, <3>1, <3>2, <3>3 DEF EntrySound
    <3> QED BY <1>5, <2>1, <3>2, <3>3, <3>4
  <2>3. CASE h # place
    <3>1. c.table[h] = st.cache.table[h]
      BY <1>5, <2>1, <2>3
    <3>2. EntrySound(st.objs, st.hooks, h, c.table[h])
      BY <1>1, <1>6, <3>1 DEF CacheSound
    <3>3. ASSUME c.table[h].obj = o
          PROVE  EntrySound(os, st.hooks, h, c.table[h]) /\ c.table[h].prop.id # id
      <4>1. c.table[h].prop.id # id /\ c.table[h].prop.id \in PropIds
        BY <2>3, <3>2, <3>3 DEF EntrySound, Props
      <4>2. ob.props[c.table[h].prop.id] = st.objs[o].props[c.table[h].prop.id]
        BY <4>1
      <4> QED BY <1>2, <3>2, <3>3, <4>1, <4>2 DEF EntrySound
    <3> QED BY <1>5, <2>1, <3>1, <3>3
  <2> QED BY <2>2, <2>3
<1>7. Sound(StateOf(os, c, st.resolving, st.hooks))
  BY <1>5, <1>6, ObjectStep DEF os
<1> QED BY <1>6, <1>7 DEF c, os

LEMMA ToldSound ==
  ASSUME NEW st, Sound(st), NEW o \in JSObjects, NEW sprop \in Props
  PROVE  /\ Sound(Told(st, o, sprop)) /\ Told(st, o, sprop).objs = st.objs
         /\ Told(st, o, sprop).hooks = st.hooks /\ Told(st, o, sprop).resolving = st.resolving
         /\ \A h \in Places : LET e == Told(st, o, sprop).cache.table[h] IN
              e # NoEntry /\ e.obj = o /\ e.prop.id = sprop.id
                => e.stray \/ st.objs[o].props[e.prop.id] = e.prop
<1> DEFINE after == Told(st, o, sprop)
<1>1. st \in States /\ st.objs \in [JSObjects -> Objects] /\ st.objs[o] \in Objects /\ SlotsSound(st.objs[o])
  BY DEF Sound, States
<1>2. sprop.id \in PropIds
  BY DEF Props
<1>3. PICK stray \in BOOLEAN : stray = (~st.objs[o].owns \/ st.objs[o].props[sprop.id] # sprop)
  OBVIOUS
<1> DEFINE c == FillCache(st.cache, o, sprop.id, sprop, stray)
<1>4. after = [st EXCEPT !.cache = c]
  BY <1>3 DEF Told
<1>5. [st.objs EXCEPT ![o] = st.objs[o]] = st.objs
  BY <1>1
<1>6. stray \/ (st.objs[o].owns /\ st.objs[o].props[sprop.id] = sprop)
  BY <1>3
<1>7. /\ Sound(StateOf([st.objs EXCEPT ![o] = st.objs[o]], c, st.resolving, st.hooks))
      /\ \A h \in Places : LET e == c.table[h] IN
           e # NoEntry /\ e.obj = o /\ e.prop.id = sprop.id => e.stray \/ st.objs[o].props[sprop.id] = e.prop
  BY <1>1, <1>2, <1>6, FilledSound
<1> HIDE DEF c, after
<1>8. after = StateOf(st.objs, c, st.resolving, st.hooks)
  BY <1>1, <1>4 DEF States, StateOf
<1>9. after.cache = c /\ after.objs = st.objs /\ after.resolving = st.resolving /\ after.hooks = st.hooks
  BY <1>8 DEF StateOf
<1> QED BY <1>5, <1>7, <1>8, <1>9 DEF after

(* A call begins to wait. *)
LEMMA PushSound ==
  ASSUME NEW st, Sound(st), NEW f, Waits(f), f.phase \notin {"resolve", "watch", "gc"}
  PROVE  Sound(StateOf(st.objs, st.cache, st.resolving, Append(st.hooks, f)))
<1>1. f \in Calls
  BY DEF Waits
<1>2. /\ st.objs \in [JSObjects -> Objects] /\ st.cache \in Caches
      /\ st.resolving \in SUBSET Keys /\ st.hooks \in Seq(Calls)
      /\ \A u \in JSObjects : SlotsSound(st.objs[u])
      /\ \A i \in DOMAIN st.hooks : Waits(st.hooks[i])
      /\ CacheSound(st.cache, st.objs, st.hooks) /\ ResolvingSound(st.resolving, st.hooks)
  BY DEF Sound, States
<1>3. CacheSound(st.cache, st.objs, Append(st.hooks, f))
  BY <1>1, <1>2, CachePush
<1>4. ResolvingSound(st.resolving, Append(st.hooks, f))
  BY <1>1, <1>2, ResolvingPush
<1>5. \A i \in DOMAIN Append(st.hooks, f) : Waits(Append(st.hooks, f)[i])
  BY <1>1, <1>2, WaitsPush
<1>6. Append(st.hooks, f) \in Seq(Calls)
  BY <1>1, <1>2, Pushed
<1> QED BY <1>2, <1>3, <1>4, <1>5, <1>6, SoundOf

LEMMA PushKeySound ==
  ASSUME NEW st, Sound(st), NEW f, Waits(f), f.phase \in {"resolve", "watch"},
         Key(f) \notin st.resolving
  PROVE  Sound(StateOf(st.objs, st.cache, st.resolving \cup {Key(f)}, Append(st.hooks, f)))
<1>1. f \in Calls /\ Key(f) \in Keys
  BY DEF Waits, Key, Keys, Calls
<1>2. /\ st.objs \in [JSObjects -> Objects] /\ st.cache \in Caches
      /\ st.resolving \in SUBSET Keys /\ st.hooks \in Seq(Calls)
      /\ \A u \in JSObjects : SlotsSound(st.objs[u])
      /\ \A i \in DOMAIN st.hooks : Waits(st.hooks[i])
      /\ CacheSound(st.cache, st.objs, st.hooks) /\ ResolvingSound(st.resolving, st.hooks)
  BY DEF Sound, States
<1>3. CacheSound(st.cache, st.objs, Append(st.hooks, f))
  BY <1>1, <1>2, CachePush
<1>4. ResolvingSound(st.resolving \cup {Key(f)}, Append(st.hooks, f))
  BY <1>1, <1>2, ResolvingPushKey
<1>5. \A i \in DOMAIN Append(st.hooks, f) : Waits(Append(st.hooks, f)[i])
  BY <1>1, <1>2, WaitsPush
<1>6. Append(st.hooks, f) \in Seq(Calls) /\ st.resolving \cup {Key(f)} \in SUBSET Keys
  BY <1>1, <1>2, Pushed
<1> QED BY <1>2, <1>3, <1>4, <1>5, <1>6, SoundOf

(* A call stops waiting. *)
LEMMA PopSound ==
  ASSUME NEW st, Sound(st), st.hooks # <<>>, Last(st.hooks).phase # "gc",
         NEW r, r = IF Last(st.hooks).phase \in {"resolve", "watch"}
                    THEN st.resolving \ {Key(Last(st.hooks))} ELSE st.resolving,
         Last(st.hooks).phase = "add" =>
            \A h \in Places : LET e == st.cache.table[h] IN
               e # NoEntry /\ e.obj = Last(st.hooks).obj /\ e.prop.id = Last(st.hooks).id
                 => e.stray \/ st.objs[e.obj].props[e.prop.id] = e.prop
  PROVE  Sound(StateOf(st.objs, st.cache, r, Front(st.hooks)))
<1>2. /\ st.objs \in [JSObjects -> Objects] /\ st.cache \in Caches
      /\ st.resolving \in SUBSET Keys /\ st.hooks \in Seq(Calls)
      /\ \A u \in JSObjects : SlotsSound(st.objs[u])
      /\ \A i \in DOMAIN st.hooks : Waits(st.hooks[i])
      /\ CacheSound(st.cache, st.objs, st.hooks) /\ ResolvingSound(st.resolving, st.hooks)
  BY DEF Sound, States
<1>3. CacheSound(st.cache, st.objs, Front(st.hooks))
  BY <1>2, CachePop
<1>4. ResolvingSound(r, Front(st.hooks))
  BY <1>2, ResolvingPop
<1>5. \A i \in DOMAIN Front(st.hooks) : Waits(Front(st.hooks)[i])
  BY <1>2, WaitsPop
<1>6. Front(st.hooks) \in Seq(Calls) /\ r \in SUBSET Keys
  BY <1>2, Popped
<1> QED BY <1>2, <1>3, <1>4, <1>5, <1>6, SoundOf

Stopped(f, phase, at, sprop) == [f EXCEPT !.phase = phase, !.at = at, !.sprop = sprop]

LEMMA WaitForSound ==
  ASSUME NEW st, Sound(st), NEW f, Reads(f), NEW at \in JSObjects, NEW sprop \in Props, sprop.id = f.id,
         NEW phase \in {"getter", "setter", "add", "delete"}, phase # "getter" => Asks(f) /\ at = f.obj
  PROVE  /\ Sound(WaitFor(st, f, phase, at, sprop))
         /\ WaitFor(st, f, phase, at, sprop) =
              StateOf(st.objs, st.cache, st.resolving, Append(st.hooks, Stopped(f, phase, at, sprop)))
         /\ Stopped(f, phase, at, sprop) \in Calls
<1> DEFINE g == Stopped(f, phase, at, sprop)
<1>1. /\ g \in Calls /\ g.phase = phase /\ g.at = at /\ g.sprop = sprop /\ g.obj = f.obj
      /\ g.id = f.id /\ g.call = f.call /\ g.kind = f.kind
  BY DEF Reads, Asks, Calls, Phases, Stopped
<1>2. st \in States
  BY DEF Sound
<1>3. WaitFor(st, f, phase, at, sprop) = StateOf(st.objs, st.cache, st.resolving, Append(st.hooks, g))
  <2>1. WaitFor(st, f, phase, at, sprop) = [st EXCEPT !.hooks = Append(@, g)]
    BY DEF WaitFor, Stopped
  <2> HIDE DEF g
  <2> QED BY <1>2, <2>1 DEF States, StateOf
<1> HIDE DEF g
<1>4. Reads(g) /\ (Asks(f) => Asks(g))
  BY <1>1 DEF Reads, Asks
<1>5. Waits(g)
  BY <1>1, <1>4, PropsAreProps DEF Waits, Phases
<1>6. Sound(StateOf(st.objs, st.cache, st.resolving, Append(st.hooks, g)))
  BY <1>1, <1>5, PushSound
<1> QED BY <1>1, <1>3, <1>6 DEF g

LEMMA GetFromSound ==
  ASSUME NEW st, Sound(st), NEW f, Reads(f), NEW pobj \in JSObjects, NEW sprop \in Props, sprop.id = f.id
  PROVE  Sound(GetFrom(st, f, pobj, sprop))
<1>1. CASE sprop.kind \in Unhooked
  BY <1>1 DEF GetFrom
<1>2. CASE sprop.kind \notin Unhooked
  <2>1. Sound(WaitFor(st, f, "getter", pobj, sprop))
    BY WaitForSound
  <2> QED BY <1>2, <2>1 DEF GetFrom
<1> QED BY <1>1, <1>2

LEMMA AsksReads == \A f : Asks(f) => Reads(f)
BY DEF Asks, Reads

LEMMA StoreInSound ==
  ASSUME NEW st, Sound(st), NEW f, Asks(f), NEW sprop \in Props, sprop.id = f.id
  PROVE  Sound(StoreIn(st, f, sprop))
<1>1. f.obj \in JSObjects /\ f.id \in PropIds
  BY DEF Asks, Calls
<1>2. st \in States /\ st.objs \in [JSObjects -> Objects]
      /\ st.objs[f.obj] \in Objects /\ SlotsSound(st.objs[f.obj])
  BY <1>1 DEF Sound, States
<1>3. CASE sprop.kind \in Unhooked /\ sprop.slot < Len(st.objs[f.obj].slots)
  <2> DEFINE ob == StoreFor(st.objs[f.obj], sprop)
  <2>1. sprop.kind \notin Slotless
    BY <1>3 DEF Unhooked, Slotless
  <2>2. ob \in Objects /\ SlotsSound(ob) /\ ob.props = st.objs[f.obj].props /\ ob.owns = st.objs[f.obj].owns
    BY <1>2, <1>3, <2>1, StoreForSound
  <2>3. StoreIn(st, f, sprop) = SlotOf(st, f.obj, ob)
    BY <1>3 DEF StoreIn, SlotOf
  <2> HIDE DEF ob
  <2> QED BY <1>1, <2>2, <2>3, SlotOfSound
<1>4. CASE sprop.kind \in Unhooked /\ ~(sprop.slot < Len(st.objs[f.obj].slots))
  <2>1. StoreIn(st, f, sprop) = st
    BY <1>2, <1>4 DEF StoreIn, States
  <2> QED BY <2>1
<1>5. CASE sprop.kind = "half"
  <2>1. StoreIn(st, f, sprop) = st
    BY <1>5 DEF StoreIn, Unhooked
  <2> QED BY <2>1
<1>6. CASE sprop.kind \notin Unhooked /\ sprop.kind # "half"
  <2>1. Sound(WaitFor(st, f, "setter", f.obj, sprop))
    BY <1>1, AsksReads, WaitForSound
  <2> QED BY <1>6, <2>1 DEF StoreIn
<1> QED BY <1>3, <1>4, <1>5, <1>6

LEMMA OwnScopeSound ==
  ASSUME NEW ob \in Objects, SlotsSound(ob)
  PROVE  /\ OwnScope(ob) \in Objects /\ SlotsSound(OwnScope(ob)) /\ OwnScope(ob).owns
         /\ OwnScope(ob).props = ob.props
<1>1. /\ OwnScope(ob) \in Objects /\ OwnScope(ob).props = ob.props /\ OwnScope(ob).owns
      /\ OwnScope(ob).slots = ob.slots /\ OwnScope(ob).freeslot = ob.freeslot
  BY DEF OwnScope, Objects
<1> QED BY <1>1 DEF SlotsSound, Slotted

LEMMA AddThenHookSound ==
  ASSUME NEW st, Sound(st), NEW f, Asks(f), NEW kind \in Kinds
  PROVE  Sound(AddThenHook(st, f, kind))
<1> DEFINE mine == OwnScope(st.objs[f.obj])
           ob == AddToScope(mine, f.id, kind)
           p == ob.props[f.id]
           pushed == WaitFor(st, f, "add", f.obj, p)
           g == Stopped(f, "add", f.obj, p)
<1>1. f.obj \in JSObjects /\ f.id \in PropIds
  BY DEF Asks, Calls
<1>2. /\ st \in States /\ st.objs \in [JSObjects -> Objects] /\ st.hooks \in Seq(Calls)
      /\ st.objs[f.obj] \in Objects /\ SlotsSound(st.objs[f.obj])
  BY <1>1 DEF Sound, States
<1>3. /\ mine \in Objects /\ SlotsSound(mine) /\ mine.owns /\ mine.props = st.objs[f.obj].props
  BY <1>2, OwnScopeSound
<1> HIDE DEF mine
<1>4. /\ ob \in Objects /\ SlotsSound(ob) /\ ob.owns
      /\ p \in Props /\ p.id = f.id
      /\ \A j \in PropIds \ {f.id} : ob.props[j] = st.objs[f.obj].props[j]
  BY <1>1, <1>3, AddToScopeSound
<1>5. /\ Sound(pushed) /\ g \in Calls
      /\ pushed = StateOf(st.objs, st.cache, st.resolving, Append(st.hooks, g))
  <2> HIDE DEF p
  <2> QED BY <1>1, <1>4, AsksReads, WaitForSound
<1>6. g.phase = "add" /\ g.obj = f.obj /\ g.id = f.id
  BY DEF Stopped, Asks, Calls
<1>7. AddThenHook(st, f, kind) =
        StateOf([st.objs EXCEPT ![f.obj] = ob], st.cache, st.resolving, Append(st.hooks, g))
  <2> DEFINE st2 == [st EXCEPT !.objs[f.obj] = ob]
  <2>1. AddThenHook(st, f, kind) = [st2 EXCEPT !.hooks = Append(@, g)]
    BY DEF AddThenHook, WaitFor, Stopped, mine
  <2>2. st2 = [st EXCEPT !.objs = [st.objs EXCEPT ![f.obj] = ob]]
    OBVIOUS
  <2> HIDE DEF st2, g, ob
  <2> QED BY <1>2, <2>1, <2>2 DEF StateOf, States
<1> HIDE DEF g, p, ob
<1>8. Redefined(Append(st.hooks, g), f.obj, f.id)
  <2>1. /\ Len(st.hooks) + 1 \in DOMAIN Append(st.hooks, g)
        /\ Append(st.hooks, g)[Len(st.hooks) + 1] = g
    BY <1>2, <1>5, Pushed
  <2> QED BY <1>6, <2>1 DEF Redefined
<1>9. /\ pushed.objs = st.objs /\ pushed.cache = st.cache /\ pushed.resolving = st.resolving
      /\ pushed.hooks = Append(st.hooks, g)
  BY <1>5 DEF StateOf
<1> HIDE DEF pushed
<1>10. Sound(StateOf([pushed.objs EXCEPT ![f.obj] = ob], pushed.cache, pushed.resolving, pushed.hooks))
  <2>1. /\ pushed.objs[f.obj].owns => ob.owns
        /\ \A j \in PropIds \ {f.id} : ob.props[j] = pushed.objs[f.obj].props[j]
    BY <1>4, <1>9
  <2>2. Redefined(pushed.hooks, f.obj, f.id)
    BY <1>8, <1>9
  <2>3. ob \in Objects /\ SlotsSound(ob) /\ Sound(pushed)
    BY <1>4, <1>5
  <2> QED BY ONLY <1>1, <2>1, <2>2, <2>3, ObjectAlone
<1> QED BY <1>7, <1>9, <1>10

LEMMA RemoveAndForgetSound ==
  ASSUME NEW st, Sound(st), NEW o \in JSObjects, NEW id \in PropIds
  PROVE  Sound(RemoveAndForget(st, o, id)) /\ RemoveAndForget(st, o, id).hooks = st.hooks
<1> DEFINE c == FillCache(st.cache, o, id, NoProp, FALSE)
           ob == RemoveScopeProperty(st.objs[o], id)
<1>1. st \in States /\ st.objs[o] \in Objects /\ SlotsSound(st.objs[o])
  BY DEF Sound, States
<1>2. /\ ob \in Objects /\ SlotsSound(ob) /\ ob.owns = st.objs[o].owns
      /\ ob.props = [st.objs[o].props EXCEPT ![id] = NoProp]
  BY <1>1, RemoveSound
<1>3. RemoveAndForget(st, o, id) = StateOf([st.objs EXCEPT ![o] = ob], c, st.resolving, st.hooks)
  <2>1. RemoveAndForget(st, o, id) = [st EXCEPT !.cache = c, !.objs = [st.objs EXCEPT ![o] = ob]]
    BY DEF RemoveAndForget
  <2> HIDE DEF c, ob
  <2> QED BY <1>1, <2>1 DEF States, StateOf
<1> HIDE DEF ob
<1>4. \A j \in PropIds \ {id} : ob.props[j] = st.objs[o].props[j]
  BY <1>1, <1>2 DEF Objects
<1>5. Sound(StateOf([st.objs EXCEPT ![o] = ob], c, st.resolving, st.hooks))
  <2>1. PICK none \in Props \cup {NoProp}, no \in BOOLEAN : none = NoProp /\ no = FALSE
    OBVIOUS
  <2>2. c = FillCache(st.cache, o, id, none, no)
    BY <2>1
  <2>3. /\ none # NoProp => none.id = id
        /\ none # NoProp => no \/ (ob.owns /\ ob.props[id] = none)
    BY <2>1
  <2> HIDE DEF c
  <2> QED BY <1>2, <1>4, <2>2, <2>3, FilledSound
<1> QED BY <1>3, <1>5 DEF StateOf

LEMMA ChangedSound ==
  ASSUME NEW st, Sound(st), NEW o \in JSObjects, NEW id \in PropIds, NEW kind \in Kinds,
         st.objs[o].owns, st.objs[o].props[id] # NoProp,
         st.objs[o].props[id].kind \in Slotless <=> kind \in Slotless
  PROVE  Sound(Cached([st EXCEPT !.objs[o] = ChangeKind(@, id, kind)], o, id))
<1> DEFINE ob == ChangeKind(st.objs[o], id, kind)
           sprop == ob.props[id]
           st2 == [st EXCEPT !.objs[o] = ChangeKind(@, id, kind)]
<1>1. st \in States /\ st.objs \in [JSObjects -> Objects] /\ st.objs[o] \in Objects /\ SlotsSound(st.objs[o])
  BY DEF Sound, States
<1>2. /\ ob \in Objects /\ SlotsSound(ob) /\ ob.owns
      /\ sprop \in Props /\ sprop.id = id /\ sprop.kind = kind
      /\ \A j \in PropIds \ {id} : ob.props[j] = st.objs[o].props[j]
  BY <1>1, ChangeKindSound
<1>3. st2 = StateOf([st.objs EXCEPT ![o] = ob], st.cache, st.resolving, st.hooks)
  <2>1. st2 = [st EXCEPT !.objs = [st.objs EXCEPT ![o] = ob]]
    OBVIOUS
  <2> HIDE DEF st2, ob
  <2> QED BY <1>1, <2>1 DEF States, StateOf
<1> HIDE DEF st2, ob
<1>4. /\ st2.objs = [st.objs EXCEPT ![o] = ob] /\ st2.objs[o] = ob /\ st2.cache = st.cache
      /\ st2.resolving = st.resolving /\ st2.hooks = st.hooks
  BY <1>1, <1>3 DEF StateOf
<1>5. PICK stray \in BOOLEAN : stray = (~ob.owns \/ ob.props[id] # sprop)
  OBVIOUS
<1> DEFINE c == FillCache(st.cache, o, id, sprop, stray)
<1>6. Cached(st2, o, id) = [st2 EXCEPT !.cache = c]
  <2>1. Cached(st2, o, id) = Told(st2, o, sprop)
    BY <1>4 DEF Cached
  <2>2. Told(st2, o, sprop) = [st2 EXCEPT !.cache = FillCache(st2.cache, o, sprop.id, sprop, stray)]
    BY <1>2, <1>4, <1>5 DEF Told
  <2> QED BY <1>2, <1>4, <2>1, <2>2
<1>7. Sound(StateOf([st.objs EXCEPT ![o] = ob], c, st.resolving, st.hooks))
  <2>1. stray \/ (ob.owns /\ ob.props[id] = sprop)
    BY <1>2
  <2> HIDE DEF sprop
  <2> QED BY <1>2, <2>1, FilledSound
<1> HIDE DEF c
<1>8. Cached(st2, o, id) = StateOf([st.objs EXCEPT ![o] = ob], c, st.resolving, st.hooks)
  BY <1>3, <1>6 DEF StateOf
<1> QED BY <1>7, <1>8 DEF st2

LEMMA FoundSound ==
  ASSUME NEW st, Sound(st), NEW f, Asks(f), NEW pobj \in JSObjects,
         st.objs[pobj].owns, st.objs[pobj].props[f.id] # NoProp
  PROVE  Sound(Found(st, f, pobj))
<1> DEFINE sprop == st.objs[pobj].props[f.id]
<1>1. /\ f.obj \in JSObjects /\ f.id \in PropIds /\ f.call \in LookUps
      /\ f.call = "define" => f.kind \in Kinds
      /\ f.call = "attributes" => f.kind = "constant"
  BY DEF Asks, Calls
<1>2. /\ st.objs[pobj] \in Objects /\ SlotsSound(st.objs[pobj])
  BY DEF Sound, States
<1>3. sprop \in Props /\ sprop.id = f.id /\ sprop.kind \in Kinds
  BY <1>1, <1>2, OwnSlot DEF Props
<1> HIDE DEF sprop
<1>4. ClassKind(f.obj) \in Kinds
  BY DEF ClassKind, Kinds, Unhooked
<1>5. CASE f.call = "get"
  <2>1. Found(st, f, pobj) = GetFrom(st, f, pobj, sprop)
    BY <1>5 DEF Found, sprop
  <2> QED BY <1>3, <2>1, AsksReads, GetFromSound
<1>6. CASE f.call = "name"
  <2>1. Found(st, f, pobj) = GetFrom(Cached(st, pobj, f.id), f, pobj, sprop)
    BY <1>6 DEF Found, sprop
  <2>2. Sound(Cached(st, pobj, f.id))
    BY <1>3, ToldSound DEF Cached, sprop
  <2> QED BY <1>3, <2>1, <2>2, AsksReads, GetFromSound
<1>7. CASE f.call = "set"
  <2>1. CASE sprop.kind = "constant"
    <3>1. Found(st, f, pobj) = st
      BY <1>7, <2>1 DEF Found, sprop
    <3> QED BY <3>1
  <2>2. CASE sprop.kind # "constant" /\ (pobj = f.obj \/ sprop.kind \in Slotless)
    <3>1. Found(st, f, pobj) = StoreIn(st, f, sprop)
      BY <1>7, <2>2 DEF Found, sprop
    <3> QED BY <1>3, <2>2, <3>1, StoreInSound
  <2>3. CASE sprop.kind # "constant" /\ ~(pobj = f.obj \/ sprop.kind \in Slotless)
    <3>1. Found(st, f, pobj) = AddThenHook(st, f, ClassKind(f.obj))
      BY <1>7, <2>3 DEF Found, sprop
    <3> QED BY <1>4, <3>1, AddThenHookSound
  <2> QED BY <2>1, <2>2, <2>3
<1>8. CASE f.call = "define"
  <2>1. CASE pobj = f.obj /\ sprop.kind = "half"
    <3>1. Found(st, f, pobj) = Cached([st EXCEPT !.objs[pobj] = ChangeKind(@, f.id, "whole")], pobj, f.id)
      BY <1>8, <2>1 DEF Found, sprop
    <3>2. "whole" \in Kinds /\ "whole" \in Slotless /\ "half" \in Slotless
      BY DEF Kinds, Slotless
    <3>3. Sound(Cached([st EXCEPT !.objs[pobj] = ChangeKind(@, f.id, "whole")], pobj, f.id))
      BY <1>1, <2>1, <3>2, ChangedSound DEF sprop
    <3> QED BY <3>1, <3>3
  <2>2. CASE ~(pobj = f.obj /\ sprop.kind = "half")
    <3>1. Found(st, f, pobj) = AddThenHook(st, f, f.kind)
      BY <1>8, <2>2 DEF Found, sprop
    <3> QED BY <1>1, <1>8, <3>1, AddThenHookSound
  <2> QED BY <2>1, <2>2
<1>9. CASE f.call = "attributes"
  <2>1. CASE sprop.kind # "plain"
    <3>1. Found(st, f, pobj) = st
      BY <1>9, <2>1 DEF Found, sprop
    <3> QED BY <3>1
  <2>2. CASE sprop.kind = "plain"
    <3>1. Found(st, f, pobj) = Cached([st EXCEPT !.objs[pobj] = ChangeKind(@, f.id, f.kind)], pobj, f.id)
      BY <1>9, <2>2 DEF Found, sprop
    <3>2. f.kind \in Kinds /\ f.kind \notin Slotless /\ "plain" \notin Slotless
      BY <1>1, <1>9 DEF Kinds, Unhooked, Slotless
    <3>3. Sound(Cached([st EXCEPT !.objs[pobj] = ChangeKind(@, f.id, f.kind)], pobj, f.id))
      BY <1>1, <2>2, <3>2, ChangedSound DEF sprop
    <3> QED BY <3>1, <3>3
  <2> QED BY <2>1, <2>2
<1>10. CASE f.call = "delete"
  <2>1. CASE pobj # f.obj \/ sprop.kind = "constant"
    <3>1. Found(st, f, pobj) = st
      BY <1>10, <2>1 DEF Found, sprop
    <3> QED BY <3>1
  <2>2. CASE ~(pobj # f.obj \/ sprop.kind = "constant")
    <3>1. Found(st, f, pobj) = WaitFor(st, f, "delete", pobj, sprop)
      BY <1>10, <2>2 DEF Found, sprop
    <3>2. Sound(WaitFor(st, f, "delete", pobj, sprop))
      BY <1>3, <2>2, AsksReads, WaitForSound
    <3> QED BY <3>1, <3>2
  <2> QED BY <2>1, <2>2
<1> QED BY <1>1, <1>5, <1>6, <1>7, <1>8, <1>9, <1>10 DEF LookUps

LEMMA MissedSound ==
  ASSUME NEW st, Sound(st), NEW f, Asks(f)
  PROVE  Sound(Missed(st, f))
<1>1. CASE f.call = "set"
  <2>1. Missed(st, f) = AddThenHook(st, f, ClassKind(f.obj))
    BY <1>1 DEF Missed
  <2>2. ClassKind(f.obj) \in Kinds
    BY DEF ClassKind, Kinds, Unhooked
  <2> QED BY <2>1, <2>2, AddThenHookSound
<1>2. CASE f.call = "define"
  <2>1. Missed(st, f) = AddThenHook(st, f, f.kind) /\ f.kind \in Kinds
    BY <1>2 DEF Missed, Asks
  <2> QED BY <2>1, AddThenHookSound
<1>3. CASE f.call # "set" /\ f.call # "define"
  BY <1>3 DEF Missed
<1> QED BY <1>1, <1>2, <1>3

LEMMA ResolveSound ==
  ASSUME NEW st, Sound(st), NEW f, Asks(f), NEW o \in JSObjects,
         ~Resolving(st.resolving, o, f.id, "lookup")
  PROVE  Sound(WaitFor([st EXCEPT !.resolving = StartResolving(@, o, f.id, "lookup")],
                       f, "resolve", o, NoProp))
<1> DEFINE g == Stopped(f, "resolve", o, NoProp)
           key == <<o, f.id, "lookup">>
           after == WaitFor([st EXCEPT !.resolving = StartResolving(@, o, f.id, "lookup")],
                            f, "resolve", o, NoProp)
<1>1. /\ g \in Calls /\ g.phase = "resolve" /\ g.at = o /\ g.sprop = NoProp /\ g.obj = f.obj
      /\ g.id = f.id /\ g.call = f.call /\ g.kind = f.kind
  BY DEF Asks, Calls, Phases, Stopped
<1>2. st \in States
  BY DEF Sound
<1>3. after = StateOf(st.objs, st.cache, st.resolving \cup {key}, Append(st.hooks, g))
  <2>1. after = [[st EXCEPT !.resolving = @ \cup {key}] EXCEPT !.hooks = Append(@, g)]
    BY DEF WaitFor, Stopped, StartResolving
  <2> HIDE DEF g, after, key
  <2> QED BY <1>2, <2>1 DEF States, StateOf
<1> HIDE DEF g, after
<1>4. Waits(g)
  BY <1>1 DEF Waits, Asks, Phases
<1>5. Key(g) = key
  BY <1>1 DEF Key
<1>6. key \notin st.resolving
  BY DEF Resolving
<1> HIDE DEF key
<1>7. Sound(after)
  BY <1>1, <1>3, <1>4, <1>5, <1>6, PushKeySound
<1> QED BY <1>7 DEF after

LEMMA LookUpSound ==
  ASSUME NEW st, Sound(st), NEW f, Asks(f), NEW chain \in Seq(JSObjects)
  PROVE  Sound(LookUp(st, f, chain).st)
<1> DEFINE has(o) == st.objs[o].owns /\ st.objs[o].props[f.id] # NoProp
           stops == {i \in 1..Len(chain) : has(chain[i]) \/ chain[i] \in Resolvers}
           stop == IF stops # {} THEN Min(stops) ELSE 0
           o == chain[stop]
           waiting == WaitFor([st EXCEPT !.resolving = StartResolving(@, o, f.id, "lookup")],
                              f, "resolve", o, NoProp)
<1>1. LookUp(st, f, chain) =
        IF stop = 0 THEN [miss |-> TRUE, st |-> Missed(st, f)]
        ELSE IF has(o) THEN [miss |-> FALSE, st |-> Found(st, f, o)]
        ELSE IF Resolving(st.resolving, o, f.id, "lookup") THEN [miss |-> TRUE, st |-> Missed(st, f)]
        ELSE [miss |-> FALSE, st |-> waiting]
  BY DEF LookUp, SelectInSeq
<1>2. stop # 0 => stop \in 1..Len(chain)
  <2>1. stops \in SUBSET Nat
    OBVIOUS
  <2>2. stops # {} => Min(stops) \in stops
    BY <2>1, MinIsMember
  <2> QED BY <2>2
<1>3. stop # 0 => o \in JSObjects
  <2> HIDE DEF stop
  <2> QED BY <1>2
<1> HIDE DEF stop, o
<1>4. Sound(Missed(st, f))
  BY MissedSound
<1>5. ASSUME stop # 0, has(o) PROVE Sound(Found(st, f, o))
  BY <1>3, <1>5, FoundSound
<1>6. ASSUME stop # 0, ~Resolving(st.resolving, o, f.id, "lookup") PROVE Sound(waiting)
  BY <1>3, <1>6, ResolveSound
<1> HIDE DEF has, waiting
<1> QED BY <1>1, <1>4, <1>5, <1>6

LEMMA FindPropertySound ==
  ASSUME NEW st, Sound(st), NEW f, Asks(f), f.call = "name", NEW scopes \in Seq(Scopes)
  PROVE  Sound(FindProperty(st, f, scopes))
<1> DEFINE asks(i) == [f EXCEPT !.obj = scopes[i]]
           hit(i) == TestCache(st.cache, scopes[i], f.id)
           found(i) == LookUp(st, asks(i), ProtoChain[scopes[i]])
           stops == {i \in DOMAIN scopes : hit(i) # NoProp \/ ~found(i).miss}
           here == Min(stops)
<1>1. FindProperty(st, f, scopes) =
        IF stops = {} THEN st
        ELSE IF hit(here) # NoProp THEN GetFrom(st, asks(here), scopes[here], hit(here))
        ELSE found(here).st
  BY DEF FindProperty
<1>2. Scopes \in SUBSET JSObjects /\ ProtoChain \in [JSObjects -> Seq(JSObjects)]
  BY NativeObjectsAssumption DEF Scopes
<1>3. ASSUME stops # {} PROVE here \in DOMAIN scopes
  <2>1. stops \in SUBSET Nat
    OBVIOUS
  <2>2. Min(stops) \in stops
    BY <1>3, <2>1, MinIsMember
  <2> QED BY <2>2
<1>4. ASSUME NEW i \in DOMAIN scopes
      PROVE  /\ hit(i) # NoProp => Sound(GetFrom(st, asks(i), scopes[i], hit(i)))
             /\ Sound(found(i).st)
  <2>1. scopes[i] \in Scopes /\ scopes[i] \in JSObjects /\ ProtoChain[scopes[i]] \in Seq(JSObjects)
    BY <1>2, <1>4
  <2>2. /\ asks(i) \in Calls /\ asks(i).id = f.id /\ asks(i).call = f.call /\ asks(i).kind = f.kind
        /\ asks(i).obj = scopes[i] /\ f.id \in PropIds
    BY <2>1 DEF Asks, Calls
  <2>3. Asks(asks(i))
    <3> HIDE DEF asks
    <3> QED BY <2>1, <2>2 DEF Asks
  <2>4. Sound(found(i).st)
    <3> HIDE DEF asks
    <3> QED BY <2>1, <2>3, LookUpSound
  <2>5. ASSUME hit(i) # NoProp PROVE Sound(GetFrom(st, asks(i), scopes[i], hit(i)))
    <3>1. hit(i) \in Props /\ hit(i).id = f.id
      BY <2>1, <2>2, <2>5, CacheTells
    <3> HIDE DEF asks, hit
    <3> QED BY <2>1, <2>2, <2>3, <3>1, AsksReads, GetFromSound
  <2> QED BY <2>4, <2>5
<1> HIDE DEF here, stops, found, hit, asks
<1> QED BY <1>1, <1>3, <1>4

LEMMA ScopesFromIs == ASSUME NEW o \in Scopes PROVE Tail(ScopesFrom(o)) \in Seq(Scopes)
<1> DEFINE places == {i \in 1..Len(ScopeChain) : ScopeChain[i] = o}
           m == Min(places)
<1>1. ScopeChain \in Seq(Scopes)
  BY NativeObjectsAssumption DEF Scopes
<1>2. places # {} /\ places \in SUBSET Nat
  BY <1>1 DEF Scopes
<1>3. m \in places
  BY <1>2, MinIsMember
<1>4. ScopesFrom(o) = SubSeq(ScopeChain, m, Len(ScopeChain))
  BY <1>2 DEF ScopesFrom, SelectInSeq
<1> HIDE DEF m
<1>5. m \in 1..Len(ScopeChain)
  BY <1>3
<1>6. ScopesFrom(o) \in Seq(Scopes) /\ Len(ScopesFrom(o)) = Len(ScopeChain) - m + 1
  BY <1>1, <1>4, <1>5
<1>7. Len(ScopesFrom(o)) >= 1 /\ Len(ScopesFrom(o)) \in Nat
  BY <1>1, <1>5, <1>6
<1>8. ScopesFrom(o) # <<>>
  BY <1>7
<1> QED BY <1>6, <1>8

LEMMA LookFurtherSound ==
  ASSUME NEW st, Sound(st), NEW f, Asks(f)
  PROVE  Sound(LookFurther(st, f))
<1> DEFINE chain == ProtoChain[f.obj]
           places == {i \in 1..Len(chain) : chain[i] = f.at}
           m == IF places # {} THEN Min(places) ELSE 0
           rest == SubSeq(chain, m + 1, Len(chain))
           found == LookUp(st, f, rest)
<1>1. LookFurther(st, f) =
        IF found.miss /\ f.call = "name" THEN FindProperty(st, f, Tail(ScopesFrom(f.obj))) ELSE found.st
  BY DEF LookFurther, SelectInSeq
<1>2. chain \in Seq(JSObjects)
  BY NativeObjectsAssumption DEF Asks, Calls
<1>3. m \in 0..Len(chain)
  <2>1. places \in SUBSET Nat
    OBVIOUS
  <2>2. places # {} => Min(places) \in places
    BY <2>1, MinIsMember
  <2> QED BY <1>2, <2>2
<1> HIDE DEF m, chain
<1>4. rest \in Seq(JSObjects)
  BY <1>2, <1>3
<1> HIDE DEF rest
<1>5. Sound(found.st)
  BY <1>4, LookUpSound
<1>6. ASSUME f.call = "name" PROVE Sound(FindProperty(st, f, Tail(ScopesFrom(f.obj))))
  <2>1. f.obj \in Scopes
    BY <1>6 DEF Asks
  <2> QED BY <1>6, <2>1, ScopesFromIs, FindPropertySound
<1> HIDE DEF found
<1> QED BY <1>1, <1>5, <1>6

----------------------------------------------------------------------------
(* The calls and the returns. *)

LEMMA NowIs == Now.objs = objs /\ Now.cache = cache /\ Now.resolving = resolving /\ Now.hooks = hooks
               /\ Now = StateOf(objs, cache, resolving, hooks)
BY DEF Now, StateOf

LEMMA CallAsks ==
  ASSUME NEW call \in LookUps, NEW o \in JSObjects, NEW id \in PropIds, NEW kind \in Kinds \cup {""},
         call = "define" => kind \in Kinds, call = "attributes" => kind = "constant",
         call = "name" => o \in Scopes
  PROVE  /\ Asks(Call(call, o, id, kind)) /\ Call(call, o, id, kind).obj = o
         /\ Call(call, o, id, kind).id = id /\ Call(call, o, id, kind).call = call
<1> DEFINE f == Call(call, o, id, kind)
<1>1. /\ f \in Calls /\ f.obj = o /\ f.id = id /\ f.call = call /\ f.kind = kind
  BY DEF Call, Calls
<1> HIDE DEF f
<1>2. Asks(f)
  BY <1>1 DEF Asks
<1> QED BY <1>1, <1>2 DEF f

LEMMA ChainIs == ASSUME NEW o \in JSObjects PROVE ProtoChain[o] \in Seq(JSObjects)
BY NativeObjectsAssumption

LEMMA PlainCallAsks ==
  \A call \in {"get", "set", "delete"}, o \in JSObjects, id \in PropIds :
     /\ Asks(Call(call, o, id, "")) /\ Call(call, o, id, "").obj = o
     /\ Call(call, o, id, "").id = id
<1> SUFFICES ASSUME NEW call \in {"get", "set", "delete"}, NEW o \in JSObjects, NEW id \in PropIds
             PROVE  /\ Asks(Call(call, o, id, "")) /\ Call(call, o, id, "").obj = o
                    /\ Call(call, o, id, "").id = id
  OBVIOUS
<1> DEFINE f == Call(call, o, id, "")
<1>1. call \in LookUps /\ call # "define" /\ call # "attributes" /\ call # "name"
  BY DEF LookUps
<1>2. /\ f \in Calls /\ f.obj = o /\ f.id = id /\ f.call = call
  BY <1>1 DEF Call, Calls
<1> HIDE DEF f
<1>3. Asks(f)
  BY <1>1, <1>2 DEF Asks
<1> QED BY <1>2, <1>3 DEF f

LEMMA HitReads ==
  ASSUME NEW o \in JSObjects, NEW id \in PropIds
  PROVE  Reads(Call("hit", o, id, "")) /\ Call("hit", o, id, "").id = id
<1> DEFINE f == Call("hit", o, id, "")
<1>1. f \in Calls /\ f.id = id /\ f.call = "hit"
  BY DEF Call, Calls
<1> HIDE DEF f
<1>2. Reads(f)
  BY <1>1 DEF Reads
<1> QED BY <1>1, <1>2 DEF f

(* What a step goes to is the state afterwards. *)
LEMMA GetStep ==
  ASSUME ObjectsInv, NEW o \in JSObjects, NEW id \in PropIds, GetNative(o, id)
  PROVE  ObjectsInv'
<1> DEFINE f == Call("get", o, id, "")
           g == Call("hit", o, id, "")
           hit == TestCache(cache, o, id)
           st == IF hit # NoProp THEN GetFrom(Now, g, o, hit) ELSE LookUp(Now, f, ProtoChain[o]).st
<1>1. Asks(f) /\ Reads(g) /\ g.id = id
  BY PlainCallAsks, HitReads
<1>2. Sound(Now)
  BY DEF ObjectsInv
<1>3. hit # NoProp => hit \in Props /\ hit.id = id
  BY <1>2, NowIs, CacheTells
<1> HIDE DEF f, g, hit
<1>4. Sound(st)
  BY <1>1, <1>2, <1>3, GetFromSound, LookUpSound, ChainIs
<1>5. Go(st)
  BY DEF GetNative, f, g, hit
<1> HIDE DEF st
<1>6. Now' = st
  BY <1>4, <1>5, Shape DEF Go, Now, StateOf, Sound
<1> QED BY <1>4, <1>6 DEF ObjectsInv

LEMMA SetStep ==
  ASSUME ObjectsInv, NEW o \in JSObjects, NEW id \in PropIds, SetNative(o, id)
  PROVE  ObjectsInv'
<1> DEFINE f == Call("set", o, id, "")
           hit == TestCache(cache, o, id)
           st == IF hit = NoProp \/ hit.kind = "constant" THEN LookUp(Now, f, ProtoChain[o]).st
                 ELSE IF hit.kind \in Unhooked /\ ~HasValidSlot(objs[o], hit) THEN Now
                 ELSE StoreIn(Now, f, hit)
<1>1. Asks(f) /\ f.obj = o /\ f.id = id
  BY PlainCallAsks
<1>2. Sound(Now)
  BY DEF ObjectsInv
<1>3. hit # NoProp => hit \in Props /\ hit.id = id
  BY <1>2, NowIs, CacheTells
<1> HIDE DEF f, hit
<1>4. Sound(st)
  BY <1>1, <1>2, <1>3, StoreInSound, LookUpSound, ChainIs
<1>5. Go(st)
  BY DEF SetNative, f, hit
<1> HIDE DEF st
<1>6. Now' = st
  BY <1>4, <1>5, Shape DEF Go, Now, StateOf, Sound
<1> QED BY <1>4, <1>6 DEF ObjectsInv

LEMMA NameStep ==
  ASSUME ObjectsInv, NEW id \in PropIds, GetName(id)
  PROVE  ObjectsInv'
<1> DEFINE f == Call("name", Head(ScopeChain), id, "")
           st == FindProperty(Now, f, ScopeChain)
<1>1. ScopeChain \in Seq(Scopes) /\ Head(ScopeChain) \in Scopes /\ Head(ScopeChain) \in JSObjects
  BY NativeObjectsAssumption DEF Scopes
<1>2. "name" \in LookUps /\ "name" # "define" /\ "name" # "attributes" /\ "" \in Kinds \cup {""}
  BY DEF LookUps
<1>3. Asks(f) /\ f.call = "name"
  <2>1. f \in Calls /\ f.call = "name" /\ f.obj \in Scopes
    BY <1>1, <1>2 DEF Call, Calls
  <2> HIDE DEF f
  <2> QED BY <1>2, <2>1 DEF Asks
<1> HIDE DEF f
<1>4. Sound(st)
  BY <1>1, <1>3, FindPropertySound DEF ObjectsInv
<1>5. Go(st)
  BY DEF GetName, f
<1> HIDE DEF st
<1>6. Now' = st
  BY <1>4, <1>5, Shape DEF Go, Now, StateOf, Sound
<1> QED BY <1>4, <1>6 DEF ObjectsInv

LEMMA DefineStep ==
  ASSUME ObjectsInv, NEW d \in PropOffers, DefineNative(d[1], d[2], d[3])
  PROVE  ObjectsInv'
<1> DEFINE o == d[1]
           kind == d[3]
           f == Call("define", d[1], d[2], d[3])
           st == IF kind = "half" THEN LookUp(Now, f, ProtoChain[o]).st ELSE AddThenHook(Now, f, kind)
<1>1. o \in JSObjects /\ d[2] \in PropIds /\ kind \in Kinds
  BY NativeObjectsAssumption
<1>2. "define" \in LookUps /\ "define" # "name" /\ "define" # "attributes"
  BY DEF LookUps
<1>3. Asks(f)
  BY <1>1, <1>2, CallAsks
<1> HIDE DEF f
<1>4. Sound(st)
  BY <1>1, <1>3, LookUpSound, AddThenHookSound, ChainIs DEF ObjectsInv
<1>5. Go(st)
  BY DEF DefineNative, f
<1> HIDE DEF st
<1>6. Now' = st
  BY <1>4, <1>5, Shape DEF Go, Now, StateOf, Sound
<1> QED BY <1>4, <1>6 DEF ObjectsInv

LEMMA AttributesStep ==
  ASSUME ObjectsInv, NEW o \in JSObjects, NEW id \in PropIds, SetAttributes(o, id)
  PROVE  ObjectsInv'
<1> DEFINE f == Call("attributes", o, id, "constant")
           st == LookUp(Now, f, ProtoChain[o]).st
<1>1. "attributes" \in LookUps /\ "attributes" # "name" /\ "attributes" # "define" /\ "constant" \in Kinds
  BY DEF LookUps, Kinds, Unhooked
<1>2. Asks(f)
  BY <1>1, CallAsks
<1> HIDE DEF f
<1>4. Sound(st)
  BY <1>2, LookUpSound, ChainIs DEF ObjectsInv
<1>5. Go(st)
  BY DEF SetAttributes, f
<1> HIDE DEF st
<1>6. Now' = st
  BY <1>4, <1>5, Shape DEF Go, Now, StateOf, Sound
<1> QED BY <1>4, <1>6 DEF ObjectsInv

LEMMA DeleteStep ==
  ASSUME ObjectsInv, NEW o \in JSObjects, NEW id \in PropIds, DeleteNative(o, id)
  PROVE  ObjectsInv'
<1> DEFINE f == Call("delete", o, id, "")
           st == LookUp(Now, f, ProtoChain[o]).st
<1>2. Asks(f)
  BY PlainCallAsks
<1> HIDE DEF f
<1>4. Sound(st)
  BY <1>2, LookUpSound, ChainIs DEF ObjectsInv
<1>5. Go(st)
  BY DEF DeleteNative, f
<1> HIDE DEF st
<1>6. Now' = st
  BY <1>4, <1>5, Shape DEF Go, Now, StateOf, Sound
<1> QED BY <1>4, <1>6 DEF ObjectsInv

LEMMA ClearStep ==
  ASSUME ObjectsInv, NEW o \in JSObjects, Clear(o)
  PROVE  ObjectsInv'
<1> DEFINE ob == Emptied(objs[o])
           out == {CacheHash[<<o, id>>] : id \in {i \in PropIds : objs[o].props[i] # NoProp}}
           c == IF cache.disabled THEN cache
                ELSE [cache EXCEPT !.table = [h \in DOMAIN cache.table |-> IF h \in out THEN NoEntry ELSE cache.table[h]]]
           st == StateOf([objs EXCEPT ![o] = ob], c, resolving, hooks)
<1>1. /\ objs \in [JSObjects -> Objects] /\ objs[o] \in Objects /\ SlotsSound(objs[o]) /\ cache \in Caches
      /\ CacheSound(cache, objs, hooks) /\ objs[o].owns /\ Sound(Now)
  BY NowIs DEF ObjectsInv, Sound, States, Clear
<1>2. ob \in Objects /\ SlotsSound(ob)
  <2> DEFINE n == Len(objs[o].slots)
  <2>1. n \in Nat /\ DOMAIN objs[o].slots = 1..n /\ Reserved <= n
    BY <1>1, NativeObjectsAssumption DEF Objects, SlotsSound
  <2>2. /\ ob = [owns |-> ob.owns, props |-> ob.props, freeslot |-> ob.freeslot, slots |-> ob.slots]
        /\ DOMAIN ob = {"owns", "props", "freeslot", "slots"}
        /\ ob.owns \in BOOLEAN /\ ob.props = NoProps /\ ob.freeslot = Reserved
        /\ ob.slots = [i \in DOMAIN objs[o].slots |-> Void]
    <3> DEFINE void == [i \in DOMAIN objs[o].slots |-> Void]
    <3>1. objs[o] = [owns |-> objs[o].owns, props |-> objs[o].props, freeslot |-> objs[o].freeslot,
                     slots |-> objs[o].slots] /\ objs[o].owns \in BOOLEAN
      BY <1>1 DEF Objects
    <3>2. ob = [objs[o] EXCEPT !.props = NoProps, !.freeslot = Reserved, !.slots = void]
      BY DEF Emptied
    <3> HIDE DEF ob, void
    <3>3. ob = [owns |-> objs[o].owns, props |-> NoProps, freeslot |-> Reserved, slots |-> void]
      BY <3>1, <3>2
    <3> QED BY <3>1, <3>3 DEF void
  <2>3. ob.slots = [i \in 1..n |-> Void]
    BY <2>1, <2>2
  <2> HIDE DEF ob, n
  <2> QED BY ONLY <2>1, <2>2, <2>3, VoidSlots
<1>3. /\ c \in Caches /\ c.disabled = cache.disabled /\ c.empty = cache.empty
      /\ cache.disabled => c = cache
      /\ ~cache.disabled => \A h \in Places : c.table[h] = IF h \in out THEN NoEntry ELSE cache.table[h]
  <2>1. NoEntry \in Entries
    BY DEF Entries, NoEntry
  <2>2. CASE cache.disabled
    BY <1>1, <2>2
  <2>3. CASE ~cache.disabled
    <3> HIDE DEF out
    <3> DEFINE table == [h \in DOMAIN cache.table |-> IF h \in out THEN NoEntry ELSE cache.table[h]]
    <3>1. table \in [Places -> Entries] /\ \A h \in Places : table[h] = IF h \in out THEN NoEntry ELSE cache.table[h]
      BY <1>1, <2>1 DEF Caches
    <3>2. c = [cache EXCEPT !.table = table]
      BY <2>3
    <3> HIDE DEF table, c
    <3> QED BY <1>1, <2>3, <3>1, <3>2 DEF Caches
  <2> QED BY <2>2, <2>3
<1> HIDE DEF c, ob
<1>4. ASSUME NEW h \in Places, c.table[h] # NoEntry
      PROVE  /\ ~c.empty /\ ~c.disabled
             /\ IF c.table[h].obj = o THEN EntrySound([objs EXCEPT ![o] = ob], hooks, h, c.table[h])
                ELSE c.table[h] = cache.table[h]
  <2>1. ~cache.disabled
    BY <1>1, <1>3, <1>4 DEF CacheSound
  <2>2. h \notin out /\ c.table[h] = cache.table[h]
    BY <1>3, <1>4, <2>1
  <2>3. EntrySound(objs, hooks, h, c.table[h]) /\ ~cache.empty
    BY <1>1, <1>4, <2>2 DEF CacheSound
  <2>4. ASSUME c.table[h].obj = o PROVE EntrySound([objs EXCEPT ![o] = ob], hooks, h, c.table[h])
    <3>1. c.table[h].prop \in Props /\ c.table[h].prop.id \in PropIds /\ c.table[h].prop # NoProp
      BY <2>3, PropsAreProps DEF EntrySound, Props
    <3>2. objs[o].props[c.table[h].prop.id] # c.table[h].prop
      BY <2>2, <2>3, <2>4, <3>1 DEF EntrySound
    <3>3. ~c.table[h].stray => Redefined(hooks, c.table[h].obj, c.table[h].prop.id)
      BY <2>3, <2>4, <3>2 DEF EntrySound
    <3>4. [objs EXCEPT ![o] = ob][o] = ob /\ ob.owns
      BY <1>1 DEF Emptied, ob, Objects
    <3> QED BY <2>3, <2>4, <3>3, <3>4 DEF EntrySound
  <2> QED BY <1>3, <2>1, <2>2, <2>3, <2>4
<1>5. Sound(st)
  BY <1>1, <1>2, <1>3, <1>4, NowIs, ObjectStep
<1>6. objs' = [objs EXCEPT ![o] = ob] /\ cache' = c /\ resolving' = resolving /\ hooks' = hooks
  <2>1. objs' = [objs EXCEPT ![o] = ob]
    BY DEF Clear, ob
  <2>2. cache' = c
    BY DEF Clear, c
  <2> QED BY <2>1, <2>2 DEF Clear
<1>7. Now' = st
  BY <1>6 DEF Now, StateOf
<1> QED BY <1>5, <1>7 DEF ObjectsInv

LEMMA WatchStep ==
  ASSUME ObjectsInv, RunWatchHandler
  PROVE  ObjectsInv'
<1> DEFINE f == Last(hooks)
           g == [Call("watch", f.obj, f.id, "") EXCEPT !.phase = "watch"]
           key == <<f.obj, f.id, "watch">>
           st == StateOf(objs, cache, resolving \cup {key}, Append(hooks, g))
<1>1. Sound(Now) /\ hooks \in Seq(Calls) /\ hooks # <<>>
  BY NowIs DEF ObjectsInv, Sound, States, RunWatchHandler
<1>2. f.obj \in JSObjects /\ f.id \in PropIds
  BY <1>1, Popped DEF Calls
<1> HIDE DEF f
<1>3. /\ g \in Calls /\ g.phase = "watch" /\ g.at = f.obj /\ g.obj = f.obj /\ g.id = f.id
  BY <1>2 DEF Calls, Call, Phases
<1>4. /\ key \notin resolving
      /\ resolving' = resolving \cup {key} /\ hooks' = Append(hooks, g) /\ objs' = objs /\ cache' = cache
  BY DEF RunWatchHandler, Resolving, StartResolving, f
<1> HIDE DEF g
<1>5. Waits(g) /\ Key(g) = key
  BY <1>3 DEF Waits, Key, Phases
<1> HIDE DEF key
<1>6. Sound(st)
  BY <1>1, <1>3, <1>4, <1>5, NowIs, PushKeySound
<1>7. Now' = st
  BY <1>4 DEF Now, StateOf
<1> QED BY <1>6, <1>7 DEF ObjectsInv

LEMMA StartSweepStep ==
  ASSUME ObjectsInv, NEW o \in Mortal, StartSweep(o)
  PROVE  ObjectsInv'
<1> DEFINE some == CHOOSE id \in PropIds : TRUE
           g == [Call("gc", o, some, "") EXCEPT !.phase = "gc"]
           flushed == FlushPropertyCache(cache)
           c == [flushed EXCEPT !.disabled = TRUE]
           hs == Append(hooks, g)
           st == StateOf(objs, c, resolving, hs)
<1>1. /\ Sound(Now) /\ hooks \in Seq(Calls) /\ objs \in [JSObjects -> Objects] /\ cache \in Caches
      /\ resolving \in SUBSET Keys /\ \A u \in JSObjects : SlotsSound(objs[u])
      /\ \A i \in DOMAIN hooks : Waits(hooks[i])
      /\ CacheSound(cache, objs, hooks) /\ ResolvingSound(resolving, hooks)
  BY NowIs DEF ObjectsInv, Sound, States
<1>2. some \in PropIds /\ o \in JSObjects
  BY NativeObjectsAssumption
<1> HIDE DEF some
<1>3. g \in Calls /\ g.phase = "gc"
  BY <1>2 DEF Calls, Call, Phases
<1>4. ~cache.disabled /\ cache' = c /\ hooks' = hs /\ objs' = objs /\ resolving' = resolving
  BY DEF StartSweep, some
<1>5. c \in Caches /\ c.disabled /\ \A h \in Places : c.table[h] = NoEntry
  <2>1. NoEntry \in Entries
    BY DEF Entries, NoEntry
  <2>2. flushed \in Caches /\ \A h \in Places : flushed.table[h] = NoEntry
    <3>1. CASE cache.empty
      BY <1>1, <3>1 DEF FlushPropertyCache, CacheSound
    <3>2. CASE ~cache.empty
      <4>1. flushed = [cache EXCEPT !.table = [h \in DOMAIN cache.table |-> NoEntry], !.empty = TRUE]
        BY <3>2 DEF FlushPropertyCache
      <4> HIDE DEF flushed
      <4> QED BY <1>1, <2>1, <4>1 DEF Caches
    <3> QED BY <3>1, <3>2
  <2> HIDE DEF flushed
  <2> QED BY <2>2 DEF Caches
<1> HIDE DEF c, g
<1>6. \A i \in DOMAIN hooks : hooks[i].phase # "gc"
  BY <1>1, <1>4 DEF CacheSound
<1>7. /\ hs \in Seq(Calls) /\ DOMAIN hs = 1..Len(hooks) + 1 /\ Len(hooks) \in Nat /\ DOMAIN hooks = 1..Len(hooks)
      /\ hs[Len(hooks) + 1] = g /\ \A i \in 1..Len(hooks) : hs[i] = hooks[i]
  BY <1>1, <1>3, Pushed
<1>8. \A i \in DOMAIN hs : Waits(hs[i])
  <2>1. Waits(g)
    BY <1>3 DEF Waits, Phases
  <2> QED BY <1>1, <1>3, <2>1, WaitsPush
<1>9. ResolvingSound(resolving, hs)
  BY <1>1, <1>3, ResolvingPush
<1> HIDE DEF hs
<1>10. CacheSound(c, objs, hs)
  <2>1. \A i \in DOMAIN hs : hs[i].phase = "gc" <=> i = Len(hooks) + 1
    BY <1>3, <1>6, <1>7
  <2>2. Len(hooks) + 1 \in DOMAIN hs
    BY <1>7
  <2> QED BY <1>5, <2>1, <2>2 DEF CacheSound
<1>11. Sound(st)
  BY <1>1, <1>5, <1>7, <1>8, <1>9, <1>10, SoundOf
<1>12. Now' = st
  BY <1>4 DEF Now, StateOf
<1> QED BY <1>11, <1>12 DEF ObjectsInv

LEMMA BelowIs ==
  /\ Below = StateOf(objs, cache, resolving, Front(hooks))
  /\ Below.objs = objs /\ Below.cache = cache /\ Below.resolving = resolving
  /\ \A r : [Below EXCEPT !.resolving = r] = StateOf(objs, cache, r, Front(hooks))
<1>1. Below = StateOf(objs, cache, resolving, Front(hooks))
  BY DEF Below, Now, StateOf
<1>2. Below.objs = objs /\ Below.cache = cache /\ Below.resolving = resolving
  BY <1>1 DEF StateOf
<1>3. ASSUME NEW r PROVE [Below EXCEPT !.resolving = r] = StateOf(objs, cache, r, Front(hooks))
  BY <1>1 DEF StateOf
<1> QED BY <1>1, <1>2, <1>3

LEMMA HookIs ==
  ASSUME ObjectsInv, hooks # <<>>
  PROVE  /\ Sound(Now) /\ Waits(Hook) /\ Hook \in Calls
         /\ Below = StateOf(objs, cache, resolving, Front(hooks))
         /\ Hook.obj \in JSObjects /\ Hook.at \in JSObjects /\ Hook.id \in PropIds
         /\ objs[Hook.obj] \in Objects /\ SlotsSound(objs[Hook.obj])
         /\ objs[Hook.at] \in Objects /\ SlotsSound(objs[Hook.at])
<1>1. /\ Sound(Now) /\ hooks \in Seq(Calls) /\ objs \in [JSObjects -> Objects]
      /\ \A i \in DOMAIN hooks : Waits(hooks[i]) /\ \A o \in JSObjects : SlotsSound(objs[o])
  BY NowIs DEF ObjectsInv, Sound, States
<1>2. Waits(Hook)
  BY <1>1, WaitsPop DEF Hook
<1>3. Hook \in Calls
  BY <1>2 DEF Waits
<1>4. Hook.obj \in JSObjects /\ Hook.at \in JSObjects /\ Hook.id \in PropIds
  BY <1>3 DEF Calls
<1>5. Below = StateOf(objs, cache, resolving, Front(hooks))
  BY BelowIs
<1> QED BY <1>1, <1>2, <1>3, <1>4, <1>5

(* Any call but one that adds a property, resolves or collects may simply stop waiting. *)
LEMMA BelowSound ==
  ASSUME ObjectsInv, hooks # <<>>, Hook.phase \in {"getter", "setter", "delete"}
  PROVE  Sound(Below)
<1>1. Sound(Now) /\ Now.hooks # <<>> /\ Last(Now.hooks).phase \notin {"gc", "resolve", "watch", "add"}
  BY HookIs, NowIs DEF Hook
<1>2. Sound(StateOf(Now.objs, Now.cache, Now.resolving, Front(Now.hooks)))
  BY <1>1, PopSound
<1> QED BY <1>2, HookIs, NowIs

LEMMA ResolvedSound ==
  ASSUME ObjectsInv, hooks # <<>>, Hook.phase = "resolve"
  PROVE  Sound(Resolved) /\ Resolved.objs = objs /\ Asks(Hook)
<1>1. Sound(Now) /\ Now.hooks # <<>> /\ Last(Now.hooks) = Hook
  BY HookIs, NowIs DEF Hook
<1>2. Key(Hook) = <<Hook.at, Hook.id, "lookup">> /\ Asks(Hook)
  BY HookIs DEF Key, Waits
<1> DEFINE r == resolving \ {Key(Hook)}
<1>3. Resolved = StateOf(objs, cache, r, Front(hooks))
  <2>1. Resolved = [Below EXCEPT !.resolving = r]
    BY <1>2, BelowIs DEF Resolved, StopResolving
  <2> QED BY <2>1, BelowIs
<1>4. r = Now.resolving \ {Key(Last(Now.hooks))}
  BY <1>1, NowIs
<1> HIDE DEF r
<1>5. Sound(StateOf(Now.objs, Now.cache, r, Front(Now.hooks)))
  BY <1>1, <1>4, PopSound
<1> QED BY <1>2, <1>3, <1>5, NowIs DEF StateOf

LEMMA ResolveReturnsStep ==
  ASSUME ObjectsInv, NEW obj2 \in JSObjects \cup {NoProp}, ResolveReturns(obj2)
  PROVE  ObjectsInv'
<1> DEFINE found == obj2 # NoProp /\ objs[obj2].owns /\ objs[obj2].props[Hook.id] # NoProp
           st == IF found THEN Found(Resolved, Hook, obj2) ELSE LookFurther(Resolved, Hook)
<1>1. hooks # <<>> /\ Hook.phase = "resolve" /\ Go(st)
  BY DEF ResolveReturns, HookReturns
<1>2. Sound(Resolved) /\ Resolved.objs = objs /\ Asks(Hook)
  BY <1>1, ResolvedSound
<1>3. found => Sound(Found(Resolved, Hook, obj2))
  BY <1>2, FoundSound
<1>4. Sound(st)
  BY <1>2, <1>3, LookFurtherSound
<1> HIDE DEF st
<1>5. Now' = st
  BY <1>1, <1>4, Shape DEF Go, Now, StateOf, Sound
<1> QED BY <1>4, <1>5 DEF ObjectsInv

LEMMA ResolveFailsStep ==
  ASSUME ObjectsInv, ResolveFails
  PROVE  ObjectsInv'
<1>1. hooks # <<>> /\ Hook.phase = "resolve" /\ Go(Resolved)
  BY DEF ResolveFails, HookReturns
<1>2. Sound(Resolved)
  BY <1>1, ResolvedSound
<1>3. Now' = Resolved
  BY <1>1, <1>2, Shape DEF Go, Now, StateOf, Sound
<1> QED BY <1>2, <1>3 DEF ObjectsInv

(* The property a call waits with is one, whatever became of it. *)
LEMMA HookKnows ==
  ASSUME ObjectsInv, hooks # <<>>, Hook.phase \in {"getter", "setter", "add", "delete"}
  PROVE  Hook.sprop \in Props /\ Hook.sprop.id = Hook.id
BY HookIs DEF Waits, Calls

LEMMA StoreSound ==
  ASSUME NEW st, Sound(st), NEW o \in JSObjects, NEW p \in Props, HasValidSlot(st.objs[o], p)
  PROVE  Sound([st EXCEPT !.objs[o] = StoreFor(@, p)])
<1> DEFINE ob == StoreFor(st.objs[o], p)
<1>1. st.objs[o] \in Objects /\ SlotsSound(st.objs[o])
  BY DEF Sound, States
<1>2. p.kind \notin Slotless /\ p.slot < Len(st.objs[o].slots)
  BY <1>1, ValidSlot
<1>3. ob \in Objects /\ SlotsSound(ob) /\ ob.props = st.objs[o].props /\ ob.owns = st.objs[o].owns
  BY <1>1, <1>2, StoreForSound
<1>4. [st EXCEPT !.objs[o] = StoreFor(@, p)] = SlotOf(st, o, ob)
  BY DEF SlotOf
<1> HIDE DEF ob
<1> QED BY <1>3, <1>4, SlotOfSound

LEMMA GetterStep ==
  ASSUME ObjectsInv, NEW ok \in BOOLEAN, GetterReturns(ok)
  PROVE  ObjectsInv'
<1> DEFINE set == [Below EXCEPT !.objs[Hook.at] = StoreFor(@, Hook.sprop)]
           slotted == ok /\ HasValidSlot(objs[Hook.at], Hook.sprop)
           st == IF ~ok \/ ~HasValidSlot(objs[Hook.at], Hook.sprop) THEN Below
                 ELSE IF Hook.call = "get" THEN Told(set, Hook.at, Hook.sprop) ELSE set
<1>1. hooks # <<>> /\ Hook.phase = "getter" /\ Go(st)
  BY DEF GetterReturns, HookReturns
<1>2. Sound(Below) /\ Below.objs = objs /\ Hook.at \in JSObjects /\ Hook.sprop \in Props
  BY <1>1, BelowSound, HookIs, HookKnows DEF StateOf
<1>3. slotted => Sound(set)
  BY <1>2, StoreSound
<1>4. slotted => Sound(Told(set, Hook.at, Hook.sprop))
  <2> HIDE DEF set, slotted
  <2> QED BY <1>2, <1>3, ToldSound
<1>5. Sound(st)
  <2> HIDE DEF set
  <2> QED BY <1>2, <1>3, <1>4
<1> HIDE DEF st
<1>6. Now' = st
  BY <1>1, <1>5, Shape DEF Go, Now, StateOf, Sound
<1> QED BY <1>5, <1>6 DEF ObjectsInv

LEMMA SetterStep ==
  ASSUME ObjectsInv, NEW ok \in BOOLEAN, SetterReturns(ok)
  PROVE  ObjectsInv'
<1> DEFINE set == [Below EXCEPT !.objs[Hook.obj] = StoreFor(@, Hook.sprop)]
           slotted == ok /\ HasValidSlot(objs[Hook.obj], Hook.sprop)
           st == IF slotted THEN set ELSE Below
<1>1. hooks # <<>> /\ Hook.phase = "setter" /\ Go(st)
  BY DEF SetterReturns, HookReturns
<1>2. Sound(Below) /\ Below.objs = objs /\ Hook.obj \in JSObjects /\ Hook.sprop \in Props
  BY <1>1, BelowSound, HookIs, HookKnows DEF StateOf
<1>3. slotted => Sound(set)
  BY <1>2, StoreSound
<1> HIDE DEF set, slotted
<1>4. Sound(st)
  BY <1>2, <1>3
<1> HIDE DEF st
<1>5. Now' = st
  BY <1>1, <1>4, Shape DEF Go, Now, StateOf, Sound
<1> QED BY <1>4, <1>5 DEF ObjectsInv

LEMMA DeleteReturnsStep ==
  ASSUME ObjectsInv, NEW ok \in BOOLEAN, DeleteReturns(ok)
  PROVE  ObjectsInv'
<1> DEFINE st == IF ok THEN RemoveAndForget(Below, Hook.obj, Hook.id) ELSE Below
<1>1. hooks # <<>> /\ Hook.phase = "delete" /\ Go(st)
  BY DEF DeleteReturns, HookReturns
<1>2. Sound(Below)
  BY <1>1, BelowSound
<1>3. Sound(st)
  BY <1>1, <1>2, HookIs, RemoveAndForgetSound
<1> HIDE DEF st
<1>4. Now' = st
  BY <1>1, <1>3, Shape DEF Go, Now, StateOf, Sound
<1> QED BY <1>3, <1>4 DEF ObjectsInv

LEMMA WatchReturnsStep ==
  ASSUME ObjectsInv, WatchReturns
  PROVE  ObjectsInv'
<1> DEFINE r == resolving \ {Key(Hook)}
           st == [Below EXCEPT !.resolving = StopResolving(@, Hook.obj, Hook.id, "watch")]
<1>1. hooks # <<>> /\ Hook.phase = "watch" /\ Go(st)
  BY DEF WatchReturns, HookReturns
<1>2. Key(Hook) = <<Hook.obj, Hook.id, "watch">>
  BY <1>1, HookIs DEF Key, Waits
<1>3. st = StateOf(objs, cache, r, Front(hooks))
  <2>1. st = [Below EXCEPT !.resolving = r]
    BY <1>2, BelowIs DEF StopResolving
  <2> HIDE DEF st, r
  <2> QED BY <2>1, BelowIs
<1>4. Sound(Now) /\ Now.hooks # <<>> /\ Last(Now.hooks) = Hook /\ r = Now.resolving \ {Key(Last(Now.hooks))}
  BY <1>1, HookIs, NowIs DEF Hook
<1> HIDE DEF r, st
<1>5. Sound(StateOf(Now.objs, Now.cache, r, Front(Now.hooks)))
  BY <1>1, <1>4, PopSound
<1>6. Sound(st)
  BY <1>3, <1>5, NowIs
<1>7. Now' = st
  BY <1>1, <1>6, Shape DEF Go, Now, StateOf, Sound
<1> QED BY <1>6, <1>7 DEF ObjectsInv

(* Entries about the property that goes are stray, all others as they were. *)
LEMMA LeftStrayIs ==
  ASSUME NEW st, Sound(st), NEW o \in JSObjects, NEW id \in PropIds
  PROVE  LET c == LeftStray(st.cache, o, id) IN
         /\ c \in Caches /\ c.disabled = st.cache.disabled /\ c.empty = st.cache.empty
         /\ \A h \in Places : LET e == c.table[h]
                                  d == st.cache.table[h] IN
              \/ e = d /\ (d # NoEntry => d.obj # o \/ d.prop.id # id)
              \/ d # NoEntry /\ d.obj = o /\ d.prop.id = id /\ e.obj = d.obj /\ e.prop = d.prop /\ e.stray
<1> DEFINE c == LeftStray(st.cache, o, id)
           place == CacheHash[<<o, id>>]
           was == st.cache.table[place]
           now == [was EXCEPT !.stray = TRUE]
<1>1. st.cache \in Caches /\ CacheSound(st.cache, st.objs, st.hooks) /\ place \in Places
  BY NativeObjectsAssumption DEF Sound, States, Places
<1>2. CASE TestCache(st.cache, o, id) = NoProp
  <2>1. c = st.cache
    BY <1>2 DEF LeftStray
  <2>2. \A h \in Places : st.cache.table[h] # NoEntry =>
           st.cache.table[h].obj # o \/ st.cache.table[h].prop.id # id
    BY <1>2, CacheTells
  <2> HIDE DEF c
  <2> QED BY <1>1, <2>1, <2>2 DEF c
<1>3. CASE TestCache(st.cache, o, id) # NoProp
  <2>1. was \in Entries /\ was.obj = o /\ was.prop.id = id /\ was # NoEntry
    BY <1>1, <1>3, NativeObjectsAssumption DEF TestCache, Caches, NoEntry
  <2>2. now \in Entries /\ now.obj = o /\ now.prop = was.prop /\ now.stray
    BY <2>1 DEF Entries
  <2>3. c = [st.cache EXCEPT !.table = [st.cache.table EXCEPT ![place] = now]]
    BY <1>3 DEF LeftStray
  <2> HIDE DEF now
  <2>4. /\ c \in Caches /\ c.disabled = st.cache.disabled /\ c.empty = st.cache.empty
        /\ \A h \in Places : c.table[h] = IF h = place THEN now ELSE st.cache.table[h]
    <3> HIDE DEF c, place
    <3> QED BY <1>1, <2>2, <2>3 DEF Caches
  <2>5. ASSUME NEW h \in Places, st.cache.table[h] # NoEntry, h # place
        PROVE  st.cache.table[h].obj # o \/ st.cache.table[h].prop.id # id
    <3>1. EntrySound(st.objs, st.hooks, h, st.cache.table[h])
      BY <1>1, <2>5 DEF CacheSound
    <3> QED BY <2>5, <3>1 DEF EntrySound
  <2> HIDE DEF c
  <2>6. ASSUME NEW h \in Places
        PROVE  LET e == c.table[h]
                   d == st.cache.table[h] IN
              \/ e = d /\ (d # NoEntry => d.obj # o \/ d.prop.id # id)
              \/ d # NoEntry /\ d.obj = o /\ d.prop.id = id /\ e.obj = d.obj /\ e.prop = d.prop /\ e.stray
    <3>1. CASE h = place
      BY <2>1, <2>2, <2>4, <3>1
    <3>2. CASE h # place
      <4>1. c.table[h] = st.cache.table[h]
        BY <2>4, <3>2
      <4> QED BY <2>5, <3>2, <4>1
    <3> QED BY <3>1, <3>2
  <2> QED BY <2>4, <2>6 DEF c
<1> QED BY <1>2, <1>3

LEMMA AddFailsStep ==
  ASSUME ObjectsInv, AddFails
  PROVE  ObjectsInv'
<1> DEFINE o == Hook.obj
           id == Hook.id
           ob == RemoveScopeProperty(objs[o], id)
           os == [objs EXCEPT ![o] = ob]
           c == LeftStray(cache, o, id)
           st1 == StateOf(os, c, resolving, hooks)
           st == [Below EXCEPT !.objs[o] = RemoveScopeProperty(@, id), !.cache = LeftStray(@, o, id)]
<1>1. hooks # <<>> /\ Hook.phase = "add" /\ Go(st)
  BY DEF AddFails, HookReturns
<1>2. /\ Sound(Now) /\ o \in JSObjects /\ id \in PropIds /\ objs[o] \in Objects /\ SlotsSound(objs[o])
      /\ objs \in [JSObjects -> Objects] /\ CacheSound(cache, objs, hooks)
  BY <1>1, HookIs, NowIs DEF Sound, States
<1>3. st = StateOf(os, c, resolving, Front(hooks))
  <2>1. st = [Below EXCEPT !.objs = [Below.objs EXCEPT ![o] = RemoveScopeProperty(@, id)],
                           !.cache = LeftStray(Below.cache, o, id)]
    OBVIOUS
  <2>2. Below.objs = objs /\ Below.cache = cache
    BY BelowIs
  <2>3. st = [Below EXCEPT !.objs = os, !.cache = c]
    BY <2>1, <2>2
  <2> HIDE DEF st, os, c, o, id
  <2>4. Below = [objs |-> objs, cache |-> cache, resolving |-> resolving, hooks |-> Front(hooks)]
    BY BelowIs DEF StateOf
  <2> QED BY ONLY <2>3, <2>4 DEF StateOf
<1>4. /\ ob \in Objects /\ SlotsSound(ob) /\ ob.owns = objs[o].owns
      /\ ob.props = [objs[o].props EXCEPT ![id] = NoProp]
  BY <1>2, RemoveSound
<1>5. \A j \in PropIds : j # id => ob.props[j] = objs[o].props[j]
  BY <1>2, <1>4 DEF Objects
<1> HIDE DEF ob, st
<1>6. os[o] = ob
  BY <1>2
<1>7. /\ c \in Caches /\ c.disabled = cache.disabled /\ c.empty = cache.empty
      /\ \A h \in Places :
           \/ c.table[h] = cache.table[h]
                /\ (c.table[h] # NoEntry => c.table[h].obj # o \/ c.table[h].prop.id # id)
           \/ /\ cache.table[h] # NoEntry /\ cache.table[h].obj = o /\ cache.table[h].prop.id = id
              /\ c.table[h].obj = o /\ c.table[h].prop = cache.table[h].prop /\ c.table[h].stray
  <2> HIDE DEF o, id
  <2> QED BY <1>2, NowIs, LeftStrayIs
<1> HIDE DEF c, os, o, id
<1>8. ASSUME NEW h \in Places, c.table[h] # NoEntry
      PROVE  /\ ~c.empty /\ ~c.disabled
             /\ IF c.table[h].obj = o THEN EntrySound(os, hooks, h, c.table[h])
                ELSE c.table[h] = cache.table[h]
  <2>1. cache.table[h] # NoEntry
    BY <1>7, <1>8
  <2>2. EntrySound(objs, hooks, h, cache.table[h]) /\ ~cache.empty /\ ~cache.disabled
    BY <1>2, <2>1 DEF CacheSound
  <2>3. ASSUME c.table[h].obj = o PROVE EntrySound(os, hooks, h, c.table[h])
    <3>1. CASE c.table[h] = cache.table[h] /\ c.table[h].prop.id # id
      <4>1. c.table[h].prop.id \in PropIds
        BY <2>2, <3>1 DEF EntrySound, Props
      <4>2. ob.props[c.table[h].prop.id] = objs[o].props[c.table[h].prop.id]
        BY <1>5, <3>1, <4>1
      <4> QED BY <1>4, <1>6, <2>2, <2>3, <3>1, <4>2 DEF EntrySound
    <3>2. CASE /\ cache.table[h].obj = o /\ c.table[h].obj = o
               /\ c.table[h].prop = cache.table[h].prop /\ c.table[h].stray
      BY <2>2, <3>2 DEF EntrySound
    <3> QED BY <1>7, <1>8, <2>3, <3>1, <3>2
  <2> QED BY <1>7, <2>2, <2>3
<1>9. Sound(st1)
  <2>1. Sound(StateOf([Now.objs EXCEPT ![o] = ob], c, Now.resolving, Now.hooks))
    <3>1. /\ c.disabled = Now.cache.disabled
          /\ \A h \in Places : c.table[h] # NoEntry =>
               /\ ~c.empty /\ ~c.disabled
               /\ IF c.table[h].obj = o
                  THEN EntrySound([Now.objs EXCEPT ![o] = ob], Now.hooks, h, c.table[h])
                  ELSE c.table[h] = Now.cache.table[h]
      BY <1>7, <1>8, NowIs DEF os
    <3> QED BY ONLY <1>2, <1>4, <1>7, <3>1, ObjectStep
  <2> QED BY <2>1, NowIs DEF os
<1>10. st1.objs = os /\ st1.cache = c /\ st1.resolving = resolving /\ st1.hooks = hooks
  BY DEF StateOf
<1> HIDE DEF st1
<1>11. \A h \in Places : c.table[h] # NoEntry /\ c.table[h].obj = o /\ c.table[h].prop.id = id
                           => c.table[h].stray
  BY <1>7
<1>12. Last(hooks) = Hook /\ Last(hooks).obj = o /\ Last(hooks).id = id /\ Last(hooks).phase = "add"
  BY <1>1 DEF Hook, o, id
<1>13. Sound(StateOf(st1.objs, st1.cache, st1.resolving, Front(st1.hooks)))
  BY <1>1, <1>9, <1>10, <1>11, <1>12, PopSound
<1>14. Sound(st)
  BY <1>3, <1>10, <1>13
<1>15. Now' = st
  BY <1>1, <1>14, Shape DEF Go, Now, StateOf, Sound
<1> QED BY <1>14, <1>15 DEF ObjectsInv

Stray(os, o, sprop) == ~os[o].owns \/ os[o].props[sprop.id] # sprop

LEMMA ToldIs ==
  ASSUME NEW os, NEW c, NEW r, NEW hs, NEW o, NEW sprop
  PROVE  Told(StateOf(os, c, r, hs), o, sprop)
           = StateOf(os, FillCache(c, o, sprop.id, sprop, Stray(os, o, sprop)), r, hs)
<1> DEFINE st == StateOf(os, c, r, hs)
<1>1. st = [objs |-> os, cache |-> c, resolving |-> r, hooks |-> hs] /\ st.objs = os /\ st.cache = c
  BY DEF StateOf
<1>2. Told(st, o, sprop) =
        [st EXCEPT !.cache = FillCache(st.cache, o, sprop.id, sprop, Stray(st.objs, o, sprop))]
  BY DEF Told, Stray
<1> HIDE DEF st
<1>3. Told(st, o, sprop) = [st EXCEPT !.cache = FillCache(c, o, sprop.id, sprop, Stray(os, o, sprop))]
  BY <1>1, <1>2
<1>4. Told(st, o, sprop) = StateOf(os, FillCache(c, o, sprop.id, sprop, Stray(os, o, sprop)), r, hs)
  BY <1>1, <1>3 DEF StateOf
<1> QED BY <1>4 DEF st

LEMMA AddReturnsStep ==
  ASSUME ObjectsInv, AddReturns
  PROVE  ObjectsInv'
<1> DEFINE o == Hook.obj
           sprop == Hook.sprop
           first(u) == IF Hook.call = "set" THEN SetSlot(u, sprop.slot, Void) ELSE StoreFor(u, sprop)
           ob == IF HasValidSlot(objs[o], sprop) THEN first(objs[o]) ELSE objs[o]
           os == [objs EXCEPT ![o] = ob]
           st1 == StateOf(os, cache, resolving, hooks)
           st2 == Told(st1, o, sprop)
           slotted == IF ~HasValidSlot(objs[o], sprop) THEN Below
                      ELSE [Below EXCEPT !.objs[o] = first(@)]
           known == Told(slotted, o, sprop)
           st == IF Hook.call = "set" THEN StoreIn(known, Hook, sprop) ELSE known
<1>1. hooks # <<>> /\ Hook.phase = "add" /\ Go(st)
  BY DEF AddReturns, HookReturns
<1>2. /\ Sound(Now) /\ o \in JSObjects /\ objs[o] \in Objects /\ SlotsSound(objs[o])
      /\ objs \in [JSObjects -> Objects] /\ Asks(Hook) /\ sprop \in Props /\ sprop.id = Hook.id
  BY <1>1, HookIs, HookKnows, NowIs DEF Sound, States, Waits
<1>3. /\ ob \in Objects /\ SlotsSound(ob) /\ ob.props = objs[o].props /\ ob.owns = objs[o].owns
  <2>1. CASE HasValidSlot(objs[o], sprop) /\ Hook.call = "set"
    <3>1. PICK v : v = Void /\ Leaves(objs[o], sprop, v)
      BY DEF Leaves, Unclaimed
    <3>2. ob = SetSlot(objs[o], sprop.slot, v)
      BY <2>1, <3>1
    <3>3. sprop.kind \notin Slotless /\ sprop.slot < Len(objs[o].slots)
      BY <1>2, <2>1, ValidSlot
    <3>4. Leaves(objs[o], sprop, v)
      BY <3>1
    <3> HIDE DEF ob, o, sprop
    <3>5. LET u == SetSlot(objs[o], sprop.slot, v) IN
          u \in Objects /\ SlotsSound(u) /\ u.props = objs[o].props /\ u.owns = objs[o].owns
      BY ONLY <1>2, <3>3, <3>4, SetSlotSound
    <3> QED BY ONLY <3>2, <3>5
  <2>2. CASE HasValidSlot(objs[o], sprop) /\ Hook.call # "set"
    <3>1. ob = StoreFor(objs[o], sprop)
      BY <2>2
    <3>2. sprop.kind \notin Slotless /\ sprop.slot < Len(objs[o].slots)
      BY <1>2, <2>2, ValidSlot
    <3> HIDE DEF ob, o, sprop
    <3> QED BY <1>2, <3>1, <3>2, StoreForSound
  <2>3. CASE ~HasValidSlot(objs[o], sprop)
    BY <1>2, <2>3
  <2> QED BY <2>1, <2>2, <2>3
<1>4. slotted = StateOf(os, cache, resolving, Front(hooks))
  <2>1. CASE HasValidSlot(objs[o], sprop)
    <3>1. slotted = [Below EXCEPT !.objs = [objs EXCEPT ![o] = ob]]
      BY <2>1, BelowIs
    <3> HIDE DEF ob, slotted, o
    <3> QED BY <1>1, <3>1, HookIs DEF StateOf
  <2>2. CASE ~HasValidSlot(objs[o], sprop)
    <3>1. slotted = Below /\ ob = objs[o]
      BY <2>2
    <3> HIDE DEF ob, slotted, o
    <3>2. os = objs
      BY <1>2, <3>1
    <3> QED BY <1>1, <3>1, <3>2, HookIs
  <2> QED BY <2>1, <2>2
<1> HIDE DEF ob, slotted
<1>5. Sound(st1)
  <2>1. SlotOf(Now, o, ob) = st1
    <3>1. SlotOf(Now, o, ob) = [Now EXCEPT !.objs = [objs EXCEPT ![o] = ob]]
      BY NowIs DEF SlotOf
    <3> HIDE DEF o
    <3> QED BY <3>1, NowIs DEF StateOf
  <2>2. ob.props = Now.objs[o].props /\ ob.owns = Now.objs[o].owns
    BY <1>3, NowIs
  <2> HIDE DEF st1, o
  <2> QED BY <1>2, <1>3, <2>1, <2>2, SlotOfSound
<1>6. st1.objs = os /\ st1.cache = cache /\ st1.resolving = resolving /\ st1.hooks = hooks
  BY DEF StateOf
<1>7. known = StateOf(st2.objs, st2.cache, st2.resolving, Front(st2.hooks))
  <2> DEFINE filled == FillCache(cache, o, sprop.id, sprop, Stray(os, o, sprop))
  <2>1. known = StateOf(os, filled, resolving, Front(hooks)) /\ st2 = StateOf(os, filled, resolving, hooks)
    <3> HIDE DEF os, o, sprop
    <3> QED BY <1>4, ToldIs
  <2> HIDE DEF known, st2, filled, os
  <2> QED BY <2>1 DEF StateOf
<1>8. /\ Sound(st2) /\ st2.objs = os /\ st2.hooks = hooks
      /\ \A h \in Places : LET e == st2.cache.table[h] IN
            e # NoEntry /\ e.obj = o /\ e.prop.id = sprop.id => e.stray \/ os[o].props[e.prop.id] = e.prop
  <2> HIDE DEF os, st1, o, sprop
  <2> QED BY <1>2, <1>5, <1>6, ToldSound
<1>9. Last(st2.hooks) = Hook /\ st2.hooks # <<>>
  BY <1>1, <1>8 DEF Hook
<1>10. Sound(known)
  <2>1. \A h \in Places : LET e == st2.cache.table[h] IN
            e # NoEntry /\ e.obj = Last(st2.hooks).obj /\ e.prop.id = Last(st2.hooks).id
              => e.stray \/ st2.objs[e.obj].props[e.prop.id] = e.prop
    <3>1. Last(st2.hooks).obj = o /\ Last(st2.hooks).id = sprop.id /\ st2.objs = os
      BY <1>2, <1>8, <1>9
    <3> HIDE DEF st2, os, o, sprop
    <3> QED BY <1>8, <3>1
  <2>2. /\ Last(st2.hooks).phase = "add" /\ Last(st2.hooks).phase # "gc"
        /\ Last(st2.hooks).phase \notin {"resolve", "watch"}
    BY <1>1, <1>9
  <2> HIDE DEF os, st2, known
  <2>3. Sound(StateOf(st2.objs, st2.cache, st2.resolving, Front(st2.hooks)))
    BY <1>8, <1>9, <2>1, <2>2, PopSound
  <2> QED BY <1>7, <2>3
<1> HIDE DEF known
<1>11. Sound(StoreIn(known, Hook, sprop))
  BY <1>2, <1>10, StoreInSound
<1>12. Sound(st)
  BY <1>10, <1>11
<1> HIDE DEF st
<1>13. Now' = st
  BY <1>1, <1>12, Shape DEF Go, Now, StateOf, Sound
<1> QED BY <1>12, <1>13 DEF ObjectsInv

LEMMA EndSweepStep ==
  ASSUME ObjectsInv, EndSweep
  PROVE  ObjectsInv'
<1> DEFINE o == Hook.obj
           ob == IF o \in Mortal THEN FreshObject(o) ELSE objs[o]
           os == [objs EXCEPT ![o] = ob]
           c == [cache EXCEPT !.disabled = FALSE]
           hs == Front(hooks)
           st == [Below EXCEPT !.objs[o] = IF o \in Mortal THEN FreshObject(o) ELSE @,
                               !.cache.disabled = FALSE]
           st2 == StateOf(os, c, resolving, hs)
<1>1. hooks # <<>> /\ Hook.phase = "gc" /\ Go(st)
  BY DEF EndSweep, HookReturns
<1>2. /\ objs \in [JSObjects -> Objects] /\ cache \in Caches
      /\ resolving \in SUBSET Keys /\ hooks \in Seq(Calls)
      /\ \A u \in JSObjects : SlotsSound(objs[u])
      /\ \A i \in DOMAIN hooks : Waits(hooks[i])
      /\ CacheSound(cache, objs, hooks) /\ ResolvingSound(resolving, hooks) /\ o \in JSObjects
  BY <1>1, HookIs, NowIs DEF Sound, States
<1>3. st = st2
  <2>1. st = [Below EXCEPT !.objs = [objs EXCEPT ![o] = ob], !.cache = [Below.cache EXCEPT !.disabled = FALSE]]
    BY BelowIs
  <2> HIDE DEF ob, st, o
  <2>2. Below = StateOf(objs, cache, resolving, hs)
    BY <1>1, HookIs
  <2> QED BY <2>1, <2>2 DEF StateOf
<1>4. ob \in Objects /\ SlotsSound(ob)
  BY <1>2, FreshSound
<1> HIDE DEF ob, st
<1>5. os \in [JSObjects -> Objects] /\ \A u \in JSObjects : SlotsSound(os[u])
  BY <1>2, <1>4
<1>6. /\ hs \in Seq(Calls) /\ Len(hooks) \in Nat \ {0} /\ DOMAIN hooks = 1..Len(hooks)
      /\ DOMAIN hs = 1..Len(hooks) - 1 /\ \A i \in 1..Len(hooks) - 1 : hs[i] = hooks[i]
      /\ Last(hooks) = hooks[Len(hooks)] /\ Last(hooks).phase = "gc"
  BY <1>1, <1>2, Popped DEF Hook
<1>7. \A i \in DOMAIN hs : Waits(hs[i])
  BY <1>1, <1>2, WaitsPop
<1>8. ResolvingSound(resolving, hs)
  BY <1>1, <1>2, <1>6, ResolvingPop
<1> HIDE DEF hs, os
<1>9. c \in Caches /\ ~c.disabled /\ c.table = cache.table
  BY <1>2 DEF Caches
<1>10. cache.disabled /\ \A h \in Places : cache.table[h] = NoEntry
  BY <1>2, <1>6 DEF CacheSound
<1>11. \A i \in DOMAIN hs : hs[i].phase # "gc"
  <2>1. Len(hooks) \in DOMAIN hooks /\ hooks[Len(hooks)].phase = "gc"
    BY <1>6
  <2>2. \A i \in DOMAIN hs : i \in DOMAIN hooks /\ hooks[i] = hs[i] /\ i # Len(hooks)
    BY <1>6
  <2> QED BY <1>2, <2>1, <2>2 DEF CacheSound
<1> HIDE DEF c
<1>12. CacheSound(c, os, hs)
  BY <1>9, <1>10, <1>11 DEF CacheSound
<1>13. Sound(st2)
  BY <1>2, <1>5, <1>6, <1>7, <1>8, <1>9, <1>12, SoundOf
<1>14. Now' = st2
  BY <1>1, <1>3 DEF Go, Now, StateOf
<1> QED BY <1>13, <1>14 DEF ObjectsInv

LEMMA ObjectsInit == InitOfObjects => ObjectsInv
<1> SUFFICES ASSUME InitOfObjects PROVE ObjectsInv
  OBVIOUS
<1>1. objs \in [JSObjects -> Objects] /\ \A o \in JSObjects : SlotsSound(objs[o])
  BY FreshSound DEF InitOfObjects
<1>2. cache \in Caches /\ ~cache.disabled /\ \A h \in Places : cache.table[h] = NoEntry
  <2>1. NoEntry \in Entries
    BY DEF Entries, NoEntry
  <2> QED BY <2>1 DEF InitOfObjects, Places, Caches
<1>3. resolving = {} /\ hooks = <<>> /\ hooks \in Seq(Calls) /\ DOMAIN hooks = {}
  BY DEF InitOfObjects
<1>4. CacheSound(cache, objs, hooks)
  BY <1>2, <1>3 DEF CacheSound
<1>5. ResolvingSound(resolving, hooks)
  BY <1>3 DEF ResolvingSound
<1>6. Sound(StateOf(objs, cache, resolving, hooks))
  BY <1>1, <1>2, <1>3, <1>4, <1>5, SoundOf
<1> QED BY <1>6, NowIs DEF ObjectsInv

LEMMA ObjectsStep == ObjectsInv /\ [ObjectsNext]_objectVars => ObjectsInv'
<1> SUFFICES ASSUME ObjectsInv, [ObjectsNext]_objectVars PROVE ObjectsInv'
  OBVIOUS
<1>1. ASSUME NEW o \in JSObjects, NEW id \in PropIds,
             GetNative(o, id) \/ SetNative(o, id) \/ DeleteNative(o, id) \/ SetAttributes(o, id)
      PROVE  ObjectsInv'
  BY <1>1, GetStep, SetStep, DeleteStep, AttributesStep
<1>2. ASSUME NEW d \in PropOffers, DefineNative(d[1], d[2], d[3]) PROVE ObjectsInv'
  BY <1>2, DefineStep
<1>3. ASSUME NEW id \in PropIds, GetName(id) PROVE ObjectsInv'
  BY <1>3, NameStep
<1>4. ASSUME NEW o \in JSObjects, Clear(o) PROVE ObjectsInv'
  BY <1>4, ClearStep
<1>5. ASSUME NEW o \in Mortal, StartSweep(o) PROVE ObjectsInv'
  BY <1>5, StartSweepStep
<1>6. CASE RunWatchHandler
  BY <1>6, WatchStep
<1>7. CASE ResolveFails \/ AddFails \/ AddReturns \/ WatchReturns \/ EndSweep
  BY <1>7, ResolveFailsStep, AddFailsStep, AddReturnsStep, WatchReturnsStep, EndSweepStep
<1>8. ASSUME NEW obj2 \in JSObjects \cup {NoProp}, ResolveReturns(obj2) PROVE ObjectsInv'
  BY <1>8, ResolveReturnsStep
<1>9. ASSUME NEW ok \in BOOLEAN, GetterReturns(ok) \/ SetterReturns(ok) \/ DeleteReturns(ok) PROVE ObjectsInv'
  BY <1>9, GetterStep, SetterStep, DeleteReturnsStep
<1>10. CASE UNCHANGED objectVars
  <2>1. Now' = Now
    BY <1>10 DEF Now, objectVars
  <2> QED BY <2>1 DEF ObjectsInv
<1> QED BY <1>1, <1>2, <1>3, <1>4, <1>5, <1>6, <1>7, <1>8, <1>9, <1>10 DEF ObjectsNext

----------------------------------------------------------------------------
(* The invariant of objects, their slots, the cache and the resolving table. *)
THEOREM ObjectsInvariant == ObjectsSpec => []ObjectsInv
BY ObjectsInit, ObjectsStep, PTL DEF ObjectsSpec

(* What the property cache tells of an object (CACHED_GET, CACHED_SET,     *)
(* js_FindProperty) is what a lookup would find, whatever hooks did while  *)
(* a call waited; but for a property being defined again, and for entries  *)
(* that went stray because the property of a call that waited went before  *)
(* its hook returned.                                                      *)
THEOREM CacheCorrect == ObjectsSpec => []CacheExact
<1>1. ObjectsInv => CacheExact
  <2> SUFFICES ASSUME ObjectsInv, NEW h \in DOMAIN cache.table, cache.table[h] # NoEntry,
                      ~cache.table[h].stray
               PROVE  /\ objs[cache.table[h].obj].owns
                      /\ \/ objs[cache.table[h].obj].props[cache.table[h].prop.id] = cache.table[h].prop
                         \/ Redefined(hooks, cache.table[h].obj, cache.table[h].prop.id)
    BY DEF CacheExact, Redefined
  <2>1. CacheSound(cache, objs, hooks) /\ h \in Places
    BY NowIs DEF ObjectsInv, Sound, States, Caches
  <2> QED BY <2>1 DEF CacheSound, EntrySound
<1> QED BY <1>1, ObjectsInvariant, PTL

(* No two properties of an object share a slot, each slot in use is below  *)
(* freeslot and holds its own property's value, and what js_AllocSlot may  *)
(* give out is void; but for the value of a call whose property went       *)
(* before its hook returned, which any slot may hold.                      *)
THEOREM SlotsCorrect == ObjectsSpec => []SlotsExact
<1>1. ObjectsInv => SlotsExact
  <2> SUFFICES ASSUME ObjectsInv PROVE SlotsExact
    OBVIOUS
  <2>1. \A o \in JSObjects : SlotsSound(objs[o])
    BY NowIs DEF ObjectsInv, Sound
  <2>2. \A id : {Void, id} \cup Astray = {id} \cup Unclaimed
    BY DEF Unclaimed
  <2>3. {Void} \cup Astray = Unclaimed
    BY DEF Unclaimed
  <2> QED BY <2>1, <2>2, <2>3 DEF SlotsExact, SlotsSound
<1> QED BY <1>1, ObjectsInvariant, PTL

(* The resolving table holds exactly the lookups and watch handlers under  *)
(* way, each once.                                                         *)
THEOREM ResolvingCorrect == ObjectsSpec => []ResolvingExact
<1>1. ObjectsInv => ResolvingExact
  <2> SUFFICES ASSUME ObjectsInv PROVE ResolvingExact
    OBVIOUS
  <2>1. ResolvingSound(resolving, hooks)
    BY NowIs DEF ObjectsInv, Sound
  <2> QED BY <2>1 DEF ResolvingSound, ResolvingExact, Key
<1> QED BY <1>1, ObjectsInvariant, PTL
============================================================================
