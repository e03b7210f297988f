---------------------------- MODULE LocksProofs ----------------------------
(***************************************************************************)
(* Theorems about ThinLock, for any number of threads, locks of a bucket   *)
(* and fat locks, and about ScopeShare, for every set of contexts, objects *)
(* and scopes, and every way the scopes are owned and shared at the start. *)
(***************************************************************************)
EXTENDS ThinLockInv, ScopeShareInv, FiniteSetTheorems, TLAPS

(* Thin and fat locks. *)

----------------------------------------------------------------------------
(* The threads counted in a fat lock. *)
On(f) == {t \in Threads : Suspended(t) /\ fl[t] = f}

LEMMA OnFinite == \A f : IsFiniteSet(On(f)) /\ Cardinality(On(f)) \in Nat
<1> TAKE f
<1>1. On(f) \subseteq Threads
  BY DEF On
<1> QED BY <1>1, ThinLockAssumption, FS_Subset, FS_CardinalityType DEF ThinLockAssumption

(* A suspended thread is on the fat lock of the lock it waits for, which counts it. *)
LEMMA SuspendedOn ==
    ASSUME TypeOK, PlaceInv, FatInv, NEW t \in Threads, Suspended(t)
    PROVE  /\ at[t] \in Locks /\ fl[t] \in Fats /\ fl[t] = fat[at[t]]
           /\ fl[t] \in made \ free
           /\ t \in On(fl[t]) /\ susp[fl[t]] = Cardinality(On(fl[t])) /\ susp[fl[t]] > 0
<1>1. at[t] \in Locks /\ fl[t] \in Fats /\ fl[t] = fat[at[t]]
  BY DEF PlaceInv, FatInv, FatLocksExact, Suspended
<1>2. fl[t] # None
  BY <1>1, ThinLockAssumption DEF ThinLockAssumption
<1>3. susp[fl[t]] > 0 /\ fl[t] \in made \ free
  BY <1>1, <1>2 DEF FatInv, FatLocksExact
<1> QED BY <1>1, <1>3 DEF FatInv, FatLocksExact, On

(* A thread that waits to set a bit finds the word taken. *)
LEMMA SetWaitTaken ==
    ASSUME TypeOK, PlaceInv, WordInv, NEW t \in Threads, EnqueueSetWait(t)
    PROVE  at[t] \in Locks /\ owner[at[t]].who # None /\ global = t
<1>1. at[t] \in Locks /\ global = t
  BY DEF PlaceInv, EnqueueSetWait, InGlobal
<1>2. owner[at[t]] \in [who : Threads \cup {None}, wait : BOOLEAN] /\ owner[at[t]] # FreeWord
  BY <1>1 DEF EnqueueSetWait, TypeOK
<1>3. owner[at[t]].who = None => owner[at[t]].wait = FALSE
  BY <1>1, <1>2 DEF WordInv
<1> QED BY <1>1, <1>2, <1>3 DEF FreeWord

(* Every action keeps the types. *)
Words == [who : Threads \cup {None}, wait : BOOLEAN]

LEMMA WordTypes ==
    /\ FreeWord \in Words
    /\ \A t \in Threads, b \in BOOLEAN : [who |-> t, wait |-> b] \in Words
    /\ \A w \in Words : [w EXCEPT !.wait = TRUE] \in Words
BY DEF Words, FreeWord

(* The lock words that a step stores or reads are lock words. *)
LEMMA WordsStep ==
    ASSUME TypeOK, PlaceInv, [Next]_vars
    PROVE  owner' \in [Locks -> Words] /\ seen' \in [Threads -> Words]
<1> /\ owner \in [Locks -> Words] /\ seen \in [Threads -> Words]
    /\ meWait \in [Threads -> BOOLEAN]
  BY DEF TypeOK, Words
<1> HIDE DEF Words
<1>1. ASSUME NEW t \in Threads, NEW l \in Locks, LockFast(t, l) \/ LockContended(t, l)
      PROVE  owner' \in [Locks -> Words] /\ seen' \in [Threads -> Words]
  BY <1>1, WordTypes DEF LockFast, LockContended, wordVars
<1>2. ASSUME NEW t \in Threads, EnqueueRead(t) \/ EnqueueAgain(t)
      PROVE  owner' \in [Locks -> Words] /\ seen' \in [Threads -> Words]
  <2>1. pc[t] = "read" => owner[at[t]] \in Words
    BY DEF PlaceInv
  <2> QED BY <1>2, <2>1, WordTypes DEF EnqueueRead, EnqueueAgain
<1>3. ASSUME NEW t \in Threads, EnqueueSetWait(t)
      PROVE  owner' \in [Locks -> Words] /\ seen' \in [Threads -> Words]
  <2>1. owner' = [owner EXCEPT ![at[t]].wait = TRUE] /\ seen' = [seen EXCEPT ![t] = FreeWord]
    BY <1>3 DEF EnqueueSetWait
  <2>2. at[t] \in Locks => [owner[at[t]] EXCEPT !.wait = TRUE] \in Words
    BY WordTypes
  <2>3. owner' \in [Locks -> Words]
    BY <2>1, <2>2
  <2> QED BY <2>1, <2>3, WordTypes
<1>4. ASSUME NEW t \in Threads, EnqueueTake(t)
      PROVE  owner' \in [Locks -> Words] /\ seen' \in [Threads -> Words]
  <2>1. meWait[t] \in BOOLEAN
    OBVIOUS
  <2>2. [who |-> t, wait |-> meWait[t]] \in Words
    BY <2>1, WordTypes
  <2>3. /\ owner' = [owner EXCEPT ![at[t]] = [who |-> t, wait |-> meWait[t]]]
        /\ seen' = [seen EXCEPT ![t] = FreeWord]
    BY <1>4 DEF EnqueueTake, TakeIf
  <2> QED BY <2>2, <2>3, WordTypes
<1>5. ASSUME NEW t \in Threads, UnlockFast(t) \/ DequeueDrop(t)
      PROVE  owner' \in [Locks -> Words] /\ seen' \in [Threads -> Words]
  BY <1>5, WordTypes DEF UnlockFast, DequeueDrop
<1>6. ASSUME UNCHANGED <<owner, seen>>
      PROVE  owner' \in [Locks -> Words] /\ seen' \in [Threads -> Words]
  BY <1>6
<1>7. ASSUME NEW t \in Threads,
             \/ EnqueueGlobal(t) \/ SuspendLock(t) \/ Sleep(t) \/ SpuriousWakeup(t)
             \/ Wake(t) \/ Relock(t) \/ UnlockContended(t) \/ DequeueGlobal(t)
             \/ ResumeLock(t) \/ Notify(t)
      PROVE  UNCHANGED <<owner, seen>>
  BY <1>7 DEF EnqueueGlobal, SuspendLock, Sleep, SpuriousWakeup, Wake, Relock, RelockWith,
              UnlockContended, DequeueGlobal, ResumeLock, Notify, wordVars
<1>8. UNCHANGED vars => UNCHANGED <<owner, seen>>
  BY DEF vars, wordVars
<1> QED BY <1>1, <1>2, <1>3, <1>4, <1>5, <1>6, <1>7, <1>8 DEF Next, Step

(* The types of the other variables. *)
PlainTypes ==
    /\ fat \in [Locks -> Fats \cup {None}]
    /\ susp \in [Fats -> Nat]
    /\ made \subseteq Fats /\ free \subseteq made
    /\ global \in Threads \cup {None}
    /\ slock \in [Fats -> Threads \cup {None}]
    /\ pc \in [Threads -> Labels]
    /\ at \in [Threads -> Locks \cup {None}]
    /\ fl \in [Threads -> Fats \cup {None}]

LEMMA PlainStep ==
    ASSUME TypeOK, PlaceInv, FatInv, [Next]_vars PROVE PlainTypes'
<1> PlainTypes
  BY DEF TypeOK, PlainTypes
<1> USE DEF Labels, Go, PlainTypes, fatVars
<1>1. ASSUME NEW t \in Threads, NEW l \in Locks, LockFast(t, l) \/ LockContended(t, l)
      PROVE  PlainTypes'
  BY <1>1 DEF LockFast, LockContended
<1>2. ASSUME NEW t \in Threads,
             EnqueueGlobal(t) \/ EnqueueRead(t) \/ EnqueueAgain(t) \/ EnqueueTake(t)
      PROVE  PlainTypes'
  BY <1>2 DEF EnqueueGlobal, EnqueueRead, EnqueueAgain, EnqueueTake, TakeIf
<1>3. ASSUME NEW t \in Threads, EnqueueSetWait(t) PROVE PlainTypes'
  <2>1. at[t] \in Locks
    BY <1>3 DEF PlaceInv, EnqueueSetWait
  <2>2. UNCHANGED <<global, slock, at>> /\ pc' \in [Threads -> Labels]
    BY <1>3 DEF EnqueueSetWait
  <2>3. CASE fat[at[t]] = None
    <3>0. PICK list \in Lists : \E f \in list :
                /\ made' = made \cup list
                /\ free' = list \ {f}
                /\ fat' = [fat EXCEPT ![at[t]] = f]
                /\ susp' = [susp EXCEPT ![f] = 1]
                /\ fl' = [fl EXCEPT ![t] = f]
      BY <1>3, <2>3 DEF EnqueueSetWait
    <3>1. PICK f \in list :
                /\ made' = made \cup list
                /\ free' = list \ {f}
                /\ fat' = [fat EXCEPT ![at[t]] = f]
                /\ susp' = [susp EXCEPT ![f] = 1]
                /\ fl' = [fl EXCEPT ![t] = f]
      BY <3>0
    <3>2. list \subseteq Fats /\ f \in Fats
      BY <3>1 DEF Lists, Chunks
    <3>3. made' \subseteq Fats /\ free' \subseteq made'
      BY <3>1, <3>2
    <3>4. fat' \in [Locks -> Fats \cup {None}] /\ fl' \in [Threads -> Fats \cup {None}]
      BY <3>1, <3>2
    <3>5. susp' \in [Fats -> Nat]
      BY <3>1, <3>2
    <3> QED BY <2>2, <3>3, <3>4, <3>5
  <2>4. CASE fat[at[t]] # None
    <3>1. fat[at[t]] \in Fats
      BY <2>1, <2>4
    <3>2. /\ susp' = [susp EXCEPT ![fat[at[t]]] = @ + 1]
          /\ fl' = [fl EXCEPT ![t] = fat[at[t]]]
          /\ UNCHANGED <<made, free, fat>>
      BY <1>3, <2>4 DEF EnqueueSetWait
    <3> QED BY <2>2, <3>1, <3>2
  <2> QED BY <2>3, <2>4
<1>4. ASSUME NEW t \in Threads, SuspendLock(t) \/ Sleep(t) \/ SpuriousWakeup(t) \/ Wake(t)
      PROVE  PlainTypes'
  BY <1>4 DEF SuspendLock, Sleep, SpuriousWakeup, Wake
<1>5. ASSUME NEW t \in Threads, Relock(t) PROVE PlainTypes'
  <2>1. Suspended(t)
    BY <1>5 DEF Relock, RelockWith, Suspended
  <2>2. susp[fl[t]] > 0 /\ fl[t] \in Fats /\ fl[t] \in made
    BY <2>1, SuspendedOn
  <2>3. susp[fl[t]] - 1 \in Nat
    BY <2>2
  <2> QED BY <1>5, <2>2, <2>3 DEF Relock, RelockWith
<1>6. ASSUME NEW t \in Threads, UnlockFast(t) \/ UnlockContended(t) \/ DequeueGlobal(t)
      PROVE  PlainTypes'
  BY <1>6 DEF UnlockFast, UnlockContended, DequeueGlobal
<1>7. ASSUME NEW t \in Threads, DequeueDrop(t) PROVE PlainTypes'
  BY <1>7 DEF DequeueDrop, PlaceInv
<1>8. ASSUME NEW t \in Threads, ResumeLock(t) \/ Notify(t) PROVE PlainTypes'
  BY <1>8 DEF ResumeLock, Notify, Asleep
<1>9. CASE UNCHANGED vars
  BY <1>9 DEF vars
<1> QED BY <1>1, <1>2, <1>3, <1>4, <1>5, <1>6, <1>7, <1>8, <1>9 DEF Next, Step

(* The wait bits that threads keep to themselves. *)
LEMMA MeWaitStep ==
    ASSUME TypeOK, [Next]_vars PROVE meWait' \in [Threads -> BOOLEAN]
<1> meWait \in [Threads -> BOOLEAN]
  BY DEF TypeOK
<1>1. ASSUME NEW t \in Threads, EnqueueSetWait(t) \/ EnqueueTake(t)
      PROVE  meWait' \in [Threads -> BOOLEAN]
  BY <1>1 DEF EnqueueSetWait, EnqueueTake, TakeIf
<1>2. ASSUME NEW t \in Threads, Relock(t) PROVE meWait' \in [Threads -> BOOLEAN]
  <2>1. meWait' = [meWait EXCEPT ![t] = (~LastOne(t) /\ fat[at[t]] # None)]
    BY <1>2 DEF Relock, RelockWith
  <2>2. (~LastOne(t) /\ fat[at[t]] # None) \in BOOLEAN
    OBVIOUS
  <2> QED BY <2>1, <2>2
<1>3. ASSUME NEW t \in Threads,
             \/ \E l \in Locks : LockFast(t, l) \/ LockContended(t, l)
             \/ EnqueueGlobal(t) \/ EnqueueRead(t) \/ EnqueueAgain(t)
             \/ SuspendLock(t) \/ Sleep(t) \/ SpuriousWakeup(t) \/ Wake(t)
             \/ UnlockFast(t) \/ UnlockContended(t) \/ DequeueGlobal(t)
             \/ DequeueDrop(t) \/ ResumeLock(t) \/ Notify(t)
      PROVE  UNCHANGED meWait
  BY <1>3 DEF LockFast, LockContended, EnqueueGlobal, EnqueueRead, EnqueueAgain, SuspendLock, Sleep,
              SpuriousWakeup, Wake, UnlockFast, UnlockContended, DequeueGlobal, DequeueDrop,
              ResumeLock, Notify, wordVars
<1>4. UNCHANGED vars => UNCHANGED meWait
  BY DEF vars, wordVars
<1> QED BY <1>1, <1>2, <1>3, <1>4 DEF Next, Step

LEMMA TypeStep ==
    ASSUME TypeOK, PlaceInv, FatInv, [Next]_vars PROVE TypeOK'
BY WordsStep, PlainStep, MeWaitStep DEF TypeOK, Words, PlainTypes

(* Threads keep to their places. *)
LEMMA PlaceStep ==
    ASSUME TypeOK, PlaceInv, [Next]_vars PROVE PlaceInv'
<1> USE ThinLockAssumption DEF ThinLockAssumption, Go, PlaceInv, InGlobal
<1>1. ASSUME NEW t \in Threads, NEW l \in Locks, LockFast(t, l) \/ LockContended(t, l)
      PROVE  PlaceInv'
  BY <1>1 DEF LockFast, LockContended, TypeOK
<1>2. ASSUME NEW t \in Threads,
             EnqueueGlobal(t) \/ EnqueueRead(t) \/ EnqueueAgain(t) \/ EnqueueSetWait(t) \/ EnqueueTake(t)
      PROVE  PlaceInv'
  BY <1>2 DEF EnqueueGlobal, EnqueueRead, EnqueueAgain, EnqueueSetWait, EnqueueTake, TakeIf, TypeOK
<1>3. ASSUME NEW t \in Threads,
             SuspendLock(t) \/ Sleep(t) \/ SpuriousWakeup(t) \/ Wake(t) \/ Relock(t)
      PROVE  PlaceInv'
  BY <1>3 DEF SuspendLock, Sleep, SpuriousWakeup, Wake, Relock, RelockWith, TypeOK
<1>4. ASSUME NEW t \in Threads,
             UnlockFast(t) \/ UnlockContended(t) \/ DequeueGlobal(t) \/ DequeueDrop(t) \/ ResumeLock(t)
      PROVE  PlaceInv'
  BY <1>4 DEF UnlockFast, UnlockContended, DequeueGlobal, DequeueDrop, ResumeLock, TypeOK
<1>5. ASSUME NEW t \in Threads, Notify(t) PROVE PlaceInv'
  BY <1>5 DEF Notify, Asleep, TypeOK
<1>6. CASE UNCHANGED vars
  BY <1>6 DEF vars
<1> QED BY <1>1, <1>2, <1>3, <1>4, <1>5, <1>6 DEF Next, Step

(* The words say who is inside. *)
LEMMA WordStep ==
    ASSUME TypeOK, PlaceInv, WordInv, [Next]_vars PROVE WordInv'
<1> USE ThinLockAssumption DEF ThinLockAssumption, Go, FreeWord
<1> owner \in [Locks -> Words] /\ pc \in [Threads -> Labels] /\ at \in [Threads -> Locks \cup {None}]
  BY DEF TypeOK, Words
<1>0. \A t \in Threads : pc[t] # "idle" => at[t] \in Locks
  BY DEF PlaceInv
<1>1. ASSUME NEW t \in Threads, NEW l \in Locks, LockFast(t, l) PROVE WordInv'
  BY <1>1, <1>0 DEF LockFast, WordInv
<1>2. ASSUME NEW t \in Threads, EnqueueSetWait(t) PROVE WordInv'
  <2>1. at[t] \in Locks /\ owner[at[t]].who # None
    BY <1>2, SetWaitTaken
  <2>2. owner' = [owner EXCEPT ![at[t]].wait = TRUE] /\ at' = at /\ pc' = [pc EXCEPT ![t] = "suspend"]
    BY <1>2 DEF EnqueueSetWait
  <2>3. \A l \in Locks : owner'[l].who = owner[l].who /\ (owner[l].wait => owner'[l].wait)
    BY <2>1, <2>2 DEF Words
  <2>4. \A l \in Locks : owner'[l].wait => owner[l].wait \/ l = at[t]
    BY <2>1, <2>2 DEF Words
  <2> QED BY <2>1, <2>2, <2>3, <2>4, <1>0 DEF WordInv
<1>3. ASSUME NEW t \in Threads, EnqueueTake(t) PROVE WordInv'
  <2>1. /\ at[t] \in Locks /\ owner[at[t]].who = None
        /\ owner' = [owner EXCEPT ![at[t]] = [who |-> t, wait |-> meWait[t]]]
        /\ at' = at /\ pc' = [pc EXCEPT ![t] = "held"]
    BY <1>3, <1>0 DEF EnqueueTake, TakeIf
  <2> QED BY <2>1, <1>0 DEF WordInv
<1>4. ASSUME NEW t \in Threads, UnlockFast(t) PROVE WordInv'
  BY <1>4, <1>0 DEF UnlockFast, WordInv
<1>5. ASSUME NEW t \in Threads, UnlockContended(t) \/ DequeueGlobal(t) PROVE WordInv'
  BY <1>5, <1>0 DEF UnlockContended, DequeueGlobal, WordInv, wordVars
<1>6. ASSUME NEW t \in Threads, DequeueDrop(t) PROVE WordInv'
  BY <1>6, <1>0 DEF DequeueDrop, WordInv
<1>7. ASSUME NEW t \in Threads,
             \/ \E l \in Locks : LockContended(t, l)
             \/ EnqueueGlobal(t) \/ EnqueueRead(t) \/ EnqueueAgain(t)
      PROVE  WordInv'
  BY <1>7, <1>0 DEF LockContended, EnqueueGlobal, EnqueueRead, EnqueueAgain, WordInv, wordVars
<1>8. ASSUME NEW t \in Threads,
             SuspendLock(t) \/ Sleep(t) \/ SpuriousWakeup(t) \/ Wake(t) \/ Relock(t) \/ ResumeLock(t)
      PROVE  WordInv'
  BY <1>8, <1>0 DEF SuspendLock, Sleep, SpuriousWakeup, Wake, Relock, RelockWith, ResumeLock,
                    WordInv, wordVars
<1>9. ASSUME NEW t \in Threads, Notify(t) PROVE WordInv'
  BY <1>9, <1>0 DEF Notify, Asleep, WordInv, wordVars
<1>10. CASE UNCHANGED vars
  BY <1>10 DEF vars, wordVars, WordInv
<1> QED BY <1>1, <1>2, <1>3, <1>4, <1>5, <1>6, <1>7, <1>8, <1>9, <1>10 DEF Next, Step

(* The wait bits without a fat lock. *)
LEMMA WaitStep ==
    ASSUME TypeOK, PlaceInv, WordInv, WaitInv, [Next]_vars PROVE WaitInv'
<1> USE ThinLockAssumption DEF ThinLockAssumption, Go, FreeWord
<1> owner \in [Locks -> Words] /\ pc \in [Threads -> Labels] /\ at \in [Threads -> Locks \cup {None}]
    /\ meWait \in [Threads -> BOOLEAN] /\ fat \in [Locks -> Fats \cup {None}]
  BY DEF TypeOK, Words
<1>0. \A t \in Threads : pc[t] # "idle" => at[t] \in Locks
  BY DEF PlaceInv
<1>1. ASSUME NEW t \in Threads, NEW l \in Locks, LockFast(t, l) \/ LockContended(t, l) PROVE WaitInv'
  BY <1>1, <1>0 DEF LockFast, LockContended, WaitInv, wordVars, fatVars
<1>2. ASSUME NEW t \in Threads, EnqueueGlobal(t) \/ EnqueueRead(t) \/ EnqueueAgain(t) PROVE WaitInv'
  BY <1>2, <1>0 DEF EnqueueGlobal, EnqueueRead, EnqueueAgain, WaitInv, wordVars, fatVars
<1>3. ASSUME NEW t \in Threads, EnqueueSetWait(t) PROVE WaitInv'
  <2>1. /\ at[t] \in Locks /\ at' = at /\ pc' = [pc EXCEPT ![t] = "suspend"]
        /\ meWait' = [meWait EXCEPT ![t] = FALSE]
    BY <1>3, <1>0 DEF EnqueueSetWait
  <2>2. fat'[at[t]] # None /\ \A l \in Locks \ {at[t]} : fat'[l] = fat[l]
    BY <1>3, <2>1 DEF EnqueueSetWait, Lists, Chunks, TypeOK
  <2>3. \A l \in Locks \ {at[t]} : owner'[l] = owner[l]
    BY <1>3, <2>1 DEF EnqueueSetWait
  <2> QED BY <2>1, <2>2, <2>3, <1>0 DEF WaitInv
<1>4. ASSUME NEW t \in Threads, EnqueueTake(t) PROVE WaitInv'
  <2>1. /\ at[t] \in Locks /\ owner' = [owner EXCEPT ![at[t]] = [who |-> t, wait |-> meWait[t]]]
        /\ at' = at /\ pc' = [pc EXCEPT ![t] = "held"] /\ fat' = fat
        /\ meWait' = [meWait EXCEPT ![t] = FALSE]
    BY <1>4, <1>0 DEF EnqueueTake, TakeIf, fatVars
  <2>2. meWait[t] => fat[at[t]] # None
    BY DEF WaitInv
  <2>3. owner'[at[t]].wait = meWait[t] /\ \A l \in Locks \ {at[t]} : owner'[l] = owner[l]
    BY <2>1
  <2> QED BY <2>1, <2>2, <2>3, <1>0 DEF WaitInv
<1>5. ASSUME NEW t \in Threads, SuspendLock(t) \/ Sleep(t) \/ SpuriousWakeup(t) \/ Wake(t) PROVE WaitInv'
  BY <1>5, <1>0 DEF SuspendLock, Sleep, SpuriousWakeup, Wake, WaitInv, wordVars, fatVars
<1>6. ASSUME NEW t \in Threads, Relock(t) PROVE WaitInv'
  <2>1. /\ at[t] \in Locks /\ at' = at /\ pc' = [pc EXCEPT ![t] = "read"] /\ owner' = owner
        /\ pc[t] = "relock" /\ global = None
        /\ meWait' = [meWait EXCEPT ![t] = ~LastOne(t) /\ fat[at[t]] # None]
        /\ fat' = IF LastOne(t) THEN [fat EXCEPT ![at[t]] = None] ELSE fat
    BY <1>6, <1>0 DEF Relock, RelockWith
  <2>2. \A u \in Threads : pc[u] \notin {"read", "swap"}
    BY <2>1 DEF PlaceInv, InGlobal
  <2>3. \A u \in Threads : ~meWait[u]
    BY <2>2 DEF WaitInv
  <2>4. meWait'[t] => fat'[at[t]] # None
    BY <2>1
  <2>5. \A u \in Threads \ {t} : ~meWait'[u]
    BY <2>1, <2>3
  <2>6. \A l \in Locks : owner[l].wait /\ fat'[l] = None => l = at[t]
    BY <2>1, <2>2 DEF WaitInv
  <2> QED BY <2>1, <2>4, <2>5, <2>6 DEF WaitInv
<1>7. ASSUME NEW t \in Threads,
             UnlockFast(t) \/ UnlockContended(t) \/ DequeueGlobal(t) \/ DequeueDrop(t)
      PROVE  WaitInv'
  BY <1>7, <1>0 DEF UnlockFast, UnlockContended, DequeueGlobal, DequeueDrop, WaitInv, wordVars, fatVars
<1>8. ASSUME NEW t \in Threads, ResumeLock(t) \/ Notify(t) PROVE WaitInv'
  BY <1>8, <1>0 DEF ResumeLock, Notify, Asleep, WaitInv, wordVars, fatVars
<1>9. CASE UNCHANGED vars
  BY <1>9 DEF vars, wordVars, fatVars, WaitInv
<1> QED BY <1>1, <1>2, <1>3, <1>4, <1>5, <1>6, <1>7, <1>8, <1>9 DEF Next, Step

(* A step that moves no thread into or out of js_SuspendThread leaves the fat locks. *)
LEMMA FatStable ==
    ASSUME FatInv, UNCHANGED fatVars,
           \A u \in Threads : Suspended(u)' <=> Suspended(u),
           \A u \in Threads : Suspended(u) => fl'[u] = fl[u] /\ at'[u] = at[u]
    PROVE  FatInv'
<1>1. \A f \in Fats : On(f)' = On(f)
  BY DEF On
<1>2. \A f \in Fats : susp'[f] = Cardinality(On(f)')
  BY <1>1 DEF FatInv, FatLocksExact, On, fatVars
<1>3. \A u \in Threads : Suspended(u)' => fat'[at'[u]] = fl'[u] /\ fl'[u] \in Fats
  BY DEF FatInv, FatLocksExact, fatVars
<1>4. /\ \A f \in Fats : (f \in made' \ free') <=> (\E l \in Locks : fat'[l] = f)
      /\ \A k, l \in Locks : fat'[k] = fat'[l] /\ fat'[k] # None => k = l
      /\ \A l \in Locks : fat'[l] # None => susp'[fat'[l]] > 0
  BY DEF FatInv, FatLocksExact, fatVars
<1> QED BY <1>2, <1>3, <1>4 DEF FatInv, FatLocksExact, On

(* What GetFatlock hands out was used by no lock. *)
LEMMA NewFat ==
    ASSUME TypeOK, NEW list \in Lists, NEW f \in list
    PROVE  /\ f \in Fats /\ f \notin made \ free
           /\ (made \cup list) \ (list \ {f}) = (made \ free) \cup {f}
<1>1. CASE free = {}
  BY <1>1 DEF Lists, Chunks, TypeOK
<1>2. CASE free # {}
  BY <1>2 DEF Lists, TypeOK
<1> QED BY <1>1, <1>2

(* The first thread to wait for a lock gets it a fat lock of its own. *)
LEMMA FirstWaiter ==
    ASSUME TypeOK, PlaceInv, FatInv, NEW t \in Threads, EnqueueSetWait(t), fat[at[t]] = None
    PROVE  FatInv'
<1> USE ThinLockAssumption DEF ThinLockAssumption
<1>0. at[t] \in Locks /\ ~Suspended(t) /\ at' = at /\ pc' = [pc EXCEPT ![t] = "suspend"]
  BY DEF EnqueueSetWait, PlaceInv, Suspended, Go
<1>1. PICK list \in Lists : \E f \in list :
            /\ made' = made \cup list
            /\ free' = list \ {f}
            /\ fat' = [fat EXCEPT ![at[t]] = f]
            /\ susp' = [susp EXCEPT ![f] = 1]
            /\ fl' = [fl EXCEPT ![t] = f]
  BY DEF EnqueueSetWait
<1>2. PICK f \in list :
            /\ made' = made \cup list
            /\ free' = list \ {f}
            /\ fat' = [fat EXCEPT ![at[t]] = f]
            /\ susp' = [susp EXCEPT ![f] = 1]
            /\ fl' = [fl EXCEPT ![t] = f]
  BY <1>1
<1>3. f \in Fats /\ f \notin made \ free /\ made' \ free' = (made \ free) \cup {f}
  BY <1>2, NewFat
<1>4. \A l \in Locks : fat[l] # f
  BY <1>3 DEF FatInv, FatLocksExact
<1>5. \A u \in Threads \ {t} : Suspended(u)' <=> Suspended(u)
  BY <1>0 DEF Suspended, TypeOK
<1>6. \A u \in Threads : Suspended(u) => at[u] \in Locks \ {at[t]} /\ fl[u] # f /\ fl[u] = fat[at[u]] /\ u # t
  BY <1>0, <1>4, SuspendedOn
<1>7. Suspended(t)' /\ fl'[t] = f /\ \A u \in Threads \ {t} : fl'[u] = fl[u]
  BY <1>0, <1>2 DEF Suspended, TypeOK
<1>8. On(f)' = {t} /\ \A g \in Fats \ {f} : On(g)' = On(g)
  BY <1>5, <1>6, <1>7 DEF On
<1>9. Cardinality({t}) = 1
  BY FS_Singleton
<1>10. \A g \in Fats : susp'[g] = Cardinality(On(g)')
  <2>1. \A g \in Fats : susp[g] = Cardinality(On(g))
    BY DEF FatInv, FatLocksExact, On
  <2>2. susp'[f] = 1 /\ \A g \in Fats \ {f} : susp'[g] = susp[g]
    BY <1>2, <1>3 DEF TypeOK
  <2> QED BY <2>1, <2>2, <1>8, <1>9
<1>11. \A u \in Threads : Suspended(u)' => fat'[at'[u]] = fl'[u] /\ fl'[u] \in Fats
  BY <1>0, <1>2, <1>3, <1>5, <1>6, <1>7 DEF TypeOK, FatInv, FatLocksExact
<1>12. fat'[at[t]] = f /\ \A l \in Locks \ {at[t]} : fat'[l] = fat[l]
  BY <1>0, <1>2 DEF TypeOK
<1>13. /\ \A g \in Fats : (g \in made' \ free') <=> (\E l \in Locks : fat'[l] = g)
       /\ \A k, l \in Locks : fat'[k] = fat'[l] /\ fat'[k] # None => k = l
  BY <1>0, <1>3, <1>4, <1>12 DEF FatInv, FatLocksExact
<1>14. \A l \in Locks : fat'[l] # None => susp'[fat'[l]] > 0
  <2>1. susp'[f] = 1 /\ \A g \in Fats \ {f} : susp'[g] = susp[g]
    BY <1>2, <1>3 DEF TypeOK
  <2>2. \A l \in Locks \ {at[t]} : fat[l] # None => fat[l] \in Fats \ {f} /\ susp[fat[l]] > 0
    BY <1>4 DEF TypeOK, FatInv
  <2> QED BY <2>1, <2>2, <1>0, <1>12
<1> QED BY <1>10, <1>11, <1>13, <1>14 DEF FatInv, FatLocksExact, On

(* The next ones are counted in the same fat lock. *)
LEMMA NextWaiter ==
    ASSUME TypeOK, PlaceInv, FatInv, NEW t \in Threads, EnqueueSetWait(t), fat[at[t]] # None
    PROVE  FatInv'
<1>0. at[t] \in Locks /\ ~Suspended(t) /\ at' = at /\ pc' = [pc EXCEPT ![t] = "suspend"]
  BY DEF EnqueueSetWait, PlaceInv, Suspended, Go
<1>2. PICK f \in Fats : f = fat[at[t]]
  BY <1>0 DEF TypeOK
<1>1. /\ susp' = [susp EXCEPT ![f] = @ + 1] /\ fl' = [fl EXCEPT ![t] = f]
      /\ UNCHANGED <<made, free, fat>>
  BY <1>2 DEF EnqueueSetWait
<1>3. \A u \in Threads \ {t} : (Suspended(u)' <=> Suspended(u)) /\ fl'[u] = fl[u]
  BY <1>0, <1>1 DEF Suspended, TypeOK
<1>4. Suspended(t)' /\ fl'[t] = f
  BY <1>0, <1>1 DEF Suspended, TypeOK
<1>5. On(f)' = On(f) \cup {t} /\ t \notin On(f) /\ \A g \in Fats \ {f} : On(g)' = On(g)
  BY <1>0, <1>3, <1>4 DEF On
<1>6. Cardinality(On(f) \cup {t}) = Cardinality(On(f)) + 1
  BY <1>5, OnFinite, FS_AddElement
<1>7. \A g \in Fats : susp[g] = Cardinality(On(g)) /\ susp[g] \in Nat
  BY DEF FatInv, FatLocksExact, On, TypeOK
<1>8. susp'[f] = susp[f] + 1 /\ \A g \in Fats \ {f} : susp'[g] = susp[g]
  BY <1>1, <1>2 DEF TypeOK
<1>9. \A g \in Fats : susp'[g] = Cardinality(On(g)')
  BY <1>2, <1>5, <1>6, <1>7, <1>8
<1>10. \A u \in Threads : Suspended(u)' => fat'[at'[u]] = fl'[u] /\ fl'[u] \in Fats
  BY <1>0, <1>1, <1>2, <1>3, <1>4 DEF FatInv, FatLocksExact
<1>11. \A l \in Locks : fat'[l] # None => susp'[fat'[l]] > 0
  <2>1. \A g \in Fats : susp[g] > 0 => susp'[g] > 0
    BY <1>7, <1>8
  <2> QED BY <2>1, <1>1 DEF FatInv, TypeOK
<1> QED BY <1>1, <1>9, <1>10, <1>11 DEF FatInv, FatLocksExact, On

(* A thread that wakes is no longer counted. *)
LEMMA RelockCount ==
    ASSUME TypeOK, PlaceInv, FatInv, NEW t \in Threads, Relock(t), NEW f, f = fl[t]
    PROVE  /\ Suspended(t) /\ at[t] \in Locks /\ f \in Fats /\ f = fat[at[t]] /\ f \in made \ free
           /\ at' = at /\ made' = made /\ ~Suspended(t)'
           /\ \A u \in Threads \ {t} : (Suspended(u)' <=> Suspended(u)) /\ fl'[u] = fl[u]
           /\ On(f)' = On(f) \ {t}
           /\ \A g \in Fats \ {f} : On(g)' = On(g) /\ susp'[g] = susp[g]
           /\ susp[f] \in Nat \ {0} /\ susp'[f] = susp[f] - 1 /\ susp'[f] = Cardinality(On(f)')
<1>1. /\ pc[t] = "relock" /\ pc' = [pc EXCEPT ![t] = "read"] /\ at' = at /\ made' = made
      /\ susp' = [susp EXCEPT ![f] = @ - 1] /\ fl' = [fl EXCEPT ![t] = None]
  BY DEF Relock, RelockWith, Go
<1>2. Suspended(t) /\ ~Suspended(t)'
  BY <1>1 DEF Suspended, TypeOK
<1>3. /\ at[t] \in Locks /\ f \in Fats /\ f = fat[at[t]] /\ f \in made \ free
      /\ t \in On(f) /\ susp[f] = Cardinality(On(f)) /\ susp[f] > 0
  BY <1>2, SuspendedOn
<1>4. \A u \in Threads \ {t} : (Suspended(u)' <=> Suspended(u)) /\ fl'[u] = fl[u]
  BY <1>1 DEF Suspended, TypeOK
<1>5. On(f)' = On(f) \ {t} /\ \A g \in Fats \ {f} : On(g)' = On(g)
  BY <1>2, <1>4 DEF On
<1>6. susp'[f] = susp[f] - 1 /\ susp[f] \in Nat \ {0} /\ \A g \in Fats \ {f} : susp'[g] = susp[g]
  BY <1>1, <1>3 DEF TypeOK
<1>7. Cardinality(On(f) \ {t}) = Cardinality(On(f)) - 1
  BY <1>3, OnFinite, FS_RemoveElement
<1> QED BY <1>1, <1>2, <1>3, <1>4, <1>5, <1>6, <1>7

(* While others are counted in the fat lock it stays with its thin lock. *)
LEMMA RelockNotLast ==
    ASSUME TypeOK, PlaceInv, FatInv, NEW t \in Threads, Relock(t), ~LastOne(t)
    PROVE  FatInv'
<1>1. PICK f : f = fl[t]
  OBVIOUS
<1>2. UNCHANGED <<fat, made, free>> /\ susp[f] # 1
  BY <1>1 DEF Relock, RelockWith, LastOne
<1>3. \A g \in Fats : susp[g] = Cardinality(On(g)) /\ susp[g] \in Nat
  BY DEF FatInv, FatLocksExact, On, TypeOK
<1>4. \A g \in Fats : susp'[g] = Cardinality(On(g)')
  BY <1>1, <1>3, RelockCount
<1>5. \A g \in Fats : susp[g] > 0 => susp'[g] > 0
  BY <1>1, <1>2, RelockCount
<1>6. \A l \in Locks : fat'[l] # None => susp'[fat'[l]] > 0
  BY <1>2, <1>5 DEF FatInv, TypeOK
<1>7. \A u \in Threads : Suspended(u)' => fat'[at'[u]] = fl'[u] /\ fl'[u] \in Fats
  <2>1. ASSUME NEW u \in Threads, Suspended(u)'
        PROVE  Suspended(u) /\ fl'[u] = fl[u] /\ at' = at
    BY <1>1, <2>1, RelockCount
  <2> QED BY <2>1, <1>2 DEF FatInv, FatLocksExact
<1> QED BY <1>2, <1>4, <1>6, <1>7 DEF FatInv, FatLocksExact, On

(* The last thread gives it back, and no thread is on it any more. *)
LEMMA RelockLast ==
    ASSUME TypeOK, PlaceInv, FatInv, NEW t \in Threads, Relock(t), LastOne(t)
    PROVE  FatInv'
<1> USE ThinLockAssumption DEF ThinLockAssumption
<1>1. PICK f : f = fl[t]
  OBVIOUS
<1>2. fat' = [fat EXCEPT ![at[t]] = None] /\ free' = free \cup {f} /\ susp[f] = 1
  BY <1>1 DEF Relock, RelockWith, LastOne
<1>3. /\ Suspended(t) /\ at[t] \in Locks /\ f \in Fats /\ f = fat[at[t]] /\ f \in made \ free
      /\ at' = at /\ made' = made /\ ~Suspended(t)'
      /\ \A u \in Threads \ {t} : (Suspended(u)' <=> Suspended(u)) /\ fl'[u] = fl[u]
      /\ On(f)' = On(f) \ {t}
      /\ \A g \in Fats \ {f} : On(g)' = On(g) /\ susp'[g] = susp[g]
  BY <1>1, RelockCount
<1>4. susp'[f] = Cardinality(On(f)') /\ susp'[f] = 0
  BY <1>1, <1>2, RelockCount
<1>5. On(f) \ {t} = {}
  <2>1. IsFiniteSet(On(f) \ {t}) /\ Cardinality(On(f) \ {t}) = 0
    BY <1>3, <1>4, OnFinite, FS_Subset
  <2> QED BY <2>1, FS_EmptySet
<1>6. \A g \in Fats : susp[g] = Cardinality(On(g))
  BY DEF FatInv, FatLocksExact, On
<1>7. \A g \in Fats : susp'[g] = Cardinality(On(g)')
  BY <1>3, <1>4, <1>6
<1>8. \A k, l \in Locks : fat[k] = fat[l] /\ fat[k] # None => k = l
  BY DEF FatInv, FatLocksExact
<1>9. fat'[at[t]] = None /\ \A l \in Locks \ {at[t]} : fat'[l] = fat[l] /\ fat[l] # f
  BY <1>2, <1>3, <1>8 DEF TypeOK
<1>10. \A l \in Locks : fat'[l] # None => susp'[fat'[l]] > 0
  <2>1. \A l \in Locks \ {at[t]} : fat[l] # None => fat[l] \in Fats \ {f} /\ susp[fat[l]] > 0
    BY <1>9 DEF FatInv, TypeOK
  <2> QED BY <2>1, <1>3, <1>9
<1>11. \A u \in Threads : Suspended(u)' => fat'[at'[u]] = fl'[u] /\ fl'[u] \in Fats
  <2>1. ASSUME NEW u \in Threads, Suspended(u)' PROVE fat'[at'[u]] = fl'[u] /\ fl'[u] \in Fats
    <3>1. u # t /\ Suspended(u) /\ fl'[u] = fl[u] /\ at'[u] = at[u]
      BY <2>1, <1>3
    <3>2. fl[u] = fat[at[u]] /\ fl[u] \in Fats /\ at[u] \in Locks
      BY <3>1, SuspendedOn
    <3>3. fl[u] # f
      BY <3>1, <1>5 DEF On
    <3>4. at[u] # at[t]
      BY <3>2, <3>3, <1>3
    <3> QED BY <3>1, <3>2, <3>4, <1>9
  <2> QED BY <2>1
<1>12. made' \ free' = (made \ free) \ {f}
  BY <1>2, <1>3
<1>13. \A g \in Fats : (g \in made \ free) <=> (\E l \in Locks : fat[l] = g)
  BY DEF FatInv, FatLocksExact
<1>14. /\ \A g \in Fats : (g \in made' \ free') <=> (\E l \in Locks : fat'[l] = g)
       /\ \A k, l \in Locks : fat'[k] = fat'[l] /\ fat'[k] # None => k = l
  BY <1>3, <1>8, <1>9, <1>12, <1>13
<1> QED BY <1>7, <1>10, <1>11, <1>14 DEF FatInv, FatLocksExact, On

(* The fat locks stay exact. *)
LEMMA FatStep ==
    ASSUME TypeOK, PlaceInv, FatInv, [Next]_vars PROVE FatInv'
<1> USE DEF Go
<1> pc \in [Threads -> Labels] /\ at \in [Threads -> Locks \cup {None}] /\ fl \in [Threads -> Fats \cup {None}]
  BY DEF TypeOK
<1>1. ASSUME NEW t \in Threads,
             \/ \E l \in Locks : LockFast(t, l) \/ LockContended(t, l)
             \/ EnqueueGlobal(t) \/ EnqueueRead(t) \/ EnqueueAgain(t) \/ EnqueueTake(t)
      PROVE  FatInv'
  <2>1. UNCHANGED fatVars
    BY <1>1 DEF LockFast, LockContended, EnqueueGlobal, EnqueueRead, EnqueueAgain, EnqueueTake, TakeIf
  <2>2. /\ \A u \in Threads : Suspended(u)' <=> Suspended(u)
        /\ \A u \in Threads : Suspended(u) => fl'[u] = fl[u] /\ at'[u] = at[u]
    BY <1>1 DEF LockFast, LockContended, EnqueueGlobal, EnqueueRead, EnqueueAgain, EnqueueTake, TakeIf,
                Suspended
  <2> QED BY <2>1, <2>2, FatStable
<1>2. ASSUME NEW t \in Threads, EnqueueSetWait(t) PROVE FatInv'
  BY <1>2, FirstWaiter, NextWaiter
<1>3. ASSUME NEW t \in Threads, SuspendLock(t) \/ Sleep(t) \/ SpuriousWakeup(t) \/ Wake(t)
      PROVE  FatInv'
  <2>1. UNCHANGED fatVars
    BY <1>3 DEF SuspendLock, Sleep, SpuriousWakeup, Wake
  <2>2. /\ \A u \in Threads : Suspended(u)' <=> Suspended(u)
        /\ \A u \in Threads : Suspended(u) => fl'[u] = fl[u] /\ at'[u] = at[u]
    BY <1>3 DEF SuspendLock, Sleep, SpuriousWakeup, Wake, Suspended
  <2> QED BY <2>1, <2>2, FatStable
<1>4. ASSUME NEW t \in Threads, Relock(t) PROVE FatInv'
  BY <1>4, RelockLast, RelockNotLast
<1>5. ASSUME NEW t \in Threads,
             UnlockFast(t) \/ UnlockContended(t) \/ DequeueGlobal(t) \/ DequeueDrop(t) \/ ResumeLock(t)
      PROVE  FatInv'
  <2>1. UNCHANGED fatVars
    BY <1>5 DEF UnlockFast, UnlockContended, DequeueGlobal, DequeueDrop, ResumeLock
  <2>2. /\ \A u \in Threads : Suspended(u)' <=> Suspended(u)
        /\ \A u \in Threads : Suspended(u) => fl'[u] = fl[u] /\ at'[u] = at[u]
    BY <1>5 DEF UnlockFast, UnlockContended, DequeueGlobal, DequeueDrop, ResumeLock, Suspended
  <2> QED BY <2>1, <2>2, FatStable
<1>6. ASSUME NEW t \in Threads, Notify(t) PROVE FatInv'
  <2>1. UNCHANGED fatVars /\ pc[t] = "notify"
    BY <1>6 DEF Notify
  <2>2. /\ \A u \in Threads : Suspended(u)' <=> Suspended(u)
        /\ \A u \in Threads : Suspended(u) => fl'[u] = fl[u] /\ at'[u] = at[u]
    BY <1>6 DEF Notify, Asleep, Suspended
  <2> QED BY <2>1, <2>2, FatStable
<1>7. CASE UNCHANGED vars
  <2>1. UNCHANGED fatVars
    BY <1>7 DEF vars
  <2>2. /\ \A u \in Threads : Suspended(u)' <=> Suspended(u)
        /\ \A u \in Threads : Suspended(u) => fl'[u] = fl[u] /\ at'[u] = at[u]
    BY <1>7 DEF vars, Suspended
  <2> QED BY <2>1, <2>2, FatStable
<1> QED BY <1>1, <1>2, <1>3, <1>4, <1>5, <1>6, <1>7 DEF Next, Step

----------------------------------------------------------------------------
LEMMA LockInvInit == Init => LockInv
<1> SUFFICES ASSUME Init PROVE LockInv
  OBVIOUS
<1> USE ThinLockAssumption DEF ThinLockAssumption, Init
<1>1. TypeOK
  BY DEF TypeOK, Labels, FreeWord
<1>2. PlaceInv /\ WordInv /\ WaitInv
  BY DEF PlaceInv, InGlobal, WordInv, WaitInv, FreeWord
<1>3. \A t \in Threads : ~Suspended(t)
  BY DEF Suspended
<1>4. \A f \in Fats : On(f) = {}
  BY <1>3 DEF On
<1>5. \A f \in Fats : susp[f] = Cardinality(On(f))
  BY <1>4, FS_EmptySet
<1>6. FatInv
  BY <1>3, <1>5 DEF FatInv, FatLocksExact, On
<1> QED BY <1>1, <1>2, <1>6 DEF LockInv

LEMMA LockInvStep == LockInv /\ [Next]_vars => LockInv'
BY TypeStep, PlaceStep, WordStep, FatStep, WaitStep DEF LockInv

(* Words, wait bits, fat locks, their counts and the holder of the global lock agree,
   at every step of js_Lock and js_Unlock. *)
THEOREM LockInvariant == Spec => []LockInv
BY LockInvInit, LockInvStep, PTL DEF Spec

(* The types, in every reachable state. *)
THEOREM TypeCorrect == Spec => []TypeOK
<1>1. LockInv => TypeOK
  BY DEF LockInv
<1> QED BY <1>1, LockInvariant, PTL

(* Two threads are never between js_Lock and js_Unlock of the same lock: the lock
   word names whoever is inside, whichever of the two paths it came by. *)
THEOREM Exclusion == Spec => []MutualExclusion
<1>1. LockInv => MutualExclusion
  BY DEF LockInv, WordInv, MutualExclusion, Inside
<1> QED BY <1>1, LockInvariant, PTL

(* js_Dequeue finds what it asserts: nobody else changes the word of a lock that is
   held but to set its wait bit, and a wait bit has somebody on its fat lock when no
   other thread has the global lock. *)
THEOREM AssertsHold == Spec => []DequeueAsserts
<1>1. LockInv => DequeueAsserts
  <2> SUFFICES ASSUME LockInv, NEW t \in Threads, pc[t] = "drop"
               PROVE  /\ owner[at[t]] = [who |-> t, wait |-> TRUE]
                      /\ fat[at[t]] # None /\ susp[fat[at[t]]] > 0
    BY DEF DequeueAsserts
  <2> USE DEF LockInv
  <2>1. at[t] \in Locks /\ global = t
    BY DEF PlaceInv, InGlobal
  <2>2. owner[at[t]] \in Words /\ owner[at[t]].who = t /\ owner[at[t]].wait
    BY <2>1 DEF TypeOK, Words, WordInv
  <2>3. owner[at[t]] = [who |-> t, wait |-> TRUE]
    BY <2>2 DEF Words
  <2>4. \A u \in Threads : pc[u] \in {"read", "swap"} => u = t
    BY <2>1 DEF PlaceInv, InGlobal
  <2>5. fat[at[t]] # None
    BY <2>1, <2>2, <2>4 DEF WaitInv
  <2> QED BY <2>1, <2>3, <2>5 DEF FatInv
<1> QED BY <1>1, LockInvariant, PTL

(* fl->susp is the number of threads in js_SuspendThread, a suspended thread is on
   the fat lock of its thin lock, and no fat lock serves two thin locks. *)
THEOREM FatLocks == Spec => []FatLocksExact
<1>1. LockInv => FatLocksExact
  BY DEF LockInv, FatInv
<1> QED BY <1>1, LockInvariant, PTL

----------------------------------------------------------------------------
(* No lost wakeup. *)
Act(t) ==
    \/ \E l \in Locks : LockFast(t, l) \/ LockContended(t, l)
    \/ Step(t)
    \/ SpuriousWakeup(t)

LEMMA NextActs == ASSUME [Next]_vars PROVE UNCHANGED vars \/ \E t \in Threads : Act(t)
BY DEF Next, Act

(* What a thread may do next is decided by where it is. *)
LEMMA ActAt ==
    ASSUME NEW t \in Threads, Act(t)
    PROVE  /\ pc[t] = "read" => EnqueueRead(t)
           /\ pc[t] = "swap" => EnqueueSetWait(t) \/ EnqueueTake(t) \/ EnqueueAgain(t)
           /\ pc[t] = "suspend" => SuspendLock(t)
           /\ pc[t] = "release" => Sleep(t)
           /\ pc[t] = "asleep" => SpuriousWakeup(t)
           /\ pc[t] = "woken" => Wake(t)
           /\ pc[t] = "relock" => Relock(t)
           /\ pc[t] = "drop" => DequeueDrop(t)
           /\ pc[t] = "resume" => ResumeLock(t)
           /\ pc[t] = "notify" => Notify(t)
BY DEF Act, Step, LockFast, LockContended, EnqueueGlobal, EnqueueRead, EnqueueSetWait, EnqueueTake, TakeIf,
       EnqueueAgain, SuspendLock, Sleep, SpuriousWakeup, Wake, Relock, RelockWith, UnlockFast,
       UnlockContended, DequeueGlobal, DequeueDrop, ResumeLock, Notify

(* Where an acting thread comes from when it arrives at these labels. *)
LEMMA ActTo ==
    ASSUME TypeOK, NEW t \in Threads, Act(t)
    PROVE  /\ pc'[t] = "suspend" => EnqueueSetWait(t)
           /\ pc'[t] = "release" => SuspendLock(t)
           /\ pc'[t] = "asleep" => Sleep(t)
           /\ pc'[t] = "resume" => DequeueDrop(t)
           /\ pc'[t] = "notify" => ResumeLock(t)
<1> pc \in [Threads -> Labels]
  BY DEF TypeOK
<1>1. ASSUME NEW u \in Threads, Notify(u) PROVE pc'[u] = "idle"
  BY <1>1 DEF Notify, Asleep, Go
<1> QED
  BY <1>1 DEF Act, Step, Go, LockFast, LockContended, EnqueueGlobal, EnqueueRead, EnqueueSetWait, EnqueueTake,
       TakeIf, EnqueueAgain, SuspendLock, Sleep, SpuriousWakeup, Wake, Relock, RelockWith, UnlockFast,
       UnlockContended, DequeueGlobal, DequeueDrop, ResumeLock

(* A step of one thread does not touch another, but for a notification. *)
LEMMA Others ==
    ASSUME TypeOK, NEW t \in Threads, NEW u \in Threads \ {t}, Act(t)
    PROVE  /\ at'[u] = at[u] /\ fl'[u] = fl[u] /\ meWait'[u] = meWait[u]
           /\ pc'[u] = pc[u] \/ (pc[u] = "asleep" /\ pc'[u] = "woken")
<1> pc \in [Threads -> Labels] /\ at \in [Threads -> Locks \cup {None}]
    /\ fl \in [Threads -> Fats \cup {None}] /\ meWait \in [Threads -> BOOLEAN]
  BY DEF TypeOK
<1> USE DEF Go, wordVars
<1>1. ASSUME NEW l \in Locks, LockFast(t, l) \/ LockContended(t, l)
      PROVE  at'[u] = at[u] /\ fl' = fl /\ meWait' = meWait /\ pc'[u] = pc[u]
  BY <1>1 DEF LockFast, LockContended
<1>2. ASSUME EnqueueGlobal(t) \/ EnqueueRead(t) \/ EnqueueAgain(t)
      PROVE  at' = at /\ fl' = fl /\ meWait' = meWait /\ pc'[u] = pc[u]
  BY <1>2 DEF EnqueueGlobal, EnqueueRead, EnqueueAgain
<1>3. ASSUME EnqueueSetWait(t) \/ EnqueueTake(t)
      PROVE  at' = at /\ fl'[u] = fl[u] /\ meWait'[u] = meWait[u] /\ pc'[u] = pc[u]
  BY <1>3 DEF EnqueueSetWait, EnqueueTake, TakeIf
<1>4. ASSUME SuspendLock(t) \/ Sleep(t) \/ SpuriousWakeup(t) \/ Wake(t)
      PROVE  at' = at /\ fl' = fl /\ meWait' = meWait /\ pc'[u] = pc[u]
  BY <1>4 DEF SuspendLock, Sleep, SpuriousWakeup, Wake
<1>5. ASSUME Relock(t)
      PROVE  at' = at /\ fl'[u] = fl[u] /\ meWait'[u] = meWait[u] /\ pc'[u] = pc[u]
  BY <1>5 DEF Relock, RelockWith
<1>6. ASSUME UnlockFast(t) \/ UnlockContended(t) \/ DequeueGlobal(t) \/ DequeueDrop(t) \/ ResumeLock(t)
      PROVE  at'[u] = at[u] /\ fl'[u] = fl[u] /\ meWait' = meWait /\ pc'[u] = pc[u]
  BY <1>6 DEF UnlockFast, UnlockContended, DequeueGlobal, DequeueDrop, ResumeLock
<1>7. ASSUME Notify(t)
      PROVE  /\ at'[u] = at[u] /\ fl'[u] = fl[u] /\ meWait' = meWait
             /\ pc'[u] = pc[u] \/ (pc[u] = "asleep" /\ pc'[u] = "woken")
  BY <1>7 DEF Notify, Asleep
<1> QED BY <1>1, <1>2, <1>3, <1>4, <1>5, <1>6, <1>7 DEF Act, Step

(* Only js_Dequeue takes a wait bit away. *)
LEMMA WaitBitKept ==
    ASSUME TypeOK, PlaceInv, NEW t \in Threads, Act(t), NEW l \in Locks, owner[l].wait
    PROVE  owner'[l].wait \/ (DequeueDrop(t) /\ at[t] = l)
<1> owner \in [Locks -> Words]
  BY DEF TypeOK, Words
<1>0. pc[t] # "idle" => at[t] \in Locks
  BY DEF PlaceInv
<1>1. ASSUME NEW k \in Locks, LockFast(t, k) PROVE owner'[l].wait
  BY <1>1 DEF LockFast, FreeWord
<1>2. ASSUME EnqueueSetWait(t) PROVE owner'[l].wait
  BY <1>0, <1>2 DEF EnqueueSetWait, Words
<1>3. ASSUME EnqueueTake(t) PROVE owner'[l].wait
  BY <1>3 DEF EnqueueTake, TakeIf, FreeWord
<1>4. ASSUME UnlockFast(t) PROVE owner'[l].wait
  BY <1>4 DEF UnlockFast
<1>5. ASSUME DequeueDrop(t) PROVE owner'[l].wait \/ at[t] = l
  BY <1>5 DEF DequeueDrop
<1>6. ASSUME \/ \E k \in Locks : LockContended(t, k)
             \/ EnqueueGlobal(t) \/ EnqueueRead(t) \/ EnqueueAgain(t) \/ SuspendLock(t) \/ Sleep(t)
             \/ SpuriousWakeup(t) \/ Wake(t) \/ Relock(t) \/ UnlockContended(t) \/ DequeueGlobal(t)
             \/ ResumeLock(t) \/ Notify(t)
      PROVE  owner' = owner
  BY <1>6 DEF LockContended, EnqueueGlobal, EnqueueRead, EnqueueAgain, SuspendLock, Sleep, SpuriousWakeup,
              Wake, Relock, RelockWith, UnlockContended, DequeueGlobal, ResumeLock, Notify, wordVars
<1> QED BY <1>1, <1>2, <1>3, <1>4, <1>5, <1>6 DEF Act, Step

(* The one who clears it is then on the fat lock of everyone suspended there. *)
LEMMA DropWakes ==
    ASSUME TypeOK, PlaceInv, FatInv, NEW w \in Threads, DequeueDrop(w)
    PROVE  /\ pc'[w] = "resume" /\ at' = at /\ fat' = fat /\ global = w
           /\ fl'[w] = fat[at[w]] /\ fl'[w] \in Fats
<1>1. at[w] \in Locks /\ global = w
  BY DEF DequeueDrop, PlaceInv, InGlobal
<1> QED BY <1>1 DEF DequeueDrop, Go, TypeOK, fatVars

(* A slock is kept by its holder until it sleeps or has notified. *)
LEMMA SlockKept ==
    ASSUME TypeOK, HandInv, NEW t \in Threads, NEW u \in Threads \ {t}, Act(t),
           NEW f \in Fats, slock[f] = u
    PROVE  slock'[f] = u
<1> slock \in [Fats -> Threads \cup {None}] /\ u # None
  BY ThinLockAssumption DEF ThinLockAssumption, TypeOK
<1>1. ASSUME SuspendLock(t) \/ ResumeLock(t) PROVE slock'[f] = u
  BY <1>1 DEF SuspendLock, ResumeLock
<1>2. ASSUME Sleep(t) \/ Notify(t) PROVE slock'[f] = u
  <2>1. slock[fl[t]] = t /\ slock' = [slock EXCEPT ![fl[t]] = None]
    BY <1>2 DEF HandInv, Sleep, Notify
  <2> QED BY <2>1
<1>3. ASSUME \/ \E l \in Locks : LockFast(t, l) \/ LockContended(t, l)
             \/ EnqueueGlobal(t) \/ EnqueueRead(t) \/ EnqueueSetWait(t) \/ EnqueueTake(t) \/ EnqueueAgain(t)
             \/ SpuriousWakeup(t) \/ Wake(t) \/ Relock(t) \/ UnlockFast(t) \/ UnlockContended(t)
             \/ DequeueGlobal(t) \/ DequeueDrop(t)
      PROVE  slock' = slock
  BY <1>3 DEF LockFast, LockContended, EnqueueGlobal, EnqueueRead, EnqueueSetWait, EnqueueTake, TakeIf,
              EnqueueAgain, SpuriousWakeup, Wake, Relock, RelockWith, UnlockFast, UnlockContended,
              DequeueGlobal, DequeueDrop
<1> QED BY <1>1, <1>2, <1>3 DEF Act, Step

LEMMA HandStep ==
    ASSUME LockInv, WakeInv, [Next]_vars PROVE HandInv'
<1> TypeOK /\ PlaceInv /\ FatInv /\ HandInv
  BY DEF LockInv, WakeInv
<1>1. ASSUME NEW t \in Threads, Act(t), NEW u \in Threads, pc'[u] \in {"release", "notify"}
      PROVE  fl'[u] \in Fats /\ slock'[fl'[u]] = u
  <2>1. CASE u = t
    <3>1. SuspendLock(t) \/ ResumeLock(t)
      BY <1>1, <2>1, ActTo
    <3>2. fl[t] \in Fats
      BY <3>1, SuspendedOn DEF SuspendLock, ResumeLock, Suspended, HandInv
    <3>3. slock' = [slock EXCEPT ![fl[t]] = t] /\ fl' = fl
      BY <3>1 DEF SuspendLock, ResumeLock
    <3> QED BY <2>1, <3>2, <3>3 DEF TypeOK
  <2>2. CASE u # t
    <3>1. pc[u] \in {"release", "notify"} /\ fl'[u] = fl[u]
      BY <1>1, <2>2, Others
    <3>2. fl[u] \in Fats /\ slock[fl[u]] = u
      BY <3>1 DEF HandInv
    <3> QED BY <1>1, <2>2, <3>1, <3>2, SlockKept
  <2> QED BY <2>1, <2>2
<1>2. ASSUME NEW t \in Threads, Act(t), NEW u \in Threads, pc'[u] = "resume"
      PROVE  fl'[u] \in Fats /\ fl'[u] = fat'[at'[u]]
  <2>1. CASE u = t
    BY <1>2, <2>1, ActTo, DropWakes
  <2>2. CASE u # t
    <3>1. pc[u] = "resume" /\ fl'[u] = fl[u] /\ at'[u] = at[u]
      BY <1>2, <2>2, Others
    <3>2. global = u /\ u # None
      BY <3>1, ThinLockAssumption DEF ThinLockAssumption, PlaceInv, InGlobal
    <3>3. ~EnqueueSetWait(t) /\ ~Relock(t)
      BY <2>2, <3>2 DEF EnqueueSetWait, Relock, RelockWith, PlaceInv, InGlobal
    <3>4. fat' = fat
      BY <1>2, <3>3 DEF Act, Step, LockFast, LockContended, EnqueueGlobal, EnqueueRead, EnqueueTake, TakeIf,
           EnqueueAgain, SuspendLock, Sleep, SpuriousWakeup, Wake, UnlockFast, UnlockContended,
           DequeueGlobal, DequeueDrop, ResumeLock, Notify, fatVars
    <3> QED BY <3>1, <3>4 DEF HandInv
  <2> QED BY <2>1, <2>2
<1>3. CASE UNCHANGED vars
  BY <1>3 DEF vars, fatVars, HandInv
<1> QED BY <1>1, <1>2, <1>3, NextActs DEF HandInv

LEMMA BedStep ==
    ASSUME LockInv, WakeInv, [Next]_vars PROVE BedInv'
<1> TypeOK /\ PlaceInv /\ FatInv /\ HandInv /\ BedInv
  BY DEF LockInv, WakeInv
<1>1. ASSUME NEW t \in Threads, Act(t), NEW u \in Threads, pc'[u] = "suspend"
      PROVE  owner'[at'[u]].wait
  <2>1. CASE u = t
    <3>1. EnqueueSetWait(t) /\ at[t] \in Locks
      BY <1>1, <2>1, ActTo DEF EnqueueSetWait, PlaceInv
    <3> QED BY <2>1, <3>1 DEF EnqueueSetWait, TypeOK
  <2>2. CASE u # t
    <3>1. pc[u] = "suspend" /\ at'[u] = at[u]
      BY <1>1, <2>2, Others
    <3>2. owner[at[u]].wait /\ at[u] \in Locks /\ global = u
      BY <3>1 DEF BedInv, PlaceInv, InGlobal
    <3>3. ~DequeueDrop(t)
      BY <2>2, <3>2, DropWakes
    <3> QED BY <1>1, <3>1, <3>2, <3>3, WaitBitKept
  <2> QED BY <2>1, <2>2
<1>2. ASSUME NEW t \in Threads, Act(t), NEW u \in Threads, pc'[u] = "release"
      PROVE  owner'[at'[u]].wait \/ \E v \in Threads : pc'[v] = "resume" /\ at'[v] = at'[u]
  <2>1. CASE u = t
    BY <1>2, <2>1, ActTo DEF SuspendLock, BedInv, wordVars
  <2>2. CASE u # t
    <3>1. pc[u] = "release" /\ at'[u] = at[u] /\ at[u] \in Locks
      BY <1>2, <2>2, Others DEF PlaceInv
    <3>2. CASE owner[at[u]].wait
      BY <1>2, <3>1, <3>2, WaitBitKept, DropWakes
    <3>3. ASSUME NEW v \in Threads, pc[v] = "resume", at[v] = at[u]
          PROVE  pc'[v] = "resume" /\ at'[v] = at'[u]
      <4>1. fl[v] = fl[u] /\ slock[fl[u]] = u /\ u # None
        BY <3>1, <3>3, SuspendedOn, ThinLockAssumption DEF HandInv, Suspended, ThinLockAssumption
      <4>2. v # t
        BY <1>2, <3>3, <4>1, ActAt DEF ResumeLock
      <4> QED BY <1>2, <3>1, <3>3, <4>2, Others
    <3> QED BY <3>1, <3>2, <3>3 DEF BedInv
  <2> QED BY <2>1, <2>2
<1>3. CASE UNCHANGED vars
  BY <1>3 DEF vars, wordVars, BedInv
<1> QED BY <1>1, <1>2, <1>3, NextActs DEF BedInv

(* A waker that acts goes on to be one, or sets the wait bit, or wakes another sleeper
   of the lock, which is then a waker. *)
LEMMA WakerActs ==
    ASSUME LockInv, WakeInv, NEW t \in Threads, NEW u \in Threads, Act(u), Waker(u, t),
           pc[t] = "asleep", pc'[t] = "asleep"
    PROVE  owner'[at'[t]].wait \/ \E v \in Threads : Waker(v, t)'
<1> TypeOK /\ PlaceInv /\ FatInv /\ WaitInv /\ HandInv
  BY DEF LockInv, WakeInv
<1> pc \in [Threads -> Labels] /\ at \in [Threads -> Locks \cup {None}]
    /\ fl \in [Threads -> Fats \cup {None}] /\ meWait \in [Threads -> BOOLEAN]
    /\ owner \in [Locks -> Words]
  BY DEF TypeOK, Words
<1>1. t # u /\ at[u] = at[t] /\ at[t] \in Locks
  BY DEF Waker, PlaceInv
<1>2. at'[t] = at[t] /\ fl'[t] = fl[t]
  BY <1>1, Others
<1>3. fl[t] = fat[at[t]] /\ fl[t] \in Fats /\ t \in On(fl[t])
  BY SuspendedOn DEF Suspended
<1>4. CASE pc[u] = "resume"
  <2>1. ResumeLock(u) /\ fl[u] = fl[t]
    BY <1>4, ActAt DEF Waker
  <2> QED BY <2>1, <1>1, <1>2 DEF ResumeLock, Waker, Go
<1>5. CASE pc[u] = "notify"
  <2>1. Notify(u) /\ fl[u] = fl[t]
    BY <1>5, ActAt DEF Waker
  <2>2. PICK v \in Asleep(fl[t]) : pc' = [pc EXCEPT ![v] = "woken", ![u] = "idle"]
    BY <2>1 DEF Notify, Asleep
  <2>3. v \in Threads /\ v # u /\ pc[v] = "asleep" /\ fl[v] = fl[t]
    BY <2>2, <1>5 DEF Asleep
  <2>4. at[v] \in Locks /\ fl[v] = fat[at[v]]
    BY <2>3, SuspendedOn DEF Suspended
  <2>5. fl[t] # None
    BY <1>3, ThinLockAssumption DEF ThinLockAssumption
  <2>6. at[v] = at[t]
    BY <1>1, <1>3, <2>3, <2>4, <2>5 DEF FatInv, FatLocksExact
  <2>7. pc'[v] = "woken" /\ at'[v] = at[v]
    BY <2>1, <2>2, <2>3 DEF Notify
  <2> QED BY <1>2, <2>3, <2>6, <2>7 DEF Waker
<1>6. CASE pc[u] = "woken"
  <2>1. Wake(u)
    BY <1>6, ActAt
  <2> QED BY <2>1, <1>1, <1>2 DEF Wake, Waker, Go
<1>7. CASE pc[u] = "relock"
  <2>1. Relock(u) /\ Suspended(u)
    BY <1>7, ActAt DEF Suspended
  <2>2. fl[u] = fl[t]
    BY <1>1, <1>3, <2>1, SuspendedOn
  <2>3. ~LastOne(u)
    <3>1. PICK f : f = fl[u]
      OBVIOUS
    <3>2. susp[f] \in Nat \ {0} /\ susp'[f] = susp[f] - 1 /\ susp'[f] = Cardinality(On(f)')
          /\ On(f)' = On(f) \ {u}
      BY <3>1, <2>1, RelockCount
    <3>3. t \in On(f) \ {u} /\ IsFiniteSet(On(f) \ {u})
      BY <1>1, <1>3, <2>2, <3>1, OnFinite, FS_Subset
    <3>4. Cardinality(On(f) \ {u}) # 0
      BY <3>3, FS_EmptySet
    <3> QED BY <3>1, <3>2, <3>4 DEF LastOne
  <2>4. fat[at[u]] # None
    BY <1>1, <1>3, ThinLockAssumption DEF ThinLockAssumption
  <2>5. meWait'[u] /\ pc'[u] = "read" /\ at'[u] = at[u]
    BY <2>1, <2>3, <2>4 DEF Relock, RelockWith, Go
  <2> QED BY <1>1, <1>2, <2>5 DEF Waker
<1>8. CASE pc[u] = "read"
  <2>1. EnqueueRead(u) /\ meWait[u]
    BY <1>8, ActAt DEF Waker
  <2> QED BY <2>1, <1>1, <1>2 DEF EnqueueRead, Waker, Go
<1>9. CASE pc[u] = "swap"
  <2>1. meWait[u] /\ (EnqueueSetWait(u) \/ EnqueueTake(u) \/ EnqueueAgain(u))
    BY <1>9, ActAt DEF Waker
  <2>2. CASE EnqueueSetWait(u)
    BY <2>2, <1>1, <1>2 DEF EnqueueSetWait, Words
  <2>3. CASE EnqueueTake(u)
    <3>1. owner' = [owner EXCEPT ![at[u]] = [who |-> u, wait |-> meWait[u]]]
      BY <2>3 DEF EnqueueTake, TakeIf
    <3> QED BY <3>1, <2>1, <1>1, <1>2
  <2>4. CASE EnqueueAgain(u)
    BY <2>1, <2>4, <1>1, <1>2 DEF EnqueueAgain, Waker, Go
  <2> QED BY <2>1, <2>2, <2>3, <2>4
<1> QED BY <1>4, <1>5, <1>6, <1>7, <1>8, <1>9 DEF Waker

LEMMA SleepStep ==
    ASSUME LockInv, WakeInv, [Next]_vars PROVE SleepInv'
<1> TypeOK /\ PlaceInv /\ FatInv /\ HandInv /\ BedInv /\ SleepInv
  BY DEF LockInv, WakeInv
<1>1. ASSUME NEW a \in Threads, Act(a), NEW t \in Threads, pc'[t] = "asleep"
      PROVE  owner'[at'[t]].wait \/ \E v \in Threads : Waker(v, t)'
  <2>1. CASE t = a
    <3>1. Sleep(t) /\ owner' = owner /\ at' = at /\ fl' = fl /\ pc[t] = "release"
          /\ pc' = [pc EXCEPT ![t] = "asleep"]
      BY <1>1, <2>1, ActTo DEF Sleep, wordVars, Go
    <3>2. ASSUME NEW u \in Threads, pc[u] = "resume", at[u] = at[t] PROVE Waker(u, t)'
      <4>1. fl[u] = fl[t] /\ u # t
        BY <3>1, <3>2, SuspendedOn DEF HandInv, Suspended
      <4> QED BY <3>1, <3>2, <4>1 DEF Waker, TypeOK
    <3> QED BY <3>1, <3>2 DEF BedInv
  <2>2. CASE t # a
    <3>1. pc[t] = "asleep" /\ at'[t] = at[t] /\ fl'[t] = fl[t] /\ at[t] \in Locks
      BY <1>1, <2>2, Others DEF PlaceInv
    <3>2. CASE owner[at[t]].wait
      <4>1. owner'[at[t]].wait \/ (DequeueDrop(a) /\ at[a] = at[t])
        BY <1>1, <3>1, <3>2, WaitBitKept
      <4>2. ASSUME DequeueDrop(a), at[a] = at[t] PROVE Waker(a, t)'
        <5>1. fl[t] = fat[at[t]]
          BY <3>1, SuspendedOn DEF Suspended
        <5> QED BY <3>1, <4>2, <5>1, DropWakes DEF Waker
      <4> QED BY <3>1, <4>1, <4>2
    <3>3. ASSUME NEW u \in Threads, Waker(u, t)
          PROVE  owner'[at'[t]].wait \/ \E v \in Threads : Waker(v, t)'
      <4>1. CASE u = a
        BY <1>1, <3>1, <3>3, <4>1, WakerActs
      <4>2. CASE u # a
        <5>1. at'[u] = at[u] /\ fl'[u] = fl[u] /\ meWait'[u] = meWait[u] /\ pc'[u] = pc[u]
          BY <1>1, <3>3, <4>2, Others DEF Waker
        <5> QED BY <3>1, <3>3, <5>1 DEF Waker
      <4> QED BY <4>1, <4>2
    <3> QED BY <3>1, <3>2, <3>3 DEF SleepInv
  <2> QED BY <2>1, <2>2
<1>2. CASE UNCHANGED vars
  BY <1>2 DEF vars, wordVars, SleepInv, Waker
<1> QED BY <1>1, <1>2, NextActs DEF SleepInv

(* Nobody notifies past a thread on its way into PR_WaitCondVar, and while one sleeps a
   waker that acts leaves another waker or the wait bit behind. *)
THEOREM WakeInvariant == Spec => []WakeInv
<1>1. Init => WakeInv
  BY DEF Init, WakeInv, HandInv, BedInv, SleepInv
<1>2. LockInv /\ WakeInv /\ [Next]_vars => WakeInv'
  BY HandStep, BedStep, SleepStep DEF WakeInv
<1> QED BY <1>1, <1>2, LockInvariant, PTL DEF Spec

(* No sleeper is forgotten: the owner will see the wait bit, or a thread is under way
   that notifies the right fat lock or sets the bit again. *)
THEOREM NoneForgotten == Spec => []NoLostWakeup
<1>1. WakeInv => NoLostWakeup
  <2> SUFFICES ASSUME WakeInv, NEW t \in Threads, pc[t] = "asleep", ~owner[at[t]].wait
               PROVE  \E u \in Threads \ {t} :
                         /\ at[u] = at[t]
                         /\ \/ pc[u] \in {"resume", "notify", "woken", "relock"}
                            \/ pc[u] \in {"read", "swap"} /\ meWait[u]
    BY DEF NoLostWakeup
  <2>1. PICK u \in Threads : Waker(u, t)
    BY DEF WakeInv, SleepInv
  <2> QED BY <2>1 DEF Waker
<1> QED BY <1>1, WakeInvariant, PTL

----------------------------------------------------------------------------
(* Scopes that several contexts use. *)

LEMMA ShareStarts == SSInit => ShareInv
<1> SUFFICES ASSUME SSInit PROVE ShareInv
  OBVIOUS
<1> USE ScopeShareAssumption DEF ScopeShareAssumption, SSInit
<1>1. SSTypeOK
  BY DEF SSTypeOK
<1>2. ScopesAtHome
  BY DEF ScopesAtHome, ScopeInUse
<1>3. OwnedNotLocked
  BY DEF OwnedNotLocked
<1>4. LockingInv /\ NotOwn /\ ShareWaitInv
  BY DEF LockingInv, NotOwn, ShareWaitInv, Locking, InWait, InObject
<1>5. NoCycle
  BY DEF NoCycle
<1> QED BY <1>1, <1>2, <1>3, <1>4, <1>5 DEF ShareInv

----------------------------------------------------------------------------
LEMMA BeginKeeps ==
  ASSUME ShareInv, NEW c \in ShareContexts, JS_BeginRequest(c)
  PROVE  ShareInv'
<1> USE ScopeShareAssumption DEF ScopeShareAssumption, ShareInv, SSTypeOK, lockVars, callVars, SSGo,
        JS_BeginRequest
<1>1. SSTypeOK'
  OBVIOUS
<1>2. ScopesAtHome'
  BY DEF ScopesAtHome, ScopeInUse, LockingInv, Locking, InObject, Holds
<1>3. OwnedNotLocked'
  BY DEF OwnedNotLocked, ScopesAtHome, LockingInv, Locking, InObject, Holds
<1>4. LockingInv'
  BY DEF LockingInv, Locking, InObject, Holds, ScopeInUse, OwnedNotLocked, ShareWaitInv, InWait
<1>5. NotOwn'
  BY DEF NotOwn, LockingInv, Locking, InObject, InWait, ScopeInUse
<1>6. ShareWaitInv'
  BY DEF ShareWaitInv, InWait, Listed, LockingInv, Locking, InObject, ScopeInUse
<1>7. NoCycle'
  BY DEF NoCycle, ShareWaitInv, InWait, Listed, LockingInv, Locking, InObject, ScopeInUse
<1> QED BY <1>1, <1>2, <1>3, <1>4, <1>5, <1>6, <1>7

LEMMA EndKeeps ==
  ASSUME ShareInv, NEW c \in ShareContexts, JS_EndRequest(c)
  PROVE  ShareInv'
<1> USE ScopeShareAssumption DEF ScopeShareAssumption, ShareInv, SSTypeOK, lockVars, callVars, SSGo,
        JS_EndRequest, WakeSleepers
<1>1. SSTypeOK'
  OBVIOUS
<1>2. ScopesAtHome'
  BY DEF ScopesAtHome, ScopeInUse, LockingInv, Locking, InObject, Holds
<1>3. OwnedNotLocked'
  BY DEF OwnedNotLocked, ScopesAtHome, LockingInv, Locking, InObject, Holds
<1>4. LockingInv'
  BY DEF LockingInv, Locking, InObject, Holds, ScopeInUse, OwnedNotLocked, ShareWaitInv, InWait
<1>5. NotOwn'
  BY DEF NotOwn, LockingInv, Locking, InObject, InWait, ScopeInUse
<1>6. ShareWaitInv'
  BY DEF ShareWaitInv, InWait, Listed, LockingInv, Locking, InObject, ScopeInUse
<1>7. NoCycle'
  BY DEF NoCycle, ShareWaitInv, InWait, Listed, LockingInv, Locking, InObject, ScopeInUse
<1> QED BY <1>1, <1>2, <1>3, <1>4, <1>5, <1>6, <1>7

LEMMA LockObjKeeps ==
  ASSUME ShareInv, NEW c \in ShareContexts, \E o \in Objects : LockObj(c, o)
  PROVE  ShareInv'
<1> USE ScopeShareAssumption DEF ScopeShareAssumption, ShareInv, SSTypeOK, lockVars, callVars, SSGo,
        LockObj
<1>1. SSTypeOK'
  OBVIOUS
<1>2. ScopesAtHome'
  BY DEF ScopesAtHome, ScopeInUse, LockingInv, Locking, InObject, Holds
<1>3. OwnedNotLocked'
  BY DEF OwnedNotLocked, ScopesAtHome, LockingInv, Locking, InObject, Holds
<1>4. LockingInv'
  BY DEF LockingInv, Locking, InObject, Holds, ScopeInUse, OwnedNotLocked, ShareWaitInv, InWait
<1>5. NotOwn'
  BY DEF NotOwn, LockingInv, Locking, InObject, InWait, ScopeInUse
<1>6. ShareWaitInv'
  BY DEF ShareWaitInv, InWait, Listed, LockingInv, Locking, InObject, ScopeInUse
<1>7. NoCycle'
  BY DEF NoCycle, ShareWaitInv, InWait, Listed, LockingInv, Locking, InObject, ScopeInUse
<1> QED BY <1>1, <1>2, <1>3, <1>4, <1>5, <1>6, <1>7

LEMMA LockScopeKeeps ==
  ASSUME ShareInv, NEW c \in ShareContexts, LockScope(c)
  PROVE  ShareInv'
<1> USE ScopeShareAssumption DEF ScopeShareAssumption, ShareInv, SSTypeOK, lockVars, callVars, SSGo,
        LockScope
<1>1. SSTypeOK'
  OBVIOUS
<1>2. ScopesAtHome'
  BY DEF ScopesAtHome, ScopeInUse, LockingInv, Locking, InObject, Holds
<1>3. OwnedNotLocked'
  BY DEF OwnedNotLocked, ScopesAtHome, LockingInv, Locking, InObject, Holds
<1>4. LockingInv'
  BY DEF LockingInv, Locking, InObject, Holds, ScopeInUse, OwnedNotLocked, ShareWaitInv, InWait
<1>5. NotOwn'
  BY DEF NotOwn, LockingInv, Locking, InObject, InWait, ScopeInUse
<1>6. ShareWaitInv'
  BY DEF ShareWaitInv, InWait, Listed, LockingInv, Locking, InObject, ScopeInUse
<1>7. NoCycle'
  BY DEF NoCycle, ShareWaitInv, InWait, Listed, LockingInv, Locking, InObject, ScopeInUse
<1> QED BY <1>1, <1>2, <1>3, <1>4, <1>5, <1>6, <1>7

LEMMA ThinKeeps ==
  ASSUME ShareInv, NEW c \in ShareContexts, ThinAcquire(c)
  PROVE  ShareInv'
<1> USE ScopeShareAssumption DEF ScopeShareAssumption, ShareInv, SSTypeOK, lockVars, callVars, SSGo,
        ThinAcquire
<1>1. SSTypeOK'
  BY DEF LockingInv, Locking, InObject
<1>2. ScopesAtHome'
  BY DEF ScopesAtHome, ScopeInUse, LockingInv, Locking, InObject, Holds
<1>3. OwnedNotLocked'
  BY DEF OwnedNotLocked, ScopesAtHome, LockingInv, Locking, InObject, Holds
<1>4. LockingInv'
  BY DEF LockingInv, Locking, InObject, Holds, ScopeInUse, OwnedNotLocked, ShareWaitInv, InWait
<1>5. NotOwn'
  BY DEF NotOwn, LockingInv, Locking, InObject, InWait, ScopeInUse
<1>6. ShareWaitInv'
  BY DEF ShareWaitInv, InWait, Listed, LockingInv, Locking, InObject, ScopeInUse
<1>7. NoCycle'
  BY DEF NoCycle, ShareWaitInv, InWait, Listed, LockingInv, Locking, InObject, ScopeInUse
<1> QED BY <1>1, <1>2, <1>3, <1>4, <1>5, <1>6, <1>7

LEMMA CheckKeeps ==
  ASSUME ShareInv, NEW c \in ShareContexts, LockObjChecks(c)
  PROVE  ShareInv'
<1> USE ScopeShareAssumption DEF ScopeShareAssumption, ShareInv, SSTypeOK, lockVars, callVars, SSGo,
        LockObjChecks, ReleaseScope
<1>1. SSTypeOK'
  BY DEF LockingInv, Locking, InObject
<1>2. ScopesAtHome'
  BY DEF ScopesAtHome, ScopeInUse, LockingInv, Locking, InObject, Holds
<1>3. OwnedNotLocked'
  BY DEF OwnedNotLocked, ScopesAtHome, LockingInv, Locking, InObject, Holds
<1>4. LockingInv'
  BY DEF LockingInv, Locking, InObject, Holds, ScopeInUse, OwnedNotLocked, ShareWaitInv, InWait
<1>5. NotOwn'
  BY DEF NotOwn, LockingInv, Locking, InObject, InWait, ScopeInUse
<1>6. ShareWaitInv'
  BY DEF ShareWaitInv, InWait, Listed, LockingInv, Locking, InObject, ScopeInUse
<1>7. NoCycle'
  BY DEF NoCycle, ShareWaitInv, InWait, Listed, LockingInv, Locking, InObject, ScopeInUse
<1> QED BY <1>1, <1>2, <1>3, <1>4, <1>5, <1>6, <1>7

LEMMA SharedKeeps ==
  ASSUME ShareInv, NEW c \in ShareContexts, ClaimShared(c)
  PROVE  ShareInv'
<1> USE ScopeShareAssumption DEF ScopeShareAssumption, ShareInv, SSTypeOK, lockVars, callVars, SSGo,
        ClaimShared, LeaveLoop, RequestsAt, AtLoopHead
<1>1. SSTypeOK'
  OBVIOUS
<1>2. ScopesAtHome'
  BY DEF ScopesAtHome, ScopeInUse, LockingInv, Locking, InObject, Holds
<1>3. OwnedNotLocked'
  BY DEF OwnedNotLocked, ScopesAtHome, LockingInv, Locking, InObject, Holds
<1>4. LockingInv'
  BY DEF LockingInv, Locking, InObject, Holds, ScopeInUse, OwnedNotLocked, ShareWaitInv, InWait
<1>5. NotOwn'
  BY DEF NotOwn, LockingInv, Locking, InObject, InWait, ScopeInUse
<1>6. ShareWaitInv'
  BY DEF ShareWaitInv, InWait, Listed, LockingInv, Locking, InObject, ScopeInUse
<1>7. NoCycle'
  BY DEF NoCycle, ShareWaitInv, InWait, Listed, LockingInv, Locking, InObject, ScopeInUse
<1> QED BY <1>1, <1>2, <1>3, <1>4, <1>5, <1>6, <1>7

LEMMA OwnedKeeps ==
  ASSUME ShareInv, NEW c \in ShareContexts, ClaimOwned(c)
  PROVE  ShareInv'
<1> USE ScopeShareAssumption DEF ScopeShareAssumption, ShareInv, SSTypeOK, lockVars, callVars, SSGo,
        ClaimOwned, LeaveLoop, RequestsAt, AtLoopHead, Claimable, HasRequest
<1>1. SSTypeOK'
  BY DEF LockingInv, Locking, InObject
<1>2. ScopesAtHome'
  BY DEF ScopesAtHome, ScopeInUse, LockingInv, Locking, InObject, Holds
<1>3. OwnedNotLocked'
  BY DEF OwnedNotLocked, ScopesAtHome, LockingInv, Locking, InObject, Holds
<1>4. LockingInv'
  BY DEF LockingInv, Locking, InObject, Holds, ScopeInUse, OwnedNotLocked, ShareWaitInv, InWait
<1>5. NotOwn'
  BY DEF NotOwn, LockingInv, Locking, InObject, InWait, ScopeInUse
<1>6. ShareWaitInv'
  BY DEF ShareWaitInv, InWait, Listed, LockingInv, Locking, InObject, ScopeInUse
<1>7. NoCycle'
  BY DEF NoCycle, ShareWaitInv, InWait, Listed, LockingInv, Locking, InObject, ScopeInUse
<1> QED BY <1>1, <1>2, <1>3, <1>4, <1>5, <1>6, <1>7

LEMMA ShareKeeps ==
  ASSUME ShareInv, NEW c \in ShareContexts, ShareScope(c)
  PROVE  ShareInv'
<1> USE ScopeShareAssumption DEF ScopeShareAssumption, ShareInv, SSTypeOK, lockVars, callVars, SSGo,
        ShareScope, MustWait, WouldDeadlock, LeaveLoop, RequestsAt, AtLoopHead, Claimable, HasRequest, WakeSleepers
<1>1. SSTypeOK'
  BY DEF LockingInv, Locking, InObject
<1>2. ScopesAtHome'
  BY DEF ScopesAtHome, ScopeInUse, LockingInv, Locking, InObject, Holds
<1>3. OwnedNotLocked'
  BY DEF OwnedNotLocked, ScopesAtHome, LockingInv, Locking, InObject, Holds
<1>4. LockingInv'
  BY DEF LockingInv, Locking, InObject, Holds, ScopeInUse, OwnedNotLocked, ShareWaitInv, InWait
<1>5. NotOwn'
  BY DEF NotOwn, LockingInv, Locking, InObject, InWait, ScopeInUse
<1>6. ShareWaitInv'
  BY DEF ShareWaitInv, InWait, Listed, LockingInv, Locking, InObject, ScopeInUse
<1>7. NoCycle'
  BY DEF NoCycle, ShareWaitInv, InWait, Listed, LockingInv, Locking, InObject, ScopeInUse
<1> QED BY <1>1, <1>2, <1>3, <1>4, <1>5, <1>6, <1>7

LEMMA WaitKeeps ==
  ASSUME ShareInv, NEW c \in ShareContexts, WaitForSharing(c)
  PROVE  ShareInv'
<1> USE ScopeShareAssumption DEF ScopeShareAssumption, ShareInv, SSTypeOK, lockVars, callVars, SSGo,
        WaitForSharing, MustWait, RequestsAt, AtLoopHead, Claimable, HasRequest
<1>1. SSTypeOK'
  BY DEF LockingInv, Locking, InObject
<1>2. ScopesAtHome'
  BY DEF ScopesAtHome, ScopeInUse, LockingInv, Locking, InObject, Holds
<1>3. OwnedNotLocked'
  BY DEF OwnedNotLocked, ScopesAtHome, LockingInv, Locking, InObject, Holds
<1>4. LockingInv'
  BY DEF LockingInv, Locking, InObject, Holds, ScopeInUse, OwnedNotLocked, ShareWaitInv, InWait
<1>5. NotOwn'
  BY DEF NotOwn, LockingInv, Locking, InObject, InWait, ScopeInUse
<1>6. ShareWaitInv'
  BY DEF ShareWaitInv, InWait, Listed, LockingInv, Locking, InObject, ScopeInUse
<1>7. NoCycle'
  <2> DEFINE s == lockedScope[c]
  <2>0. s \in Scopes /\ ownercx[s] \in ShareContexts
    BY DEF LockingInv, Locking
  <2>1. SUFFICES ASSUME NEW D \in SUBSET ShareContexts,
                        \A d \in D : toShare'[d] # Nil /\ ownercx[toShare'[d]] \in D
                 PROVE  D = {}
    BY DEF NoCycle
  <2>2. \A d \in D \ {c} : toShare[d] # Nil /\ ownercx[toShare[d]] \in D
    BY <2>1
  <2>3. CASE c \notin D
    BY <2>2, <2>3 DEF NoCycle
  <2>4. CASE c \in D
    <3> DEFINE d == ownercx[s]
    <3>1. d \in D /\ d # c
      BY <2>0, <2>1, <2>4 DEF NotOwn, InWait
    <3>2. toShare[d] # Nil /\ ownercx[toShare[d]] \in D /\ toShare[d] \in Scopes
      BY <2>2, <3>1
    <3>3. PICK S \in SUBSET ShareContexts :
             /\ ownercx[toShare[d]] \in S /\ c \notin S
             /\ \A e \in S : WaitsFor(e) \in S \cup {Nil}
      BY <3>2 DEF WillDeadlock, WouldDeadlock
    <3>4. ASSUME NEW e \in D \cap S PROVE toShare[e] # Nil /\ ownercx[toShare[e]] \in D \cap S
      <4>1. toShare[e] # Nil /\ ownercx[toShare[e]] \in D
        BY <2>2, <3>3
      <4>2. WaitsFor(e) = ownercx[toShare[e]] /\ ownercx[toShare[e]] # Nil
        BY <4>1 DEF WaitsFor
      <4> QED BY <3>3, <4>1, <4>2
    <3>5. D \cap S = {}
      BY <3>4 DEF NoCycle
    <3> QED BY <3>2, <3>3, <3>5
  <2> QED BY <2>3, <2>4
<1> QED BY <1>1, <1>2, <1>3, <1>4, <1>5, <1>6, <1>7

LEMMA AgainKeeps ==
  ASSUME ShareInv, NEW c \in ShareContexts, LockAgain(c)
  PROVE  ShareInv'
<1> USE ScopeShareAssumption DEF ScopeShareAssumption, ShareInv, SSTypeOK, lockVars, callVars, SSGo,
        LockAgain
<1>1. SSTypeOK'
  BY DEF LockingInv, Locking, InObject
<1>2. ScopesAtHome'
  BY DEF ScopesAtHome, ScopeInUse, LockingInv, Locking, InObject, Holds
<1>3. OwnedNotLocked'
  BY DEF OwnedNotLocked, ScopesAtHome, LockingInv, Locking, InObject, Holds
<1>4. LockingInv'
  BY DEF LockingInv, Locking, InObject, Holds, ScopeInUse, OwnedNotLocked, ShareWaitInv, InWait
<1>5. NotOwn'
  BY DEF NotOwn, LockingInv, Locking, InObject, InWait, ScopeInUse
<1>6. ShareWaitInv'
  BY DEF ShareWaitInv, InWait, Listed, LockingInv, Locking, InObject, ScopeInUse
<1>7. NoCycle'
  BY DEF NoCycle, ShareWaitInv, InWait, Listed, LockingInv, Locking, InObject, ScopeInUse
<1> QED BY <1>1, <1>2, <1>3, <1>4, <1>5, <1>6, <1>7

LEMMA UnlockKeeps ==
  ASSUME ShareInv, NEW c \in ShareContexts, UnlockObj(c)
  PROVE  ShareInv'
<1> USE ScopeShareAssumption DEF ScopeShareAssumption, ShareInv, SSTypeOK, lockVars, callVars, SSGo,
        UnlockObj, ReleaseScope
<1>1. SSTypeOK'
  <2>1. lockedObj[c] \in Objects /\ scopeOf[lockedObj[c]] \in Scopes
    BY DEF LockingInv, InObject
  <2>2. /\ scopeOf' \in [Objects -> Scopes] /\ todo' \in SUBSET Scopes /\ requests' \in Int
        /\ toShare' \in [ShareContexts -> Scopes \cup {Nil}] /\ collecting' \in {0, 1}
        /\ ownercx' \in [Scopes -> ShareContexts \cup {Nil}]
    OBVIOUS
  <2>3. word' \in [Scopes -> ShareContexts \cup {Nil}]
    OBVIOUS
  <2>4. lockCount' \in [Scopes -> Int]
    BY <2>1
  <2>5. /\ lockedObj' \in [ShareContexts -> Objects \cup {Nil}] /\ nest' \in [ShareContexts -> Int]
        /\ lockedScope' \in [ShareContexts -> Scopes \cup {Nil}]
    OBVIOUS
  <2> QED BY <2>2, <2>3, <2>4, <2>5
<1>2. ScopesAtHome'
  BY DEF ScopesAtHome, ScopeInUse, LockingInv, Locking, InObject, Holds
<1>3. OwnedNotLocked'
  BY DEF OwnedNotLocked, ScopesAtHome, LockingInv, Locking, InObject, Holds
<1>4. LockingInv'
  BY DEF LockingInv, Locking, InObject, Holds, ScopeInUse, OwnedNotLocked, ShareWaitInv, InWait
<1>5. NotOwn'
  BY DEF NotOwn, LockingInv, Locking, InObject, InWait, ScopeInUse
<1>6. ShareWaitInv'
  BY DEF ShareWaitInv, InWait, Listed, LockingInv, Locking, InObject, ScopeInUse
<1>7. NoCycle'
  BY DEF NoCycle, ShareWaitInv, InWait, Listed, LockingInv, Locking, InObject, ScopeInUse
<1> QED BY <1>1, <1>2, <1>3, <1>4, <1>5, <1>6, <1>7

LEMMA MutableKeeps ==
  ASSUME ShareInv, NEW c \in ShareContexts, \E s \in Scopes : GetMutableScope(c, s)
  PROVE  ShareInv'
<1> USE ScopeShareAssumption DEF ScopeShareAssumption, ShareInv, SSTypeOK, lockVars, callVars, SSGo,
        GetMutableScope
<1>1. SSTypeOK'
  BY DEF LockingInv, Locking, InObject
<1>2. ScopesAtHome'
  BY DEF ScopesAtHome, ScopeInUse, LockingInv, Locking, InObject, Holds
<1>3. OwnedNotLocked'
  BY DEF OwnedNotLocked, ScopesAtHome, LockingInv, Locking, InObject, Holds
<1>4. LockingInv'
  <2> PICK s \in Scopes : GetMutableScope(c, s)
    OBVIOUS
  <2> DEFINE old == scopeOf[lockedObj[c]]
  <2>1. /\ lockedObj[c] \in Objects /\ old \in Scopes /\ ~ScopeInUse(s) /\ s # old
        /\ Holds(c, old, nest[c]) /\ HomeOf[old] # lockedObj[c]
        /\ \A x \in Scopes \ {s} : ownercx'[x] = ownercx[x]
        /\ \A x \in Scopes \ {old} : word'[x] = word[x] /\ lockCount'[x] = lockCount[x]
        /\ ownercx'[s] = c
        /\ \A p \in Objects \ {lockedObj[c]} : scopeOf'[p] = scopeOf[p]
        /\ scopeOf'[lockedObj[c]] = s
    BY DEF LockingInv, InObject, ScopeInUse, ScopesAtHome
  <2>2. ASSUME NEW x \in Scopes, ScopeInUse(x) PROVE ScopeInUse(x)'
    <3>1. scopeOf[HomeOf[x]] = x /\ HomeOf[x] \in Objects
      BY <2>2 DEF ScopesAtHome
    <3>2. HomeOf[x] # lockedObj[c]
      BY <2>1, <3>1
    <3> QED BY <2>1, <3>1, <3>2 DEF ScopeInUse
  <2>3. word[s] = Nil
    BY <2>1 DEF ScopesAtHome
  <2>4. ASSUME NEW d \in ShareContexts \ {c}, NEW x \in Scopes, NEW n \in Int, ScopeInUse(x),
               Holds(d, x, n)
        PROVE  /\ x # old
               /\ \/ ownercx'[x] = d /\ word'[x] = Nil
                  \/ ownercx'[x] = Nil /\ word'[x] = d /\ lockCount'[x] = n
    <3>1. x # s /\ d # c /\ d # Nil /\ c # Nil
      BY <2>1, <2>4
    <3>2. x # old
      <4>1. /\ ownercx[old] = c \/ (ownercx[old] = Nil /\ word[old] = c)
            /\ ownercx[x] = d \/ (ownercx[x] = Nil /\ word[x] = d)
        BY ONLY <2>1, <2>4 DEF Holds
      <4> QED BY ONLY <3>1, <4>1
    <3>3. ownercx'[x] = ownercx[x] /\ word'[x] = word[x] /\ lockCount'[x] = lockCount[x]
      BY <3>1, <3>2, <2>1
    <3>4. \/ ownercx[x] = d /\ word[x] = Nil
          \/ ownercx[x] = Nil /\ word[x] = d /\ lockCount[x] = n
      BY ONLY <2>4 DEF Holds
    <3> QED BY ONLY <3>2, <3>3, <3>4
  <2>5. ASSUME NEW d \in ShareContexts, Locking(d)
        PROVE  /\ lockedObj[d] \in Objects /\ lockedScope[d] \in Scopes
               /\ ScopeInUse(lockedScope[d]) /\ ScopeInUse(lockedScope[d])'
               /\ d # c
    BY <2>2, <2>5 DEF LockingInv, Locking, InObject
  <2>6. ASSUME NEW d \in ShareContexts, spc[d] = "thin" PROVE ownercx'[lockedScope[d]] = Nil
    BY <2>1, <2>5, <2>6 DEF LockingInv, Locking
  <2>7. ASSUME NEW d \in ShareContexts, spc[d] = "check" PROVE Holds(d, lockedScope[d], 1)'
    <3>1. Locking(d) /\ Holds(d, lockedScope[d], 1)
      BY <2>7 DEF Locking, LockingInv
    <3>2. d # c /\ lockedScope[d] \in Scopes /\ ScopeInUse(lockedScope[d])
      BY <2>5, <3>1
    <3>3. \/ ownercx'[lockedScope[d]] = d /\ word'[lockedScope[d]] = Nil
          \/ /\ ownercx'[lockedScope[d]] = Nil /\ word'[lockedScope[d]] = d
             /\ lockCount'[lockedScope[d]] = 1
      BY <2>4, <3>1, <3>2
    <3>4. lockedScope' = lockedScope
      OBVIOUS
    <3> QED BY ONLY <3>3, <3>4 DEF Holds
  <2>8. ASSUME NEW d \in ShareContexts, InObject(d)
        PROVE  lockedObj[d] \in Objects /\ Holds(d, scopeOf[lockedObj[d]], nest[d])'
    <3> DEFINE x == scopeOf[lockedObj[d]]
    <3>0. lockedObj[d] \in Objects /\ Holds(d, x, nest[d]) /\ ScopeInUse(x) /\ x \in Scopes
      BY <2>8 DEF LockingInv, ScopeInUse
    <3>1. CASE d = c
      <4>1. ownercx'[s] = c /\ word'[s] = Nil /\ scopeOf'[lockedObj'[c]] = s
        BY <2>1, <2>3
      <4> QED BY <3>1, <4>1 DEF Holds
    <3>2. CASE d # c
      <4>1. /\ x # old
            /\ \/ ownercx'[x] = d /\ word'[x] = Nil
               \/ ownercx'[x] = Nil /\ word'[x] = d /\ lockCount'[x] = nest[d]
        BY <2>4, <3>0, <3>2
      <4>2. scopeOf'[lockedObj'[d]] = x /\ nest' = nest
        BY <4>1, <3>0, <2>1
      <4> QED BY ONLY <3>0, <4>1, <4>2 DEF Holds
    <3> QED BY <3>0, <3>1, <3>2
  <2>9. lockedObj' = lockedObj /\ lockedScope' = lockedScope /\ spc' = spc
    OBVIOUS
  <2> QED BY ONLY <2>5, <2>6, <2>7, <2>8, <2>9 DEF LockingInv, Locking, InObject
<1>5. NotOwn'
  BY DEF NotOwn, LockingInv, Locking, InObject, InWait, ScopeInUse
<1>6. ShareWaitInv'
  BY DEF ShareWaitInv, InWait, Listed, LockingInv, Locking, InObject, ScopeInUse
<1>7. NoCycle'
  BY DEF NoCycle, ShareWaitInv, InWait, Listed, LockingInv, Locking, InObject, ScopeInUse
<1> QED BY <1>1, <1>2, <1>3, <1>4, <1>5, <1>6, <1>7

LEMMA CollectKeeps ==
  ASSUME ShareInv, NEW c \in ShareContexts, StartCollect(c) \/ EndCollect(c)
  PROVE  ShareInv'
<1> USE ScopeShareAssumption DEF ScopeShareAssumption, ShareInv, SSTypeOK, lockVars, callVars, SSGo,
        StartCollect, EndCollect
<1>1. SSTypeOK'
  OBVIOUS
<1>2. ScopesAtHome'
  BY DEF ScopesAtHome, ScopeInUse, LockingInv, Locking, InObject, Holds
<1>3. OwnedNotLocked'
  BY DEF OwnedNotLocked, ScopesAtHome, LockingInv, Locking, InObject, Holds
<1>4. LockingInv'
  BY DEF LockingInv, Locking, InObject, Holds, ScopeInUse, OwnedNotLocked, ShareWaitInv, InWait
<1>5. NotOwn'
  BY DEF NotOwn, LockingInv, Locking, InObject, InWait, ScopeInUse
<1>6. ShareWaitInv'
  BY DEF ShareWaitInv, InWait, Listed, LockingInv, Locking, InObject, ScopeInUse
<1>7. NoCycle'
  BY DEF NoCycle, ShareWaitInv, InWait, Listed, LockingInv, Locking, InObject, ScopeInUse
<1> QED BY <1>1, <1>2, <1>3, <1>4, <1>5, <1>6, <1>7

LEMMA ShareSteps == ASSUME ShareInv, [SSNext]_ssVars PROVE ShareInv'
<1>1. CASE UNCHANGED ssVars
  <2>1. /\ scopeOf' = scopeOf /\ ownercx' = ownercx /\ word' = word /\ lockCount' = lockCount
        /\ todo' = todo /\ toShare' = toShare /\ requests' = requests /\ collecting' = collecting
        /\ spc' = spc /\ lockedObj' = lockedObj /\ lockedScope' = lockedScope /\ nest' = nest
    BY <1>1 DEF ssVars, lockVars, callVars
  <2> QED BY <2>1 DEF ShareInv, SSTypeOK, ScopesAtHome, ScopeInUse, OwnedNotLocked, LockingInv, Locking,
             InObject, Holds, NotOwn, InWait, ShareWaitInv, Listed, NoCycle
<1>2. CASE SSNext
  BY <1>2, BeginKeeps, EndKeeps, LockObjKeeps, LockScopeKeeps, ThinKeeps, CheckKeeps, SharedKeeps,
     OwnedKeeps, ShareKeeps, WaitKeeps, AgainKeeps, UnlockKeeps, MutableKeeps, CollectKeeps DEF SSNext
<1> QED BY <1>1, <1>2

(* The invariant the two below rest on: who holds a scope, on whom a waiting context waits,
   and that no contexts wait for each other. *)
THEOREM ShareInvariant == SSSpec => []ShareInv
BY ShareStarts, ShareSteps, PTL DEF SSSpec

(* Whoever is inside an object has its scope, and has it alone, however scopes were claimed,
   shared and given away in the meantime (ClaimScope, ShareScope, js_TransferScopeLock). *)
THEOREM HoldersCorrect == SSSpec => []HoldersHold
<1>1. ShareInv => HoldersHold
  <2> SUFFICES ASSUME ShareInv, NEW c \in ShareContexts, InObject(c)
               PROVE  LET s == scopeOf[lockedObj[c]]
                      IN /\ \/ ownercx[s] = c /\ word[s] = Nil
                            \/ ownercx[s] = Nil /\ word[s] = c /\ lockCount[s] = nest[c]
                         /\ \A d \in ShareContexts \ {c} : InObject(d) => scopeOf[lockedObj[d]] # s
    BY DEF HoldersHold
  <2> USE ScopeShareAssumption DEF ScopeShareAssumption
  <2>1. \A d \in ShareContexts : InObject(d) => Holds(d, scopeOf[lockedObj[d]], nest[d])
    BY DEF ShareInv, LockingInv
  <2> QED BY <2>1 DEF Holds
<1> QED BY <1>1, ShareInvariant, PTL

(* ClaimScope sleeps only where it will be woken: for a listed scope of a context that is
   not, through others, waiting for it. *)
THEOREM ClaimsCorrect == SSSpec => []ClaimsEnd
<1>1. ShareInv => ClaimsEnd
  <2> SUFFICES ASSUME ShareInv PROVE ClaimsEnd
    OBVIOUS
  <2> DEFINE sleepers == {c \in ShareContexts : spc[c] = "asleep"}
  <2> USE ScopeShareAssumption DEF ScopeShareAssumption
  <2>1. ASSUME NEW c \in sleepers
        PROVE  /\ toShare[c] = lockedScope[c] /\ lockedScope[c] \in Scopes /\ Listed(lockedScope[c])
               /\ ownercx[lockedScope[c]] \in ShareContexts \ {c}
    BY DEF ShareInv, SSTypeOK, ShareWaitInv, InWait, LockingInv, Locking, NotOwn
  <2>2. ASSUME NEW D \in SUBSET sleepers, \A c \in D : ownercx[lockedScope[c]] \in D PROVE D = {}
    <3>1. ASSUME NEW c \in D PROVE toShare[c] # Nil /\ ownercx[toShare[c]] \in D
      <4>1. c \in sleepers
        OBVIOUS
      <4> QED BY <2>1, <2>2, <4>1
    <3>2. D \in SUBSET ShareContexts
      OBVIOUS
    <3> QED BY <3>1, <3>2 DEF ShareInv, NoCycle
  <2> HIDE DEF sleepers
  <2>3. ~\E D \in (SUBSET sleepers) \ {{}} : \A c \in D : ownercx[lockedScope[c]] \in D
    BY <2>2
  <2> QED BY <2>1, <2>3 DEF ClaimsEnd, sleepers
<1> QED BY <1>1, ShareInvariant, PTL

=============================================================================
