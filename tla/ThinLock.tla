----------------------------- MODULE ThinLock -----------------------------
(***************************************************************************)
(* The thin locks of jslock.c (JS_THREADSAFE builds): a lock word taken    *)
(* and released by compare-and-swap while nobody contends, and a "fat      *)
(* lock" (NSPR mutex slock and condition variable svar) on which threads   *)
(* sleep when they do.  The modelled locks are those of one bucket of      *)
(* global_locks: they share a global lock and a list of fat locks; locks   *)
(* of different buckets share nothing.                                     *)
(*                                                                         *)
(* Two atomic steps of a thread are merged only when no other thread can   *)
(* come between them with effect; a thread holds at most one thin lock.    *)
(***************************************************************************)
EXTENDS Integers, FiniteSets

CONSTANTS
    Threads,
    Locks,       \* the JSThinLocks of one bucket
    Fats,        \* the JSFatLocks malloc can supply
    ListLen,     \* fl_list_chunk_len
    None         \* 0 in a lock word, NULL, a free PRLock, a local out of scope

ASSUME ThinLockAssumption ==
    /\ IsFiniteSet(Threads) /\ None \notin Threads \cup Locks \cup Fats
    /\ ListLen \in Nat \ {0}

VARIABLES
    owner,       \* tl->owner: the owning thread and the wait bit
    fat,         \* tl->fat
    susp,        \* fl->susp
    made, free,  \* fat locks allocated so far; the bucket's free list
    global,      \* holder of the bucket's global lock
    slock,       \* holder of each fl->slock
    pc, at,      \* where each thread is, and the lock it works on
    seen,        \* o in js_Enqueue
    meWait,      \* the wait bit of me in js_Enqueue
    fl           \* fl in js_SuspendThread and js_ResumeThread

wordVars == <<owner, meWait, seen>>
fatVars  == <<fat, susp, made, free>>
vars == <<wordVars, fatVars, global, slock, pc, at, fl>>

FreeWord == [who |-> None, wait |-> FALSE]

Labels == {"idle", "held", "enqueue", "read", "swap", "suspend", "release",
           "asleep", "woken", "relock", "dequeue", "drop", "resume", "notify"}

\* The labels at which a thread is counted in fl->susp.
Suspended(t) == pc[t] \in {"suspend", "release", "asleep", "woken", "relock"}

\* In the js_Lock of lock l and not yet its owner.
Waiting(t) == Suspended(t) \/ pc[t] \in {"enqueue", "read", "swap"}

\* Between the return of js_Lock and the store that releases the lock.
Inside(t, l) == at[t] = l /\ pc[t] \in {"held", "dequeue", "drop"}

Go(t, label) == pc' = [pc EXCEPT ![t] = label]

Init ==
    /\ owner = [l \in Locks |-> FreeWord]
    /\ fat = [l \in Locks |-> None]
    /\ susp = [f \in Fats |-> 0]
    /\ made = {} /\ free = {}
    /\ global = None
    /\ slock = [f \in Fats |-> None]
    /\ pc = [t \in Threads |-> "idle"]
    /\ at = [t \in Threads |-> None]
    /\ seen = [t \in Threads |-> FreeWord]
    /\ meWait = [t \in Threads |-> FALSE]
    /\ fl = [t \in Threads |-> None]

----------------------------------------------------------------------------
(* js_Lock and js_Enqueue *)

\* The compare-and-swap from 0 succeeds: nobody is told.
LockFast(t, l) ==
    /\ pc[t] = "idle" /\ owner[l] = FreeWord
    /\ owner' = [owner EXCEPT ![l] = [who |-> t, wait |-> FALSE]]
    /\ at' = [at EXCEPT ![t] = l]
    /\ Go(t, "held")
    /\ UNCHANGED <<meWait, seen, fatVars, global, slock, fl>>

\* It fails.  The word read next may be any other thread's or 0, never me.
LockContended(t, l) ==
    /\ pc[t] = "idle" /\ owner[l] # FreeWord
    /\ at' = [at EXCEPT ![t] = l]
    /\ Go(t, "enqueue")
    /\ UNCHANGED <<wordVars, fatVars, global, slock, fl>>

\* js_LockGlobal at the top of js_Enqueue.
EnqueueGlobal(t) ==
    /\ pc[t] = "enqueue" /\ global = None
    /\ global' = t
    /\ Go(t, "read")
    /\ UNCHANGED <<wordVars, fatVars, slock, at, fl>>

\* o = ReadWord(tl->owner).
EnqueueRead(t) ==
    /\ pc[t] = "read"
    /\ seen' = [seen EXCEPT ![t] = owner[at[t]]]
    /\ Go(t, "swap")
    /\ UNCHANGED <<owner, meWait, fatVars, global, slock, at, fl>>

\* The fat locks GetFatlock can hand out from list, and the list it then has:
\* an empty list is refilled with a chunk of new ones first.
Chunks == {c \in SUBSET (Fats \ made) : Cardinality(c) = ListLen}
Lists  == IF free = {} THEN Chunks ELSE {free}

\* The wait bit is set in the word that was read, and js_SuspendThread begins:
\* this thread is counted in the lock's fat lock, allocated if it has none.
EnqueueSetWait(t) ==
    LET l == at[t] IN
    /\ pc[t] = "swap" /\ seen[t] # FreeWord /\ owner[l] = seen[t]
    /\ owner' = [owner EXCEPT ![l].wait = TRUE]
    /\ \/ /\ fat[l] = None
          /\ \E list \in Lists : \E f \in list :
                /\ made' = made \cup list
                /\ free' = list \ {f}
                /\ fat' = [fat EXCEPT ![l] = f]
                /\ susp' = [susp EXCEPT ![f] = 1]
                /\ fl' = [fl EXCEPT ![t] = f]
       \/ /\ fat[l] # None
          /\ susp' = [susp EXCEPT ![fat[l]] = @ + 1]
          /\ fl' = [fl EXCEPT ![t] = fat[l]]
          /\ UNCHANGED <<made, free, fat>>
    /\ seen' = [seen EXCEPT ![t] = FreeWord]
    /\ meWait' = [meWait EXCEPT ![t] = FALSE]
    /\ Go(t, "suspend")
    /\ UNCHANGED <<global, slock, at>>

\* The word is stored when the condition granted holds.
TakeIf(t, granted, wait) ==
    /\ pc[t] = "swap" /\ granted
    /\ owner' = [owner EXCEPT ![at[t]] = [who |-> t, wait |-> wait]]
    /\ global' = None
    /\ seen' = [seen EXCEPT ![t] = FreeWord]
    /\ meWait' = [meWait EXCEPT ![t] = FALSE]
    /\ Go(t, "held")
    /\ UNCHANGED <<fatVars, slock, at, fl>>

\* Mutants: a plain store after 0 was read; me without its wait bit.
TakeByStore(t) == TakeIf(t, FreeWord \in {owner[at[t]], seen[t]}, meWait[t])
TakeBare(t)    == TakeIf(t, owner[at[t]] = FreeWord, FALSE)

\* The word was 0 or has changed, and the swap from 0 to me succeeds.
EnqueueTake(t) == TakeIf(t, owner[at[t]] = FreeWord, meWait[t])

\* Both swaps fail: read again.
EnqueueAgain(t) ==
    /\ pc[t] = "swap" /\ owner[at[t]] # FreeWord /\ owner[at[t]] # seen[t]
    /\ seen' = [seen EXCEPT ![t] = FreeWord]
    /\ Go(t, "read")
    /\ UNCHANGED <<owner, meWait, fatVars, global, slock, at, fl>>

----------------------------------------------------------------------------
(* js_SuspendThread *)

\* Mutant: the global lock is released with slock not taken yet.
SuspendBare(t) ==
    /\ pc[t] = "suspend"
    /\ global' = None
    /\ Go(t, "release")
    /\ UNCHANGED <<wordVars, fatVars, slock, at, fl>>

\* PR_Lock(fl->slock), then js_UnlockGlobal: in this order.
SuspendLock(t) ==
    /\ pc[t] = "suspend" /\ slock[fl[t]] = None
    /\ slock' = [slock EXCEPT ![fl[t]] = t]
    /\ global' = None
    /\ Go(t, "release")
    /\ UNCHANGED <<wordVars, fatVars, at, fl>>

\* PR_WaitCondVar releases slock and sleeps, in one step.
Sleep(t) ==
    /\ pc[t] = "release"
    /\ slock' = [slock EXCEPT ![fl[t]] = None]
    /\ Go(t, "asleep")
    /\ UNCHANGED <<wordVars, fatVars, global, at, fl>>

\* A condition variable may also wake a thread nobody notified.
SpuriousWakeup(t) ==
    /\ pc[t] = "asleep"
    /\ Go(t, "woken")
    /\ UNCHANGED <<wordVars, fatVars, global, slock, at, fl>>

\* PR_WaitCondVar returns with slock, which is released at once.
Wake(t) ==
    /\ pc[t] = "woken" /\ slock[fl[t]] = None
    /\ Go(t, "relock")
    /\ UNCHANGED <<wordVars, fatVars, global, slock, at, fl>>

\* js_LockGlobal after the wait; the fat lock is given back if put holds, and
\* wait is what becomes of the wait bit of me.
RelockWith(t, put, wait) ==
    LET f == fl[t] IN
    /\ pc[t] = "relock" /\ global = None
    /\ global' = t
    /\ susp' = [susp EXCEPT ![f] = @ - 1]
    /\ free' = IF put THEN free \cup {f} ELSE free
    /\ fat' = IF put THEN [fat EXCEPT ![at[t]] = None] ELSE fat
    /\ meWait' = [meWait EXCEPT ![t] = wait]
    /\ fl' = [fl EXCEPT ![t] = None]
    /\ Go(t, "read")
    /\ UNCHANGED <<owner, seen, made, slock, at>>

LastOne(t) == susp[fl[t]] = 1

\* Mutants: every thread that wakes gives the fat lock back; the bit is never
\* cleared; it is cleared though others sleep.
RelockPuts(t) == RelockWith(t, TRUE, FALSE)
RelockKeepsBit(t) == RelockWith(t, LastOne(t), TRUE)
RelockDropsBit(t) == RelockWith(t, LastOne(t), FALSE)

\* The last thread to leave gives the fat lock back; while others sleep on it,
\* me carries the wait bit.
Relock(t) == RelockWith(t, LastOne(t), ~LastOne(t) /\ fat[at[t]] # None)

----------------------------------------------------------------------------
(* js_Unlock, js_Dequeue and js_ResumeThread *)

UnlockFast(t) ==
    LET l == at[t] IN
    /\ pc[t] = "held" /\ owner[l] = [who |-> t, wait |-> FALSE]
    /\ owner' = [owner EXCEPT ![l] = FreeWord]
    /\ at' = [at EXCEPT ![t] = None]
    /\ Go(t, "idle")
    /\ UNCHANGED <<meWait, seen, fatVars, global, slock, fl>>

UnlockContended(t) ==
    /\ pc[t] = "held" /\ owner[at[t]] = [who |-> t, wait |-> TRUE]
    /\ Go(t, "dequeue")
    /\ UNCHANGED <<wordVars, fatVars, global, slock, at, fl>>

DequeueGlobal(t) ==
    /\ pc[t] = "dequeue" /\ global = None
    /\ global' = t
    /\ Go(t, "drop")
    /\ UNCHANGED <<wordVars, fatVars, slock, at, fl>>

\* The word is released; js_ResumeThread keeps tl->fat in fl.
DequeueDrop(t) ==
    LET l == at[t] IN
    /\ pc[t] = "drop" /\ fat[l] # None
    /\ owner' = [owner EXCEPT ![l] = FreeWord]
    /\ fl' = [fl EXCEPT ![t] = fat[l]]
    /\ Go(t, "resume")
    /\ UNCHANGED <<meWait, seen, fatVars, global, slock, at>>

ResumeLock(t) ==
    /\ pc[t] = "resume" /\ slock[fl[t]] = None
    /\ slock' = [slock EXCEPT ![fl[t]] = t]
    /\ global' = None
    /\ Go(t, "notify")
    /\ UNCHANGED <<wordVars, fatVars, at, fl>>

\* PR_NotifyCondVar wakes one of the threads asleep on fl->svar, if any is.
Asleep(f) == {u \in Threads : pc[u] = "asleep" /\ fl[u] = f}

Notify(t) ==
    /\ pc[t] = "notify"
    /\ \/ \E u \in Asleep(fl[t]) :
             pc' = [pc EXCEPT ![u] = "woken", ![t] = "idle"]
       \/ Asleep(fl[t]) = {} /\ Go(t, "idle")
    /\ slock' = [slock EXCEPT ![fl[t]] = None]
    /\ at' = [at EXCEPT ![t] = None]
    /\ fl' = [fl EXCEPT ![t] = None]
    /\ UNCHANGED <<wordVars, fatVars, global>>

----------------------------------------------------------------------------

\* The steps of a thread that has called js_Lock and must go on.
Step(t) ==
    \/ EnqueueGlobal(t) \/ EnqueueRead(t) \/ EnqueueSetWait(t)
    \/ EnqueueTake(t) \/ EnqueueAgain(t)
    \/ SuspendLock(t) \/ Sleep(t) \/ Wake(t) \/ Relock(t)
    \/ UnlockFast(t) \/ UnlockContended(t)
    \/ DequeueGlobal(t) \/ DequeueDrop(t) \/ ResumeLock(t) \/ Notify(t)

Next ==
    \E t \in Threads :
        \/ \E l \in Locks : LockFast(t, l) \/ LockContended(t, l)
        \/ Step(t)
        \/ SpuriousWakeup(t)

Spec == Init /\ [][Next]_vars

\* A thread that has begun keeps running, a holder unlocks, and wakeups nobody
\* asked for do not go on for ever.  Nothing is fair about the order in which
\* threads get a PRLock, and nobody has to lock.
Fairness ==
    /\ \A t \in Threads : WF_vars(Step(t))
    /\ <>[][\A t \in Threads : ~SpuriousWakeup(t)]_vars

----------------------------------------------------------------------------

\* Every variable has its type; wait bits, mutexes and fat locks included.
TypeOK ==
    /\ owner \in [Locks -> [who : Threads \cup {None}, wait : BOOLEAN]]
    /\ fat \in [Locks -> Fats \cup {None}]
    /\ susp \in [Fats -> Nat]
    /\ made \subseteq Fats /\ free \subseteq made
    /\ global \in Threads \cup {None}
    /\ slock \in [Fats -> Threads \cup {None}]
    /\ pc \in [Threads -> Labels]
    /\ at \in [Threads -> Locks \cup {None}]
    /\ seen \in [Threads -> [who : Threads \cup {None}, wait : BOOLEAN]]
    /\ meWait \in [Threads -> BOOLEAN]
    /\ fl \in [Threads -> Fats \cup {None}]

\* Two threads are never between js_Lock and js_Unlock of the same lock.
MutualExclusion ==
    \A t, u \in Threads, l \in Locks : Inside(t, l) /\ Inside(u, l) => t = u

\* What js_Dequeue and js_ResumeThread assert once they have the global lock:
\* the word still is this thread's with the wait bit, and somebody is counted
\* in a fat lock.
DequeueAsserts ==
    \A t \in Threads : pc[t] = "drop" =>
        LET l == at[t] IN
        /\ owner[l] = [who |-> t, wait |-> TRUE]
        /\ fat[l] # None /\ susp[fat[l]] > 0

\* fl->susp counts exactly the threads in js_SuspendThread; a suspended thread
\* is on the fat lock its thin lock points to, so never on one that has been
\* recycled; and a fat lock belongs to one thin lock or is on the free list.
FatLocksExact ==
    /\ \A f \in Fats :
          susp[f] = Cardinality({t \in Threads : Suspended(t) /\ fl[t] = f})
    /\ \A t \in Threads : Suspended(t) => fat[at[t]] = fl[t]
    /\ \A f \in Fats : (f \in made \ free) <=> (\E l \in Locks : fat[l] = f)
    /\ \A k, l \in Locks : fat[k] = fat[l] /\ fat[k] # None => k = l

\* Nobody sleeps on a lock that will be released without a notification: its
\* owner sees the wait bit, or a thread is about to notify, or one that was
\* woken has yet to come back and set the bit again.
NoLostWakeup ==
    \A t \in Threads : pc[t] = "asleep" =>
        \/ owner[at[t]].wait
        \/ \E u \in Threads \ {t} :
              /\ at[u] = at[t]
              /\ \/ pc[u] \in {"resume", "notify", "woken", "relock"}
                 \/ pc[u] \in {"read", "swap"} /\ meWait[u]

\* A thread waits for ever only while others keep getting locks: when all that
\* hold a lock have released it and nobody asks, no waiter is left behind.
WaitersProgress ==
    \A t \in Threads :
        <>[]Waiting(t) => []<>(\E u \in Threads \ {t} : pc[u] = "held")

============================================================================
