---------------------------- MODULE ThinLockInv ----------------------------
(***************************************************************************)
(* The inductive invariants behind the safety properties of ThinLock:      *)
(* LocksProofs proves them, and TLC checks them with the properties.       *)
(***************************************************************************)
EXTENDS ThinLock

(* Who may be where: a thread that is not idle works on a lock, and the labels
   between js_LockGlobal and js_UnlockGlobal are those of the global lock's holder. *)
InGlobal(t) == pc[t] \in {"read", "swap", "suspend", "drop", "resume"}

PlaceInv ==
    /\ \A t \in Threads : pc[t] # "idle" => at[t] \in Locks
    /\ \A t \in Threads : InGlobal(t) => global = t

(* The lock word names the thread inside, and a free word has no wait bit. *)
WordInv ==
    /\ \A l \in Locks : owner[l].who = None => ~owner[l].wait
    /\ \A t \in Threads : pc[t] \in {"held", "dequeue", "drop"} => owner[at[t]].who = t
    /\ \A t \in Threads : pc[t] \in {"dequeue", "drop"} => owner[at[t]].wait

(* A suspended thread has a fat lock, and a lock has one while somebody is counted
   in it. *)
FatInv ==
    /\ FatLocksExact
    /\ \A t \in Threads : Suspended(t) => fl[t] \in Fats
    /\ \A l \in Locks : fat[l] # None => susp[fat[l]] > 0

(* A wait bit without a fat lock is about to be resolved by the thread that was the
   last to leave it, and that still has the global lock. *)
WaitInv ==
    /\ \A l \in Locks : owner[l].wait /\ fat[l] = None =>
          \E u \in Threads : at[u] = l /\ pc[u] \in {"read", "swap"}
    /\ \A t \in Threads : meWait[t] => pc[t] \in {"read", "swap"} /\ fat[at[t]] # None

(* The lock words, their wait bits, the fat locks with their counts and the holder of
   the global lock agree at every step of js_Lock and js_Unlock. *)
LockInv == TypeOK /\ PlaceInv /\ WordInv /\ FatInv /\ WaitInv

----------------------------------------------------------------------------
(* A thread that will come and see to the sleepers of its lock: it is about to
   notify their fat lock, or it has been woken and will set the wait bit again, or
   carries it in me. *)
Waker(u, t) ==
    /\ at[u] = at[t]
    /\ \/ pc[u] \in {"resume", "notify"} /\ fl[u] = fl[t]
       \/ pc[u] \in {"woken", "relock"}
       \/ pc[u] \in {"read", "swap"} /\ meWait[u]

(* Who holds slock, and on which fat lock a resuming thread is. *)
HandInv ==
    /\ \A t \in Threads : pc[t] \in {"release", "notify"} => fl[t] \in Fats /\ slock[fl[t]] = t
    /\ \A t \in Threads : pc[t] = "resume" => fl[t] \in Fats /\ fl[t] = fat[at[t]]

(* On the way to sleep the bit is set, or the thread that cleared it is still before
   slock, which the one going to sleep holds until it does. *)
BedInv ==
    /\ \A t \in Threads : pc[t] = "suspend" => owner[at[t]].wait
    /\ \A t \in Threads : pc[t] = "release" =>
          owner[at[t]].wait \/ \E u \in Threads : pc[u] = "resume" /\ at[u] = at[t]

(* A sleeper has the wait bit of its lock or a waker. *)
SleepInv ==
    \A t \in Threads : pc[t] = "asleep" =>
        owner[at[t]].wait \/ \E u \in Threads : Waker(u, t)

(* No notification of js_ResumeThread comes before the sleep it is meant for, and none
   is owed to a sleeper without somebody under way to give it. *)
WakeInv == HandInv /\ BedInv /\ SleepInv
============================================================================
