----------------------------- MODULE ScopeShare -----------------------------
(***************************************************************************)
(* How scopes pass from one context's exclusive ownership to sharing       *)
(* (jslock.c and JS_EndRequest, JS_THREADSAFE builds).  A scope with an    *)
(* ownercx is locked by that context without a lock; another context must  *)
(* claim it, or wait until the owner's request ends and the scope is given *)
(* a thin lock.  Each context has a thread of its own.                     *)
(*                                                                         *)
(* What is done under rt->gcLock is one step.  A thin lock is a mutex here *)
(* (ThinLock shows that it is one).  Scopes are locked inside requests,    *)
(* no context locks two scopes at once, and the prototype that a scope was *)
(* made for stays alive while the scope is on the sharing list, as         *)
(* JS_EndRequest takes for granted when it drops a scope without notice.   *)
(***************************************************************************)
EXTENDS Integers

CONSTANTS
    ShareContexts,
    Objects,
    Scopes,
    HomeOf,      \* the object each scope is made for (scope->object)
    MapAtStart,  \* the scope each object starts with (obj->map)
    OwnerAtStart,
    MaxNest,     \* how often a context locks one object again
    Nil

\* Every object starts with the scope of its prototype or its own.
ASSUME ScopeShareAssumption ==
    /\ HomeOf \in [Scopes -> Objects] /\ MapAtStart \in [Objects -> Scopes]
    /\ OwnerAtStart \in [Scopes -> ShareContexts \cup {Nil}]
    /\ Nil \notin ShareContexts \cup Objects \cup Scopes
    /\ \A o \in Objects : MapAtStart[HomeOf[MapAtStart[o]]] = MapAtStart[o]
    /\ MaxNest \in Nat \ {0}

VARIABLES
    scopeOf,     \* obj->map
    ownercx, word, lockCount,   \* scope->ownercx, scope->lock.owner, scope->u.count
    todo,        \* the scopes on rt->scopeSharingTodo; their order is not used
    toShare,     \* cx->scopeToShare
    requests,    \* rt->requestCount
    collecting,  \* 1 while a context's thread is in js_GC
    spc,         \* where each context is
    lockedObj, lockedScope,      \* obj and scope of its js_LockObj
    nest         \* the unlocks it still owes

lockVars == <<ownercx, word, lockCount>>
callVars == <<lockedObj, lockedScope, nest>>
ssVars == <<scopeOf, lockVars, todo, toShare, requests, collecting, spc, callVars>>

\* scope->u.link is set.
Listed(s) == s \in todo

ScopeInUse(s) == \E o \in Objects : scopeOf[o] = s

\* A context in ClaimScope's wait has saved and cleared its requestDepth.
HasRequest(c) == spc[c] \notin {"out", "asleep", "awake"}

InObject(c) == spc[c] = "inside"

SSInit ==
    /\ scopeOf = MapAtStart
    /\ ownercx = OwnerAtStart
    /\ word = [s \in Scopes |-> Nil] /\ lockCount = [s \in Scopes |-> 0]
    /\ todo = {} /\ requests = 0 /\ collecting = 0
    /\ toShare = [c \in ShareContexts |-> Nil]
    /\ spc = [c \in ShareContexts |-> "out"]
    /\ lockedObj = [c \in ShareContexts |-> Nil] /\ lockedScope = [c \in ShareContexts |-> Nil]
    /\ nest = [c \in ShareContexts |-> 0]

SSGo(c, label) == spc' = [spc EXCEPT ![c] = label]

\* spc after c has gone to a label and every sleeper has been notified.
WakeSleepers(c, label) ==
    spc' = [d \in ShareContexts |-> IF d = c THEN label
                               ELSE IF spc[d] = "asleep" THEN "awake" ELSE spc[d]]

JS_BeginRequest(c) ==
    /\ spc[c] = "out" /\ collecting = 0
    /\ requests' = requests + 1
    /\ SSGo(c, "run")
    /\ UNCHANGED <<scopeOf, lockVars, todo, toShare, collecting, callVars>>

\* The listed scopes that c owns become shared.
JS_EndRequest(c) ==
    LET shared == {s \in Scopes : Listed(s) /\ ownercx[s] = c}
    IN /\ spc[c] = "run"
       /\ todo' = todo \ shared
       /\ ownercx' = [s \in Scopes |-> IF s \in shared THEN Nil ELSE ownercx[s]]
       /\ word' = [s \in Scopes |-> IF s \in shared THEN Nil ELSE word[s]]
       /\ lockCount' = [s \in Scopes |-> IF s \in shared THEN 0 ELSE lockCount[s]]
       /\ IF shared # {} THEN WakeSleepers(c, "out") ELSE SSGo(c, "out")
       /\ requests' = requests - 1
       /\ UNCHANGED <<scopeOf, toShare, collecting, callVars>>

\* JS_LOCK_OBJ: nothing to do for the owner, else js_LockObj reads obj->map.
LockObj(c, o) ==
    /\ spc[c] = "run"
    /\ lockedObj' = [lockedObj EXCEPT ![c] = o]
    /\ IF ownercx[scopeOf[o]] = c
       THEN SSGo(c, "inside") /\ nest' = [nest EXCEPT ![c] = 1] /\ UNCHANGED lockedScope
       ELSE /\ SSGo(c, "read")
            /\ lockedScope' = [lockedScope EXCEPT ![c] = scopeOf[o]] /\ UNCHANGED nest
    /\ UNCHANGED <<scopeOf, lockVars, todo, toShare, requests, collecting>>

\* js_LockScope reads scope->ownercx without a lock.
LockScope(c) ==
    /\ spc[c] = "read"
    /\ SSGo(c, IF ownercx[lockedScope[c]] # Nil THEN "claim" ELSE "thin")
    /\ UNCHANGED <<scopeOf, lockVars, todo, toShare, requests, collecting, callVars>>

ThinAcquire(c) ==
    /\ spc[c] = "thin" /\ word[lockedScope[c]] = Nil
    /\ word' = [word EXCEPT ![lockedScope[c]] = c]
    /\ lockCount' = [lockCount EXCEPT ![lockedScope[c]] = 1]
    /\ SSGo(c, "check")
    /\ UNCHANGED <<scopeOf, ownercx, todo, toShare, requests, collecting, callVars>>

----------------------------------------------------------------------------
(* ClaimScope.  A context that has been notified comes back to the head of  *)
(* its loop once no collection is running, and counts its request again.    *)

\* The owner d waits for, if it waits.
WaitsFor(d) == IF d = Nil \/ toShare[d] = Nil THEN Nil ELSE ownercx[toShare[d]]

\* c is one of the owners met from s on: every set that holds s's owner and, with an
\* owner, the one it waits for, holds c.
WillDeadlock(s, c) ==
    /\ ownercx[s] # Nil
    /\ \A S \in SUBSET ShareContexts :
          ownercx[s] \in S /\ (\A d \in S : WaitsFor(d) \in S \cup {Nil}) => c \in S

\* Mutant of Claimable: whether the owner runs a request is forgotten.
ClaimableAnyway(s, d) == ~Listed(s)

\* s's owner d is not using it: c may take it over.
Claimable(s, d) == ~Listed(s) /\ ~HasRequest(d)

AtLoopHead(c) ==
    \/ spc[c] = "claim"
    \/ spc[c] = "awake" /\ collecting = 0

RequestsAt(c) == IF spc[c] = "awake" THEN requests + 1 ELSE requests

\* Leaving the loop: the request is counted again and the wait is over.
LeaveLoop(c) ==
    /\ requests' = RequestsAt(c)
    /\ toShare' = [toShare EXCEPT ![c] = Nil]
    /\ UNCHANGED <<scopeOf, collecting, callVars>>

ClaimShared(c) ==
    /\ AtLoopHead(c) /\ ownercx[lockedScope[c]] = Nil
    /\ SSGo(c, "thin")
    /\ LeaveLoop(c)
    /\ UNCHANGED <<lockVars, todo>>

ClaimOwned(c) ==
    LET s == lockedScope[c]
    IN /\ AtLoopHead(c) /\ ownercx[s] # Nil /\ Claimable(s, ownercx[s])
       /\ ownercx' = [ownercx EXCEPT ![s] = c]
       /\ SSGo(c, "check")
       /\ LeaveLoop(c)
       /\ UNCHANGED <<word, lockCount, todo>>

MustWait(c) ==
    LET s == lockedScope[c]
    IN AtLoopHead(c) /\ ownercx[s] # Nil /\ ~Claimable(s, ownercx[s])

\* Mutant of WouldDeadlock: nobody looks for a cycle.
WouldDeadlockNever(c) == FALSE

\* The owner waits for a scope whose owner waits ... for one of c's.
WouldDeadlock(c) ==
    LET d == ownercx[lockedScope[c]]
    IN toShare[d] # Nil /\ WillDeadlock(toShare[d], c)

ShareScope(c) ==
    LET s == lockedScope[c]
    IN /\ MustWait(c) /\ WouldDeadlock(c)
       /\ IF Listed(s) THEN WakeSleepers(c, "thin") ELSE SSGo(c, "thin")
       /\ todo' = todo \ {s}
       /\ ownercx' = [ownercx EXCEPT ![s] = Nil]
       /\ word' = [word EXCEPT ![s] = Nil]
       /\ lockCount' = [lockCount EXCEPT ![s] = 0]
       /\ LeaveLoop(c)

\* Suspends the request and waits on rt->scopeSharingDone.
WaitForSharing(c) ==
    LET s == lockedScope[c]
    IN /\ MustWait(c) /\ ~WouldDeadlock(c)
       /\ todo' = todo \cup {s}
       /\ requests' = RequestsAt(c) - 1
       /\ toShare' = [toShare EXCEPT ![c] = s]
       /\ SSGo(c, "asleep")
       /\ UNCHANGED <<scopeOf, lockVars, collecting, callVars>>

----------------------------------------------------------------------------
(* Holding an object.                                                       *)

\* js_UnlockScope for the last of c's locks of s.
ReleaseScope(c, s) ==
    IF ownercx[s] = c THEN UNCHANGED lockVars
    ELSE /\ word' = [word EXCEPT ![s] = Nil]
         /\ lockCount' = [lockCount EXCEPT ![s] = 0]
         /\ UNCHANGED ownercx

\* Mutant of LockObjChecks: the object is taken to have its scope still.
LockObjTrusts(c) ==
    /\ spc[c] = "check"
    /\ SSGo(c, "inside")
    /\ nest' = [nest EXCEPT ![c] = 1]
    /\ UNCHANGED <<scopeOf, lockVars, todo, toShare, requests, collecting, lockedObj, lockedScope>>

\* The tail of js_LockObj's loop: if obj has changed its scope, once more.
LockObjChecks(c) ==
    /\ spc[c] = "check"
    /\ IF scopeOf[lockedObj[c]] = lockedScope[c]
       THEN /\ SSGo(c, "inside")
            /\ nest' = [nest EXCEPT ![c] = 1]
            /\ UNCHANGED <<lockVars, lockedScope>>
       ELSE /\ ReleaseScope(c, lockedScope[c])
            /\ lockedScope' = [lockedScope EXCEPT ![c] = scopeOf[lockedObj[c]]]
            /\ SSGo(c, "read")
            /\ UNCHANGED nest
    /\ UNCHANGED <<scopeOf, todo, toShare, requests, collecting, lockedObj>>

LockAgain(c) ==
    LET s == scopeOf[lockedObj[c]]
    IN /\ InObject(c) /\ nest[c] < MaxNest
       /\ lockCount' = IF ownercx[s] = c THEN lockCount ELSE [lockCount EXCEPT ![s] = @ + 1]
       /\ nest' = [nest EXCEPT ![c] = @ + 1]
       /\ UNCHANGED <<scopeOf, ownercx, word, todo, toShare, requests, collecting, spc,
                      lockedObj, lockedScope>>

UnlockObj(c) ==
    LET s == scopeOf[lockedObj[c]]
    IN /\ InObject(c)
       /\ nest' = [nest EXCEPT ![c] = @ - 1]
       /\ IF nest[c] > 1
          THEN /\ lockCount' = IF ownercx[s] = c THEN lockCount ELSE [lockCount EXCEPT ![s] = @ - 1]
               /\ UNCHANGED <<ownercx, word, spc, lockedObj, lockedScope>>
          ELSE /\ ReleaseScope(c, s)
               /\ lockedObj' = [lockedObj EXCEPT ![c] = Nil]
               /\ lockedScope' = [lockedScope EXCEPT ![c] = Nil]
               /\ SSGo(c, "run")
       /\ UNCHANGED <<scopeOf, todo, toShare, requests, collecting>>

(***************************************************************************)
(* js_GetMutableScope gives an object that shares its prototype's scope    *)
(* one of its own, owned by c; js_TransferScopeLock unlocks the old scope, *)
(* whatever its count.                                                     *)
(***************************************************************************)
GetMutableScope(c, s) ==
    LET o == lockedObj[c]
        old == scopeOf[o]
    IN /\ InObject(c) /\ HomeOf[old] # o /\ HomeOf[s] = o /\ ~ScopeInUse(s)
       /\ scopeOf' = [scopeOf EXCEPT ![o] = s]
       /\ ownercx' = [ownercx EXCEPT ![s] = c]
       /\ IF ownercx[old] = c THEN UNCHANGED <<word, lockCount>>
          ELSE /\ word' = [word EXCEPT ![old] = Nil]
               /\ lockCount' = [lockCount EXCEPT ![old] = 0]
       /\ UNCHANGED <<todo, toShare, requests, collecting, spc, callVars>>

----------------------------------------------------------------------------
(* A collection on c's thread waits for the requests that are running.      *)

StartCollect(c) ==
    /\ spc[c] = "run" /\ collecting = 0
    /\ collecting' = 1 /\ requests' = requests - 1
    /\ SSGo(c, "gc")
    /\ UNCHANGED <<scopeOf, lockVars, todo, toShare, callVars>>

EndCollect(c) ==
    /\ spc[c] = "gc" /\ requests = 0
    /\ collecting' = 0 /\ requests' = 1
    /\ SSGo(c, "run")
    /\ UNCHANGED <<scopeOf, lockVars, todo, toShare, callVars>>

----------------------------------------------------------------------------

SSNext == \E c \in ShareContexts :
    \/ JS_BeginRequest(c) \/ JS_EndRequest(c)
    \/ \E o \in Objects : LockObj(c, o)
    \/ LockScope(c) \/ ThinAcquire(c) \/ LockObjChecks(c)
    \/ ClaimShared(c) \/ ClaimOwned(c) \/ ShareScope(c) \/ WaitForSharing(c)
    \/ LockAgain(c) \/ UnlockObj(c) \/ \E s \in Scopes : GetMutableScope(c, s)
    \/ StartCollect(c) \/ EndCollect(c)

SSSpec == SSInit /\ [][SSNext]_ssVars

----------------------------------------------------------------------------
(***************************************************************************)
(* A context inside an object holds the lock of the scope the object has   *)
(* now: it owns the scope, or has its thin lock exactly as often as it     *)
(* will unlock it; and nobody else is inside an object of that scope.      *)
(* Claims, sharing, transfers and js_LockObj's second look all aim at      *)
(* this.                                                                   *)
(***************************************************************************)
HoldersHold ==
    \A c \in ShareContexts : InObject(c) =>
        LET s == scopeOf[lockedObj[c]]
        IN /\ \/ ownercx[s] = c /\ word[s] = Nil
              \/ ownercx[s] = Nil /\ word[s] = c /\ lockCount[s] = nest[c]
           /\ \A d \in ShareContexts \ {c} : InObject(d) => scopeOf[lockedObj[d]] # s

(***************************************************************************)
(* Whoever sleeps in ClaimScope waits for a scope on the sharing list, so  *)
(* that the end of a request or another claim will wake it, and no chain   *)
(* of sleepers and owners comes back to it.                                *)
(***************************************************************************)
ClaimsEnd ==
    LET sleepers == {c \in ShareContexts : spc[c] = "asleep"}
    IN /\ \A c \in sleepers : /\ toShare[c] = lockedScope[c] /\ Listed(lockedScope[c])
                             /\ ownercx[lockedScope[c]] \in ShareContexts \ {c}
       /\ ~\E D \in (SUBSET sleepers) \ {{}} : \A c \in D : ownercx[lockedScope[c]] \in D

=============================================================================
