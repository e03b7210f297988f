--------------------------- MODULE ScopeShareInv ---------------------------
(***************************************************************************)
(* The inductive invariant behind HoldersHold and ClaimsEnd:               *)
(* LocksProofs proves it, TLC can check it as it checks the two.           *)
(***************************************************************************)
EXTENDS ScopeShare

SSTypeOK ==
    /\ scopeOf \in [Objects -> Scopes]
    /\ ownercx \in [Scopes -> ShareContexts \cup {Nil}]
    /\ word \in [Scopes -> ShareContexts \cup {Nil}]
    /\ lockCount \in [Scopes -> Int]
    /\ todo \in SUBSET Scopes
    /\ toShare \in [ShareContexts -> Scopes \cup {Nil}]
    /\ requests \in Int /\ collecting \in {0, 1}
    /\ spc \in [ShareContexts -> {"out", "run", "gc", "read", "claim", "asleep", "awake",
                                  "thin", "check", "inside"}]
    /\ lockedObj \in [ShareContexts -> Objects \cup {Nil}]
    /\ lockedScope \in [ShareContexts -> Scopes \cup {Nil}]
    /\ nest \in [ShareContexts -> Int]

\* c is in js_LockObj, and in its wait in ClaimScope.
Locking(c) == spc[c] \in {"read", "claim", "asleep", "awake", "thin", "check"}
InWait(c) == spc[c] \in {"asleep", "awake"}

(* A scope in use is still its first object's, so that of one object at most one scope
   made for it is in use; a scope nobody uses is not locked. *)
ScopesAtHome ==
    \A s \in Scopes :
        /\ ScopeInUse(s) => scopeOf[HomeOf[s]] = s
        /\ word[s] # Nil => ScopeInUse(s)

(* A scope is owned or has a lock, never both in use at once. *)
OwnedNotLocked == \A s \in Scopes : ownercx[s] # Nil => word[s] = Nil

(* c holds s as often as n locks: it owns it, or its word is c's. *)
Holds(c, s, n) ==
    \/ ownercx[s] = c /\ word[s] = Nil
    \/ ownercx[s] = Nil /\ word[s] = c /\ lockCount[s] = n

LockingInv ==
    \A c \in ShareContexts :
        /\ Locking(c) => /\ lockedObj[c] \in Objects /\ lockedScope[c] \in Scopes
                         /\ ScopeInUse(lockedScope[c])
        /\ spc[c] = "thin" => ownercx[lockedScope[c]] = Nil
        /\ spc[c] = "check" => Holds(c, lockedScope[c], 1)
        /\ InObject(c) => /\ lockedObj[c] \in Objects
                          /\ Holds(c, scopeOf[lockedObj[c]], nest[c])

(* Nobody claims or waits for a scope of its own, not even when the object has changed
   its scope in the meantime. *)
NotOwn ==
    \A c \in ShareContexts :
        /\ spc[c] \in {"read", "claim"} \/ InWait(c) => ownercx[lockedScope[c]] # c
        /\ Locking(c) /\ scopeOf[lockedObj[c]] # lockedScope[c] =>
               ownercx[scopeOf[lockedObj[c]]] # c

(* cx->scopeToShare is set while cx waits, a scope waited for is on the list until it is
   shared, and who still sleeps waits for an owner. *)
ShareWaitInv ==
    \A c \in ShareContexts :
        /\ toShare[c] = IF InWait(c) THEN lockedScope[c] ELSE Nil
        /\ InWait(c) /\ ownercx[lockedScope[c]] # Nil => Listed(lockedScope[c])
        /\ spc[c] = "asleep" => ownercx[lockedScope[c]] # Nil

(* No set of waiting contexts waits only for scopes of its own members: the loop of
   WillDeadlock ends, and so does every wait. *)
NoCycle ==
    \A D \in SUBSET ShareContexts :
        (\A c \in D : toShare[c] # Nil /\ ownercx[toShare[c]] \in D) => D = {}

ShareInv ==
    SSTypeOK /\ ScopesAtHome /\ OwnedNotLocked /\ LockingInv /\ NotOwn /\ ShareWaitInv /\ NoCycle

=============================================================================
