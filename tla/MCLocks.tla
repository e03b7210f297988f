------------------------------ MODULE MCLocks ------------------------------
(***************************************************************************)
(* One run for the locks: thin and fat locks under fair scheduling, and    *)
(* the ownership of scopes.  These share no state: a behaviour chooses a   *)
(* part and stays with it.                                                 *)
(***************************************************************************)
EXTENDS ThinLockInv, ScopeShareInv, TLC

\* ThinLock: threads, locks of one bucket, fat locks
CONSTANTS t1, t2, t3, t4, k1, k2, f1, f2

\* ScopeShare: contexts, objects, scopes
CONSTANTS c1, c2, c3, o1, o2, o3, s1, s2, s3

VARIABLE part

(***************************************************************************)
(* ScopeShare: two objects share s1, which is made for o1; s2 is free for  *)
(* o2 to get as its own.  s1 and s3 are owned by different contexts.       *)
(***************************************************************************)
MCHomeOf == (s1 :> o1) @@ (s2 :> o2) @@ (s3 :> o3)
MCMapAtStart == (o1 :> s1) @@ (o2 :> s1) @@ (o3 :> s3)
MCOwnerAtStart == (s1 :> c1) @@ (s2 :> Nil) @@ (s3 :> c2)

-----------------------------------------------------------------------------

locksVars == <<part, vars, ssVars>>

LocksInit == part \in {"thin locks", "scopes"} /\ Init /\ SSInit

LocksNext ==
  /\ UNCHANGED part
  /\ IF part = "thin locks" THEN Next ELSE UNCHANGED vars
  /\ IF part = "scopes" THEN SSNext ELSE UNCHANGED ssVars

\* Nothing of the thin locks is enabled, to be fair to, in the other part.
LocksSpec == LocksInit /\ [][LocksNext]_locksVars /\ Fairness
=============================================================================
