------------------------------ MODULE MCGcHeap ------------------------------
(* Three cells in two arenas, so that an arena can be freed, be shared by a live
   and a dead thing, and be carved afresh. *)
EXTENDS GcHeap, TLC

CONSTANTS t1, t2, t3

MCArenaOf == [t \in {t1, t2, t3} |-> IF t = t3 THEN 2 ELSE 1]

MCSymmetry == Permutations({t1, t2})
=============================================================================
