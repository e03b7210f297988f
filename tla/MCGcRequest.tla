---------------------------- MODULE MCGcRequest ----------------------------
EXTENDS GcRequest, TLC

CONSTANTS t1, t2, t3, c1, c2, c3

MCThreadOf  == c1 :> t1 @@ c2 :> t2 @@ c3 :> t3

\* Threads are interchangeable together with their contexts.
MCSymmetry == {p \in Permutations(Threads \cup Contexts) :
                 \A c \in Contexts : p[c] \in Contexts /\ MCThreadOf[p[c]] = p[MCThreadOf[c]]}
=============================================================================
