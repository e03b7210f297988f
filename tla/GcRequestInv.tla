---------------------------- MODULE GcRequestInv ----------------------------
(***************************************************************************)
(* The inductive invariants behind the safety properties of GcRequest:     *)
(* GcRequestProofs proves them, TLC can check them as it checks the        *)
(* properties.                                                             *)
(***************************************************************************)
EXTENDS GcRequest

(* The contexts on rt->contextList, and the nodes of its ring. *)
Linked == {c \in Contexts : InList(c)}
Ring   == Linked \cup {ListHead}

(* The links agree in both directions. *)
LinksAgree ==
    \A n \in Ring : /\ next[n] \in Ring /\ prev[n] \in Ring
                    /\ next[prev[n]] = n /\ prev[next[n]] = n

(* There is one ring: whoever follows next from the header meets every context. *)
OneRing ==
    \A S \in SUBSET Ring : ListHead \in S /\ (\A n \in S : next[n] \in S) => Linked \subseteq S

(* A context that is not allocated has no links left. *)
FreshUnlinked == \A c \in Contexts \ allocated : prev[c] = ListHead

ListInv == LinksAgree /\ OneRing /\ FreshUnlinked

----------------------------------------------------------------------------
(* Where a thread is in js_NewContext and js_DestroyContext, by its label and the
   label it returns to: its context is on the list, was taken off while the requests
   of the context may still count, or is only waiting to be freed. *)
InGc   == {"force", "gcEnter", "gcLock", "gcDone", "gcRequests", "gcMark", "gcSweep", "gcOut"}
InRoot == {"root", "rootAgain"}

Entering(t) == pc[t] = "new"
Staying(t) ==
    \/ pc[t] \in InRoot /\ after[t] = "init"
    \/ pc[t] \in {"init", "destroy"}
    \/ pc[t] = "begin" /\ after[t] = "idle"
Unrooting(t) == pc[t] \in InRoot /\ after[t] = "endAll"
Leaving(t) ==
    \/ pc[t] = "begin" /\ after[t] = "root"
    \/ Unrooting(t)
    \/ pc[t] = "endAll"
Left(t) ==
    \/ pc[t] \in InGc /\ after[t] # "idle"
    \/ pc[t] \in {"again", "down", "free"}

ReturnsKnown(t) ==
    /\ pc[t] = "begin" => after[t] \in {"idle", "root"}
    /\ pc[t] \in InRoot => after[t] \in {"idle", "init", "endAll"}
    /\ pc[t] \in InGc => after[t] \in {"idle", "again", "free"}
    /\ pc[t] \notin InGc \cup InRoot \cup {"begin"} => after[t] = "idle"

ContextKnown(t) ==
    /\ Entering(t) \/ Staying(t) \/ Leaving(t) \/ Left(t) =>
          cx[t] \in allocated /\ ThreadOf[cx[t]] = t
    /\ Staying(t) => cx[t] \in Linked
    /\ Entering(t) \/ Leaving(t) \/ Left(t) => cx[t] \notin Linked
    /\ Entering(t) \/ Left(t) \/ pc[t] = "begin" => requestDepth[cx[t]] = 0

(* first and last are set only by the thread that launches or lands the runtime. *)
FlagsKnown(t) ==
    /\ last[t] => Leaving(t) \/ Left(t)
    /\ last[t] => after[t] # "free"
    /\ pc[t] \in {"again", "down"} \/ after[t] = "again" => last[t]
    /\ first[t] => last[t] \/ (Staying(t) /\ pc[t] # "begin")

PlaceInv == \A t \in Threads : ReturnsKnown(t) /\ ContextKnown(t) /\ FlagsKnown(t)

(* A context in a request is on the list or about to have its requests ended. *)
DepthInv ==
    \A c \in Contexts : requestDepth[c] > 0 =>
        \/ c \in Linked
        \/ cx[ThreadOf[c]] = c /\ (Unrooting(ThreadOf[c]) \/ pc[ThreadOf[c]] = "endAll")

----------------------------------------------------------------------------
(* The collector is the thread between the start and the end of js_GC's loop; it
   runs once no request counts, and only then stands at a context of the list. *)
Collecting == {"gcRequests", "gcMark", "gcSweep", "gcOut"}

CollectorInv ==
    /\ gcThread = None <=> gcLevel = 0
    /\ \A t \in Threads : gcThread = t <=> pc[t] \in Collecting
    /\ gcRunning <=> \E t \in Threads : pc[t] \in Collecting \ {"gcRequests"}
    /\ gcRunning => requestCount = 0
    /\ iter # ListHead => \E t \in Threads : pc[t] = "gcMark"

(* The debits are the requests of the threads that collect or wait for the collector. *)
RequestsOf(t) == {c \in Contexts : ThreadOf[c] = t /\ requestDepth[c] > 0}
Debiting == Collecting \cup {"gcDone"}

DebitInv ==
    \A t \in Threads :
        debit[t] = IF pc[t] \in Debiting THEN Cardinality(RequestsOf(t)) ELSE 0

(* The iterator's way: the contexts of the list, and contexts that left it but whose
   threads wait for the collector before they go on. *)
Held == Linked \cup {c \in allocated : cx[ThreadOf[c]] = c /\ Leaving(ThreadOf[c])
                                       /\ pc[ThreadOf[c]] # "endAll"}

IterInv ==
    gcRunning =>
        \E S \in SUBSET (Held \cup {ListHead}) :
            Ring \cup {iter} \subseteq S /\ \A n \in S : next[n] \in S

----------------------------------------------------------------------------
(* Whoever launches or lands the runtime, and what the list then is. *)
Launches(t) == first[t] /\ ~last[t]
Lands(t)    == last[t] /\ pc[t] # "free"

LifeInv ==
    /\ rtState = "UP" => Linked # {}
    /\ rtState \in {"DOWN", "LANDING"} => Linked = {}
    /\ rtState = "LAUNCHING" <=> \E t \in Threads : Launches(t)
    /\ rtState = "LANDING" <=> \E t \in Threads : Lands(t)
    /\ \A t \in Threads : Launches(t) => Linked = {cx[t]}
    /\ \A t, u \in Threads : (Launches(t) \/ Lands(t)) /\ (Launches(u) \/ Lands(u)) => t = u

(* What holds of the context list, the threads' places, the requests, the collector
   and the runtime's life cycle at every step. *)
RequestInv ==
    /\ TypeOK /\ ListInv /\ PlaceInv /\ DepthInv
    /\ CollectorInv /\ RequestCountExact /\ DebitInv /\ IterInv /\ LifeInv
=============================================================================
