------------------------------- MODULE Watch -------------------------------
(***************************************************************************)
(* Watchpoints on object properties (jsdbgapi.c, jsscope.c).  Watching a   *)
(* property gives it the setter js_watch_set, which finds the watchpoint,  *)
(* runs its handler and then the property's own setter; either may be a    *)
(* script that watches, unwatches, sets, deletes or defines again.         *)
(*                                                                         *)
(* One thread; a property is one id of one object.  DropWatchPoint asks to *)
(* change the property it watched back to the setter that property never   *)
(* lost, so that it restores nothing: the setter stays js_watch_set until  *)
(* the property is defined again (SettersRestored).  Accessor properties   *)
(* are left out.                                                           *)
(*                                                                         *)
(* Nothing keeps a handler from unwatching its property twice: the second  *)
(* time drops the reference of the call under way, which then works with a *)
(* freed watchpoint.  What a call does to a freed watchpoint is undefined; *)
(* here it does nothing.                                                   *)
(***************************************************************************)
EXTENDS Naturals, Sequences, FiniteSets

CONSTANTS
    WatchedProps,    \* properties
    WatchPoints,     \* numbers for the watchpoints malloced, each used once
    MaxHandlers      \* bound: handlers and setters running inside one another

VARIABLES
    watch,           \* watchpoint -> its property, nrefs, where it is and, for the
                     \* properties below, how often it was cleared
    setterOf,        \* property -> "absent", "plain" or "js_watch_set"
    running          \* the calls of js_watch_set under way, innermost last

watchVars == <<watch, setterOf, running>>

NoWatchPoint == [prop |-> "none", nrefs |-> 0, state |-> "unused", cleared |-> 0]

WatchInit ==
    /\ watch = [w \in WatchPoints |-> NoWatchPoint]
    /\ setterOf \in [WatchedProps -> {"absent", "plain"}]
    /\ running = <<>>

-----------------------------------------------------------------------------
ListedPoints(p) == {w \in WatchPoints : watch[w].state = "listed" /\ watch[w].prop = p}

RunningOn(w) == {i \in DOMAIN running : running[i].wp = w}

Held(rec) == [rec EXCEPT !.nrefs = @ + 1]

\* Mutant: js_watch_set does not hold the watchpoint it calls.
NotHeld(rec) == rec

HoldWatchPoint(rec) == Held(rec)

\* The last reference takes the watchpoint off the list and frees it.
DropWatchPoint(rec) ==
    IF rec.nrefs = 1 THEN [rec EXCEPT !.nrefs = 0, !.state = "freed"]
    ELSE [rec EXCEPT !.nrefs = @ - 1]

-----------------------------------------------------------------------------
\* JS_SetWatchPoint: a watchpoint found keeps everything but its handler, even
\* when its property was deleted; else the property is made if need be.
SetWatchPoint(p) ==
    /\ ListedPoints(p) = {}
    /\ \E w \in WatchPoints :
        /\ watch[w].state = "unused"
        /\ \A v \in WatchPoints : watch[v].state = "unused" => w <= v
        /\ watch' = [watch EXCEPT ![w] = [prop |-> p, nrefs |-> 1, state |-> "listed", cleared |-> 0]]
    /\ setterOf' = [setterOf EXCEPT ![p] = "js_watch_set"]
    /\ UNCHANGED running

ClearedOf(rec) == [DropWatchPoint(rec) EXCEPT !.cleared = @ + 1]

\* JS_ClearWatchPoint and the other ways to clear drop a reference of the
\* watchpoint they find, be it the list's or that of a call under way.
ClearWatchPoint(p) ==
    \E w \in ListedPoints(p) :
        /\ watch' = [watch EXCEPT ![w] = ClearedOf(@)]
        /\ UNCHANGED <<setterOf, running>>

\* js_SetProperty calls the setter: js_watch_set holds the first watchpoint it
\* finds and calls the handler; when it finds none the set fails, or stops at an
\* assertion.
SetProperty(p) ==
    /\ setterOf[p] = "js_watch_set"
    /\ Len(running) < MaxHandlers
    /\ \E w \in ListedPoints(p) :
        /\ watch' = [watch EXCEPT ![w] = HoldWatchPoint(@)]
        /\ running' = Append(running, [wp |-> w, phase |-> "handler"])
    /\ UNCHANGED setterOf

InnermostHandler == running[Len(running)]

\* The handler agrees, and the watchpoint's setter is called.
HandlerDone ==
    /\ running # <<>> /\ InnermostHandler.phase = "handler"
    /\ running' = [running EXCEPT ![Len(running)].phase = "setter"]
    /\ UNCHANGED <<watch, setterOf>>

\* The handler refused or the setter is done: the watchpoint is dropped.
WatchSetReturns ==
    /\ running # <<>>
    /\ watch' = [watch EXCEPT ![InnermostHandler.wp] =
                    IF @.state = "listed" THEN DropWatchPoint(@) ELSE @]
    /\ running' = SubSeq(running, 1, Len(running) - 1)
    /\ UNCHANGED setterOf

DeleteProperty(p) ==
    /\ setterOf[p] # "absent"
    /\ setterOf' = [setterOf EXCEPT ![p] = "absent"]
    /\ UNCHANGED <<watch, running>>

\* js_AddScopeProperty: a watchpoint survives its property, and wraps the
\* setter of a new one with its id, or of the same one defined again.
SetterOfNew(p) == IF ListedPoints(p) # {} THEN "js_watch_set" ELSE "plain"

DefineProperty(p) ==
    /\ setterOf' = [setterOf EXCEPT ![p] = SetterOfNew(p)]
    /\ UNCHANGED <<watch, running>>

WatchNext ==
    \/ \E p \in WatchedProps :
        SetWatchPoint(p) \/ ClearWatchPoint(p) \/ SetProperty(p) \/ DeleteProperty(p)
            \/ DefineProperty(p)
    \/ HandlerDone
    \/ WatchSetReturns

WatchSpec == WatchInit /\ [][WatchNext]_watchVars

-----------------------------------------------------------------------------
(* Correctness. *)

\* A watchpoint stays allocated while js_watch_set works with it, however its
\* handler and setter nest, clear and watch, unless it is cleared more than once:
\* its count is one for the list and one for each call under way, less the times
\* it was cleared, and it is freed exactly at zero.
WatchpointsHeld ==
    /\ \A i \in DOMAIN running :
        watch[running[i].wp].state = "listed" \/ watch[running[i].wp].cleared > 1
    /\ \A w \in WatchPoints :
        /\ watch[w].state = "listed" =>
              watch[w].nrefs + watch[w].cleared = 1 + Cardinality(RunningOn(w))
        /\ watch[w].nrefs = 0 <=> watch[w].state # "listed"

\* No assignment to a watched property goes unheard: while a watchpoint is
\* listed its property, deleted and defined again or not, has js_watch_set, and
\* a property has one watchpoint at most.
WatchedAreHeard ==
    \A p \in WatchedProps :
        /\ Cardinality(ListedPoints(p)) <= 1
        /\ ListedPoints(p) # {} => setterOf[p] \in {"js_watch_set", "absent"}

\* While handlers nest, clear and watch again, no watchpoint under way is freed
\* that was not cleared twice, and no property that has one is assigned behind
\* its back.
WatchingSound == WatchpointsHeld /\ WatchedAreHeard

\* js_watch_set finds the watchpoint it is called for: when the last watchpoint
\* of a property is removed, the property gets its own setter back.  The code
\* asserts it, and does not do it.
SettersRestored ==
    \A p \in WatchedProps : setterOf[p] = "js_watch_set" => ListedPoints(p) # {}
=============================================================================
