----------------------------- MODULE GcRequest -----------------------------
(***************************************************************************)
(* Requests, contexts and the collector of a JS_THREADSAFE build: how      *)
(* JS_BeginRequest, JS_EndRequest, js_AddRoot, js_RemoveRoot, js_GC,       *)
(* js_NewContext and js_DestroyContext meet on rt->gcLock.  What one       *)
(* thread does between JS_LOCK_GC and JS_UNLOCK_GC (or a wait) is one      *)
(* step; a condition variable wakes exactly the threads it is notified     *)
(* for, which then test their condition again.  What the collector marks   *)
(* is GcHeap's subject: here it only walks rt->contextList.                *)
(*                                                                         *)
(* A context stays on the thread that made it, and a thread is in a        *)
(* request on one context at a time, if perhaps several deep.              *)
(***************************************************************************)
EXTENDS Integers, FiniteSets

CONSTANTS
    Threads, Contexts,
    ThreadOf,    \* [Contexts -> Threads]: cx->thread
    ListHead,        \* the list header &rt->contextList
    None,
    MaxDepth,    \* bound: cx->requestDepth
    MaxLevel     \* bound: rt->gcLevel, as finalizers raise it

ASSUME GcRequestAssumption ==
    /\ ThreadOf \in [Contexts -> Threads] /\ IsFiniteSet(Contexts)
    /\ ListHead \notin Contexts /\ None \notin Threads \cup Contexts \cup {ListHead}
    /\ MaxDepth \in Nat \ {0} /\ MaxLevel \in Nat \ {0}

VARIABLES
    rtState, gcPoke, gcLevel, gcThread, gcRunning, requestCount,
    next, prev,      \* the links of rt->contextList
    allocated,       \* contexts between malloc and free
    requestDepth,
    iter,            \* js_GC's position in rt->contextList
    pc, cx, after,   \* per thread: its label, its context, where it returns
    mode,            \* gcmode of js_DestroyContext
    first, last,     \* locals of js_NewContext and js_DestroyContext
    debit,           \* requestDebit of js_GC
    asleep           \* the condition variable a thread sleeps on

listVars    == <<next, prev, allocated>>
gcVars      == <<gcLevel, gcThread, gcRunning, iter, debit>>
requestVars == <<requestCount, requestDepth>>
localVars   == <<cx, mode, first, last>>
vars == <<rtState, gcPoke, listVars, gcVars, requestVars, localVars, pc, after, asleep>>

Labels == {"idle", "begin", "root", "rootAgain", "new", "init", "destroy",
           "endAll", "force", "gcEnter", "gcLock", "gcDone", "gcRequests", "gcMark",
           "gcSweep", "gcOut", "again", "down", "free"}
CondVars == {"stateChange", "gcDone", "requestDone"}
Modes == {"JS_NO_GC", "JS_MAYBE_GC", "JS_FORCE_GC"}

Init ==
    /\ rtState = "DOWN" /\ gcPoke = FALSE
    /\ gcLevel = 0 /\ gcThread = None /\ gcRunning = FALSE /\ iter = ListHead
    /\ requestCount = 0 /\ requestDepth = [c \in Contexts |-> 0]
    /\ next = [c \in Contexts \cup {ListHead} |-> ListHead]
    /\ prev = [c \in Contexts \cup {ListHead} |-> ListHead]
    /\ allocated = {}
    /\ pc = [t \in Threads |-> "idle"]
    /\ cx = [t \in Threads |-> None]
    /\ after = [t \in Threads |-> "idle"]
    /\ mode = [t \in Threads |-> "JS_NO_GC"]
    /\ first = [t \in Threads |-> FALSE] /\ last = [t \in Threads |-> FALSE]
    /\ debit = [t \in Threads |-> 0]
    /\ asleep = [t \in Threads |-> None]

----------------------------------------------------------------------------

\* Thread t runs and stands at label.
At(t, label) == pc[t] = label /\ asleep[t] = None
Go(t, label) == pc' = [pc EXCEPT ![t] = label]

\* t sleeps and will test again; a notification wakes all, or one of those
\* that sleep.
Sleep(t, cv)  == asleep' = [asleep EXCEPT ![t] = cv]
NotifyAll(cv) == asleep' = [t \in Threads |-> IF asleep[t] = cv THEN None ELSE asleep[t]]
NotifyOne(cv) ==
    LET sleepers == {t \in Threads : asleep[t] = cv} IN
    IF sleepers = {} THEN asleep' = asleep
    ELSE \E t \in sleepers : asleep' = [asleep EXCEPT ![t] = None]

\* n requests stop being active; the last one notifies a waiting collector.
Drop(n) ==
    /\ requestCount' = requestCount - n
    /\ IF n > 0 /\ requestCount = n THEN NotifyOne("requestDone") ELSE asleep' = asleep

InList(c) == c \in allocated /\ next[prev[c]] = c
Mine(t)   == {c \in Contexts : ThreadOf[c] = t /\ InList(c)}
InRequest(t) == {c \in Mine(t) : requestDepth[c] > 0}

----------------------------------------------------------------------------
(* Requests *)

\* JS_BeginRequest on a context that is in none, to its first JS_LOCK_GC.
CallBegin(t, c) ==
    /\ At(t, "idle") /\ c \in Mine(t) /\ InRequest(t) = {}
    /\ cx' = [cx EXCEPT ![t] = c]
    /\ Go(t, "begin")
    /\ UNCHANGED <<rtState, gcPoke, listVars, gcVars, requestVars, mode, first, last,
                   after, asleep>>

\* Wait until the GC is finished, then count the request.
Begin(t) ==
    /\ At(t, "begin")
    /\ \/ /\ gcThread # t /\ gcLevel > 0
          /\ Sleep(t, "gcDone")
          /\ UNCHANGED <<requestVars, pc, after>>
       \/ /\ gcThread = t \/ gcLevel = 0
          /\ requestCount' = requestCount + 1
          /\ requestDepth' = [requestDepth EXCEPT ![cx[t]] = 1]
          /\ Go(t, after[t])
          /\ after' = [after EXCEPT ![t] = IF @ = "root" THEN "endAll" ELSE "idle"]
          /\ UNCHANGED asleep
    /\ UNCHANGED <<rtState, gcPoke, listVars, gcVars, localVars>>

\* A nested JS_BeginRequest.
BeginNested(t, c) ==
    /\ At(t, "idle") /\ c \in InRequest(t) /\ requestDepth[c] < MaxDepth
    /\ requestDepth' = [requestDepth EXCEPT ![c] = @ + 1]
    /\ UNCHANGED <<rtState, gcPoke, listVars, gcVars, requestCount, localVars, pc, after, asleep>>

\* A JS_EndRequest that leaves an outer request.
EndNested(t, c) ==
    /\ At(t, "idle") /\ c \in InRequest(t) /\ requestDepth[c] > 1
    /\ requestDepth' = [requestDepth EXCEPT ![c] = @ - 1]
    /\ UNCHANGED <<rtState, gcPoke, listVars, gcVars, requestCount, localVars, pc, after, asleep>>

\* The outermost JS_EndRequest.
EndRequest(t, c) ==
    /\ At(t, "idle") /\ c \in InRequest(t) /\ requestDepth[c] = 1
    /\ requestDepth' = [requestDepth EXCEPT ![c] = 0]
    /\ Drop(1)
    /\ UNCHANGED <<rtState, gcPoke, listVars, gcVars, localVars, pc, after>>

----------------------------------------------------------------------------
(* Roots: js_AddRootRT and js_RemoveRoot, in or outside a request *)

CallRoot(t) ==
    /\ At(t, "idle")
    /\ Go(t, "root")
    /\ UNCHANGED <<rtState, gcPoke, listVars, gcVars, requestVars, localVars, after, asleep>>

\* Mutant: nobody waits.
RootNeverWaits(t) == FALSE

\* Both wait while another thread collects; awake again, they wait for gcLevel
\* to drop to zero, whether or not that collection runs yet.
RootWaits(t) ==
    \/ pc[t] = "root" /\ gcRunning /\ gcThread # t
    \/ pc[t] = "rootAgain" /\ gcLevel > 0

RootSleep(t) ==
    /\ At(t, "root") \/ At(t, "rootAgain")
    /\ RootWaits(t)
    /\ Sleep(t, "gcDone")
    /\ Go(t, "rootAgain")
    /\ UNCHANGED <<rtState, gcPoke, listVars, gcVars, requestVars, localVars, after>>

\* The table changes: js_AddRoot from js_InitRegExpStatics, js_RemoveRoot from
\* js_FreeRegExpStatics, either from an embedder.  Only js_RemoveRoot pokes.
RootDone(t) ==
    /\ At(t, "root") \/ At(t, "rootAgain")
    /\ ~RootWaits(t)
    /\ \/ after[t] # "endAll" /\ UNCHANGED gcPoke
       \/ after[t] # "init" /\ gcPoke' = TRUE
    /\ Go(t, after[t])
    /\ after' = [after EXCEPT ![t] = "idle"]
    /\ UNCHANGED <<rtState, listVars, gcVars, requestVars, localVars, asleep>>

----------------------------------------------------------------------------
(* js_GC *)

\* JS_GC (forced: gcPoke is set before any lock is taken) or the last ditch
\* collection of an allocation, on some context of t.
CallGC(t) ==
    /\ At(t, "idle") /\ Mine(t) # {}
    /\ \/ Go(t, "force")
       \/ InRequest(t) # {} /\ Go(t, "gcEnter")
    /\ UNCHANGED <<rtState, gcPoke, listVars, gcVars, requestVars, localVars, after, asleep>>

\* js_ForceGC.
ForceGC(t) ==
    /\ At(t, "force")
    /\ gcPoke' = TRUE
    /\ Go(t, "gcEnter")
    /\ UNCHANGED <<rtState, listVars, gcVars, requestVars, localVars, after, asleep>>

Return(t) == Go(t, after[t]) /\ after' = [after EXCEPT ![t] = "idle"]

\* rt->state is read without the lock; the embedder's callback may refuse.
GcEnter(t) ==
    /\ At(t, "gcEnter")
    /\ \/ /\ rtState = "UP" \/ last[t]
          /\ Go(t, "gcLock")
          /\ UNCHANGED after
       \/ ~last[t] /\ Return(t)
    /\ UNCHANGED <<rtState, gcPoke, listVars, gcVars, requestVars, localVars, asleep>>

\* Nothing was stored since the last collection.
GcNoPoke(t) ==
    /\ At(t, "gcLock") /\ ~gcPoke
    /\ Return(t)
    /\ UNCHANGED <<rtState, gcPoke, listVars, gcVars, requestVars, localVars, asleep>>

\* The requests of this thread do not count while it collects or waits.
Debit(t) ==
    LET n == Cardinality(InRequest(t)) IN
    /\ debit' = [debit EXCEPT ![t] = n]
    /\ Drop(n)

\* Another thread collects: it will restart, and this one waits for it, with
\* its requests set aside by setAside.
JoinWith(t, setAside) ==
    /\ At(t, "gcLock") /\ gcPoke /\ gcThread # t /\ gcLevel > 0
    /\ setAside
    /\ gcLevel' = gcLevel + 1
    /\ Go(t, "gcDone")
    /\ UNCHANGED <<rtState, gcPoke, listVars, gcThread, gcRunning, iter, requestDepth,
                   localVars, after>>

\* Mutant: requestDebit is not taken before the wait.
GcJoinUndebited(t) == JoinWith(t, UNCHANGED <<debit, requestCount, asleep>>)

GcJoin(t) == JoinWith(t, Debit(t))

\* The collection is over and the requests count again, n of them.
JoinedWith(t, n) ==
    /\ At(t, "gcDone")
    /\ \/ /\ gcLevel > 0
          /\ Sleep(t, "gcDone")
          /\ UNCHANGED <<requestCount, debit, pc, after>>
       \/ /\ gcLevel = 0
          /\ requestCount' = requestCount + n
          /\ debit' = [debit EXCEPT ![t] = 0]
          /\ Return(t)
          /\ UNCHANGED asleep
    /\ UNCHANGED <<rtState, gcPoke, listVars, gcLevel, gcThread, gcRunning, iter,
                   requestDepth, localVars>>

\* Mutant: the debit is not paid back.
GcJoinedUnpaid(t) == JoinedWith(t, 0)

GcJoined(t) == JoinedWith(t, debit[t])

\* This thread will collect: no new request begins from here on.
GcBegin(t) ==
    /\ At(t, "gcLock") /\ gcPoke /\ gcThread # t /\ gcLevel = 0
    /\ Debit(t)
    /\ gcLevel' = 1 /\ gcThread' = t
    /\ Go(t, "gcRequests")
    /\ UNCHANGED <<rtState, gcPoke, listVars, gcRunning, iter, requestDepth, localVars, after>>

\* Wait while busy holds, then run.
RunUnless(t, busy) ==
    /\ At(t, "gcRequests")
    /\ \/ /\ busy
          /\ Sleep(t, "requestDone")
          /\ UNCHANGED <<gcRunning, pc>>
       \/ /\ ~busy
          /\ gcRunning' = TRUE
          /\ Go(t, "gcMark")
          /\ UNCHANGED asleep
    /\ UNCHANGED <<rtState, gcPoke, listVars, gcLevel, gcThread, iter, debit, requestVars,
                   localVars, after>>

\* Mutant: "if" for "while", woken by the first request that ends.
GcRequestsOnce(t) == RunUnless(t, requestCount > 1)

\* All other requests must end first.
GcRequests(t) == RunUnless(t, requestCount > 0)

\* One step of js_ContextIterator, with the lock held for that step only.
GcMark(t) ==
    /\ At(t, "gcMark")
    /\ iter' = next[iter]
    /\ Go(t, IF next[iter] = ListHead THEN "gcSweep" ELSE "gcMark")
    /\ UNCHANGED <<rtState, gcPoke, listVars, gcLevel, gcThread, gcRunning, debit,
                   requestVars, localVars, after, asleep>>

\* A finalizer or the callback calls js_GC: the collection will be restarted.
GcNest(t) ==
    /\ At(t, "gcSweep") /\ gcLevel < MaxLevel
    /\ gcLevel' = gcLevel + 1
    /\ UNCHANGED <<rtState, gcPoke, listVars, gcThread, gcRunning, iter, debit, requestVars,
                   localVars, pc, after, asleep>>

GcSweep(t) ==
    /\ At(t, "gcSweep")
    /\ Go(t, "gcOut")
    /\ UNCHANGED <<rtState, gcPoke, listVars, gcVars, requestVars, localVars, after, asleep>>

GcRestart(t) ==
    /\ At(t, "gcOut") /\ gcLevel > 1
    /\ gcLevel' = 1
    /\ Go(t, "gcMark")
    /\ UNCHANGED <<rtState, gcPoke, listVars, gcThread, gcRunning, iter, debit, requestVars,
                   localVars, after, asleep>>

GcEnd(t) ==
    /\ At(t, "gcOut") /\ gcLevel = 1
    /\ gcLevel' = 0 /\ gcThread' = None
    /\ gcPoke' = FALSE /\ gcRunning' = FALSE
    /\ requestCount' = requestCount + debit[t]
    /\ debit' = [debit EXCEPT ![t] = 0]
    /\ NotifyAll("gcDone")
    /\ Return(t)
    /\ UNCHANGED <<rtState, listVars, iter, requestDepth, localVars>>

----------------------------------------------------------------------------
(* js_NewContext *)

CallNew(t, c) ==
    /\ At(t, "idle") /\ c \notin allocated /\ ThreadOf[c] = t
    /\ allocated' = allocated \cup {c}
    /\ cx' = [cx EXCEPT ![t] = c]
    /\ Go(t, "new")
    /\ UNCHANGED <<rtState, gcPoke, next, prev, gcVars, requestVars, mode, first, last,
                   after, asleep>>

\* The first context launches the runtime; the others enter in the states open.
\* Linked, the context roots its regExpStatics.
NewIn(t, open) ==
    LET c == cx[t]  tail == prev[ListHead] IN
    /\ At(t, "new")
    /\ \/ /\ rtState \in open
          /\ rtState' = IF rtState = "DOWN" THEN "LAUNCHING" ELSE rtState
          /\ first' = [first EXCEPT ![t] = rtState = "DOWN"]
          /\ next' = [next EXCEPT ![tail] = c, ![c] = ListHead]
          /\ prev' = [prev EXCEPT ![ListHead] = c, ![c] = tail]
          /\ Go(t, "root")
          /\ after' = [after EXCEPT ![t] = "init"]
          /\ UNCHANGED asleep
       \/ /\ rtState \notin open
          /\ Sleep(t, "stateChange")
          /\ UNCHANGED <<rtState, first, next, prev, pc, after>>
    /\ UNCHANGED <<gcPoke, allocated, gcVars, requestVars, cx, mode, last>>

\* Mutant: a context enters while the runtime lands.
NewWhileLanding(t) == NewIn(t, {"UP", "DOWN", "LANDING"})

\* Nobody enters while the runtime is launching or landing.
New(t) == NewIn(t, {"UP", "DOWN"})

\* The initializations succeed ...
InitDone(t) ==
    /\ At(t, "init")
    /\ IF first[t] THEN rtState' = "UP" /\ NotifyAll("stateChange")
                   ELSE UNCHANGED <<rtState, asleep>>
    /\ first' = [first EXCEPT ![t] = FALSE]
    /\ cx' = [cx EXCEPT ![t] = None]
    /\ Go(t, "idle")
    /\ UNCHANGED <<gcPoke, listVars, gcVars, requestVars, mode, last, after>>

\* ... or one fails and the context is destroyed.
InitFails(t) ==
    /\ At(t, "init")
    /\ mode' = [mode EXCEPT ![t] = "JS_NO_GC"]
    /\ Go(t, "destroy")
    /\ UNCHANGED <<rtState, gcPoke, listVars, gcVars, requestVars, cx, first, last, after,
                   asleep>>

----------------------------------------------------------------------------
(* js_DestroyContext *)

CallDestroy(t, c, m) ==
    /\ At(t, "idle") /\ c \in Mine(t)
    /\ cx' = [cx EXCEPT ![t] = c]
    /\ mode' = [mode EXCEPT ![t] = m]
    /\ Go(t, "destroy")
    /\ UNCHANGED <<rtState, gcPoke, listVars, gcVars, requestVars, first, last, after, asleep>>

\* The context leaves the list, keeping its own links; the last one lands the
\* runtime, in a request.
Unlink(t) ==
    LET c == cx[t]  alone == next[c] = ListHead /\ prev[c] = ListHead IN
    /\ At(t, "destroy")
    /\ next' = [next EXCEPT ![prev[c]] = next[c]]
    /\ prev' = [prev EXCEPT ![next[c]] = prev[c]]
    /\ last' = [last EXCEPT ![t] = alone]
    /\ rtState' = IF alone THEN "LANDING" ELSE rtState
    /\ IF alone /\ requestDepth[c] = 0
       THEN Go(t, "begin") /\ after' = [after EXCEPT ![t] = "root"]
       ELSE Go(t, "root") /\ after' = [after EXCEPT ![t] = "endAll"]
    /\ UNCHANGED <<gcPoke, allocated, gcVars, requestVars, cx, mode, first, asleep>>

\* All requests of the context end, n of them counted; then the final
\* collections of the last context, or the collection gcmode asks for.
EndWith(t, n) ==
    /\ At(t, "endAll")
    /\ requestDepth' = [requestDepth EXCEPT ![cx[t]] = 0]
    /\ Drop(n)
    /\ \/ /\ last[t] \/ mode[t] # "JS_NO_GC"
          /\ Go(t, "force")
          /\ after' = [after EXCEPT ![t] = IF last[t] THEN "again" ELSE "free"]
       \/ /\ ~last[t] /\ mode[t] # "JS_FORCE_GC"
          /\ Go(t, "free")
          /\ UNCHANGED after
    /\ UNCHANGED <<rtState, gcPoke, listVars, gcVars, localVars>>

EndAll(t) == EndWith(t, IF requestDepth[cx[t]] > 0 THEN 1 ELSE 0)

\* "Iterate until no finalizer removes a GC root or lock": gcPoke is read
\* without the lock.
Again(t) ==
    /\ At(t, "again")
    /\ IF gcPoke THEN Go(t, "gcEnter") /\ after' = [after EXCEPT ![t] = "again"]
                 ELSE Go(t, "down") /\ UNCHANGED after
    /\ UNCHANGED <<rtState, gcPoke, listVars, gcVars, requestVars, localVars, asleep>>

Down(t) ==
    /\ At(t, "down")
    /\ rtState' = "DOWN"
    /\ NotifyAll("stateChange")
    /\ Go(t, "free")
    /\ UNCHANGED <<gcPoke, listVars, gcVars, requestVars, localVars, after>>

Free(t) ==
    /\ At(t, "free")
    /\ allocated' = allocated \ {cx[t]}
    /\ next' = [next EXCEPT ![cx[t]] = ListHead] /\ prev' = [prev EXCEPT ![cx[t]] = ListHead]
    /\ cx' = [cx EXCEPT ![t] = None]
    /\ mode' = [mode EXCEPT ![t] = "JS_NO_GC"]
    /\ first' = [first EXCEPT ![t] = FALSE]
    /\ last' = [last EXCEPT ![t] = FALSE]
    /\ Go(t, "idle")
    /\ UNCHANGED <<rtState, gcPoke, gcVars, requestVars, after, asleep>>

----------------------------------------------------------------------------

\* What a thread must go on with once it has called in.
Step(t) ==
    \/ Begin(t) \/ RootSleep(t) \/ RootDone(t)
    \/ ForceGC(t) \/ GcEnter(t) \/ GcNoPoke(t) \/ GcJoin(t) \/ GcJoined(t) \/ GcBegin(t)
    \/ GcRequests(t) \/ GcMark(t) \/ GcSweep(t) \/ GcRestart(t) \/ GcEnd(t)
    \/ New(t) \/ InitDone(t) \/ InitFails(t)
    \/ Unlink(t) \/ EndAll(t) \/ Again(t) \/ Down(t) \/ Free(t)

\* What it may call.
Call(t) ==
    \/ CallRoot(t) \/ CallGC(t) \/ GcNest(t)
    \/ \E c \in Contexts :
          \/ CallBegin(t, c) \/ BeginNested(t, c) \/ EndNested(t, c) \/ EndRequest(t, c)
          \/ CallNew(t, c)
          \/ \E m \in Modes : CallDestroy(t, c, m)

Next == \E t \in Threads : Step(t) \/ Call(t)

Spec == Init /\ [][Next]_vars

\* Threads that have called in go on, and every request is ended: a request is
\* a bounded piece of work of the embedder.
Fairness ==
    /\ \A t \in Threads : WF_vars(Step(t))
    /\ \A t \in Threads : /\ SF_vars(\E c \in Contexts : EndRequest(t, c))
                          /\ SF_vars(\E c \in Contexts : EndNested(t, c))

----------------------------------------------------------------------------

\* Every variable has its type; only one thread is the collector.
TypeOK ==
    /\ rtState \in {"DOWN", "LAUNCHING", "UP", "LANDING"}
    /\ gcPoke \in BOOLEAN /\ gcRunning \in BOOLEAN
    /\ gcLevel \in Nat /\ requestCount \in Nat
    /\ gcThread \in Threads \cup {None}
    /\ next \in [Contexts \cup {ListHead} -> Contexts \cup {ListHead}]
    /\ prev \in [Contexts \cup {ListHead} -> Contexts \cup {ListHead}]
    /\ allocated \subseteq Contexts
    /\ requestDepth \in [Contexts -> 0..MaxDepth]
    /\ iter \in Contexts \cup {ListHead}
    /\ pc \in [Threads -> Labels] /\ after \in [Threads -> Labels]
    /\ cx \in [Threads -> Contexts \cup {None}]
    /\ mode \in [Threads -> Modes]
    /\ first \in [Threads -> BOOLEAN] /\ last \in [Threads -> BOOLEAN]
    /\ debit \in [Threads -> Nat]
    /\ asleep \in [Threads -> CondVars \cup {None}]

\* The request count is the contexts in requests, less those whose thread
\* collects or waits for the collector: no debit is lost, paid twice or kept.
RequestCountExact ==
    LET Debited(c) == pc[ThreadOf[c]] \in {"gcDone", "gcRequests", "gcMark", "gcSweep", "gcOut"}
    IN  requestCount = Cardinality({c \in Contexts : requestDepth[c] > 0 /\ ~Debited(c)})

\* While the collector runs, no other thread is active in a request: those
\* that are in one wait inside js_GC for this collection.
GcRunsAlone ==
    gcRunning => \A c \in Contexts :
        requestDepth[c] > 0 =>
            ThreadOf[c] = gcThread \/ pc[ThreadOf[c]] = "gcDone"

\* The collector's position in the context list is never a freed context, nor
\* does its next step lead to one, although contexts leave the list, and are
\* freed without a collection, while it walks.
IteratorSafe ==
    gcRunning /\ iter # ListHead =>
        iter \in allocated /\ next[iter] \in allocated \cup {ListHead}

\* What js_NewContext asserts of rt->state and the list, and that one thread
\* at most launches or lands the runtime.
LifecycleAgrees ==
    /\ rtState = "UP" => next[ListHead] # ListHead
    /\ rtState \in {"DOWN", "LANDING"} => next[ListHead] = ListHead
    /\ rtState = "LAUNCHING" <=> \E t \in Threads : first[t] /\ ~last[t]
    /\ rtState = "LANDING" <=> \E t \in Threads : last[t] /\ pc[t] # "free"
    /\ Cardinality({t \in Threads : (first[t] \/ last[t]) /\ pc[t] # "free"}) <= 1

\* A collector that waits for requests to end gets to run: the requests it
\* waits for are not waiting for it.
GcStarts == \A t \in Threads : pc[t] = "gcRequests" ~> pc[t] = "gcMark"

============================================================================
