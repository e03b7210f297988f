-------------------------- MODULE GcRequestProofs --------------------------
(***************************************************************************)
(* Theorems about GcRequest, for every set of threads and every finite set *)
(* of contexts.                                                            *)
(***************************************************************************)
EXTENDS GcRequestInv, FiniteSetTheorems, TLAPS

(* The steps that leave the context list alone, and the four that do not. *)
ListStep(t) ==
    \/ UNCHANGED listVars
    \/ \E c \in Contexts : CallNew(t, c)
    \/ New(t) \/ Unlink(t) \/ Free(t)

LEMMA ListSteps ==
  ASSUME NEW t \in Threads, Step(t) \/ Call(t)
  PROVE  ListStep(t)
  BY DEF ListStep, listVars, Step, Call, Begin, RootSleep, RootDone, ForceGC, GcEnter, GcNoPoke, GcJoin, JoinWith,
     GcJoined, JoinedWith, GcBegin, GcRequests, RunUnless, GcMark, GcSweep, GcRestart, GcEnd, InitDone,
     InitFails, EndAll, EndWith, Again, Down, CallRoot, CallGC, GcNest, CallBegin, BeginNested, EndNested,
     EndRequest, CallDestroy

(* A step of a thread changes nothing another thread keeps for itself. *)
LEMMA OthersKeep ==
  ASSUME TypeOK, NEW t \in Threads, Step(t) \/ Call(t), NEW u \in Threads \ {t}
  PROVE  /\ pc'[u] = pc[u] /\ cx'[u] = cx[u] /\ after'[u] = after[u]
         /\ first'[u] = first[u] /\ last'[u] = last[u] /\ debit'[u] = debit[u]
<1>1. CASE Call(t)
  BY <1>1 DEF TypeOK, Call, Go, localVars, gcVars, CallRoot, CallGC, GcNest, CallBegin, BeginNested, EndNested,
     EndRequest, CallDestroy, CallNew
<1>2. CASE Begin(t) \/ RootSleep(t) \/ RootDone(t) \/ ForceGC(t) \/ GcEnter(t) \/ GcNoPoke(t)
  BY <1>2 DEF TypeOK, Go, Return, localVars, gcVars, Begin, RootSleep, RootDone, ForceGC, GcEnter, GcNoPoke
<1>3. CASE GcJoin(t) \/ GcJoined(t) \/ GcBegin(t) \/ GcRequests(t)
  BY <1>3 DEF TypeOK, Go, Return, Debit, localVars, gcVars, GcJoin, JoinWith, GcJoined, JoinedWith, GcBegin,
     GcRequests, RunUnless
<1>4. CASE GcMark(t) \/ GcSweep(t) \/ GcRestart(t) \/ GcEnd(t)
  BY <1>4 DEF TypeOK, Go, Return, localVars, gcVars, GcMark, GcSweep, GcRestart, GcEnd
<1>5. CASE New(t) \/ InitDone(t) \/ InitFails(t) \/ Unlink(t)
  BY <1>5 DEF TypeOK, Go, localVars, gcVars, New, NewIn, InitDone, InitFails, Unlink
<1>6. CASE EndAll(t) \/ Again(t) \/ Down(t) \/ Free(t)
  BY <1>6 DEF TypeOK, Go, localVars, gcVars, EndAll, EndWith, Again, Down, Free
<1> QED BY <1>1, <1>2, <1>3, <1>4, <1>5, <1>6 DEF Step

(* Only a context of its own thread changes its requestDepth. *)
LEMMA OthersDepth ==
  ASSUME TypeOK, PlaceInv, NEW t \in Threads, Step(t) \/ Call(t),
         NEW c \in Contexts, ThreadOf[c] # t
  PROVE  requestDepth'[c] = requestDepth[c]
<1>1. pc[t] \in {"begin", "endAll"} => ThreadOf[cx[t]] = t
  BY DEF PlaceInv, ReturnsKnown, ContextKnown, Staying, Leaving
<1>2. CASE Call(t)
  BY <1>2 DEF TypeOK, Call, requestVars, CallRoot, CallGC, GcNest, CallBegin, BeginNested, EndNested,
     EndRequest, CallDestroy, CallNew, InRequest, Mine
<1>3. CASE Begin(t) \/ EndAll(t)
  BY <1>1, <1>3 DEF TypeOK, At, Begin, EndAll, EndWith, requestVars
<1> QED
  BY <1>2, <1>3 DEF Step, requestVars, RootSleep, RootDone, ForceGC, GcEnter, GcNoPoke, GcJoin, JoinWith,
     GcJoined, JoinedWith, GcBegin, GcRequests, RunUnless, GcMark, GcSweep, GcRestart, GcEnd, New, NewIn,
     InitDone, InitFails, Unlink, Again, Down, Free

----------------------------------------------------------------------------
(* The context list *)

(* What the ring says of the header and of one context. *)
LEMMA RingFacts ==
  ASSUME TypeOK, ListInv
  PROVE  /\ Linked \subseteq allocated
         /\ Linked = {} <=> next[ListHead] = ListHead
         /\ Linked = {} => prev[ListHead] = ListHead
         /\ \A c \in Linked : next[c] # c /\ prev[c] # c
         /\ \A c \in Linked : next[c] = ListHead /\ prev[c] = ListHead <=> Linked = {c}
<1> USE GcRequestAssumption DEF GcRequestAssumption
<1>1. Linked \subseteq allocated /\ Linked \subseteq Contexts
  BY DEF Linked, InList, TypeOK
<1>2. next[ListHead] = ListHead => Linked = {}
  <2> SUFFICES ASSUME next[ListHead] = ListHead PROVE Linked = {}
    OBVIOUS
  <2>1. Linked \subseteq {ListHead}
    BY DEF ListInv, OneRing, Ring
  <2> QED BY <2>1, <1>1
<1>3. Linked = {} => next[ListHead] = ListHead /\ prev[ListHead] = ListHead
  BY DEF ListInv, LinksAgree, Ring
<1>4. ASSUME NEW c \in Linked PROVE next[c] # c /\ prev[c] # c
  <2> SUFFICES ASSUME next[c] = c \/ prev[c] = c PROVE FALSE
    OBVIOUS
  <2>1. next[c] = c /\ prev[c] = c
    BY DEF ListInv, LinksAgree, Ring
  <2>2. \A n \in Ring \ {c} : next[n] \in Ring \ {c}
    BY <2>1 DEF ListInv, LinksAgree, Ring
  <2>3. Ring \ {c} \in SUBSET Ring /\ ListHead \in Ring \ {c}
    BY <1>1 DEF Ring
  <2>4. Linked \subseteq Ring \ {c}
    BY <2>2, <2>3 DEF ListInv, OneRing
  <2> QED BY <2>4
<1>5. ASSUME NEW c \in Linked, next[c] = ListHead, prev[c] = ListHead PROVE Linked = {c}
  <2>1. next[ListHead] = c
    BY <1>5 DEF ListInv, LinksAgree, Ring
  <2>2. {ListHead, c} \in SUBSET Ring /\ \A n \in {ListHead, c} : next[n] \in {ListHead, c}
    BY <1>5, <2>1 DEF Ring
  <2>3. Linked \subseteq {ListHead, c}
    BY <2>2 DEF ListInv, OneRing
  <2> QED BY <2>3, <1>1
<1>6. ASSUME NEW c \in Linked, Linked = {c} PROVE next[c] = ListHead /\ prev[c] = ListHead
  BY <1>4, <1>6 DEF ListInv, LinksAgree, Ring
<1> QED BY <1>1, <1>2, <1>3, <1>4, <1>5, <1>6

(* JS_APPEND_LINK in js_NewContext puts one context at the end of the ring. *)
LEMMA LinkAdds ==
  ASSUME TypeOK, ListInv, NEW c \in allocated, c \notin Linked, allocated' = allocated,
         next' = [next EXCEPT ![prev[ListHead]] = c, ![c] = ListHead],
         prev' = [prev EXCEPT ![ListHead] = c, ![c] = prev[ListHead]]
  PROVE  ListInv' /\ Linked' = Linked \cup {c}
<1> USE GcRequestAssumption DEF GcRequestAssumption
<1> DEFINE tail == prev[ListHead]
<1>0. /\ tail \in Ring /\ next[tail] = ListHead /\ c \in Contexts /\ c \notin Ring /\ c # ListHead
      /\ Ring \subseteq Contexts \cup {ListHead} /\ ListHead \in Ring /\ ListHead # c
  BY DEF ListInv, LinksAgree, Ring, Linked, TypeOK
<1>1. /\ \A n \in Contexts \cup {ListHead} :
            next'[n] = IF n = c THEN ListHead ELSE IF n = tail THEN c ELSE next[n]
      /\ \A n \in Contexts \cup {ListHead} :
            prev'[n] = IF n = c THEN tail ELSE IF n = ListHead THEN c ELSE prev[n]
  BY <1>0 DEF TypeOK
<1>2. /\ \A n \in Ring : next[n] \in Ring /\ prev[n] \in Ring /\ next[prev[n]] = n /\ prev[next[n]] = n
  BY DEF ListInv, LinksAgree
<1>3. ASSUME NEW d \in Contexts PROVE InList(d)' <=> InList(d) \/ d = c
  <2>1. CASE d = c
    <3>1. prev'[c] = tail /\ next'[tail] = c
      BY <1>0, <1>1
    <3> QED BY <3>1, <2>1, <1>0 DEF InList
  <2>2. CASE d # c
    <3>1. prev'[d] = prev[d] /\ prev[d] \in Contexts \cup {ListHead}
      BY <2>2, <1>1, <1>0 DEF TypeOK
    <3>2. InList(d) => prev[d] # c /\ prev[d] # tail
      BY <1>0, <1>2 DEF Linked, Ring
    <3>3. InList(d)' <=> d \in allocated /\ next'[prev[d]] = d
      BY <3>1 DEF InList
    <3>4. InList(d) => InList(d)'
      BY <3>1, <3>2, <3>3, <1>1 DEF InList
    <3>5. InList(d)' => InList(d)
      BY <3>1, <3>3, <2>2, <1>1, <1>0 DEF InList
    <3> QED BY <3>4, <3>5, <2>2
  <2> QED BY <2>1, <2>2
<1>4. Linked' = Linked \cup {c}
  BY <1>3, <1>0 DEF Linked
<1>5. Ring' = Ring \cup {c}
  BY <1>4 DEF Ring
<1>a. /\ next'[tail] = c /\ next'[c] = ListHead /\ prev'[c] = tail /\ prev'[ListHead] = c
      /\ \A n \in Ring \ {tail} : next'[n] = next[n]
      /\ \A n \in Ring \ {ListHead} : prev'[n] = prev[n]
  BY <1>0, <1>1
<1>b. prev[ListHead] = tail
  OBVIOUS
<1> HIDE DEF tail
<1>c. ASSUME NEW n \in Ring \cup {c}
      PROVE  /\ next'[n] \in Ring \cup {c} /\ prev'[n] \in Ring \cup {c}
             /\ next'[prev'[n]] = n /\ prev'[next'[n]] = n
  <2>1. CASE n = c
    BY <2>1, <1>0, <1>a
  <2>2. CASE n \in Ring
    <3>1. next'[n] \in Ring \cup {c} /\ prev'[n] \in Ring \cup {c}
      BY <2>2, <1>0, <1>a, <1>2
    <3>2. next'[prev'[n]] = n
      <4>1. CASE n = ListHead
        BY <4>1, <1>a
      <4>2. CASE n # ListHead
        <5>1. prev'[n] = prev[n] /\ prev[n] \in Ring /\ prev[n] # tail
          BY <4>2, <2>2, <1>0, <1>a, <1>2
        <5> QED BY <5>1, <2>2, <1>a, <1>2
      <4> QED BY <4>1, <4>2
    <3>3. prev'[next'[n]] = n
      <4>1. CASE n = tail
        BY <4>1, <1>a
      <4>2. CASE n # tail
        <5>1. next'[n] = next[n] /\ next[n] \in Ring /\ next[n] # ListHead
          BY <4>2, <2>2, <1>0, <1>a, <1>b, <1>2
        <5> QED BY <5>1, <2>2, <1>a, <1>2
      <4> QED BY <4>1, <4>2
    <3> QED BY <3>1, <3>2, <3>3
  <2> QED BY <2>1, <2>2
<1>6. LinksAgree'
  BY ONLY <1>c, <1>5 DEF LinksAgree
<1>7. OneRing'
  <2> SUFFICES ASSUME NEW S \in SUBSET Ring', ListHead \in S, \A n \in S : next'[n] \in S
               PROVE  Linked' \subseteq S
    BY DEF OneRing
  <2>1. S \ {c} \in SUBSET Ring /\ ListHead \in S \ {c}
    BY <1>5, <1>0
  <2>2. \A n \in S \ {c} : next[n] \in S \ {c}
    BY <2>1, <1>0, <1>1, <1>2
  <2>3. Linked \subseteq S \ {c}
    BY <2>1, <2>2 DEF ListInv, OneRing
  <2>4. tail \in S
    BY <2>3, <1>0 DEF Ring
  <2>5. c \in S
    BY <2>4, <1>a
  <2> QED BY <2>3, <2>5, <1>4
<1>8. FreshUnlinked'
  BY <1>0, <1>1 DEF ListInv, FreshUnlinked
<1> QED BY <1>4, <1>6, <1>7, <1>8 DEF ListInv

(* JS_REMOVE_LINK in js_DestroyContext takes that context out and no other. *)
LEMMA UnlinkRemoves ==
  ASSUME TypeOK, ListInv, NEW c \in Linked, allocated' = allocated,
         next' = [next EXCEPT ![prev[c]] = next[c]],
         prev' = [prev EXCEPT ![next[c]] = prev[c]]
  PROVE  ListInv' /\ Linked' = Linked \ {c}
<1> USE GcRequestAssumption DEF GcRequestAssumption
<1>0. /\ c \in Contexts /\ c # ListHead /\ Ring \subseteq Contexts \cup {ListHead} /\ ListHead \in Ring
      /\ c \in Ring /\ next[c] \in Ring /\ prev[c] \in Ring /\ next[c] # c /\ prev[c] # c
  BY RingFacts DEF ListInv, LinksAgree, Ring, Linked
<1>1. /\ \A n \in Contexts \cup {ListHead} : next'[n] = IF n = prev[c] THEN next[c] ELSE next[n]
      /\ \A n \in Contexts \cup {ListHead} : prev'[n] = IF n = next[c] THEN prev[c] ELSE prev[n]
  BY <1>0 DEF TypeOK
<1>2. /\ \A n \in Ring : next[n] \in Ring /\ prev[n] \in Ring /\ next[prev[n]] = n /\ prev[next[n]] = n
  BY DEF ListInv, LinksAgree
<1>3. ASSUME NEW d \in Contexts PROVE InList(d)' <=> InList(d) /\ d # c
  <2>1. CASE d = c
    BY <2>1, <1>0, <1>1 DEF InList
  <2>2. CASE d # c /\ d \in Linked
    BY <2>2, <1>0, <1>1, <1>2 DEF InList, Linked, Ring
  <2>3. CASE d \notin Linked
    <3>1. d \notin Ring
      BY <2>3, <1>0 DEF Ring
    <3>2. prev'[d] = prev[d] /\ prev[d] \in Contexts \cup {ListHead} /\ ~InList(d)
      BY <3>1, <2>3, <1>0, <1>1 DEF TypeOK, Linked
    <3>3. next'[prev[d]] # d \/ d \notin allocated
      BY <3>1, <3>2, <1>0, <1>1 DEF InList
    <3> QED BY <3>2, <3>3 DEF InList
  <2> QED BY <2>1, <2>2, <2>3 DEF Linked
<1>4. Linked' = Linked \ {c}
  BY <1>3 DEF Linked
<1>5. Ring' = Ring \ {c}
  BY <1>4, <1>0 DEF Ring
<1>6. LinksAgree'
  BY <1>0, <1>1, <1>2, <1>5 DEF LinksAgree
<1>7. OneRing'
  <2> SUFFICES ASSUME NEW S \in SUBSET Ring', ListHead \in S, \A n \in S : next'[n] \in S
               PROVE  Linked' \subseteq S
    BY DEF OneRing
  <2>1. CASE prev[c] \in S
    <3>1. S \cup {c} \in SUBSET Ring /\ ListHead \in S \cup {c}
      BY <1>5, <1>0
    <3>2. \A n \in S \cup {c} : next[n] \in S \cup {c}
      BY <2>1, <3>1, <1>0, <1>1, <1>2
    <3>3. Linked \subseteq S \cup {c}
      BY <3>1, <3>2 DEF ListInv, OneRing
    <3> QED BY <3>3, <1>4
  <2>2. CASE prev[c] \notin S
    <3>1. S \in SUBSET Ring
      BY <1>5
    <3>2. \A n \in S : next[n] \in S
      BY <2>2, <3>1, <1>0, <1>1
    <3>3. Linked \subseteq S
      BY <3>1, <3>2 DEF ListInv, OneRing
    <3> QED BY <3>3, <1>4
  <2> QED BY <2>1, <2>2
<1>8. FreshUnlinked'
  BY <1>0, <1>1, RingFacts DEF ListInv, FreshUnlinked, Ring
<1> QED BY <1>4, <1>6, <1>7, <1>8 DEF ListInv

(* Between malloc and the link, and from the unlinking on, a context is not listed. *)
LEMMA CallNewLists ==
  ASSUME TypeOK, ListInv, NEW c \in Contexts \ allocated, allocated' = allocated \cup {c},
         next' = next, prev' = prev
  PROVE  ListInv' /\ Linked' = Linked
<1> USE GcRequestAssumption DEF GcRequestAssumption
<1>1. c \notin Linked /\ c # ListHead /\ prev[c] = ListHead /\ next[ListHead] \in Ring
  BY RingFacts DEF ListInv, FreshUnlinked, LinksAgree, Ring
<1>2. Linked' = Linked
  BY <1>1 DEF Linked, InList, Ring
<1> QED BY <1>2 DEF ListInv, LinksAgree, OneRing, FreshUnlinked, Ring

LEMMA FreeLists ==
  ASSUME TypeOK, ListInv, NEW c \in allocated, c \notin Linked, allocated' = allocated \ {c},
         next' = [next EXCEPT ![c] = ListHead], prev' = [prev EXCEPT ![c] = ListHead]
  PROVE  ListInv' /\ Linked' = Linked
<1> USE GcRequestAssumption DEF GcRequestAssumption
<1>0. c \in Contexts /\ c # ListHead /\ c \notin Ring /\ Ring \subseteq Contexts \cup {ListHead}
  BY DEF TypeOK, Ring, Linked
<1>1. /\ \A n \in Contexts \cup {ListHead} : next'[n] = IF n = c THEN ListHead ELSE next[n]
      /\ \A n \in Contexts \cup {ListHead} : prev'[n] = IF n = c THEN ListHead ELSE prev[n]
  BY <1>0 DEF TypeOK
<1>2. /\ \A n \in Ring : next[n] \in Ring /\ prev[n] \in Ring /\ next[prev[n]] = n /\ prev[next[n]] = n
  BY DEF ListInv, LinksAgree
<1>3. ASSUME NEW d \in Contexts PROVE InList(d)' <=> InList(d)
  <2>1. CASE d \in Ring
    BY <2>1, <1>0, <1>1, <1>2 DEF InList
  <2>2. CASE d \notin Ring /\ d # c
    <3>1. prev'[d] = prev[d] /\ prev[d] \in Contexts \cup {ListHead}
      BY <2>2, <1>1 DEF TypeOK
    <3> QED BY <3>1, <2>2, <1>0, <1>1 DEF InList, Linked, Ring
  <2>3. CASE d = c
    BY <2>3, <1>0 DEF InList, Linked, Ring
  <2> QED BY <2>1, <2>2, <2>3
<1>4. Linked' = Linked
  BY <1>3 DEF Linked
<1>5. Ring' = Ring
  BY <1>4 DEF Ring
<1>6. LinksAgree'
  BY <1>0, <1>1, <1>2, <1>5 DEF LinksAgree
<1>7. OneRing'
  <2> SUFFICES ASSUME NEW S \in SUBSET Ring, ListHead \in S, \A n \in S : next'[n] \in S
               PROVE  Linked \subseteq S
    BY <1>4, <1>5 DEF OneRing
  <2>1. \A n \in S : next[n] \in S
    BY <1>0, <1>1
  <2> QED BY <2>1 DEF ListInv, OneRing
<1>8. FreshUnlinked'
  BY <1>0, <1>1 DEF ListInv, FreshUnlinked
<1> QED BY <1>4, <1>6, <1>7, <1>8 DEF ListInv

(* js_NewContext gets past its wait. *)
Links(t) == New(t) /\ rtState \in {"UP", "DOWN"}

(* The ring stays a ring; one step lists or unlists the context of its thread only. *)
LEMMA ListPreserved ==
  ASSUME TypeOK, ListInv, PlaceInv, NEW t \in Threads, Step(t) \/ Call(t)
  PROVE  /\ ListInv'
         /\ IF Links(t) THEN cx[t] \in allocated \ Linked /\ Linked' = Linked \cup {cx[t]}
            ELSE IF Unlink(t) THEN cx[t] \in Linked /\ Linked' = Linked \ {cx[t]}
            ELSE Linked' = Linked
         /\ \/ allocated' = allocated
            \/ \E c \in Contexts \ allocated :
                  CallNew(t, c) /\ Linked' = Linked /\ allocated' = allocated \cup {c}
            \/ Free(t) /\ cx[t] \in allocated \ Linked /\ Linked' = Linked
                       /\ allocated' = allocated \ {cx[t]}
<1>0. Links(t) => pc[t] = "new"
  BY DEF Links, New, NewIn, At
<1>1. CASE UNCHANGED listVars /\ ~Links(t) /\ ~Unlink(t)
  BY <1>1 DEF listVars, ListInv, LinksAgree, OneRing, FreshUnlinked, Ring, Linked, InList
<1>2. ASSUME NEW c \in Contexts, CallNew(t, c)
      PROVE  /\ c \notin allocated /\ ListInv' /\ Linked' = Linked /\ allocated' = allocated \cup {c}
             /\ pc[t] = "idle"
  BY <1>2, CallNewLists DEF CallNew, At
<1>3. CASE Links(t)
  <2>1. cx[t] \in allocated /\ cx[t] \notin Linked
    BY <1>3 DEF PlaceInv, ContextKnown, Entering, Links, New, NewIn, At
  <2>2. /\ next' = [next EXCEPT ![prev[ListHead]] = cx[t], ![cx[t]] = ListHead]
        /\ prev' = [prev EXCEPT ![ListHead] = cx[t], ![cx[t]] = prev[ListHead]]
        /\ allocated' = allocated
    BY <1>3 DEF Links, New, NewIn
  <2> QED BY <2>1, <2>2, <1>3, LinkAdds
<1>4. CASE Unlink(t)
  <2>1. cx[t] \in Linked /\ pc[t] = "destroy"
    BY <1>4 DEF PlaceInv, ContextKnown, Staying, Unlink, At
  <2> QED BY <2>1, <1>0, <1>4, UnlinkRemoves DEF Unlink
<1>5. CASE Free(t)
  <2>1. cx[t] \in allocated /\ cx[t] \notin Linked /\ pc[t] = "free"
    BY <1>5 DEF PlaceInv, ContextKnown, Left, Free, At
  <2>2. ~Unlink(t)
    BY <2>1 DEF Unlink, At
  <2> QED BY <2>1, <2>2, <1>0, <1>5, FreeLists DEF Free
<1>6. CASE New(t) /\ ~Links(t)
  BY <1>1, <1>6 DEF New, NewIn, Links, listVars, Unlink, At
<1>7. \A c \in Contexts : CallNew(t, c) => ~Unlink(t)
  BY DEF CallNew, Unlink, At
<1> QED BY <1>0, <1>1, <1>2, <1>3, <1>4, <1>5, <1>6, <1>7, ListSteps DEF ListStep

LEMMA OthersListed ==
  ASSUME TypeOK, ListInv, PlaceInv, NEW t \in Threads, Step(t) \/ Call(t),
         NEW c \in Contexts, ThreadOf[c] # t
  PROVE  (c \in Linked' <=> c \in Linked) /\ (c \in allocated' <=> c \in allocated)
<1>1. pc[t] \in {"new", "destroy", "free"} => ThreadOf[cx[t]] = t
  BY DEF PlaceInv, ContextKnown, Entering, Staying, Left
<1>2. Links(t) \/ Unlink(t) \/ Free(t) => c # cx[t]
  BY <1>1 DEF Links, New, NewIn, Unlink, Free, At
<1>3. \A d \in Contexts : CallNew(t, d) => c # d
  BY DEF CallNew
<1> QED BY <1>2, <1>3, ListPreserved

----------------------------------------------------------------------------
(* Places *)

PlaceOf(t) == ReturnsKnown(t) /\ ContextKnown(t) /\ FlagsKnown(t)

LEMMA PlaceOthers ==
  ASSUME TypeOK, ListInv, PlaceInv, NEW t \in Threads, Step(t) \/ Call(t),
         NEW u \in Threads \ {t}
  PROVE  PlaceOf(u)'
<1>1. PlaceOf(u)
  BY DEF PlaceInv, PlaceOf
<1>2. /\ pc'[u] = pc[u] /\ cx'[u] = cx[u] /\ after'[u] = after[u]
      /\ first'[u] = first[u] /\ last'[u] = last[u]
  BY OthersKeep
<1>3. ASSUME Entering(u) \/ Staying(u) \/ Leaving(u) \/ Left(u)
      PROVE  /\ cx[u] \in allocated <=> cx[u] \in allocated'
             /\ cx[u] \in Linked <=> cx[u] \in Linked'
             /\ requestDepth'[cx[u]] = requestDepth[cx[u]]
  <2>1. cx[u] \in Contexts /\ ThreadOf[cx[u]] # t
    BY <1>1, <1>3 DEF PlaceOf, ContextKnown, TypeOK
  <2> QED BY <2>1, OthersDepth, OthersListed
<1>4. /\ Entering(u)' <=> Entering(u)
      /\ Staying(u)' <=> Staying(u)
      /\ Leaving(u)' <=> Leaving(u)
      /\ Left(u)' <=> Left(u)
  BY <1>2 DEF Entering, Staying, Leaving, Unrooting, Left
<1>5. ReturnsKnown(u)' /\ FlagsKnown(u)'
  BY <1>1, <1>2, <1>4 DEF PlaceOf, ReturnsKnown, FlagsKnown
<1>6. pc[u] = "begin" => Staying(u) \/ Leaving(u)
  BY <1>1 DEF PlaceOf, ReturnsKnown, Staying, Leaving
<1>7. ContextKnown(u)'
  BY <1>1, <1>2, <1>3, <1>4, <1>6 DEF PlaceOf, ContextKnown
<1> QED BY <1>5, <1>7 DEF PlaceOf

LEMMA PlaceSelf ==
  ASSUME TypeOK, ListInv, PlaceInv, DepthInv, LifeInv, NEW t \in Threads, Step(t) \/ Call(t)
  PROVE  PlaceOf(t)'
<1> DEFINE Stages == Entering(t) \/ Staying(t) \/ Leaving(t) \/ Left(t)
<1>1. PlaceOf(t)
  BY DEF PlaceInv, PlaceOf
<1> USE GcRequestAssumption DEF GcRequestAssumption, PlaceOf, ReturnsKnown, ContextKnown, FlagsKnown, Entering, Staying,
        Leaving, Unrooting, Left, InGc, InRoot, At, Go
<1>2. CASE \E c \in Contexts : CallBegin(t, c)
  <2> PICK c \in Contexts : CallBegin(t, c)
    BY <1>2
  <2>1. c \in Linked /\ c \in allocated /\ ThreadOf[c] = t /\ requestDepth[c] = 0
    BY DEF CallBegin, Mine, InRequest, InList, Linked, TypeOK
  <2> QED BY <1>1, <2>1, ListPreserved DEF CallBegin, TypeOK, requestVars, listVars, Linked, InList
<1>3. CASE \E c \in Contexts : BeginNested(t, c) \/ EndNested(t, c) \/ EndRequest(t, c)
  BY <1>1, <1>3 DEF BeginNested, EndNested, EndRequest, TypeOK, localVars
<1>4. CASE \E c \in Contexts : CallNew(t, c)
  <2> PICK c \in Contexts : CallNew(t, c)
    BY <1>4
  <2>1. c \notin Linked /\ c \in allocated' /\ ThreadOf[c] = t /\ Linked' = Linked
    BY ListPreserved DEF CallNew, Linked, InList, Links, New, NewIn, Unlink
  <2>2. requestDepth[c] = 0
    <3>1. c \notin allocated /\ pc[t] = "idle"
      BY DEF CallNew
    <3> QED BY <2>1, <3>1 DEF DepthInv, TypeOK
  <2> QED BY <1>1, <2>1, <2>2 DEF CallNew, TypeOK, requestVars
<1>5. CASE \E c \in Contexts, m \in Modes : CallDestroy(t, c, m)
  <2> PICK c \in Contexts, m \in Modes : CallDestroy(t, c, m)
    BY <1>5
  <2>1. c \in Linked /\ c \in allocated /\ ThreadOf[c] = t
    BY DEF CallDestroy, Mine, InList, Linked
  <2> QED BY <1>1, <2>1 DEF CallDestroy, TypeOK, requestVars, listVars, Linked, InList
<1>6. CASE CallRoot(t) \/ CallGC(t) \/ GcNest(t)
  BY <1>1, <1>6 DEF CallRoot, CallGC, GcNest, TypeOK, localVars, requestVars, listVars, Linked, InList
<1>7. CASE Begin(t) \/ RootSleep(t) \/ RootDone(t)
  BY <1>1, <1>7 DEF Begin, RootSleep, RootDone, TypeOK, localVars, requestVars, listVars, Linked, InList
<1>8. CASE ForceGC(t) \/ GcEnter(t) \/ GcNoPoke(t)
  BY <1>1, <1>8 DEF ForceGC, GcEnter, GcNoPoke, Return, TypeOK, localVars, requestVars, listVars, Linked, InList
<1>9. CASE GcJoin(t) \/ GcJoined(t) \/ GcBegin(t) \/ GcRequests(t)
  BY <1>1, <1>9 DEF GcJoin, JoinWith, GcJoined, JoinedWith, GcBegin, GcRequests, RunUnless, Return, TypeOK,
     localVars, requestVars, listVars, Linked, InList
<1>10. CASE GcMark(t) \/ GcSweep(t) \/ GcRestart(t) \/ GcEnd(t)
  BY <1>1, <1>10 DEF GcMark, GcSweep, GcRestart, GcEnd, Return, TypeOK,
     localVars, requestVars, listVars, Linked, InList
<1>11. CASE New(t)
  <2>1. pc[t] = "new" /\ allocated' = allocated
    BY <1>11 DEF New, NewIn
  <2>2. CASE Links(t)
    <3>1. cx[t] \in allocated /\ ThreadOf[cx[t]] = t /\ cx[t] \in Linked'
      BY <1>1, <2>1, <2>2, ListPreserved
    <3>2. /\ pc'[t] = "root" /\ after'[t] = "init" /\ cx'[t] = cx[t] /\ last'[t] = last[t]
      BY <2>2 DEF Links, New, NewIn, TypeOK
    <3> QED BY <1>1, <2>1, <3>1, <3>2
  <2>3. CASE ~Links(t)
    BY <1>1, <2>1, <2>3, <1>11, ListPreserved DEF Links, New, NewIn, TypeOK, requestVars, Unlink
  <2> QED BY <2>2, <2>3
<1>12. CASE InitDone(t) \/ InitFails(t)
  BY <1>1, <1>12 DEF InitDone, InitFails, TypeOK, requestVars, listVars, Linked, InList
<1>13. CASE Unlink(t)
  <2>1. /\ pc[t] = "destroy" /\ cx[t] \in allocated' /\ ThreadOf[cx[t]] = t /\ cx[t] \notin Linked'
        /\ cx'[t] = cx[t] /\ requestDepth' = requestDepth
    BY <1>1, <1>13, ListPreserved DEF Unlink, Links, New, NewIn, requestVars
  <2>2. \/ pc'[t] = "begin" /\ after'[t] = "root" /\ requestDepth[cx[t]] = 0
        \/ pc'[t] = "root" /\ after'[t] = "endAll"
    BY <1>13 DEF Unlink, TypeOK
  <2>3. first[t] => last'[t]
    <3>1. first[t] => Linked = {cx[t]}
      BY <1>1, <2>1 DEF LifeInv, Launches
    <3>2. cx[t] \in Linked
      BY <1>1, <2>1
    <3> QED BY <3>1, <3>2, <1>13, RingFacts DEF Unlink, TypeOK
  <2>4. first'[t] = first[t] /\ ~last[t]
    BY <1>1, <1>13, <2>1 DEF Unlink
  <2> QED BY <1>1, <2>1, <2>2, <2>3, <2>4
<1>14. CASE EndAll(t)
  BY <1>1, <1>14 DEF EndAll, EndWith, TypeOK, localVars, listVars, Linked, InList
<1>15. CASE Again(t) \/ Down(t)
  BY <1>1, <1>15 DEF Again, Down, TypeOK, localVars, requestVars, listVars, Linked, InList
<1>16. CASE Free(t)
  BY <1>1, <1>16 DEF Free, TypeOK
<1> QED
  BY <1>2, <1>3, <1>4, <1>5, <1>6, <1>7, <1>8, <1>9, <1>10, <1>11, <1>12, <1>13, <1>14, <1>15, <1>16
  DEF Step, Call

LEMMA PlaceStep ==
  ASSUME TypeOK, ListInv, PlaceInv, DepthInv, LifeInv, NEW t \in Threads, Step(t) \/ Call(t)
  PROVE  PlaceInv'
  BY PlaceOthers, PlaceSelf DEF PlaceInv, PlaceOf

LEMMA DepthStep ==
  ASSUME TypeOK, ListInv, PlaceInv, DepthInv, LifeInv, NEW t \in Threads, Step(t) \/ Call(t)
  PROVE  DepthInv'
<1> USE GcRequestAssumption DEF GcRequestAssumption
<1> SUFFICES ASSUME NEW c \in Contexts, requestDepth'[c] > 0, c \notin Linked'
             PROVE  /\ cx'[ThreadOf[c]] = c
                    /\ Unrooting(ThreadOf[c])' \/ pc'[ThreadOf[c]] = "endAll"
  BY DEF DepthInv
<1>1. ThreadOf[c] \in Threads
  OBVIOUS
<1>2. CASE ThreadOf[c] # t
  <2>1. requestDepth[c] > 0 /\ c \notin Linked
    BY <1>2, OthersDepth, OthersListed
  <2> QED BY <2>1, <1>1, <1>2, OthersKeep DEF DepthInv, Unrooting
<1>3. CASE ThreadOf[c] = t
  <2>1. PlaceOf(t)
    BY DEF PlaceInv, PlaceOf
  <2>2. CASE Unlink(t)
    <3>1. pc[t] = "destroy" /\ requestDepth' = requestDepth /\ cx' = cx
      BY <2>2 DEF Unlink, At, requestVars
    <3>2. ~Links(t) /\ Linked' = Linked \ {cx[t]} /\ cx[t] \in Linked
      BY <2>2, <3>1, ListPreserved DEF Links, New, NewIn, At
    <3>3. c = cx[t]
      BY <3>1, <3>2, <1>3 DEF DepthInv, Unrooting, InRoot
    <3>4. pc'[t] = "root" /\ after'[t] = "endAll"
      BY <3>1, <3>3, <2>2 DEF Unlink, Go, TypeOK
    <3> QED BY <3>1, <3>3, <3>4, <1>3 DEF Unrooting, InRoot
  <2>3. CASE Links(t)
    BY <2>1, <2>3, <1>3, ListPreserved
    DEF Links, New, NewIn, At, Go, DepthInv, Unrooting, InRoot, TypeOK, requestVars, PlaceOf,
        ContextKnown, Entering
  <2>4. CASE ~Unlink(t) /\ ~Links(t)
    <3>1. c \notin Linked
      BY <2>4, ListPreserved
    <3>2. CASE requestDepth[c] > 0
      <4>1. cx[t] = c /\ (Unrooting(t) \/ pc[t] = "endAll")
        BY <3>1, <3>2, <1>3 DEF DepthInv
      <4>2. CASE RootSleep(t) \/ RootDone(t)
        BY <4>1, <4>2, <1>3 DEF RootSleep, RootDone, At, Go, Unrooting, InRoot, TypeOK, localVars
      <4>3. CASE EndAll(t)
        BY <4>1, <4>3, <1>3 DEF EndAll, EndWith, TypeOK
      <4> QED
        BY <4>1, <4>2, <4>3, <2>4
        DEF Step, Call, Unrooting, InRoot, At, Begin, ForceGC, GcEnter, GcNoPoke, GcJoin, JoinWith, GcJoined,
            JoinedWith, GcBegin, GcRequests, RunUnless, GcMark, GcSweep, GcRestart, GcEnd, New, NewIn,
            InitDone, InitFails, Again, Down, Free, CallRoot, CallGC, GcNest, CallBegin, BeginNested,
            EndNested, EndRequest, CallDestroy, CallNew
    <3>3. CASE requestDepth[c] = 0
      <4>1. CASE Begin(t)
        BY <2>1, <3>1, <3>3, <4>1, <1>3
        DEF Begin, At, Go, TypeOK, localVars, requestVars, Unrooting, InRoot, PlaceOf, ReturnsKnown,
            ContextKnown, Staying
      <4>2. CASE \E d \in Contexts : BeginNested(t, d) \/ EndNested(t, d) \/ EndRequest(t, d)
        <5>1. \A d \in Contexts : d \in InRequest(t) => d # c
          BY <3>3 DEF InRequest
        <5> QED BY <5>1, <4>2, <3>3 DEF BeginNested, EndNested, EndRequest, TypeOK
      <4>3. CASE EndAll(t)
        BY <4>3, <3>3 DEF EndAll, EndWith, TypeOK
      <4> QED
        BY <3>3, <4>1, <4>2, <4>3, <2>4
        DEF Step, Call, requestVars, RootSleep, RootDone, ForceGC, GcEnter, GcNoPoke, GcJoin, JoinWith,
            GcJoined, JoinedWith, GcBegin, GcRequests, RunUnless, GcMark, GcSweep, GcRestart, GcEnd, New,
            NewIn, InitDone, InitFails, Again, Down, Free, CallRoot, CallGC, GcNest, CallBegin,
            CallDestroy, CallNew
    <3> QED BY <3>2, <3>3 DEF TypeOK
  <2> QED BY <2>2, <2>3, <2>4
<1> QED BY <1>2, <1>3

----------------------------------------------------------------------------
(* Counting requests *)

(* The requests that count. *)
ActiveRequests == {c \in Contexts : requestDepth[c] > 0 /\ pc[ThreadOf[c]] \notin Debiting}

(* The steps of js_GC that set requests aside, and those that count them again. *)
Debits(t)  == GcJoin(t) \/ GcBegin(t)
Credits(t) == (GcJoined(t) /\ gcLevel = 0) \/ GcEnd(t)

LEMMA CountIsActive == RequestCountExact <=> requestCount = Cardinality(ActiveRequests)
  BY DEF RequestCountExact, ActiveRequests, Debiting, Collecting

LEMMA FiniteRequests ==
  /\ IsFiniteSet(ActiveRequests) /\ Cardinality(ActiveRequests) \in Nat
  /\ \A t \in Threads : IsFiniteSet(RequestsOf(t)) /\ Cardinality(RequestsOf(t)) \in Nat
<1>1. ActiveRequests \in SUBSET Contexts /\ \A t \in Threads : RequestsOf(t) \in SUBSET Contexts
  BY DEF ActiveRequests, RequestsOf
<1>2. \A S \in SUBSET Contexts : IsFiniteSet(S)
  BY GcRequestAssumption, FS_Subset DEF GcRequestAssumption
<1> QED BY <1>1, <1>2, FS_CardinalityType

(* Inside js_GC every request of a thread is one on a context of the list. *)
LEMMA GcRequestsListed ==
  ASSUME TypeOK, PlaceInv, DepthInv, NEW t \in Threads, pc[t] \in InGc
  PROVE  InRequest(t) = RequestsOf(t)
<1>1. \A c \in RequestsOf(t) : c \in Linked
  BY DEF DepthInv, RequestsOf, Unrooting, InRoot, InGc
<1> QED BY <1>1 DEF InRequest, Mine, RequestsOf, Linked

LEMMA DebitingSteps ==
  ASSUME TypeOK, PlaceInv, NEW t \in Threads, Step(t) \/ Call(t)
  PROVE  /\ IF Debits(t) THEN pc[t] = "gcLock" /\ pc'[t] \in Debiting
            ELSE IF Credits(t) THEN pc[t] \in Debiting /\ pc'[t] \notin Debiting
            ELSE (pc'[t] \in Debiting <=> pc[t] \in Debiting) /\ debit' = debit
         /\ pc[t] \in Debiting \/ pc'[t] \in Debiting => requestDepth' = requestDepth
<1> USE DEF Debits, Credits, Debiting, Collecting, At, Go
<1>1. PlaceOf(t)
  BY DEF PlaceInv, PlaceOf
<1>2. CASE Call(t)
  BY <1>1, <1>2 DEF Call, CallRoot, CallGC, GcNest, CallBegin, BeginNested, EndNested, EndRequest, CallDestroy, CallNew,
     TypeOK, gcVars, requestVars, GcJoin, JoinWith, GcBegin, GcJoined, JoinedWith, GcEnd
<1>3. CASE Begin(t) \/ RootSleep(t) \/ RootDone(t) \/ ForceGC(t) \/ GcEnter(t) \/ GcNoPoke(t)
  BY <1>1, <1>3 DEF Begin, RootSleep, RootDone, ForceGC, GcEnter, GcNoPoke, Return, PlaceOf, ReturnsKnown, InRoot, InGc,
     TypeOK, gcVars, requestVars, GcJoin, JoinWith, GcBegin, GcJoined, JoinedWith, GcEnd
<1>4. CASE GcJoin(t) \/ GcBegin(t)
  BY <1>4 DEF GcJoin, JoinWith, GcBegin, TypeOK, Debit, Drop
<1>5. CASE GcJoined(t) \/ GcEnd(t)
  BY <1>1, <1>5 DEF GcJoin, JoinWith, GcBegin, GcJoined, JoinedWith, GcEnd, Return, PlaceOf, ReturnsKnown, InGc,
     TypeOK, localVars
<1>6. CASE GcRequests(t) \/ GcMark(t) \/ GcSweep(t) \/ GcRestart(t)
  BY <1>6 DEF GcRequests, RunUnless, GcMark, GcSweep, GcRestart, TypeOK, gcVars, requestVars, GcJoin, JoinWith, GcBegin,
     GcJoined, JoinedWith, GcEnd
<1>7. CASE New(t) \/ InitDone(t) \/ InitFails(t) \/ Unlink(t)
  BY <1>7 DEF New, NewIn, InitDone, InitFails, Unlink, TypeOK, gcVars, requestVars, GcJoin, JoinWith, GcBegin,
     GcJoined, JoinedWith, GcEnd
<1>8. CASE EndAll(t) \/ Again(t) \/ Down(t) \/ Free(t)
  BY <1>8 DEF EndAll, EndWith, Again, Down, Free, TypeOK, gcVars, requestVars, GcJoin, JoinWith, GcBegin,
     GcJoined, JoinedWith, GcEnd
<1> QED BY <1>2, <1>3, <1>4, <1>5, <1>6, <1>7, <1>8 DEF Step

(* requestDebit of js_GC is what the thread has in requests, as long as it waits. *)
LEMMA DebitStep ==
  ASSUME TypeOK, ListInv, PlaceInv, DepthInv, DebitInv, NEW t \in Threads, Step(t) \/ Call(t)
  PROVE  DebitInv'
<1> SUFFICES ASSUME NEW u \in Threads
             PROVE  debit'[u] = IF pc'[u] \in Debiting THEN Cardinality(RequestsOf(u)') ELSE 0
  BY DEF DebitInv, Debiting, Collecting
<1>1. CASE u # t
  <2>1. RequestsOf(u)' = RequestsOf(u)
    BY <1>1, OthersDepth DEF RequestsOf
  <2> QED BY <1>1, <2>1, OthersKeep DEF DebitInv
<1>2. CASE u = t
  <2>1. pc[t] \in Debiting \/ pc'[t] \in Debiting => RequestsOf(t)' = RequestsOf(t)
    BY DebitingSteps DEF RequestsOf
  <2>2. CASE Debits(t)
    <3>1. debit'[t] = Cardinality(InRequest(t))
      BY <2>2 DEF Debits, GcJoin, JoinWith, GcBegin, Debit, TypeOK
    <3> QED BY <1>2, <2>1, <2>2, <3>1, DebitingSteps, GcRequestsListed DEF InGc
  <2>3. CASE Credits(t) /\ ~Debits(t)
    <3>1. debit'[t] = 0
      BY <2>3 DEF Credits, GcJoined, JoinedWith, GcEnd, TypeOK
    <3> QED BY <1>2, <2>3, <3>1, DebitingSteps
  <2>4. CASE ~Credits(t) /\ ~Debits(t)
    BY <1>2, <2>1, <2>4, DebitingSteps DEF DebitInv
  <2> QED BY <2>2, <2>3, <2>4
<1> QED BY <1>1, <1>2

LEMMA CountStep ==
  ASSUME TypeOK, ListInv, PlaceInv, DepthInv, DebitInv, RequestCountExact,
         NEW t \in Threads, Step(t) \/ Call(t)
  PROVE  RequestCountExact' /\ requestCount' \in Nat
<1> USE GcRequestAssumption DEF GcRequestAssumption
<1>0. requestCount = Cardinality(ActiveRequests)
  BY CountIsActive
<1> SUFFICES requestCount' = Cardinality(ActiveRequests')
  <2>1. ActiveRequests' \in SUBSET Contexts
    BY DEF ActiveRequests
  <2>2. Cardinality(ActiveRequests') \in Nat
    BY <2>1, FS_Subset, FS_CardinalityType
  <2>3. RequestCountExact' <=> requestCount' = Cardinality(ActiveRequests')
    BY DEF RequestCountExact, ActiveRequests, Debiting, Collecting
  <2> QED BY <2>2, <2>3
<1>1. PlaceOf(t)
  BY DEF PlaceInv, PlaceOf
<1>2. \A c \in Contexts : ThreadOf[c] # t => (c \in ActiveRequests' <=> c \in ActiveRequests)
  BY OthersKeep, OthersDepth DEF ActiveRequests
<1>3. ActiveRequests \subseteq Contexts /\ ActiveRequests' \subseteq Contexts
  BY DEF ActiveRequests
<1>4. CASE Debits(t)
  <2>1. requestCount' = requestCount - Cardinality(InRequest(t))
    BY <1>4 DEF Debits, GcJoin, JoinWith, GcBegin, Debit, Drop
  <2>2. pc[t] = "gcLock" /\ pc'[t] \in Debiting
    BY <1>4, DebitingSteps
  <2>3. InRequest(t) = RequestsOf(t)
    BY <2>2, GcRequestsListed DEF InGc
  <2>4. RequestsOf(t) \subseteq ActiveRequests
    BY <2>2 DEF RequestsOf, ActiveRequests, Debiting, Collecting
  <2>5. ActiveRequests' = ActiveRequests \ RequestsOf(t)
    <3>1. \A c \in Contexts : ThreadOf[c] = t =>
             c \notin ActiveRequests' /\ (c \in ActiveRequests => c \in RequestsOf(t))
      BY <2>2 DEF ActiveRequests, RequestsOf
    <3>2. \A c \in RequestsOf(t) : ThreadOf[c] = t /\ c \in Contexts
      BY DEF RequestsOf
    <3> QED BY <1>2, <1>3, <3>1, <3>2
  <2>6. ActiveRequests \cap RequestsOf(t) = RequestsOf(t)
    BY <2>4
  <2>7. Cardinality(ActiveRequests \ RequestsOf(t)) =
            Cardinality(ActiveRequests) - Cardinality(RequestsOf(t))
    BY <2>6, FiniteRequests, FS_Difference
  <2> QED BY <1>0, <2>1, <2>3, <2>5, <2>7
<1>5. CASE Credits(t) /\ ~Debits(t)
  <2>1. requestCount' = requestCount + debit[t]
    BY <1>5 DEF Credits, GcJoined, JoinedWith, GcEnd
  <2>2. pc[t] \in Debiting /\ pc'[t] \notin Debiting /\ requestDepth' = requestDepth
    BY <1>5, DebitingSteps
  <2>3. debit[t] = Cardinality(RequestsOf(t))
    BY <2>2 DEF DebitInv
  <2>4. ActiveRequests' = ActiveRequests \cup RequestsOf(t)
    <3>1. \A c \in Contexts : ThreadOf[c] = t =>
             c \notin ActiveRequests /\ (c \in ActiveRequests' <=> c \in RequestsOf(t))
      BY <2>2 DEF ActiveRequests, RequestsOf
    <3>2. \A c \in RequestsOf(t) : ThreadOf[c] = t /\ c \in Contexts
      BY DEF RequestsOf
    <3> QED BY <1>2, <1>3, <3>1, <3>2
  <2>5. ActiveRequests \cap RequestsOf(t) = {}
    BY <2>2 DEF ActiveRequests, RequestsOf
  <2>6. Cardinality(ActiveRequests \cup RequestsOf(t)) =
            Cardinality(ActiveRequests) + Cardinality(RequestsOf(t)) - Cardinality({})
    BY <2>5, FiniteRequests, FS_Union
  <2> QED BY <1>0, <2>1, <2>3, <2>4, <2>6, FS_EmptySet, FiniteRequests
<1>6. CASE ~Credits(t) /\ ~Debits(t)
  <2>1. pc'[t] \in Debiting <=> pc[t] \in Debiting
    BY <1>6, DebitingSteps
  <2>2. CASE requestVars' = requestVars
    <3>1. ActiveRequests' = ActiveRequests
      <4>1. \A c \in Contexts : ThreadOf[c] = t => (c \in ActiveRequests' <=> c \in ActiveRequests)
        BY <2>1, <2>2 DEF ActiveRequests, requestVars
      <4> QED BY <4>1, <1>2, <1>3
    <3> QED BY <1>0, <2>2, <3>1 DEF requestVars
  <2>3. ASSUME NEW c \in Contexts, ThreadOf[c] = t, pc[t] \notin Debiting, requestDepth[c] = 0,
               requestDepth' = [requestDepth EXCEPT ![c] = 1], requestCount' = requestCount + 1
        PROVE  requestCount' = Cardinality(ActiveRequests')
    <3>1. ActiveRequests' = ActiveRequests \cup {c} /\ c \notin ActiveRequests
      <4>1. \A d \in Contexts : ThreadOf[d] = t =>
               (d \in ActiveRequests' <=> d = c \/ d \in ActiveRequests)
        BY <2>1, <2>3 DEF ActiveRequests, TypeOK
      <4> QED BY <4>1, <1>2, <1>3, <2>3 DEF ActiveRequests
    <3> QED BY <1>0, <2>3, <3>1, FiniteRequests, FS_AddElement
  <2>4. ASSUME NEW c \in Contexts, ThreadOf[c] = t, pc[t] \notin Debiting, requestDepth[c] > 0,
               requestDepth' = [requestDepth EXCEPT ![c] = 0], requestCount' = requestCount - 1
        PROVE  requestCount' = Cardinality(ActiveRequests')
    <3>1. ActiveRequests' = ActiveRequests \ {c} /\ c \in ActiveRequests
      <4>1. \A d \in Contexts : ThreadOf[d] = t =>
               (d \in ActiveRequests' <=> d # c /\ d \in ActiveRequests)
        BY <2>1, <2>4 DEF ActiveRequests, TypeOK
      <4> QED BY <4>1, <1>2, <1>3, <2>4 DEF ActiveRequests
    <3> QED BY <1>0, <2>4, <3>1, FiniteRequests, FS_RemoveElement
  <2>5. ASSUME NEW c \in Contexts, ThreadOf[c] = t, NEW d \in Nat \ {0},
               requestDepth[c] > 0, requestDepth' = [requestDepth EXCEPT ![c] = d], requestCount' = requestCount
        PROVE  requestCount' = Cardinality(ActiveRequests')
    <3>1. ActiveRequests' = ActiveRequests
      <4>1. \A e \in Contexts : ThreadOf[e] = t => (e \in ActiveRequests' <=> e \in ActiveRequests)
        BY <2>1, <2>5 DEF ActiveRequests, TypeOK
      <4> QED BY <4>1, <1>2, <1>3
    <3> QED BY <1>0, <2>5, <3>1
  <2>6. CASE Begin(t)
    <3>1. cx[t] \in Contexts /\ ThreadOf[cx[t]] = t /\ pc[t] = "begin" /\ requestDepth[cx[t]] = 0
      BY <1>1, <2>6 DEF Begin, At, PlaceOf, ReturnsKnown, ContextKnown, Staying, Leaving, TypeOK
    <3> QED BY <2>2, <2>3, <2>6, <3>1 DEF Begin, Debiting, Collecting, requestVars
  <2>7. CASE EndAll(t)
    <3>1. cx[t] \in Contexts /\ ThreadOf[cx[t]] = t /\ pc[t] = "endAll"
      BY <1>1, <2>7 DEF EndAll, EndWith, At, PlaceOf, ContextKnown, Leaving, TypeOK
    <3>2. CASE requestDepth[cx[t]] > 0
      BY <2>4, <2>7, <3>1, <3>2 DEF EndAll, EndWith, Drop, Debiting, Collecting
    <3>3. CASE requestDepth[cx[t]] = 0
      <4>1. requestDepth' = requestDepth /\ requestCount' = requestCount
        BY <2>7, <3>1, <3>3, <1>0, FiniteRequests DEF EndAll, EndWith, Drop, TypeOK
      <4> QED BY <4>1, <2>2 DEF requestVars
    <3> QED BY <3>1, <3>2, <3>3 DEF TypeOK
  <2>8. ASSUME NEW c \in Contexts, EndRequest(t, c)
        PROVE  requestCount' = Cardinality(ActiveRequests')
    BY <2>4, <2>8 DEF EndRequest, At, InRequest, Mine, Drop, Debiting, Collecting
  <2>9. ASSUME NEW c \in Contexts, BeginNested(t, c) \/ EndNested(t, c)
        PROVE  requestCount' = Cardinality(ActiveRequests')
    <3>1. requestDepth[c] > 0 /\ requestDepth[c] \in Nat /\ ThreadOf[c] = t /\ requestCount' = requestCount
      BY <2>9 DEF BeginNested, EndNested, InRequest, Mine, TypeOK
    <3>2. \E d \in Nat \ {0} : requestDepth' = [requestDepth EXCEPT ![c] = d]
      BY <2>9, <3>1 DEF BeginNested, EndNested
    <3> QED BY <2>5, <3>1, <3>2
  <2>10. CASE GcJoined(t)
    BY <1>6, <2>2, <2>10 DEF GcJoined, JoinedWith, Credits, requestVars
  <2> QED
    BY <1>6, <2>2, <2>6, <2>7, <2>8, <2>9, <2>10
    DEF Debits, Credits, Step, Call, RootSleep, RootDone, ForceGC, GcEnter, GcNoPoke,
        GcRequests, RunUnless, GcMark, GcSweep, GcRestart, New, NewIn, InitDone, InitFails, Unlink, Again,
        Down, Free, CallRoot, CallGC, GcNest, CallBegin, CallDestroy, CallNew
<1> QED BY <1>4, <1>5, <1>6

----------------------------------------------------------------------------
(* The collector *)

LEMMA CollectorStep ==
  ASSUME TypeOK, PlaceInv, CollectorInv, NEW t \in Threads, Step(t) \/ Call(t), requestCount' \in Nat
  PROVE  CollectorInv'
<1> USE GcRequestAssumption DEF GcRequestAssumption, Collecting, At, Go
<1>0. /\ gcThread = None <=> gcLevel = 0
      /\ \A u \in Threads : gcThread = u <=> pc[u] \in Collecting
      /\ gcRunning <=> \E u \in Threads : pc[u] \in Collecting \ {"gcRequests"}
      /\ gcRunning => requestCount = 0
      /\ iter # ListHead => \E u \in Threads : pc[u] = "gcMark"
  BY DEF CollectorInv
<1>1. PlaceOf(t)
  BY DEF PlaceInv, PlaceOf
(* A step outside the loop of js_GC. *)
<1>2. ASSUME pc[t] \notin Collecting, pc'[t] \notin Collecting, pc' \in [Threads -> Labels],
             \A u \in Threads \ {t} : pc'[u] = pc[u],
             gcThread' = gcThread, gcRunning' = gcRunning, iter' = iter,
             gcLevel' = gcLevel \/ (gcLevel > 0 /\ gcLevel' > 0), gcRunning => requestCount' = 0
      PROVE  CollectorInv'
  BY <1>0, <1>2 DEF CollectorInv
<1>3. \A u \in Threads \ {t} : pc'[u] = pc[u]
  BY OthersKeep
<1>4. gcRunning => gcThread # None /\ gcLevel # 0 /\ requestCount = 0
  BY <1>0
<1>5. CASE Call(t) /\ ~GcNest(t)
  <2>1. gcRunning => requestCount' = 0
    BY <1>4, <1>5 DEF Call, CallRoot, CallGC, CallBegin, BeginNested, EndNested, EndRequest, CallDestroy, CallNew,
       requestVars, Drop
  <2> QED
    BY <1>2, <1>3, <1>5, <2>1
    DEF Call, CallRoot, CallGC, CallBegin, BeginNested, EndNested, EndRequest, CallDestroy, CallNew, TypeOK, gcVars, Labels
<1>6. CASE Begin(t) \/ RootSleep(t) \/ RootDone(t) \/ ForceGC(t) \/ GcEnter(t) \/ GcNoPoke(t)
  <2>1. gcRunning => requestCount' = 0
    <3>1. pc[t] = "begin" => gcThread # t
      BY <1>0
    <3> QED BY <3>1, <1>4, <1>6 DEF Begin, RootSleep, RootDone, ForceGC, GcEnter, GcNoPoke, requestVars
  <2>2. /\ gcThread' = gcThread /\ gcRunning' = gcRunning /\ iter' = iter /\ gcLevel' = gcLevel
        /\ pc' \in [Threads -> Labels] /\ pc'[t] \notin Collecting /\ pc[t] \notin Collecting
    BY <1>1, <1>6 DEF Begin, RootSleep, RootDone, ForceGC, GcEnter, GcNoPoke, Return, PlaceOf, ReturnsKnown, InRoot, InGc,
       TypeOK, gcVars, Labels
  <2> QED BY <1>2, <1>3, <2>1, <2>2
<1>7. CASE GcJoin(t)
  <2>1. gcRunning => requestCount' = 0
    <3>1. requestCount' = requestCount - Cardinality(InRequest(t)) /\ pc[t] = "gcLock"
      BY <1>7 DEF GcJoin, JoinWith, Debit, Drop
    <3>2. InRequest(t) \in SUBSET Contexts
      BY DEF InRequest, Mine
    <3>3. Cardinality(InRequest(t)) \in Nat
      BY <3>2, FS_Subset, FS_CardinalityType
    <3> QED BY <1>4, <3>1, <3>3
  <2> QED BY <1>2, <1>3, <1>7, <2>1 DEF GcJoin, JoinWith, TypeOK, Labels
<1>8. CASE GcJoined(t)
  <2>1. gcRunning => requestCount' = 0
    BY <1>4, <1>8 DEF GcJoined, JoinedWith
  <2>2. pc[t] = "gcDone" /\ pc' \in [Threads -> Labels] /\ pc'[t] \notin Collecting
    BY <1>1, <1>8 DEF GcJoined, JoinedWith, Return, PlaceOf, ReturnsKnown, InGc, TypeOK, Labels
  <2> QED BY <1>2, <1>3, <1>8, <2>1, <2>2 DEF GcJoined, JoinedWith
<1>9. CASE GcBegin(t)
  <2>1. gcThread = None /\ \A u \in Threads : pc[u] \notin Collecting
    BY <1>0, <1>9 DEF GcBegin
  <2>2. ~gcRunning /\ iter = ListHead
    BY <1>0, <2>1
  <2>3. /\ gcThread' = t /\ gcLevel' = 1 /\ gcRunning' = gcRunning /\ iter' = iter /\ pc'[t] = "gcRequests"
    BY <1>9 DEF GcBegin, TypeOK
  <2>4. \A u \in Threads : gcThread' = u <=> pc'[u] \in Collecting
    BY <1>3, <2>1, <2>3
  <2>5. \A u \in Threads : pc'[u] \notin Collecting \ {"gcRequests"}
    BY <1>3, <2>1, <2>3
  <2> QED BY <2>2, <2>3, <2>4, <2>5 DEF CollectorInv
(* A step inside it. *)
<1>10. ASSUME pc[t] \in Collecting, pc'[t] \in Collecting, gcThread' = gcThread, gcLevel' \in Nat \ {0},
              gcRunning' <=> pc'[t] # "gcRequests", gcRunning' => requestCount' = 0,
              iter' = ListHead \/ pc'[t] = "gcMark"
       PROVE  CollectorInv'
  <2>1. gcThread = t /\ \A u \in Threads \ {t} : pc[u] \notin Collecting
    BY <1>0, <1>10
  <2> QED BY <1>0, <1>3, <1>10, <2>1 DEF CollectorInv
<1>11. CASE GcRequests(t)
  <2>1. pc[t] = "gcRequests" /\ gcThread = t /\ gcLevel > 0 /\ gcLevel \in Nat
    BY <1>0, <1>11 DEF GcRequests, RunUnless, TypeOK
  <2>2. ~gcRunning /\ iter = ListHead
    BY <1>0, <2>1
  <2> QED BY <1>10, <1>11, <2>1, <2>2 DEF GcRequests, RunUnless, TypeOK, requestVars
<1>12. CASE GcMark(t) \/ GcSweep(t) \/ GcNest(t) \/ GcRestart(t)
  <2>1. pc[t] \in Collecting \ {"gcRequests"} /\ gcThread = t /\ gcLevel > 0 /\ gcLevel \in Nat
    BY <1>0, <1>12 DEF GcMark, GcSweep, GcNest, GcRestart, TypeOK
  <2>2. gcRunning /\ (iter = ListHead \/ pc[t] = "gcMark")
    BY <1>0, <2>1
  <2>3. gcRunning' /\ requestCount' = 0
    BY <1>4, <1>12, <2>2 DEF GcMark, GcSweep, GcNest, GcRestart, requestVars, gcVars
  <2> QED
    BY <1>10, <1>12, <2>1, <2>2, <2>3 DEF GcMark, GcSweep, GcNest, GcRestart, TypeOK, gcVars
<1>13. CASE GcEnd(t)
  <2>1. pc[t] = "gcOut" /\ gcThread = t /\ \A u \in Threads \ {t} : pc[u] \notin Collecting
    BY <1>0, <1>13 DEF GcEnd
  <2>2. iter = ListHead
    BY <1>0, <2>1
  <2>3. pc'[t] \notin Collecting /\ gcThread' = None /\ gcLevel' = 0 /\ ~gcRunning' /\ iter' = iter
    BY <1>1, <1>13 DEF GcEnd, Return, PlaceOf, ReturnsKnown, InGc, TypeOK
  <2>4. \A u \in Threads : pc'[u] \notin Collecting /\ gcThread' # u
    BY <1>3, <2>1, <2>3
  <2> QED BY <2>2, <2>3, <2>4 DEF CollectorInv
<1>14. CASE New(t) \/ InitDone(t) \/ InitFails(t) \/ Unlink(t)
  BY <1>2, <1>3, <1>4, <1>14 DEF New, NewIn, InitDone, InitFails, Unlink, TypeOK, gcVars, requestVars, Labels
<1>15. CASE EndAll(t) \/ Again(t) \/ Down(t) \/ Free(t)
  <2>1. gcRunning => requestCount' = 0
    BY <1>4, <1>15 DEF EndAll, EndWith, Again, Down, Free, requestVars, Drop
  <2> QED BY <1>2, <1>3, <1>15, <2>1 DEF EndAll, EndWith, Again, Down, Free, TypeOK, gcVars, Labels
<1> QED
  BY <1>5, <1>6, <1>7, <1>8, <1>9, <1>11, <1>12, <1>13, <1>14, <1>15 DEF Step, Call

(* js_ContextIterator stays among contexts that nobody frees. *)
LEMMA IterStep ==
  ASSUME TypeOK, ListInv, PlaceInv, DepthInv, CollectorInv, IterInv, NEW t \in Threads, Step(t) \/ Call(t)
  PROVE  IterInv'
<1> USE GcRequestAssumption DEF GcRequestAssumption, At, Go
<1>0. /\ gcThread = None <=> gcLevel = 0
      /\ \A u \in Threads : gcThread = u <=> pc[u] \in Collecting
      /\ gcRunning <=> \E u \in Threads : pc[u] \in Collecting \ {"gcRequests"}
      /\ iter # ListHead => \E u \in Threads : pc[u] = "gcMark"
  BY DEF CollectorInv
<1>1. PlaceOf(t)
  BY DEF PlaceInv, PlaceOf
<1> SUFFICES ASSUME gcRunning'
             PROVE  \E S \in SUBSET (Held' \cup {ListHead}) :
                        Ring' \cup {iter'} \subseteq S /\ \A n \in S : next'[n] \in S
  BY DEF IterInv
<1>2. CASE GcRequests(t)
  <2>1. iter = ListHead
    BY <1>0, <1>2 DEF GcRequests, RunUnless, Collecting
  <2>2. iter' = iter /\ next' = next /\ Linked' = Linked /\ Ring' = Ring
    BY <1>2 DEF GcRequests, RunUnless, listVars, Ring, Linked, InList
  <2>3. \A n \in Ring : next[n] \in Ring
    BY DEF ListInv, LinksAgree
  <2>4. Ring \in SUBSET (Held' \cup {ListHead}) /\ ListHead \in Ring
    BY <2>2 DEF Held, Ring
  <2> QED BY <2>1, <2>2, <2>3, <2>4
<1>3. CASE ~GcRequests(t)
  <2>1. gcRunning
    BY <1>3 DEF Step, Call, gcVars, Begin, RootSleep, RootDone, ForceGC, GcEnter, GcNoPoke, GcJoin, JoinWith, GcJoined,
       JoinedWith, GcBegin, GcMark, GcSweep, GcRestart, GcEnd, New, NewIn, InitDone, InitFails, Unlink, EndAll, EndWith,
       Again, Down, Free, CallRoot, CallGC, GcNest, CallBegin, BeginNested, EndNested, EndRequest, CallDestroy, CallNew
  <2>2. gcLevel > 0 /\ (pc[t] \notin Collecting => gcThread # t)
    BY <1>0, <2>1 DEF TypeOK
  <2> PICK S \in SUBSET (Held \cup {ListHead}) : Ring \cup {iter} \subseteq S /\ \A n \in S : next[n] \in S
    BY <2>1 DEF IterInv
  <2>3. iter' \in S /\ (iter' = iter \/ GcMark(t))
    BY <1>3 DEF Step, Call, gcVars, Begin, RootSleep, RootDone, ForceGC, GcEnter, GcNoPoke, GcJoin, JoinWith, GcJoined,
       JoinedWith, GcBegin, GcMark, GcSweep, GcRestart, GcEnd, New, NewIn, InitDone, InitFails, Unlink, EndAll, EndWith,
       Again, Down, Free, CallRoot, CallGC, GcNest, CallBegin, BeginNested, EndNested, EndRequest, CallDestroy, CallNew
  (* Who waits for the collector goes on waiting. *)
  <2>4. ASSUME NEW c \in Held PROVE c \in Held'
    <3>1. c \in allocated /\ c \in Contexts /\ ThreadOf[c] \in Threads
      BY RingFacts DEF Held, TypeOK
    <3>2. CASE ThreadOf[c] # t
      BY <3>1, <3>2, OthersKeep, OthersListed DEF Held, Leaving, Unrooting, InRoot
    <3>3. CASE ThreadOf[c] = t /\ c \in Linked
      <4>1. CASE Links(t)
        BY <3>3, <4>1, ListPreserved DEF Held
      <4>2. CASE Unlink(t)
        <5>1. Linked' = Linked \ {cx[t]} /\ allocated' = allocated /\ cx' = cx
          BY <4>2, ListPreserved DEF Unlink, Links, New, NewIn
        <5>2. Leaving(t)' /\ pc'[t] # "endAll"
          BY <4>2 DEF Unlink, TypeOK, Leaving, Unrooting, InRoot
        <5> QED BY <3>1, <3>3, <5>1, <5>2 DEF Held
      <4>3. CASE ~Links(t) /\ ~Unlink(t)
        BY <3>3, <4>3, ListPreserved DEF Held
      <4> QED BY <4>1, <4>2, <4>3
    <3>4. CASE ThreadOf[c] = t /\ c \notin Linked
      <4>1. cx[t] = c /\ Leaving(t) /\ pc[t] # "endAll" /\ pc[t] \notin Collecting
        BY <3>4 DEF Held, Leaving, Unrooting, InRoot, Collecting
      <4>2. gcThread # t /\ gcLevel > 0
        BY <2>2, <4>1
      <4>3. /\ ~RootDone(t)
            /\ pc[t] \in {"begin", "root", "rootAgain"}
        BY <2>1, <4>1, <4>2 DEF RootDone, RootWaits, Leaving, Unrooting, InRoot
      <4>4. Begin(t) \/ RootSleep(t)
        BY <4>3 DEF Step, Call, ForceGC, GcEnter, GcNoPoke, GcJoin, JoinWith, GcJoined,
           JoinedWith, GcBegin, GcRequests, RunUnless, GcMark, GcSweep, GcRestart, GcEnd, New, NewIn, InitDone, InitFails,
           Unlink, EndAll, EndWith, Again, Down, Free, CallRoot, CallGC, GcNest, CallBegin, BeginNested, EndNested,
           EndRequest, CallDestroy, CallNew
      <4>5. /\ cx' = cx /\ allocated' = allocated /\ after' = after
            /\ Begin(t) => pc' = pc
            /\ RootSleep(t) => pc'[t] = "rootAgain" /\ pc[t] # "begin"
        BY <4>2, <4>4 DEF Begin, RootSleep, localVars, listVars, TypeOK
      <4>6. Leaving(t)' /\ pc'[t] # "endAll"
        BY <4>1, <4>4, <4>5 DEF Leaving, Unrooting, InRoot
      <4> QED BY <3>1, <3>4, <4>1, <4>5, <4>6 DEF Held
    <3> QED BY <3>2, <3>3, <3>4
  <2>5. S \in SUBSET (Held' \cup {ListHead})
    BY <2>4
  <2>6. CASE Links(t)
    <3>1. /\ cx[t] \in allocated \ Linked /\ Linked' = Linked \cup {cx[t]} /\ cx[t] \in Contexts
      BY <2>6, ListPreserved DEF TypeOK
    <3>2. next' = [next EXCEPT ![prev[ListHead]] = cx[t], ![cx[t]] = ListHead] /\ iter' = iter
      BY <2>6 DEF Links, New, NewIn, gcVars
    <3>3. S \cup {cx[t]} \in SUBSET (Held' \cup {ListHead})
      BY <2>5, <3>1 DEF Held
    <3>4. Ring' \cup {iter'} \subseteq S \cup {cx[t]}
      BY <2>3, <3>1 DEF Ring
    <3>5. S \subseteq Contexts \cup {ListHead} /\ ListHead \in S
      BY RingFacts DEF Held, Ring, TypeOK
    <3>6. ASSUME NEW n \in S \cup {cx[t]} PROVE next'[n] \in S \cup {cx[t]}
      BY <3>1, <3>2, <3>5 DEF TypeOK
    <3> QED BY <3>3, <3>4, <3>6
  <2>7. CASE Unlink(t)
    <3>1. cx[t] \in Linked /\ cx[t] \in Ring /\ Linked' = Linked \ {cx[t]}
      BY <2>7, ListPreserved DEF Unlink, Links, New, NewIn, Ring
    <3>2. next' = [next EXCEPT ![prev[cx[t]]] = next[cx[t]]] /\ iter' = iter
      BY <2>7 DEF Unlink, gcVars
    <3>3. Ring' \cup {iter'} \subseteq S
      BY <3>1, <3>2 DEF Ring
    <3>4. S \subseteq Contexts \cup {ListHead}
      BY RingFacts DEF Held, TypeOK
    <3>5. ASSUME NEW n \in S PROVE next'[n] \in S
      BY <3>1, <3>2, <3>4 DEF TypeOK
    <3> QED BY <2>5, <3>3, <3>5
  <2>8. CASE ~Links(t) /\ ~Unlink(t)
    <3>1. Ring' \cup {iter'} \subseteq S
      BY <2>3, <2>8, ListPreserved DEF Ring
    <3>2. ASSUME NEW n \in S PROVE next'[n] \in S
      <4>1. S \subseteq Contexts \cup {ListHead} /\ ListHead \in S
        BY RingFacts DEF Held, Ring, TypeOK
      <4>2. CASE Free(t)
        BY <4>1, <4>2 DEF Free, TypeOK
      <4>3. CASE ~Free(t)
        <5>1. next' = next
          BY <2>8, <4>3, ListSteps DEF ListStep, listVars, CallNew, New, NewIn, Links
        <5> QED BY <5>1
      <4> QED BY <4>2, <4>3
    <3> QED BY <2>5, <3>1, <3>2
  <2> QED BY <2>6, <2>7, <2>8
<1> QED BY <1>2, <1>3

----------------------------------------------------------------------------
(* The life cycle of the runtime *)

LEMMA LifeStep ==
  ASSUME TypeOK, ListInv, PlaceInv, LifeInv, NEW t \in Threads, Step(t) \/ Call(t)
  PROVE  LifeInv'
<1> USE GcRequestAssumption DEF GcRequestAssumption, At, Go, Launches, Lands
<1>0. /\ rtState = "UP" => Linked # {}
      /\ rtState \in {"DOWN", "LANDING"} => Linked = {}
      /\ rtState = "LAUNCHING" <=> \E u \in Threads : Launches(u)
      /\ rtState = "LANDING" <=> \E u \in Threads : Lands(u)
      /\ \A u \in Threads : Launches(u) => Linked = {cx[u]}
      /\ \A u, v \in Threads : (Launches(u) \/ Lands(u)) /\ (Launches(v) \/ Lands(v)) => u = v
      /\ rtState \in {"DOWN", "LAUNCHING", "UP", "LANDING"}
  BY DEF LifeInv, TypeOK
<1>1. PlaceOf(t)
  BY DEF PlaceInv, PlaceOf
<1>2. \A u \in Threads \ {t} : (Launches(u)' <=> Launches(u)) /\ (Lands(u)' <=> Lands(u)) /\ cx'[u] = cx[u]
  BY OthersKeep
<1>3. CASE Links(t)
  <2>1. /\ Linked' = Linked \cup {cx[t]} /\ cx' = cx /\ last' = last /\ pc'[t] = "root" /\ pc[t] = "new"
        /\ first' = [first EXCEPT ![t] = (rtState = "DOWN")]
        /\ rtState' = IF rtState = "DOWN" THEN "LAUNCHING" ELSE rtState
        /\ rtState \in {"UP", "DOWN"}
    BY <1>3, ListPreserved DEF Links, New, NewIn, TypeOK
  <2>2. ~last[t] /\ ~Launches(t) /\ ~Lands(t)
    BY <1>1, <2>1 DEF PlaceOf, FlagsKnown, Leaving, Unrooting, Left, InRoot, InGc, Staying
  <2>3. \A u \in Threads : ~Launches(u) /\ ~Lands(u)
    BY <1>0, <2>1
  <2>4. Lands(t)' <=> FALSE
    BY <2>1, <2>2
  <2>5. CASE rtState = "DOWN"
    <3>1. Launches(t)' /\ rtState' = "LAUNCHING" /\ Linked' = {cx'[t]}
      BY <1>0, <2>1, <2>2, <2>5 DEF TypeOK
    <3> QED BY <1>2, <2>3, <2>4, <3>1 DEF LifeInv
  <2>6. CASE rtState = "UP"
    <3>1. ~Launches(t)' /\ rtState' = "UP" /\ Linked' # {}
      BY <2>1, <2>6 DEF TypeOK
    <3> QED BY <1>2, <2>3, <2>4, <3>1 DEF LifeInv
  <2> QED BY <2>1, <2>5, <2>6
<1>4. CASE Unlink(t)
  <2> DEFINE c == cx[t]
  <2>1. /\ c \in Linked /\ Linked' = Linked \ {c} /\ cx' = cx /\ first' = first /\ pc'[t] # "free"
        /\ ThreadOf[c] = t
    BY <1>1, <1>4, ListPreserved DEF Unlink, Links, New, NewIn, TypeOK, PlaceOf, ContextKnown, Staying
  <2>2. pc[t] = "destroy" /\ ~last[t]
    BY <1>1, <1>4 DEF Unlink, PlaceOf, FlagsKnown, Leaving, Unrooting, Left, InRoot, InGc
  <2>3. next[c] = ListHead /\ prev[c] = ListHead <=> Linked = {c}
    BY <2>1, RingFacts
  <2>4. (last'[t] <=> Linked = {c}) /\ rtState' = IF Linked = {c} THEN "LANDING" ELSE rtState
    BY <2>3, <1>4 DEF Unlink, TypeOK
  <2>5. rtState \in {"UP", "LAUNCHING"}
    BY <1>0, <2>1
  (* Nobody but t may be launching: its context would be the only one. *)
  <2>6. \A u \in Threads : Launches(u) => u = t
    <3> TAKE u \in Threads
    <3>1. Launches(u) => cx[u] = c /\ ThreadOf[cx[u]] = u
      BY <1>0, <2>1 DEF PlaceInv, FlagsKnown, ContextKnown
    <3> QED BY <3>1, <2>1
  <2>7. \A u \in Threads : ~Lands(u)
    BY <1>0, <2>5
  <2>8. CASE Linked = {c}
    <3>1. Lands(t)' /\ ~Launches(t)' /\ Linked' = {} /\ rtState' = "LANDING"
      BY <2>1, <2>4, <2>8
    <3> QED BY <1>2, <2>6, <2>7, <3>1 DEF LifeInv
  <2>9. CASE Linked # {c}
    <3>1. ~Lands(t)' /\ (Launches(t)' <=> Launches(t)) /\ Linked' # {} /\ rtState' = rtState
      BY <2>1, <2>2, <2>4, <2>9
    <3>2. rtState = "UP" /\ \A u \in Threads : ~Launches(u)
      BY <1>0, <2>5, <2>6, <2>9
    <3> QED BY <1>2, <2>7, <3>1, <3>2 DEF LifeInv
  <2> QED BY <2>8, <2>9
<1>5. CASE ~Links(t) /\ ~Unlink(t)
  <2>1. Linked' = Linked
    BY <1>5, ListPreserved
  <2>2. CASE InitDone(t)
    <3>1. Staying(t) /\ ~last[t] /\ pc[t] = "init" /\ cx[t] \in Linked
      BY <1>1, <2>2 DEF InitDone, PlaceOf, FlagsKnown, ContextKnown, Staying, Leaving, Unrooting, Left, InRoot, InGc
    <3>2. last' = last /\ ~first'[t]
      BY <2>2 DEF InitDone, TypeOK
    <3>3. CASE first[t]
      <4>1. rtState = "LAUNCHING" /\ rtState' = "UP" /\ \A u \in Threads : (Launches(u) \/ Lands(u)) => u = t
        BY <1>0, <2>2, <3>1, <3>3 DEF InitDone
      <4> QED BY <1>2, <2>1, <3>1, <3>2, <4>1 DEF LifeInv
    <3>4. CASE ~first[t]
      <4>1. rtState' = rtState
        BY <2>2, <3>4 DEF InitDone
      <4> QED BY <1>0, <1>2, <2>1, <3>1, <3>2, <3>4, <4>1 DEF LifeInv
    <3> QED BY <3>3, <3>4
  <2>3. CASE Down(t)
    <3>1. last[t] /\ Lands(t)
      BY <1>1, <2>3 DEF Down, PlaceOf, FlagsKnown
    <3>2. rtState = "LANDING" /\ Linked = {} /\ \A u \in Threads : (Launches(u) \/ Lands(u)) => u = t
      BY <1>0, <3>1
    <3>3. rtState' = "DOWN" /\ ~Lands(t)' /\ ~Launches(t)'
      BY <2>3, <3>1 DEF Down, TypeOK, localVars
    <3> QED BY <1>2, <2>1, <3>2, <3>3 DEF LifeInv
  <2>4. CASE Free(t)
    <3>1. pc[t] = "free" /\ rtState' = rtState
      BY <2>4 DEF Free
    <3>2. ~Launches(t) /\ ~Lands(t)
      BY <1>1, <3>1 DEF PlaceOf, FlagsKnown, Staying, InRoot
    <3>3. ~Launches(t)' /\ ~Lands(t)'
      BY <2>4 DEF Free, TypeOK
    <3> QED BY <1>0, <1>2, <2>1, <3>1, <3>2, <3>3 DEF LifeInv
  <2>5. ASSUME rtState' = rtState, first' = first, last' = last,
               last[t] => (pc[t] # "free" /\ pc'[t] # "free"),
               first[t] /\ ~last[t] => cx'[t] = cx[t]
        PROVE  LifeInv'
    BY <1>0, <1>2, <2>1, <2>5 DEF LifeInv
  <2>6. pc[t] \in {"idle", "new", "destroy", "init"} => ~last[t]
    BY <1>1 DEF PlaceOf, FlagsKnown, Leaving, Unrooting, Left, InRoot, InGc
  <2>7. pc[t] = "idle" => ~first[t]
    BY <1>1, <2>6 DEF PlaceOf, FlagsKnown, Staying, InRoot
  <2>8. CASE Call(t)
    BY <2>5, <2>6, <2>7, <2>8 DEF Call, CallRoot, CallGC, GcNest, CallBegin, BeginNested, EndNested, EndRequest,
       CallDestroy, CallNew, TypeOK, localVars
  <2>9. CASE Begin(t) \/ RootSleep(t) \/ RootDone(t)
    BY <1>1, <2>5, <2>9 DEF Begin, RootSleep, RootDone, TypeOK, localVars, PlaceOf, ReturnsKnown, InRoot
  <2>10. CASE ForceGC(t) \/ GcEnter(t) \/ GcNoPoke(t)
    BY <1>1, <2>5, <2>10 DEF ForceGC, GcEnter, GcNoPoke, Return, TypeOK, localVars, PlaceOf, FlagsKnown
  <2>11. CASE GcJoin(t) \/ GcJoined(t) \/ GcBegin(t) \/ GcRequests(t)
    BY <1>1, <2>5, <2>11 DEF GcJoin, JoinWith, GcJoined, JoinedWith, GcBegin, GcRequests, RunUnless, Return, TypeOK,
       localVars, PlaceOf, FlagsKnown
  <2>12. CASE GcMark(t) \/ GcSweep(t) \/ GcRestart(t) \/ GcEnd(t)
    BY <1>1, <2>5, <2>12 DEF GcMark, GcSweep, GcRestart, GcEnd, Return, TypeOK, localVars, PlaceOf, FlagsKnown
  <2>13. CASE InitFails(t) \/ New(t)
    BY <1>5, <2>5, <2>13 DEF InitFails, New, NewIn, Links, TypeOK, localVars
  <2>14. CASE EndAll(t) \/ Again(t)
    BY <2>5, <2>14 DEF EndAll, EndWith, Again, TypeOK, localVars
  <2> QED
    BY <1>5, <2>2, <2>3, <2>4, <2>8, <2>9, <2>10, <2>11, <2>12, <2>13, <2>14 DEF Step
<1> QED BY <1>3, <1>4, <1>5

----------------------------------------------------------------------------

(* Every action leaves gcPoke and gcRunning alone or assigns them, and so the flags. *)
LEMMA PokeStep ==
  ASSUME TypeOK, NEW t \in Threads, Step(t) \/ Call(t)
  PROVE  gcPoke' \in BOOLEAN /\ gcRunning' \in BOOLEAN
<1>1. gcPoke \in BOOLEAN /\ gcRunning \in BOOLEAN
  BY DEF TypeOK
<1>2. gcPoke' = gcPoke \/ gcPoke' = TRUE \/ gcPoke' = FALSE
  BY DEF gcVars, Step, Call, Begin, RootSleep, RootDone, ForceGC, GcEnter, GcNoPoke, GcJoin, JoinWith, GcJoined,
     JoinedWith, GcBegin, GcRequests, RunUnless, GcMark, GcSweep, GcRestart, GcEnd, New, NewIn, InitDone, InitFails,
     Unlink, EndAll, EndWith, Again, Down, Free, CallRoot, CallGC, GcNest, CallBegin, BeginNested, EndNested,
     EndRequest, CallDestroy, CallNew
<1>3. gcRunning' = gcRunning \/ gcRunning' = TRUE \/ gcRunning' = FALSE
  BY DEF gcVars, Step, Call, Begin, RootSleep, RootDone, ForceGC, GcEnter, GcNoPoke, GcJoin, JoinWith, GcJoined,
     JoinedWith, GcBegin, GcRequests, RunUnless, GcMark, GcSweep, GcRestart, GcEnd, New, NewIn, InitDone, InitFails,
     Unlink, EndAll, EndWith, Again, Down, Free, CallRoot, CallGC, GcNest, CallBegin, BeginNested, EndNested,
     EndRequest, CallDestroy, CallNew
<1> QED BY <1>1, <1>2, <1>3

LEMMA FlagStep ==
  ASSUME TypeOK, NEW t \in Threads, Step(t) \/ Call(t)
  PROVE  first' \in [Threads -> BOOLEAN] /\ last' \in [Threads -> BOOLEAN]
<1>1. first \in [Threads -> BOOLEAN] /\ last \in [Threads -> BOOLEAN]
  BY DEF TypeOK
<1>2. first' = first \/ \E b \in BOOLEAN : first' = [first EXCEPT ![t] = b]
  BY DEF localVars, Step, Call, Begin, RootSleep, RootDone, ForceGC, GcEnter, GcNoPoke, GcJoin, JoinWith, GcJoined,
     JoinedWith, GcBegin, GcRequests, RunUnless, GcMark, GcSweep, GcRestart, GcEnd, New, NewIn, InitDone, InitFails,
     Unlink, EndAll, EndWith, Again, Down, Free, CallRoot, CallGC, GcNest, CallBegin, BeginNested, EndNested,
     EndRequest, CallDestroy, CallNew
<1>3. last' = last \/ \E b \in BOOLEAN : last' = [last EXCEPT ![t] = b]
  BY DEF localVars, Step, Call, Begin, RootSleep, RootDone, ForceGC, GcEnter, GcNoPoke, GcJoin, JoinWith, GcJoined,
     JoinedWith, GcBegin, GcRequests, RunUnless, GcMark, GcSweep, GcRestart, GcEnd, New, NewIn, InitDone, InitFails,
     Unlink, EndAll, EndWith, Again, Down, Free, CallRoot, CallGC, GcNest, CallBegin, BeginNested, EndNested,
     EndRequest, CallDestroy, CallNew
<1> QED BY <1>1, <1>2, <1>3

LEMMA TypeStep ==
  ASSUME TypeOK, ListInv, PlaceInv, NEW t \in Threads, Step(t) \/ Call(t), requestCount' \in Nat
  PROVE  TypeOK'
<1> USE GcRequestAssumption DEF GcRequestAssumption, At, Go
<1>1. PlaceOf(t)
  BY DEF PlaceInv, PlaceOf
<1>2. \A u \in Threads : Cardinality(InRequest(u)) \in Nat
  <2> TAKE u \in Threads
  <2>1. InRequest(u) \in SUBSET Contexts
    BY DEF InRequest, Mine
  <2> QED BY <2>1, FS_Subset, FS_CardinalityType
<1>3. asleep' \in [Threads -> CondVars \cup {None}]
  <2>1. \A cv \in CondVars : NotifyAll(cv) \/ NotifyOne(cv) \/ Sleep(t, cv) =>
                           asleep' \in [Threads -> CondVars \cup {None}]
    BY DEF NotifyAll, NotifyOne, Sleep, TypeOK
  <2>2. \A n : Drop(n) => asleep' \in [Threads -> CondVars \cup {None}]
    BY <2>1 DEF Drop, CondVars, TypeOK
  <2>3. CASE asleep' = asleep
    BY <2>3 DEF TypeOK
  <2> QED
    BY <2>1, <2>2, <2>3
    DEF CondVars, Step, Call, Begin, RootSleep, RootDone, ForceGC, GcEnter, GcNoPoke, GcJoin, JoinWith, GcJoined,
        JoinedWith, GcBegin, GcRequests, RunUnless, GcMark, GcSweep, GcRestart, GcEnd, New, NewIn, InitDone, InitFails,
        Unlink, EndAll, EndWith, Again, Down, Free, CallRoot, CallGC, GcNest, CallBegin, BeginNested, EndNested,
        EndRequest, CallDestroy, CallNew, Debit
<1>4. CASE Call(t)
  BY PokeStep, FlagStep, <1>3, <1>4 DEF Call, CallRoot, CallGC, GcNest, CallBegin, BeginNested, EndNested, EndRequest, CallDestroy, CallNew,
     InRequest, Mine, TypeOK, Labels, Modes, listVars, gcVars, requestVars, localVars
<1>5. CASE Begin(t) \/ RootSleep(t) \/ RootDone(t) \/ ForceGC(t) \/ GcEnter(t) \/ GcNoPoke(t)
  BY PokeStep, FlagStep, <1>3, <1>5 DEF Begin, RootSleep, RootDone, ForceGC, GcEnter, GcNoPoke, Return, TypeOK, Labels, listVars, gcVars,
     requestVars, localVars
<1>6. CASE GcJoin(t) \/ GcJoined(t) \/ GcBegin(t) \/ GcRequests(t)
  BY PokeStep, FlagStep, <1>2, <1>3, <1>6 DEF GcJoin, JoinWith, GcJoined, JoinedWith, GcBegin, GcRequests, RunUnless, Return, Debit, TypeOK,
     Labels, listVars, gcVars, requestVars, localVars
<1>7. CASE GcMark(t) \/ GcSweep(t) \/ GcRestart(t) \/ GcEnd(t)
  BY PokeStep, FlagStep, <1>3, <1>7 DEF GcMark, GcSweep, GcRestart, GcEnd, Return, TypeOK, Labels, listVars, gcVars, requestVars, localVars
<1>8. CASE New(t)
  <2>1. cx[t] \in Contexts
    BY <1>1, <1>8 DEF New, NewIn, PlaceOf, ContextKnown, Entering, TypeOK
  <2> QED BY PokeStep, FlagStep, <1>3, <1>8, <2>1 DEF New, NewIn, TypeOK, Labels, gcVars, requestVars
<1>9. CASE Unlink(t)
  <2>1. cx[t] \in Contexts
    BY <1>1, <1>9 DEF Unlink, PlaceOf, ContextKnown, Staying, TypeOK
  <2> QED BY PokeStep, FlagStep, <1>3, <1>9, <2>1 DEF Unlink, TypeOK, Labels, gcVars, requestVars
<1>10. CASE InitDone(t) \/ InitFails(t)
  BY PokeStep, FlagStep, <1>3, <1>10 DEF InitDone, InitFails, TypeOK, Labels, Modes, listVars, gcVars, requestVars
<1>11. CASE EndAll(t) \/ Again(t) \/ Down(t) \/ Free(t)
  BY PokeStep, FlagStep, <1>3, <1>11 DEF EndAll, EndWith, Again, Down, Free, TypeOK, Labels, Modes, listVars, gcVars, requestVars, localVars
<1> QED
  BY <1>4, <1>5, <1>6, <1>7, <1>8, <1>9, <1>10, <1>11 DEF Step

LEMMA InitInv == Init => RequestInv
<1> USE GcRequestAssumption DEF GcRequestAssumption
<1> SUFFICES ASSUME Init PROVE RequestInv
  OBVIOUS
<1>1. TypeOK
  <2>1. gcPoke \in BOOLEAN /\ gcRunning \in BOOLEAN
    BY DEF Init
  <2>2. first \in [Threads -> BOOLEAN] /\ last \in [Threads -> BOOLEAN]
    BY DEF Init
  <2>3. /\ pc \in [Threads -> Labels] /\ after \in [Threads -> Labels] /\ mode \in [Threads -> Modes]
        /\ asleep \in [Threads -> CondVars \cup {None}] /\ cx \in [Threads -> Contexts \cup {None}]
    BY DEF Init, Labels, Modes
  <2> QED BY <2>1, <2>2, <2>3 DEF Init, TypeOK
<1>2. Linked = {} /\ Ring = {ListHead}
  BY DEF Init, Linked, InList, Ring
<1>3. ListInv
  BY <1>2 DEF Init, ListInv, LinksAgree, OneRing, FreshUnlinked
<1>4. PlaceInv /\ DepthInv
  BY DEF Init, PlaceInv, ReturnsKnown, ContextKnown, FlagsKnown, Entering, Staying, Leaving, Unrooting, Left, InGc,
     InRoot, DepthInv
<1>5. CollectorInv /\ DebitInv /\ IterInv
  BY DEF Init, CollectorInv, Collecting, DebitInv, Debiting, IterInv
<1>6. RequestCountExact
  <2>1. ActiveRequests = {}
    BY DEF Init, ActiveRequests
  <2> QED BY <2>1, CountIsActive, FS_EmptySet DEF Init
<1>7. LifeInv
  BY <1>2 DEF Init, LifeInv, Launches, Lands
<1> QED BY <1>1, <1>3, <1>4, <1>5, <1>6, <1>7 DEF RequestInv

LEMMA NextInv == RequestInv /\ [Next]_vars => RequestInv'
<1> SUFFICES ASSUME RequestInv, [Next]_vars PROVE RequestInv'
  OBVIOUS
<1>1. CASE UNCHANGED vars
  <2>1. /\ rtState' = rtState /\ gcPoke' = gcPoke /\ next' = next /\ prev' = prev /\ allocated' = allocated
        /\ gcLevel' = gcLevel /\ gcThread' = gcThread /\ gcRunning' = gcRunning /\ iter' = iter /\ debit' = debit
        /\ requestCount' = requestCount /\ requestDepth' = requestDepth /\ cx' = cx /\ mode' = mode
        /\ first' = first /\ last' = last /\ pc' = pc /\ after' = after /\ asleep' = asleep
    BY <1>1 DEF vars, listVars, gcVars, requestVars, localVars
  <2>2. TypeOK' /\ RequestCountExact'
    BY <2>1 DEF RequestInv, TypeOK, RequestCountExact
  <2>3. Linked' = Linked /\ Ring' = Ring
    BY <2>1 DEF Linked, InList, Ring
  <2>4. ListInv' /\ LifeInv' /\ CollectorInv'
    BY <2>1, <2>3 DEF RequestInv, ListInv, LinksAgree, OneRing, FreshUnlinked, LifeInv, Launches, Lands, CollectorInv
  <2>5. PlaceInv' /\ DepthInv'
    BY <2>1, <2>3 DEF RequestInv, PlaceInv, ReturnsKnown, ContextKnown, FlagsKnown, Entering, Staying, Leaving,
       Unrooting, Left, DepthInv
  <2>6. DebitInv' /\ IterInv'
    BY <2>1, <2>3 DEF RequestInv, DebitInv, RequestsOf, IterInv, Held, Leaving, Unrooting
  <2> QED BY <2>2, <2>4, <2>5, <2>6 DEF RequestInv
<1>2. ASSUME NEW t \in Threads, Step(t) \/ Call(t) PROVE RequestInv'
  <2>1. RequestCountExact' /\ requestCount' \in Nat
    BY <1>2, CountStep DEF RequestInv
  <2>2. TypeOK'
    BY <1>2, <2>1, TypeStep DEF RequestInv
  <2>3. ListInv'
    BY <1>2, ListPreserved DEF RequestInv
  <2>4. PlaceInv' /\ DepthInv'
    BY <1>2, PlaceStep, DepthStep DEF RequestInv
  <2>5. CollectorInv' /\ DebitInv' /\ IterInv'
    BY <1>2, <2>1, CollectorStep, DebitStep, IterStep DEF RequestInv
  <2>6. LifeInv'
    BY <1>2, LifeStep DEF RequestInv
  <2> QED BY <2>1, <2>2, <2>3, <2>4, <2>5, <2>6 DEF RequestInv
<1> QED BY <1>1, <1>2 DEF Next

(* The context list is one ring, every thread in js_NewContext, js_DestroyContext, js_AddRoot
   or js_GC is where its context, the counts and the collector's state say. *)
THEOREM RequestInvariant == Spec => []RequestInv
<1>1. Init => RequestInv
  BY InitInv
<1>2. RequestInv /\ [Next]_vars => RequestInv'
  BY NextInv
<1> QED BY <1>1, <1>2, PTL DEF Spec

(* rt->requestCount is the number of contexts in requests less those whose thread collects
   or waits for the collector: js_GC pays back every debit it takes, once. *)
THEOREM RequestCountCorrect == Spec => []RequestCountExact
<1>1. RequestInv => RequestCountExact
  BY DEF RequestInv
<1> QED BY <1>1, RequestInvariant, PTL

(* While rt->gcRunning is set no other thread is active in a request. *)
THEOREM GcRunsAloneCorrect == Spec => []GcRunsAlone
<1>1. RequestInv => GcRunsAlone
  <2> SUFFICES ASSUME RequestInv, gcRunning, NEW c \in Contexts, requestDepth[c] > 0
               PROVE  ThreadOf[c] = gcThread \/ pc[ThreadOf[c]] = "gcDone"
    BY DEF GcRunsAlone
  <2>1. ActiveRequests = {}
    BY CountIsActive, FiniteRequests, FS_EmptySet DEF RequestInv, CollectorInv
  <2>2. pc[ThreadOf[c]] \in Debiting
    BY <2>1 DEF ActiveRequests
  <2>3. ThreadOf[c] \in Threads
    BY GcRequestAssumption DEF GcRequestAssumption
  <2> QED BY <2>2, <2>3 DEF RequestInv, CollectorInv, Debiting
<1> QED BY <1>1, RequestInvariant, PTL

(* The context js_ContextIterator stands at is allocated, and so is the one it goes to. *)
THEOREM IteratorCorrect == Spec => []IteratorSafe
<1>1. RequestInv => IteratorSafe
  <2> SUFFICES ASSUME RequestInv, gcRunning, iter # ListHead
               PROVE  iter \in allocated /\ next[iter] \in allocated \cup {ListHead}
    BY DEF IteratorSafe
  <2>1. Held \subseteq allocated
    BY RingFacts DEF RequestInv, Held
  <2> QED BY <2>1 DEF RequestInv, IterInv
<1> QED BY <1>1, RequestInvariant, PTL

(* rt->state says what the context list holds, and at most one thread launches or lands
   the runtime. *)
THEOREM LifecycleCorrect == Spec => []LifecycleAgrees
<1>1. RequestInv => LifecycleAgrees
  <2> SUFFICES ASSUME RequestInv PROVE LifecycleAgrees
    OBVIOUS
  <2> DEFINE Special == {t \in Threads : (first[t] \/ last[t]) /\ pc[t] # "free"}
  <2>1. Linked = {} <=> next[ListHead] = ListHead
    BY RingFacts DEF RequestInv
  <2>2. \A t \in Special : Launches(t) \/ Lands(t)
    BY DEF Launches, Lands
  <2>3. \A t, u \in Special : t = u
    BY <2>2 DEF RequestInv, LifeInv
  <2>4. Cardinality(Special) <= 1
    <3>1. CASE Special = {}
      BY <3>1, FS_EmptySet
    <3>2. CASE Special # {}
      <4> PICK t \in Special : TRUE
        BY <3>2
      <4>1. Special = {t}
        BY <2>3
      <4>2. Cardinality({t}) = 1
        BY FS_Singleton
      <4> QED BY <4>1, <4>2
    <3> QED BY <3>1, <3>2
  <2> QED BY <2>1, <2>4 DEF RequestInv, LifeInv, LifecycleAgrees, Launches, Lands
<1> QED BY <1>1, RequestInvariant, PTL
=============================================================================
