------------------------------ MODULE PropTree ------------------------------
(***************************************************************************)
(* Scopes and the property tree they share (jsscope.c).  A scope's list of *)
(* properties is a line of tree nodes from scope->lastProp to the root;    *)
(* scopes whose properties were added in the same order share nodes.  A    *)
(* property deleted from the middle stays on the line, and the scope's     *)
(* hash table alone says which nodes of the line still count, until the    *)
(* next add forks the line.  The collector frees the nodes no scope counts *)
(* and hands their kids to the grandparent.                                *)
(*                                                                         *)
(* One action is one call made with the scope locked.  A table is the      *)
(* function it computes (DHash has the probing); of a property's members   *)
(* only the id and "attrs", one value for all the others, are told apart.  *)
(* Duplicate formal parameters and watchpoints are left out.               *)
(***************************************************************************)
EXTENDS Integers, Sequences, FiniteSets, SequencesExt, FiniteSetsExt

CONSTANTS
    PTScopes, PTIds, PTAttrs,
    PTMaxNodes,       \* bound: the nodes there is memory for
    HashThreshold,    \* SCOPE_HASH_THRESHOLD
    PTOffers,         \* the id and attrs pairs each scope is asked for (inputs)
    PTMaxCalls,       \* bound: calls and collections of a run
    NoNode,           \* a null JSScopeProperty pointer
    NoTable           \* a null scope->table

ASSUME PropTreeAssumption ==
    /\ PTMaxNodes \in Nat /\ HashThreshold \in Nat /\ PTMaxCalls \in Nat
    /\ PTOffers \in [PTScopes -> SUBSET (PTIds \X PTAttrs)]
    /\ NoNode \notin PTIds \cup (1..PTMaxNodes) /\ NoTable \notin [PTIds -> (1..PTMaxNodes) \cup {NoNode}]

VARIABLES
    tree,     \* nodes: their members and parent links; roots: rt->propertyTreeHash
    scope,    \* lastProp, table, middle (SCOPE_MIDDLE_DELETE) and entryCount
    torn,     \* scopes whose fork failed half-way (no variable of the code)
    calls     \* calls made so far (a bound)

treeVars == <<tree, scope, torn, calls>>

\* A node is its place in the arenas.
PTNodes == 1..PTMaxNodes

FreeNode == [id |-> NoNode, attrs |-> NoNode, parent |-> NoNode]

EmptyScope == [lastProp |-> NoNode, table |-> NoTable, middle |-> FALSE, entryCount |-> 0]

PTInit ==
    /\ tree = [nodes |-> [n \in PTNodes |-> FreeNode], roots |-> {}]
    /\ scope = [s \in PTScopes |-> EmptyScope]
    /\ torn = {}
    /\ calls = 0

-----------------------------------------------------------------------------
(* The tree. *)

\* The nodes of S on the line from the root to n, which is what following n's
\* parent links gives, backwards.
LineIn(t, n, S) ==
    LET line[m \in PTNodes \cup {NoNode}] ==
            IF m = NoNode THEN <<>>
            ELSE IF m \in S THEN Append(line[t.nodes[m].parent], m)
            ELSE line[t.nodes[m].parent]
    IN line[n]

Line(t, n) == LineIn(t, n, PTNodes)

LastIn(t, n, S) == IF LineIn(t, n, S) = <<>> THEN NoNode ELSE Last(LineIn(t, n, S))

NodesInUse(t) == {n \in PTNodes : t.nodes[n] # FreeNode}

Kids(t, p) ==
    IF p = NoNode THEN t.roots ELSE {n \in NodesInUse(t) : t.nodes[n].parent = p}

SpropMatch(t, n, id, attrs) == t.nodes[n].id = id /\ t.nodes[n].attrs = attrs

NewNode(t, p, id, attrs) ==
    LET n == Min(PTNodes \ NodesInUse(t)) IN
    [tree |-> [nodes |-> [t.nodes EXCEPT ![n] = [id |-> id, attrs |-> attrs, parent |-> p]],
               roots |-> IF p = NoNode THEN t.roots \cup {n} ELSE t.roots],
     got |-> n]

\* The child found, any one of several that match, or made if there is room.
GetPropertyTreeChild(t, p, id, attrs) ==
    LET found == {n \in Kids(t, p) : SpropMatch(t, n, id, attrs)} IN
    {[tree |-> t, got |-> n] : n \in found}
        \cup IF found # {} THEN {}
             ELSE IF NodesInUse(t) = PTNodes THEN {[tree |-> t, got |-> NoNode]}
             ELSE {NewNode(t, p, id, attrs)}

-----------------------------------------------------------------------------
(* One scope over the tree. *)

SearchScope(t, sc, id) ==
    IF sc.table # NoTable THEN sc.table[id]
    ELSE LastIn(t, sc.lastProp, {n \in PTNodes : t.nodes[n].id = id})

HasProperty(t, sc, n) == SearchScope(t, sc, t.nodes[n].id) = n

CreateScopeTable(t, sc) ==
    [sc EXCEPT !.table = [id \in PTIds |-> SearchScope(t, sc, id)]]

Store(sc, id, n) == IF sc.table = NoTable THEN sc ELSE [sc EXCEPT !.table[id] = n]

\* The nodes that count if they are on the scope's line.
Listed(t, sc) == {n \in NodesInUse(t) : ~sc.middle \/ HasProperty(t, sc, n)}

\* SCOPE_REMOVE_LAST_PROP, repeated past the ancestors deleted before.
PopLast(t, sc) ==
    [sc EXCEPT !.lastProp = LastIn(t, t.nodes[sc.lastProp].parent, Listed(t, sc))]

\* Take n off the scope: at once when it is the last one, else lazily.
Unlink(t, sc, n) ==
    LET hashed == IF n = sc.lastProp \/ sc.table # NoTable THEN sc ELSE CreateScopeTable(t, sc)
        off == Store([hashed EXCEPT !.entryCount = @ - 1], t.nodes[n].id, NoNode)
    IN IF n = sc.lastProp THEN PopLast(t, off) ELSE [off EXCEPT !.middle = TRUE]

Outcome(t, sc, ok) == [tree |-> t, scope |-> sc, ok |-> ok]

\* One node of the fork: kept where its parent is the node before it, else a
\* node below that one is found or made and the table told of it.
ForkNode(n, ways) ==
    UNION {IF ~w.ok THEN {w}
           ELSE IF w.tree.nodes[n].parent = w.prev THEN {[w EXCEPT !.prev = n]}
           ELSE {IF g.got = NoNode THEN [w EXCEPT !.ok = FALSE]
                 ELSE [tree |-> g.tree, scope |-> Store(w.scope, w.tree.nodes[n].id, g.got),
                       ok |-> TRUE, prev |-> g.got] :
                    g \in GetPropertyTreeChild(w.tree, w.prev, w.tree.nodes[n].id,
                                               w.tree.nodes[n].attrs)} :
           w \in ways}

\* Squeeze the deleted properties out of the ancestor line.
Fork(t, sc) ==
    LET bound == LineIn(t, sc.lastProp, {n \in NodesInUse(t) : SearchScope(t, sc, t.nodes[n].id) # NoNode})
        start == [tree |-> t, scope |-> sc, ok |-> TRUE, prev |-> NoNode]
        forked[i \in 0..Len(bound)] == IF i = 0 THEN {start} ELSE ForkNode(bound[i], forked[i - 1])
    IN IF ~sc.middle THEN {Outcome(t, sc, TRUE)}
       ELSE IF sc.entryCount = 0 THEN {Outcome(t, [sc EXCEPT !.middle = FALSE], TRUE)}
       ELSE {Outcome(t, sc, FALSE)}      \* no memory for the vector
            \cup {IF w.ok
                  THEN Outcome(w.tree, [w.scope EXCEPT !.lastProp = w.prev, !.middle = FALSE], TRUE)
                  ELSE Outcome(w.tree, w.scope, FALSE) :
                      w \in forked[Len(bound)]}

\* fail_overwrite: put the overwritten property back, at the end of the line
\* when the line was forked without it.
FailOverwrite(t, sc, old) ==
    LET id == t.nodes[old].id
        back(sc2, n) == Store([sc2 EXCEPT !.entryCount = @ + 1], id, n)
    IN IF old = NoNode THEN {Outcome(t, sc, FALSE)}
       ELSE IF old \in ToSet(Line(t, sc.lastProp)) THEN {Outcome(t, back(sc, old), FALSE)}
       ELSE IF t.nodes[old].parent = sc.lastProp
            THEN {Outcome(t, back([sc EXCEPT !.lastProp = old], old), FALSE)}
       ELSE {IF g.got = NoNode THEN Outcome(g.tree, sc, FALSE)
             ELSE Outcome(g.tree, back([sc EXCEPT !.lastProp = g.got], g.got), FALSE) :
                 g \in GetPropertyTreeChild(t, sc.lastProp, id, t.nodes[old].attrs)}

\* The new property below the forked line; hashing starts at the threshold
\* unless the allocation fails.
Extend(f, id, attrs, old) ==
    UNION {IF g.got = NoNode THEN FailOverwrite(g.tree, f.scope, old)
           ELSE LET sc == Store([f.scope EXCEPT !.entryCount = @ + 1, !.lastProp = g.got], id, g.got)
                    many == sc.table = NoTable /\ sc.entryCount >= HashThreshold
                    hashed == IF many THEN {CreateScopeTable(g.tree, sc)} ELSE {}
                IN {Outcome(g.tree, r, TRUE) : r \in {sc} \cup hashed} :
           g \in GetPropertyTreeChild(f.tree, f.scope.lastProp, id, attrs)}

AddScopeProperty(t, sc, id, attrs) ==
    LET old == SearchScope(t, sc, id)
        off == IF old = NoNode THEN sc ELSE Unlink(t, sc, old)
    IN IF old # NoNode /\ t.nodes[old].attrs = attrs THEN {Outcome(t, sc, TRUE)}
       ELSE UNION {FailOverwrite(f.tree, f.scope, old)     \* the fork or js_AllocSlot failed
                      \cup IF f.ok THEN Extend(f, id, attrs, old) ELSE {} :
                   f \in Fork(t, off)}

\* Mutant: the shared node itself is changed.
ChangeInPlace(t, sc, id, attrs) ==
    LET n == SearchScope(t, sc, id) IN
    {Outcome([t EXCEPT !.nodes[n].attrs = attrs], sc, TRUE)}

\* A changed last property gets a sibling, any other is added again.
ChangeScopePropertyAttrs(t, sc, id, attrs) ==
    LET n == SearchScope(t, sc, id) IN
    IF n # sc.lastProp \/ t.nodes[n].attrs = attrs THEN AddScopeProperty(t, sc, id, attrs)
    ELSE {IF g.got = NoNode THEN Outcome(t, sc, FALSE)
          ELSE Outcome(g.tree, Store([sc EXCEPT !.lastProp = g.got], id, g.got), TRUE) :
              g \in GetPropertyTreeChild(t, t.nodes[n].parent, id, attrs)}

-----------------------------------------------------------------------------
(* The calls. *)

OneCall == calls < PTMaxCalls /\ calls' = calls + 1

Calls(s, ways) ==
    /\ s \notin torn
    /\ OneCall
    /\ \E w \in ways :
        /\ tree' = w.tree
        /\ scope' = [scope EXCEPT ![s] = w.scope]
        /\ torn' = IF /\ ~w.ok /\ w.scope.table # NoTable
                      /\ ~({w.scope.table[id] : id \in PTIds} \ {NoNode}
                             \subseteq ToSet(Line(w.tree, w.scope.lastProp)))
                   THEN torn \cup {s} ELSE torn

AddProperty(s, id, attrs) == Calls(s, AddScopeProperty(tree, scope[s], id, attrs))

ChangeAttrs(s, id, attrs) ==
    /\ SearchScope(tree, scope[s], id) # NoNode
    /\ Calls(s, ChangeScopePropertyAttrs(tree, scope[s], id, attrs))

RemoveProperty(s, id) ==
    LET n == SearchScope(tree, scope[s], id) IN
    n # NoNode /\ Calls(s, {Outcome(tree, Unlink(tree, scope[s], n), TRUE)})

ClearScope(s) ==
    /\ s \notin torn
    /\ OneCall
    /\ scope' = [scope EXCEPT ![s] = EmptyScope]
    /\ UNCHANGED <<tree, torn>>

\* js_Mark: the nodes of the line the scope still counts.
MarkedNodes(sc) == ToSet(LineIn(tree, sc.lastProp, Listed(tree, sc)))

\* A dead node leaves its parent's kids, and its own kids become its parent's;
\* a kid that matches a root stays out of the table of roots.
SweepNode(t, n) ==
    LET p == t.nodes[n].parent
        kids == {k \in NodesInUse(t) : t.nodes[k].parent = n}
        moved == [k \in PTNodes |->
                    IF k = n THEN FreeNode
                    ELSE IF k \in kids THEN [t.nodes[k] EXCEPT !.parent = p] ELSE t.nodes[k]]
        rooted[k \in 0..PTMaxNodes] ==
            IF k = 0 THEN t.roots \ {n}
            ELSE IF k \in kids /\ \A r \in rooted[k - 1] : ~SpropMatch(t, r, t.nodes[k].id, t.nodes[k].attrs)
            THEN rooted[k - 1] \cup {k} ELSE rooted[k - 1]
    IN [nodes |-> moved, roots |-> IF p # NoNode THEN t.roots ELSE rooted[PTMaxNodes]]

SweepScopeProperties ==
    LET marked == UNION {MarkedNodes(scope[s]) : s \in PTScopes}
        dead == NodesInUse(tree) \ marked
        swept[k \in 0..PTMaxNodes] ==
            IF k = 0 THEN tree
            ELSE IF k \in dead THEN SweepNode(swept[k - 1], k) ELSE swept[k - 1]
    IN /\ dead # {}
       /\ OneCall
       /\ tree' = swept[PTMaxNodes]
       /\ UNCHANGED <<scope, torn>>

PTNext ==
    \/ \E s \in PTScopes :
        \/ \E e \in PTOffers[s] : AddProperty(s, e[1], e[2]) \/ ChangeAttrs(s, e[1], e[2])
        \/ \E id \in PTIds : RemoveProperty(s, id)
        \/ ClearScope(s)
    \/ SweepScopeProperties

PTSpec == PTInit /\ [][PTNext]_treeVars

-----------------------------------------------------------------------------
(* Correctness. *)

\* The properties an enumeration of s visits, oldest first.
ListedProps(s) == LineIn(tree, scope[s].lastProp, Listed(tree, scope[s]))

\* The ancestor line, the table, the entry count and the middle-delete flag of
\* a scope tell the same story: the last property counts, a table entry is on
\* the line, no two counted nodes have one id, nodes that do not count stand
\* there only while the flag is set, and no node of the line was freed, however
\* the scopes share, fork, delete and collect (CHECK_ANCESTOR_LINE, jsscope.c).
LinesExact ==
    \A s \in PTScopes \ torn :
        LET sc == scope[s]
            listed == ListedProps(s)
            line == ToSet(Line(tree, sc.lastProp))
        IN /\ line \subseteq NodesInUse(tree)
           /\ sc.lastProp # NoNode => HasProperty(tree, sc, sc.lastProp)
           /\ Len(listed) = sc.entryCount
           /\ \A i, j \in DOMAIN listed :
                tree.nodes[listed[i]].id = tree.nodes[listed[j]].id => i = j
           /\ sc.table # NoTable =>
                \A id \in PTIds : sc.table[id] # NoNode =>
                    sc.table[id] \in line /\ tree.nodes[sc.table[id]].id = id

Props(s) ==
    IF s \in torn THEN <<>>
    ELSE LET listed == ListedProps(s)
         IN [i \in DOMAIN listed |-> <<tree.nodes[listed[i]].id, tree.nodes[listed[i]].attrs>>]

OP == INSTANCE OrderedProps WITH Scopes <- PTScopes, Ids <- PTIds, Attrs <- PTAttrs,
        props <- [s \in PTScopes |-> Props(s)], lost <- torn

\* Every scope is an ordered map of its own: no call on another scope, and no
\* collection, changes what it lists, whatever nodes they share, and its line
\* and its table stay in step.  (OP!OrderedPropsSpec; that tree and scopes are
\* unchanged is looked at first.)
ScopesAreOrderedMaps ==
    []LinesExact /\ OP!OrderedPropsInit /\ [][UNCHANGED treeVars \/ OP!OrderedPropsStep]_treeVars
=============================================================================
