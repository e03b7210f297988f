------------------------------ MODULE MCEngine ------------------------------
(***************************************************************************)
(* One run for the parts of the engine that share no state: a behaviour    *)
(* chooses a part and stays with it, the variables of the others at rest.  *)
(***************************************************************************)
EXTENDS DHash, Atoms, PropTree, ArenaPool, Watch, MCObjects, Strings, Regexp, Unwind,
        Expressions, Arrays, TLC

CONSTANTS p1, p2,       \* the pool of ArenaPool, and with p2 the scopes of PropTree
          x, y          \* Watch

VARIABLE part

\* DHash: keys that collide on the first probe in a small table, and on all probes in it.
MCKeyHash == <<2, 4, 6, 10, 62>>

\* Atoms: two keys with the same hash.
MCHashCode == <<0, 1, 1, 3>>

\* PropTree: one id is offered with different attributes; the other scope shares two lines.
MCOffers == (p1 :> {<<1, 1>>, <<1, 2>>, <<2, 1>>, <<3, 1>>}) @@ (p2 :> {<<1, 1>>, <<2, 1>>})

\* ArenaPool: allocations of three units or more are oversized, and an arena of five that
\* was freed has room to spare for one of three.
MCArenaSize == p1 :> 2

\* Strings: its prefixes and stretches, and concatenations up to five characters.
MCNewTexts == {<<"a", "b", "c">>}

(***************************************************************************)
(* Regexp: quantified terms of all kinds, before what makes them give back *)
(* characters; lookahead; alternatives; malformed patterns.                *)
(***************************************************************************)
Fl(str) == [op |-> "flat", str |-> str]
A == Fl(<<"a">>)
B == Fl(<<"b">>)
Grp(i, k) == <<[op |-> "lparen", paren |-> i, kid |-> k]>>
Non(k) == <<[op |-> "lparennon", kid |-> k]>>
Or(l, r) == <<[op |-> "alt", kid |-> l, kid2 |-> r]>>
Q(k, min, max, greedy) ==
  <<[op |-> "quant", min |-> min, max |-> max, greedy |-> greedy, kid |-> k]>>
Ahead(k) == <<[op |-> "assert", kid |-> k]>>
NotAhead(k) == <<[op |-> "assert_not", kid |-> k]>>
Back(i) == <<[op |-> "backref", paren |-> i]>>
Eol == <<[op |-> "eol"]>>
Bol == <<[op |-> "bol"]>>
Dot == <<[op |-> "dot"]>>
Cls == <<[op |-> "class", set |-> {"a", "b"}]>>
QToken(min, max) == [op |-> "quant", min |-> min, max |-> max, greedy |-> TRUE]

\* A pattern as it is written.
RECURSIVE TextOf(_)
TextOf(nds) ==
  FlattenSeq([i \in DOMAIN nds |->
    LET n == nds[i] IN
    CASE n.op \in Opens -> <<[op |-> n.op]>> \o TextOf(n.kid) \o <<[op |-> "close"]>>
      [] n.op = "alt"   -> TextOf(n.kid) \o <<[op |-> "bar"]>> \o TextOf(n.kid2)
      [] n.op = "quant" ->
           TextOf(n.kid) \o <<[op |-> "quant", min |-> n.min, max |-> n.max, greedy |-> n.greedy]>>
      [] n.op = "empty" -> <<>>
      [] OTHER          -> <<n>>])

Quants == {<<0, Inf>>, <<1, Inf>>, <<0, 1>>, <<2, 2>>, <<1, 2>>}
Single == {<<A>>, Cls, Grp(1, <<A>>), Non(Or(<<A>>, <<A, B>>)), Non(Or(Grp(1, <<A>>), <<B>>))}
Choice == {Grp(1, Or(<<A>>, <<A, B>>)), Grp(1, Q(<<A>>, 0, 1, TRUE)), Grp(1, Or(Cls, <<B>>)),
           Non(Q(<<A>>, 0, Inf, FALSE) \o Grp(1, Dot))}
Endings == {<<>>, <<B>>, Eol, Back(1)}
Quantifieds ==
  {Q(k, q[1], q[2], g) \o t : k \in Single, q \in Quants, g \in BOOLEAN, t \in Endings}
    \cup {Q(k, q[1], q[2], TRUE) \o t : k \in Choice, q \in Quants, t \in Endings}
Assertions ==
  {Bol \o Q(Grp(1, Q(<<A>>, 1, Inf, TRUE) \o Q(<<B>>, 0, 1, FALSE)), 0, Inf, TRUE) \o Eol,
   Ahead(Grp(1, Q(<<A>>, 0, Inf, TRUE))) \o Dot \o Back(1),
   NotAhead(<<A>>) \o Dot,
   NotAhead(Grp(1, <<A>>) \o <<B>>) \o Dot \o Q(<<B>>, 0, 0, TRUE),
   Ahead(Or(<<A>>, <<B>>)) \o Dot \o <<A>>,
   Or(<<A>>, Or(<<B, A>>, EmptyTerm)),
   Q(Non(Or(Grp(1, <<A>>), <<B>> \o Grp(2, <<A>>))), 0, Inf, TRUE)}
Patterns ==
  {p \in Quantifieds \cup Assertions :
     \A i \in DOMAIN p : p[i].op = "backref" => p[i].paren \in Groups(p)}
Malformed ==
  {<<[op |-> "close"]>>, <<A, [op |-> "close"]>>, <<[op |-> "lparen"], A>>,
   <<QToken(0, Inf)>>, <<A, QToken(0, 1), QToken(0, Inf)>>}
Inputs == UNION {[1..n -> {"a", "b"}] : n \in 0..3}

MCCases ==
  {[text |-> TextOf(p), tree |-> p, input |-> s] : p \in Patterns, s \in Inputs}
    \cup {[text |-> t, tree |-> <<>>, input |-> <<>>] : t \in Malformed}

(***************************************************************************)
(* Unwind: in a labelled loop, every way out of two statements nested in   *)
(* each other, for every pair of statements that ways out are about, and   *)
(* every course the conditions can take.                                   *)
(***************************************************************************)
Stmt(i) == [op |-> "mark", name |-> i]
Try(b, c, f) == [op |-> "try", body |-> b, catches |-> c, final |-> f]
Catch(b) == [guard |-> FALSE, body |-> b]
Guarded(b) == [guard |-> TRUE, body |-> b]
Throw(v) == [op |-> "throw", value |-> v]
Return(v) == [op |-> "return", value |-> v]

Around(b) ==
  {[op |-> "with", body |-> b],
   [op |-> "forin", body |-> b \o <<Stmt(8)>>],
   [op |-> "while", body |-> b],
   Try(b, <<Catch(<<Stmt(2)>>)>>, <<>>),
   Try(b, <<Catch(<<Stmt(2)>>)>>, <<Stmt(3)>>),
   Try(b, <<Guarded(<<Stmt(2), [op |-> "throwvar"]>>), Catch(<<Stmt(6)>>)>>, <<>>),
   Try(b, <<Guarded(<<Stmt(2)>>)>>, <<>>),
   Try(b, <<Guarded(<<Stmt(2)>>)>>, <<Stmt(3)>>),
   Try(b, <<Guarded(<<Stmt(2)>>), Catch(<<Stmt(6)>>)>>, <<Stmt(3)>>),
   Try(b, <<>>, <<Try(<<Stmt(3)>>, <<>>, <<Stmt(4)>>)>>),
   Try(<<Throw(5)>>, <<Catch(b)>>, <<Stmt(3)>>),
   Try(<<Throw(5)>>, <<>>, b),
   Try(<<Return(6)>>, <<>>, b)}

Exits == {Stmt(9), Throw(1), Return(2)}
           \cup {[op |-> op, label |-> l] : op \in {"break", "continue"}, l \in {"", "L"}}

RECURSIVE Has(_, _)
Has(block, ops) ==
  \E i \in DOMAIN block :
    LET n == block[i] IN
    \/ n.op \in ops
    \/ n.op \in {"with", "forin", "while", "label", "try"} /\ Has(n.body, ops)
    \/ n.op = "try" /\ (Has(n.final, ops) \/ \E k \in DOMAIN n.catches : Has(n.catches[k].body, ops))

\* Programs on which the engine departs from the language (README): an exception caught inside
\* a finally block, and a finally block that takes back the return it interrupts.
RECURSIVE Disputed(_)
Disputed(block) ==
  \E i \in DOMAIN block :
    LET n == block[i] IN
    \/ n.op \in {"with", "forin", "while", "label", "try"} /\ Disputed(n.body)
    \/ n.op = "try" /\
        \/ Disputed(n.final)
        \/ \E k \in DOMAIN n.catches : Disputed(n.catches[k].body)
        \/ \E j \in DOMAIN n.final : n.final[j].op = "try" /\ n.final[j].catches # <<>>
        \/ Has(n.body, {"return"}) /\ Has(n.final, {"break", "continue", "throw"})

\* A third departure: a try statement with a finally block and a guarded catch clause.  It shows
\* when that guard fails (MCUnwind).  Spied makes the statement say so: the next clause makes a
\* mark, and throws the exception on.
Spy == Catch(<<Stmt(99), [op |-> "throwvar"]>>)
RECURSIVE Spied(_)
Spied(block) ==
  [i \in DOMAIN block |->
    LET n == block[i] IN
    CASE n.op \in {"with", "forin", "while", "label"} -> [n EXCEPT !.body = Spied(@)]
      [] n.op = "try" ->
           LET clauses == [k \in DOMAIN n.catches |-> [n.catches[k] EXCEPT !.body = Spied(@)]]
           IN  Try(Spied(n.body),
                   IF n.final = <<>> \/ clauses = <<>> \/ ~clauses[1].guard THEN clauses
                   ELSE <<clauses[1], Spy>>,
                   Spied(n.final))
      [] OTHER -> n]
GuardFails(p) == Contains(Promised([p EXCEPT !.block = Spied(@)]).s.log, 99)

InLoop(b) ==
  <<[op |-> "label", label |-> "L", body |-> <<[op |-> "while", body |-> b]>>], Stmt(0)>>
Blocks ==
  {InLoop(<<w>>) : w \in UNION {Around(<<Stmt(1), i, Stmt(7)>>) :
                                  i \in UNION {Around(<<e>>) : e \in Exits}}}
MCPrograms ==
  {p \in {[block |-> b, decisions |-> <<TRUE, d1, d2>>] :
             b \in {k \in Blocks : ~Disputed(k)}, d1 \in BOOLEAN, d2 \in BOOLEAN} :
     ~GuardFails(p)}

(***************************************************************************)
(* Expressions: every operator inside every other one, in parentheses and  *)
(* without them, and longer ones.                                          *)
(***************************************************************************)
Templates ==
  {<< <<"b", "-">>, <<>> >>, << <<>>, <<"-", "b">> >>, << <<"2", "+">>, <<>> >>,
   << <<>>, <<"+", "2">> >>, << <<"b", "*">>, <<>> >>, << <<>>, <<"*", "3">> >>,
   << <<>>, <<"in", "b">> >>, << <<"-">>, <<>> >>, << <<"!">>, <<>> >>, << <<"typeof">>, <<>> >>,
   << <<"delete">>, <<>> >>, << <<"--">>, <<>> >>, << <<>>, <<"++">> >>,
   << <<>>, <<"?", "b", ":", "p">> >>, << <<"b", "?">>, <<":", "c">> >>,
   << <<"b", "?", "c", ":">>, <<>> >>, << <<>>, <<"||", "b">> >>, << <<"b", "&&">>, <<>> >>,
   << <<"b", "=">>, <<>> >>, << <<"p", "=">>, <<>> >>, << <<"b", ".", "x", "+=">>, <<>> >>,
   << <<"b", "[", "p", "]", "-=">>, <<>> >>, << <<>>, <<"=", "b">> >>, << <<>>, <<"+=", "2">> >>,
   << <<>>, <<".", "x">> >>, << <<>>, <<"[", "'y z'", "]">> >>, << <<>>, <<"[", "b", "]">> >>,
   << <<"b", "[">>, <<"]">> >>, << <<>>, <<"(", ")">> >>, << <<>>, <<"(", "b", ")">> >>,
   << <<"b", ".", "x", "(", "p", ",">>, <<")">> >>, << <<"new">>, <<>> >>,
   << <<"new">>, <<"(", "b", ")">> >>, << <<>>, <<",", "b">> >>, << <<"b", ",">>, <<>> >>,
   << <<"[">>, <<"]">> >>, << <<"[", ",">>, <<",", "]">> >>,
   << <<"{", "x", ":">>, <<",", "'y z'", ":", "b", ",", "3", ":", "a", "}">> >>}
Within(t, ts) == t[1] \o ts \o t[2]
Parens(ts) == <<"(">> \o ts \o <<")">>
Leaves == {<<"a">>, <<"1">>}
Simple1 == {Within(t, e) : t \in Templates, e \in Leaves \cup {<<"p">>, <<"'5'">>}}
Longer ==
  {<<"a", "(", "b", ")", "(", "c", ")", "(", ")">>, <<"new", "new", "a", "(", "b", ")">>,
   <<"a", "||", "b", "&&", "c", "||", "p">>, <<"a", "||", "b", "||", "c">>,
   <<"1", "+", "2", "+", "'5'">>, <<"'5'", "+", "1", "+", "2">>, <<"a", "+", "1", "+", "2", "*", "3">>,
   <<"a", "=", "b", "+=", "c", ".", "x", "=", "p">>, <<"p", "++", "+", "p", "+", "(", "p", "=", "1", ")">>,
   <<"v", "=", "p", "++", "-", "--", "v">>, <<"a", "?", "b", "?", "c", ":", "1", ":", "p", "?", "2", ":", "3">>,
   <<"a", "(", "(", "b", ",", "c", ")", ",", "p", ")">>, <<"this", ".", "x", "(", "p", ")">>,
   <<"(", "(", "a", ")", ")", "=", "b">>, <<"void", "a", "(", ")", "+", "p">>}
MCSources ==
  LET all == Simple1 \cup Longer
             \cup {Within(t, e) : t \in Templates, e \in {Within(u, l) : u \in Templates, l \in Leaves}}
             \cup {Within(t, Parens(Within(u, <<"a">>))) : t, u \in Templates}
  IN  {ts \in all : Accepted(ts)}

(***************************************************************************)
(* Arrays: short ones with every choice of elements left out; for sorting, *)
(* every order of five, and equal and undefined elements.                  *)
(***************************************************************************)
ArrayOf(f) == [length |-> Cardinality(DOMAIN f), at |-> f]
Indices(n) == 0..n-1
Rising(n) == ArrayOf([i \in Indices(n) |-> i + 1])
Falling(n) == ArrayOf([i \in Indices(n) |-> n - i])
Sparse(n) == {[length |-> n, at |-> [i \in present |-> i + 1]] : present \in SUBSET Indices(n)}

MCArrays == UNION {Sparse(n) : n \in 0..3} \cup {Rising(4)}
MCPositions == {-5, -2, 0, 1, 3, 5}
MCArguments == {<<>>, <<11>>, <<11, 12, 13>>}
MCOther == [length |-> 2, at |-> (1 :> 21)]
MCSortings ==
  {<<"sort by order", ArrayOf(f)>> : f \in {g \in [Indices(5) -> 1..5] : IsInjective(g)}}
    \cup {<<"sort by order", [length |-> 4, at |-> f]>> :
             f \in [Indices(4) -> {1, 2, 99}] \cup [{1, 2} -> {1, 2, 99}]}
    \cup {<<"sort by order", Falling(n)>> : n \in {1, 2, 3, 6}}
    \cup {<<"sort by any", Falling(n)>> : n \in 1..5}

-----------------------------------------------------------------------------

Parts == {"tables", "atoms", "properties", "arenas", "watchpoints", "objects", "strings",
          "regexps", "unwinding", "expressions", "arrays"}

EngineInit ==
  /\ part \in Parts
  /\ DHInit /\ ATInit /\ PTInit /\ ArenaInit /\ InitOfObjects /\ InitOfStrings
  /\ WatchInit /\ (part # "watchpoints" => \A p \in WatchedProps : setterOf[p] = "plain")
  /\ IF part = "regexps" THEN ReInit ELSE ReInitOf(NoRe)
  /\ \E p \in (IF part = "unwinding" THEN Programs ELSE {[block |-> <<>>, decisions |-> <<>>]}) :
       UnwindInitOf(p)
  /\ IF part = "expressions" THEN ExprInit ELSE ExprInitOf(<<>>)
  /\ IF part = "arrays" THEN ArraysInit ELSE ArraysInitOf(NewArray)

EngineNext ==
  /\ UNCHANGED part
  /\ IF part = "tables" THEN DHNext ELSE UNCHANGED dhVars
  /\ IF part = "atoms" THEN ATNext ELSE UNCHANGED atomVars
  /\ IF part = "properties" THEN PTNext ELSE UNCHANGED treeVars
  /\ IF part = "arenas" THEN ArenaNext ELSE UNCHANGED arenaVars
  /\ IF part = "watchpoints" THEN WatchNext ELSE UNCHANGED watchVars
  /\ IF part = "objects" THEN ObjectsNext ELSE UNCHANGED objectVars
  /\ IF part = "strings" THEN StringsNext ELSE UNCHANGED stringVars
  /\ IF part = "regexps" THEN ReNext ELSE UNCHANGED reVars
  /\ IF part = "unwinding" THEN UnwindNext ELSE UNCHANGED unwindVars
  /\ IF part = "expressions" THEN ExprNext ELSE UNCHANGED exprVars
  /\ IF part = "arrays" THEN ArraysNext ELSE UNCHANGED arrayVars
=============================================================================
