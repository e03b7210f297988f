---------------------------- MODULE Expressions ----------------------------
(***************************************************************************)
(* What an expression means, from its tree alone, and what the compiler,   *)
(* the decompiler and the interpreter together must keep of it.            *)
(***************************************************************************)
EXTENDS Interp

(***************************************************************************)
(* A tree without parentheses, with operators on two operands only and     *)
(* every constant part replaced by its value.                              *)
(***************************************************************************)
IsConst(n) == n.type \in Constants
Apply(op, l, r) ==
  LET i == FoldNumber(l)
      j == FoldNumber(r)
      plain(left, right) == OpNode(op, op, <<left, right>>)
  IN  CASE op = "add" /\ IsConst(l) /\ IsConst(r) ->
             IF l.type = "number" /\ r.type = "number" THEN NumberNode(l.val + r.val)
             ELSE StringNode(FoldText(l).atom \o FoldText(r).atom)
        [] op \in {"sub", "mul", "lsh"} ->
             IF i.type = "number" /\ j.type = "number" THEN NumberNode(Arith(op, i.val, j.val))
             ELSE plain(i, j)
        [] OTHER -> plain(l, r)
RECURSIVE LeftToRight(_, _, _)
LeftToRight(op, l, kids) ==
  IF kids = <<>> THEN l ELSE LeftToRight(op, Apply(op, l, Head(kids)), Tail(kids))

RECURSIVE Meaning(_)
Meaning(n) ==
  LET kids == [i \in DOMAIN n.kids |-> Meaning(n.kids[i])]
      m    == [n EXCEPT !.kids = kids]
  IN  CASE n.type = "rp" -> kids[1]
        [] n.type \in BinaryOps -> LeftToRight(n.op, kids[1], Tail(kids))
        [] n.type = "unary" -> FoldUnary(m)
        [] n.type = "hook"  -> FoldHook(m)
        [] n.type = "lb" /\ kids[2].type = "string" ->
             Node("dot", "getprop", kids[2].atom, 0, <<kids[1]>>)
        [] n.type = "delete" /\ kids[1].type = "name" /\ HasSlot(kids[1].atom) ->
             OpNode("primary", "false", <<>>)
        [] n.type = "assign" -> [m EXCEPT !.kids[1].op = ""]
        [] OTHER -> m

(***************************************************************************)
(* Evaluation, left to right.  A state has the value of the last           *)
(* expression, the trace, the slots, and whether an error has ended it;    *)
(* the tests and lookups go as they went in the trace that is followed.    *)
(***************************************************************************)
Event(st, e) ==
  IF st.failed THEN st
  ELSE [st EXCEPT !.trace = Append(@, e), !.value = <<"result", Len(st.trace) + 1>>]
WithValue(st, v) == IF st.failed THEN st ELSE [st EXCEPT !.value = v]
IsFound(st, name, followed) ==
  LET k == Len(st.trace) + 1
  IN  ~(k \in DOMAIN followed /\ followed[k] = <<"not found", name>>)
FailLookup(st, name) ==
  IF st.failed THEN st
  ELSE [st EXCEPT !.trace = Append(@, <<"not found", name>>), !.failed = TRUE]
DecideTest(st, followed) ==
  LET k == Len(st.trace) + 1
      b == IF Truths(st.value) # BOOLEAN THEN TRUE \in Truths(st.value)
           ELSE k \in DOMAIN followed /\ followed[k] = <<"test", st.value, TRUE>>
  IN  [yes |-> b,
       st  |-> IF st.failed \/ Truths(st.value) # BOOLEAN THEN st
               ELSE [st EXCEPT !.trace = Append(@, <<"test", st.value, b>>)]]
Operate(st, op, l, r) ==
  LET i == Operand(op, l)
      j == Operand(op, r)
  IN  IF Computed(op, i, j) # <<>> THEN WithValue(st, Computed(op, i, j)[1])
      ELSE Event(st, <<op, i, j>>)
Scope(st) == <<"object", Len(st.trace)>>   \* the object the last event found

RECURSIVE Eval(_, _, _), EvalAll(_, _, _), EvalInit(_, _, _, _, _)

\* The values of a list of expressions
EvalAll(kids, st, followed) ==
  IF kids = <<>> THEN [st |-> st, values |-> <<>>]
  ELSE LET a    == Eval(Head(kids), st, followed)
           rest == EvalAll(Tail(kids), a, followed)
       IN  [st |-> rest.st, values |-> <<a.value>> \o rest.values]

\* A property or an element: its object and its key, after they are evaluated
EvalReference(n, st, followed) ==
  LET all == EvalAll(n.kids, st, followed)
  IN  [st |-> all.st, base |-> all.values[1],
       id |-> IF n.type = "dot" THEN Str(n.atom) ELSE all.values[2]]

EvalAssign(n, st, followed) ==
  LET left == n.kids[1]
      slot == left.type = "name" /\ HasSlot(left.atom)
      ref  == IF slot THEN [st |-> st, base |-> NullObject, id |-> NullObject]
              ELSE IF left.type = "name"
              THEN LET e == Event(st, <<"bind", left.atom>>)
                   IN  [st |-> e, base |-> Scope(e), id |-> Str(left.atom)]
              ELSE EvalReference(left, st, followed)
      old  == IF n.op = "nop" THEN ref.st
              ELSE IF slot THEN WithValue(ref.st, ref.st.slots[left.atom])
              ELSE Event(ref.st, <<"get", ref.base, ref.id>>)
      new  == Eval(n.kids[2], old, followed)
      val  == IF n.op = "nop" THEN new ELSE Operate(new, n.op, old.value, new.value)
  IN  IF val.failed THEN val
      ELSE IF slot THEN [val EXCEPT !.slots[left.atom] = val.value]
      ELSE WithValue(Event(val, <<"set", ref.base, ref.id, val.value>>), val.value)

EvalIncrement(n, st, followed) ==
  LET kid  == n.kids[1]
      slot == kid.type = "name" /\ HasSlot(kid.atom)
      ref  == IF kid.type = "name"
              THEN LET e == IF IsFound(st, kid.atom, followed) THEN Event(st, <<"find", kid.atom>>)
                            ELSE FailLookup(st, kid.atom)
                   IN  [st |-> e, base |-> Scope(e), id |-> Str(kid.atom)]
              ELSE EvalReference(kid, st, followed)
      get  == IF slot THEN WithValue(st, ToNumber(st.slots[kid.atom]))
              ELSE Event(ref.st, <<"get", ref.base, ref.id>>)
      old  == IF Kind(get.value) = "num" THEN get ELSE Event(get, <<"number", get.value>>)
      new  == Plus(old.value, By(n.op))
      set  == IF slot THEN [old EXCEPT !.slots[kid.atom] = new]
              ELSE Event(old, <<"set", ref.base, ref.id, new>>)
  IN  IF old.failed THEN old ELSE WithValue(set, IF n.op \in Posts THEN old.value ELSE new)

\* The elements or properties of an initialiser for the object o
EvalInit(o, kids, i, st, followed) ==
  IF kids = <<>> THEN WithValue(st, o)
  ELSE LET kid   == Head(kids)
           named == kid.type = "colon"
           id    == IF ~named THEN Num(i)
                    ELSE IF kid.kids[1].type = "number" THEN Num(kid.kids[1].val)
                    ELSE Str(kid.kids[1].atom)
           v     == IF named THEN Eval(kid.kids[2], st, followed)
                    ELSE IF kid.type = "hole" THEN WithValue(st, Undefined)
                    ELSE Eval(kid, st, followed)
       IN  EvalInit(o, Tail(kids), i + 1, Event(v, <<"set", o, id, v.value>>), followed)

EvalName(n, st, followed) ==
  IF HasSlot(n.atom) THEN WithValue(st, st.slots[n.atom])
  ELSE IF IsFound(st, n.atom, followed) THEN Event(st, <<"name", n.atom>>)
  ELSE FailLookup(st, n.atom)

EvalCall(n, st, followed) ==
  LET f    == n.kids[1]
      ref  == EvalReference(f, st, followed)
      fun  == IF f.type \in {"dot", "lb"} THEN Event(ref.st, <<"get", ref.base, ref.id>>)
              ELSE Eval(f, st, followed)
      this == IF f.type \in {"dot", "lb"} THEN ref.base
              ELSE IF f.type = "name" /\ ~HasSlot(f.atom) THEN Scope(fun) ELSE NullObject
      args == EvalAll(Tail(n.kids), fun, followed)
  IN  Event(args.st, <<"call", fun.value, this, args.values>>)

Eval(n, st, followed) ==
  LET first == Eval(n.kids[1], st, followed)
      one   == DecideTest(first, followed)
      all   == EvalAll(n.kids, st, followed)
  IN  IF st.failed THEN st
      ELSE
      CASE n.type = "number" -> WithValue(st, Num(n.val))
        [] n.type = "string" -> WithValue(st, Str(n.atom))
        [] n.type = "primary" -> WithValue(st, IF n.op = "null" THEN NullObject ELSE Prim(n.op))
        [] n.type = "name"   -> EvalName(n, st, followed)
        [] n.type = "comma"  -> all.st
        [] n.type = "hook"   -> Eval(n.kids[IF one.yes THEN 2 ELSE 3], one.st, followed)
        [] n.type \in {"or", "and"} ->
             IF one.yes = (n.type = "or") THEN one.st ELSE Eval(n.kids[2], one.st, followed)
        [] n.type \in BinaryOps -> Operate(all.st, n.op, all.values[1], all.values[2])
        [] n.type = "unary" /\ n.op = "typeof" ->
             LET kid == n.kids[1]
             IN  IF kid.type = "name" /\ ~HasSlot(kid.atom) /\ ~IsFound(st, kid.atom, followed)
             THEN WithValue(Event(st, <<"not found", kid.atom>>), <<"typeof", Undefined>>)
             ELSE WithValue(first, <<"typeof", first.value>>)
        [] n.type = "unary" /\ n.op = "void" -> WithValue(first, Undefined)
        [] n.type = "unary" /\ n.op = "not"  -> WithValue(first, Not(first.value))
        [] n.type = "unary" /\ n.op \in {"neg", "pos", "bitnot"} ->
             LET v == ToNumber(first.value)
             IN  IF Kind(v) = "num" THEN WithValue(first, Converted(n.op, v))
                 ELSE Event(first, <<n.op, v>>)
        [] n.type = "assign" -> EvalAssign(n, st, followed)
        [] n.type = "incdec" -> EvalIncrement(n, st, followed)
        [] n.type = "delete" ->
             IF n.kids[1].type # "name"
             THEN LET ref == EvalReference(n.kids[1], st, followed)
                  IN  Event(ref.st, <<"delete", ref.base, ref.id>>)
             ELSE IF HasSlot(n.kids[1].atom) THEN WithValue(st, Prim("false"))
             ELSE Event(st, <<"delete name", n.kids[1].atom>>)
        [] n.type \in {"dot", "lb"} ->
             LET ref == EvalReference(n, st, followed)
             IN  Event(ref.st, <<"get", ref.base, ref.id>>)
        [] n.type = "lp"  -> EvalCall(n, st, followed)
        [] n.type = "new" ->
             LET e == Event(all.st, <<"new", Head(all.values), Tail(all.values)>>)
             IN  WithValue(e, Scope(e))
        [] n.type \in {"rb", "rc"} ->
             LET class == IF n.type = "rb" THEN "Array" ELSE "Object"
                 c == EvalName(Node("name", "name", class, 0, <<>>), st, followed)
                 o == Event(c, <<"new", c.value, <<>>>>)
             IN  EvalInit(Scope(o), n.kids, 0, o, followed)

(***************************************************************************)
(* What the code is known not to keep.                                     *)
(***************************************************************************)
Signed(n) ==
  \/ n.type = "unary" /\ n.op \in {"neg", "pos"}
  \/ n.type = "incdec" /\ n.op \notin Posts
Sign(n) == IF n.op = "neg" \/ (n.op # "pos" /\ By(n.op) = -1) THEN "-" ELSE "+"
EndsInName(n) ==   \* the last instruction may be a lookup
  LET m == Ungroup(n) IN m.type \in {"comma", "hook", "or", "and"}
DisputedNode(n) ==
  \/ n.type = "unary" /\ Signed(n) /\ Signed(n.kids[1]) /\ Sign(n) = Sign(n.kids[1])
  \/ n.type = "unary" /\ n.op = "neg" /\ n.kids[1] = NumberNode(0)
  \/ n.type = "unary" /\ n.op = "typeof" /\ EndsInName(n.kids[1])
  \/ n.type = "dot" /\ n.kids[1].type = "number"
  \/ n.type = "delete" /\ n.kids[1].type \notin References
  \/ n.type = "lp" /\ (\/ n.kids[1].type \in {"new", "rb", "rc"}
                       \/ n.kids[1].type = "rp" /\ Ungroup(n.kids[1]).type \in References)
RECURSIVE Undisputed(_)
Undisputed(n) == ~DisputedNode(n) /\ \A i \in DOMAIN n.kids : Undisputed(n.kids[i])
Accepted(ts) == WellFormed(Parse(ts)) /\ Undisputed(js_FoldConstants(Parse(ts)))

(***************************************************************************)
(* Properties.                                                             *)
(***************************************************************************)
\* The text js_DecompileScript makes of compiled code is a program with the
\* meaning of the one that was compiled: neither constant folding, nor the
\* parentheses that are dropped from the tree or put back by precedence, nor
\* the notes that bracket operands lose or move a part of it.
PrintsWhatItMeans ==
  stage = "printed" => Meaning(Parse(text)) = Meaning(Parse(expr))

\* The interpreter does to the rest of the program what the expression says,
\* each operation once, in order, on the values and the `this' it says, and
\* gives its value; an unresolved name ends it, but not under typeof.
RunsAsWritten ==
  stage \in {"done", "failed"} =>
    LET start == [value |-> Undefined, trace |-> <<>>, slots |-> InitialValues, failed |-> FALSE]
        end   == Eval(Meaning(Parse(expr)), start, trace)
    IN  /\ slots = end.slots
        /\ end.failed = (stage = "failed")
        /\ trace = IF end.failed THEN end.trace ELSE Append(end.trace, <<"value", end.value>>)

\* The generator's stack depth, for which js_Interpret gives the frame its stack, bounds the
\* operands at every instruction, and both are the same where an expression ends.
DepthBounds ==
  stage = "running" =>
    /\ Len(operands) <= Instruction.depth
    /\ Instruction.depth <= cg.max
    /\ pc = Len(cg.code) => Len(operands) = 1 /\ Instruction.depth = 1
=============================================================================
