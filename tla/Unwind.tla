------------------------------- MODULE Unwind -------------------------------
(***************************************************************************)
(* Ways out of a statement: the code js_EmitTree (jsemit.c) generates for  *)
(* while, for/in, with, labels, break, continue, return, throw and     *)
(* try, and js_Interpret (jsinterp.c) running it.  A finally block is      *)
(* compiled once, as a subroutine; every way out of its try block, normal, *)
(* by a jump or by an exception, calls it, and every jump first emits code *)
(* that undoes what the statements it leaves have on the stack.  Whether   *)
(* the stack and the scope chain are right at a place in the code depends  *)
(* on all the paths that lead there.                                       *)
(*                                                                         *)
(* A statement is a record, a block a sequence of them.  "mark" stands for *)
(* any statement whose effect shows; conditions, and whether a for/in loop *)
(* has another property, are read from a list of decisions.                *)
(***************************************************************************)
EXTENDS Integers, Sequences, FiniteSets, SequencesExt

CONSTANT Programs   \* [block: the statements of a function, decisions: a sequence of BOOLEAN]

VARIABLES
  source,   \* the program at hand
  script,   \* JSScript: its code and its try notes
  frame     \* JSStackFrame and the interpreter's registers

unwindVars == <<source, script, frame>>

(***************************************************************************)
(* The generator.  The chains of jumps that BackPatch resolves are labels  *)
(* here: <<statement, chain>>, with the place where the chain is resolved  *)
(* in cg.labels.                                                           *)
(***************************************************************************)
NewGenerator == [code |-> <<>>, depth |-> 0, stmts |-> <<>>, labels |-> <<>>, notes |-> <<>>,
                 made |-> 0]

Here(cg) == Len(cg.code) + 1
Emit1(cg, op, delta) == [cg EXCEPT !.code = Append(@, op), !.depth = @ + delta]
Jump(cg, op, chain, delta) == Emit1(cg, [op |-> op, to |-> chain], delta)
Land(cg, chain) == [cg EXCEPT !.labels = (chain :> Here(cg)) @@ @]
LandIf(cond, cg, chain) == IF cond THEN Land(cg, chain) ELSE cg
SetDepth(cg, d) == [cg EXCEPT !.depth = d]

PushStatement(cg, type, label) ==
  [cg EXCEPT !.stmts = Append(@, [type |-> type, label |-> label, id |-> cg.made + 1]),
             !.made = @ + 1]
Top(cg) == Last(cg.stmts)
SetType(cg, type) == [cg EXCEPT !.stmts = Front(@) \o <<[Top(cg) EXCEPT !.type = type]>>]
\* js_PopStatementCG: the breaks land after the statement.
PopStatement(cg) ==
  LET landed == Land(cg, <<Top(cg).id, "breaks">>) IN [landed EXCEPT !.stmts = Front(@)]

LoopTypes == {"while", "forin"}
Scoped == {"with", "catch"}
ScopesOpen(cg) == Cardinality({i \in DOMAIN cg.stmts : cg.stmts[i].type \in Scoped})

\* Mutant of LeaveOne: the return address of a finally block being left stays on the stack.
LeaveOneBare(cg, s) ==
  CASE s.type = "finally" -> Jump(cg, "gosub", <<s.id, "gosub">>, 1)
    [] s.type \in Scoped  -> Emit1(cg, [op |-> "leavewith"], -1)
    [] s.type = "forin"   -> Emit1(cg, [op |-> "pop2"], -2)
    [] OTHER              -> cg

\* EmitNonLocalJumpFixup: undo the statements above number k, innermost first.  The depth
\* the generator goes on with is the one before the jump.
LeaveOne(cg, s) ==
  CASE s.type = "finally"    -> Jump(cg, "gosub", <<s.id, "gosub">>, 1)
    [] s.type \in Scoped     -> Emit1(cg, [op |-> "leavewith"], -1)
    [] s.type = "forin"      -> Emit1(cg, [op |-> "pop2"], -2)
    [] s.type = "subroutine" -> Emit1(cg, [op |-> "pop"], -1)
    [] OTHER                 -> cg
Fixup(cg, k) ==
  LET left == SubSeq(cg.stmts, k + 1, Len(cg.stmts))
  IN  SetDepth(FoldLeft(LeaveOne, cg, Reverse(left)), cg.depth)

\* TOK_BREAK and TOK_CONTINUE: the statement a jump aims at.  A labelled continue aims at the
\* outermost loop inside its label.
Innermost(cg, types) ==
  CHOOSE i \in DOMAIN cg.stmts :
    /\ cg.stmts[i].type \in types
    /\ \A j \in (i + 1)..Len(cg.stmts) : cg.stmts[j].type \notin types
Labelled(cg, l) ==
  CHOOSE i \in DOMAIN cg.stmts : cg.stmts[i].type = "label" /\ cg.stmts[i].label = l
BreakTarget(cg, l) == IF l = "" THEN Innermost(cg, LoopTypes) ELSE Labelled(cg, l)
ContinueTarget(cg, l) ==
  IF l = "" THEN Innermost(cg, LoopTypes)
  ELSE CHOOSE i \in (Labelled(cg, l) + 1)..Len(cg.stmts) :
         /\ cg.stmts[i].type \in LoopTypes
         /\ \A j \in (Labelled(cg, l) + 1)..(i - 1) : cg.stmts[j].type \notin LoopTypes
Goto(cg, k, chain) == Jump(Fixup(cg, k), "goto", <<cg.stmts[k].id, chain>>, 0)

\* TOK_RETURN: under a finally block the value is put aside, and the return comes last.
EmitReturn(cg, v) ==
  LET pushed == Emit1(cg, [op |-> "push", value |-> v], 1)
  IN  IF \E i \in DOMAIN cg.stmts : cg.stmts[i].type = "finally"
      THEN Emit1(Fixup(Emit1(pushed, [op |-> "setrval"], -1), 0), [op |-> "retrval"], 0)
      ELSE Emit1(pushed, [op |-> "return"], -1)

Gosub(cg, has, id) == IF has THEN Jump(cg, "gosub", <<id, "gosub">>, 1) ELSE cg
\* js_NewTryNote.  The last field is the model's: how deep the scope chain is at the handler.
TryNote(cg, start, end, at) ==
  [cg EXCEPT !.notes = Append(@, [start |-> start, end |-> end, at |-> at,
                                  scopes |-> ScopesOpen(cg)])]

TryNoteIf(cond, cg, start, end, at) == IF cond THEN TryNote(cg, start, end, at) ELSE cg

RECURSIVE EmitTree(_, _)
EmitBlock(cg, block) == FoldLeft(EmitTree, cg, block)

EmitWhile(cg, n) ==
  LET loop == PushStatement(cg, "while", "")
      id   == Top(loop).id
      head == Jump(Emit1(Land(loop, <<id, "continues">>), [op |-> "cond"], 1),
                   "ifeq", <<id, "end">>, -1)
      body == Jump(EmitBlock(head, n.body), "goto", <<id, "continues">>, 0)
  IN  PopStatement(Land(body, <<id, "end">>))

\* for (x in o): the iterator and the object stay on the stack while the loop runs.
EmitForIn(cg, n) ==
  LET loop == PushStatement(cg, "forin", "")
      id   == Top(loop).id
      init == Emit1(Emit1(loop, [op |-> "push", value |-> 0], 1), [op |-> "push", value |-> 0], 1)
      head == Jump(Emit1(Land(init, <<id, "continues">>), [op |-> "cond"], 1),
                   "ifeq", <<id, "end">>, -1)
      body == Jump(EmitBlock(head, n.body), "goto", <<id, "continues">>, 0)
  IN  Emit1(PopStatement(Land(body, <<id, "end">>)), [op |-> "pop2"], -2)

\* One catch clause, number k, of the try statement id: it begins by undoing the clause
\* before it, whose guard has failed, or by resetting the stack.
EmitCatch(cg, n, id, depth, k) ==
  LET c    == n.catches[k]
      has  == n.final # <<>>
      in   == IF k = 1 THEN SetDepth(Emit1(cg, [op |-> "setsp", depth |-> depth], 0), depth)
              ELSE Emit1(SetDepth(Land(cg, <<id, "next", k - 1>>), cg.depth + 1),
                         [op |-> "leavewith"], -1)
      var  == Emit1(in, [op |-> "entercatch"], 1)
      test == IF c.guard THEN Jump(Emit1(var, [op |-> "cond"], 1), "ifeq", <<id, "next", k>>, -1)
              ELSE var
      body == PopStatement(EmitBlock(PushStatement(test, "catch", ""), c.body))
  IN  Jump(Gosub(Emit1(body, [op |-> "leavewith"], -1), has, id), "goto", <<id, "over">>, 0)

\* TOK_TRY.
EmitTry(cg, n) ==
  LET has     == n.final # <<>>
      depth   == cg.depth
      count   == Len(n.catches)
      open    == PushStatement(cg, IF has THEN "finally" ELSE "block", "")
      id      == Top(open).id
      begun   == Emit1(open, [op |-> "nop"], 0)
      start   == Here(begun)
      body    == Jump(Gosub(EmitBlock(begun, n.body), has, id), "goto", <<id, "over">>, 0)
      end     == Here(body)
      caught  == FoldLeft(LAMBDA g, k : EmitCatch(g, n, id, depth, k), body,
                          [k \in 1..count |-> k])
      guarded == count > 0 /\ n.catches[count].guard
      again   == Here(caught)
      reset   == SetDepth(Emit1(caught, [op |-> "setsp", depth |-> depth], 0), depth)
      fallen  == LandIf(guarded, reset, <<id, "next", count>>)
      rethrow == Emit1(Emit1(SetDepth(Gosub(fallen, has, id), depth), [op |-> "exception"], 1),
                       [op |-> "throw"], -1)
      passed  == IF has \/ guarded THEN rethrow ELSE caught
      sub     == SetType(SetDepth(Land(passed, <<id, "gosub">>), depth + 1), "subroutine")
      final   == IF has THEN Emit1(EmitBlock(sub, n.final), [op |-> "retsub"], -1) ELSE passed
      over    == Land(Emit1(PopStatement(final), [op |-> "nop"], 0), <<id, "over">>)
      noted   == TryNoteIf(count > 0, over, start, end, end)
  IN  TryNoteIf(has, noted, start, again, again)

\* TOK_COLON and TOK_WITH.
EmitLabel(cg, n) == PopStatement(EmitTree(PushStatement(cg, "label", n.label), n.body[1]))
EmitWith(cg, n) ==
  LET open == Emit1(PushStatement(Emit1(cg, [op |-> "push", value |-> 0], 1), "with", ""),
                    [op |-> "enterwith"], 0)
  IN  PopStatement(Emit1(EmitBlock(open, n.body), [op |-> "leavewith"], -1))

EmitTree(cg, n) ==
  CASE n.op = "mark"   -> Emit1(cg, [op |-> "mark", name |-> n.name, depth |-> cg.depth,
                                     scopes |-> ScopesOpen(cg)], 0)
    [] n.op = "throw"  -> Emit1(Emit1(cg, [op |-> "push", value |-> n.value], 1),
                                [op |-> "throw"], -1)
    [] n.op = "throwvar" -> Emit1(Emit1(cg, [op |-> "name"], 1), [op |-> "throw"], -1)
    [] n.op = "return" -> EmitReturn(cg, n.value)
    [] n.op = "break"    -> Goto(cg, BreakTarget(cg, n.label), "breaks")
    [] n.op = "continue" -> Goto(cg, ContinueTarget(cg, n.label), "continues")
    [] n.op = "label"  -> EmitLabel(cg, n)
    [] n.op = "with"   -> EmitWith(cg, n)
    [] n.op = "while"  -> EmitWhile(cg, n)
    [] n.op = "forin"  -> EmitForIn(cg, n)
    [] n.op = "try"    -> EmitTry(cg, n)

Compiled(block) == Emit1(EmitBlock(NewGenerator, block), [op |-> "stop"], 0)

(***************************************************************************)
(* The interpreter.  A With object is its own parent link: the scope chain *)
(* to return to.  stale notes that an exception has been caught outside a  *)
(* with statement or a catch clause it was thrown in: nothing resets       *)
(* fp->scopeChain then.                                                    *)
(***************************************************************************)
Ins == script.code[frame.pc]
Target(chain) == script.labels[chain]
Running(op) == frame.status = "running" /\ Ins.op = op
Popped(f, n) == [f EXCEPT !.stack = SubSeq(@, 1, Len(@) - n)]
Pushed(f, v) == [f EXCEPT !.stack = Append(@, v)]
Advanced(f) == [f EXCEPT !.pc = @ + 1]
OfValue(v) == [tag |-> "value", value |-> v]
WithObject == [tag |-> "with", parent |-> frame.scope]

Straight(op, f) == Running(op) /\ frame' = Advanced(f) /\ UNCHANGED <<source, script>>

Nop      == Straight("nop", frame)
DoMark   == Running("mark") /\ Straight("mark", [frame EXCEPT !.log = Append(@, Ins.name)])
DoPush   == Running("push") /\ Straight("push", Pushed(frame, OfValue(Ins.value)))
DoName   == \* the catch variable, found on the scope chain
  Running("name") /\ Straight("name", Pushed(frame, OfValue(
    LET s == SelectSeq(frame.scope, LAMBDA o : o.kind = "catch") IN Last(s).value)))
DoCond   ==
  Straight("cond", [Pushed(frame, OfValue(IF frame.decisions = <<>> THEN 0
                                        ELSE IF Head(frame.decisions) THEN 1 ELSE 0))
                    EXCEPT !.decisions = IF @ = <<>> THEN @ ELSE Tail(@)])
DoPop    == Straight("pop", Popped(frame, 1))
DoPop2   == Straight("pop2", Popped(frame, 2))
\* Nothing checks that the stack is that deep.  A slot above it holds what was in it last, an
\* exception say, an object whose parent is the global one.
OldObject == [tag |-> "value", value |-> 0, parent |-> <<>>]
DoSetSp  ==
  /\ Running("setsp")
  /\ Straight("setsp", [frame EXCEPT !.stack =
       [i \in 1..Ins.depth |-> IF i <= Len(@) THEN @[i] ELSE OldObject]])
DoSetRval == Straight("setrval", [Popped(frame, 1) EXCEPT !.rval = Last(frame.stack).value])
DoException == Straight("exception", Pushed(frame, OfValue(frame.exception)))
EnterWith ==
  Straight("enterwith", [Pushed(Popped(frame, 1), WithObject)
                         EXCEPT !.scope = Append(@, [kind |-> "with", value |-> 0])])
EnterCatch ==
  Straight("entercatch", [Pushed(frame, WithObject)
                          EXCEPT !.scope = Append(@, [kind |-> "catch", value |-> frame.exception])])
LeaveWith ==
  Straight("leavewith", [Popped(frame, 1) EXCEPT !.scope = Last(frame.stack).parent])

DoJump ==
  /\ \/ Running("goto") /\ frame' = [frame EXCEPT !.pc = Target(Ins.to)]
     \/ /\ Running("ifeq")
        /\ frame' = [Popped(frame, 1) EXCEPT
             !.pc = IF Last(frame.stack).value = 0 THEN Target(Ins.to) ELSE @ + 1]
     \/ /\ Running("gosub")
        /\ frame' = [Pushed(frame, OfValue(frame.pc + 1)) EXCEPT !.pc = Target(Ins.to)]
     \/ /\ Running("retsub")
        /\ frame' = [Popped(frame, 1) EXCEPT !.pc = Last(frame.stack).value]
  /\ UNCHANGED <<source, script>>

\* JSOP_THROW, and SCRIPT_FIND_CATCH_START: the first note that spans the place.
Notes == {i \in DOMAIN script.notes :
            script.notes[i].start <= frame.pc /\ frame.pc < script.notes[i].end}
DoThrow ==
  /\ Running("throw")
  /\ LET v == Last(frame.stack).value
         f == [Popped(frame, 1) EXCEPT !.exception = v]
     IN  frame' =
           IF Notes = {} THEN [f EXCEPT !.status = "threw"]
           ELSE LET note == script.notes[CHOOSE i \in Notes : \A j \in Notes : i <= j]
                IN  [f EXCEPT !.pc = note.at,
                              !.stale = @ \/ Len(frame.scope) # note.scopes]
  /\ UNCHANGED <<source, script>>

\* JSOP_RETURN, JSOP_RETRVAL, and the end of the code.
DoReturn ==
  /\ frame.status = "running" /\ Ins.op \in {"return", "retrval", "stop"}
  /\ frame' = [frame EXCEPT !.status = "returned",
                 !.rval = IF Ins.op = "return" THEN Last(frame.stack).value ELSE @]
  /\ UNCHANGED <<source, script>>

ScriptOf(cg) == [code |-> cg.code, notes |-> cg.notes, labels |-> cg.labels]
UnwindInitOf(p) ==
  /\ source = p
  /\ script = ScriptOf(Compiled(p.block))
  /\ frame = [pc |-> 1, stack |-> <<>>, scope |-> <<>>, rval |-> 0, exception |-> 0,
              log |-> <<>>, decisions |-> p.decisions, stale |-> FALSE, status |-> "running"]
UnwindInit == \E p \in Programs : UnwindInitOf(p)

UnwindNext ==
  Nop \/ DoMark \/ DoPush \/ DoName \/ DoCond \/ DoPop \/ DoPop2 \/ DoSetSp \/ DoSetRval
    \/ DoException \/ EnterWith \/ EnterCatch \/ LeaveWith \/ DoJump \/ DoThrow \/ DoReturn
UnwindSpec == UnwindInit /\ [][UnwindNext]_unwindVars

(***************************************************************************)
(* The promise: ECMA-262 section 12, by completions.  c.type is "normal",  *)
(* "break", "continue", "return" or "throw"; s is the decisions left and   *)
(* the marks made; var is the value of the innermost catch variable.       *)
(***************************************************************************)
Normal == [type |-> "normal", value |-> 0, label |-> ""]
Ends(s, type, value, label) ==
  [s |-> s, c |-> [type |-> type, value |-> value, label |-> label]]
Decide(s) == s.decisions # <<>> /\ Head(s.decisions)
Decided(s) == IF s.decisions = <<>> THEN s ELSE [s EXCEPT !.decisions = Tail(@)]

RECURSIVE Run(_, _, _, _)
RECURSIVE Loop(_, _, _, _)
RECURSIVE Clauses(_, _, _, _)
RunBlock(block, s, var) ==
  FoldLeft(LAMBDA r, n : IF r.c.type = "normal" THEN Run(n, {}, r.s, var) ELSE r,
           [s |-> s, c |-> Normal], block)
Loop(n, labels, s, var) ==
  IF ~Decide(s) THEN [s |-> Decided(s), c |-> Normal]
  ELSE LET r == RunBlock(n.body, Decided(s), var)
           mine == r.c.label \in labels \cup {""}
       IN  IF r.c.type = "normal" \/ (r.c.type = "continue" /\ mine)
           THEN Loop(n, labels, r.s, var)
           ELSE IF r.c.type = "break" /\ r.c.label = "" THEN [s |-> r.s, c |-> Normal] ELSE r
Clauses(catches, value, s, k) ==
  IF k > Len(catches) THEN Ends(s, "throw", value, "")
  ELSE IF catches[k].guard /\ ~Decide(s) THEN Clauses(catches, value, Decided(s), k + 1)
  ELSE RunBlock(catches[k].body, IF catches[k].guard THEN Decided(s) ELSE s, value)
Run(n, labels, s, var) ==
  CASE n.op = "mark"     -> [s |-> [s EXCEPT !.log = Append(@, n.name)], c |-> Normal]
    [] n.op = "throw"    -> Ends(s, "throw", n.value, "")
    [] n.op = "throwvar" -> Ends(s, "throw", var, "")
    [] n.op = "return"   -> Ends(s, "return", n.value, "")
    [] n.op \in {"break", "continue"} -> Ends(s, n.op, 0, n.label)
    [] n.op = "label"    -> LET r == Run(n.body[1], labels \cup {n.label}, s, var)
                            IN  IF r.c.type = "break" /\ r.c.label = n.label
                                THEN [s |-> r.s, c |-> Normal] ELSE r
    [] n.op = "with"     -> RunBlock(n.body, s, var)
    [] n.op \in LoopTypes -> Loop(n, labels, s, var)
    [] n.op = "try"      ->
         LET b == RunBlock(n.body, s, var)
             c == IF b.c.type = "throw" THEN Clauses(n.catches, b.c.value, b.s, 1) ELSE b
             f == RunBlock(n.final, c.s, var)
         IN  IF f.c.type = "normal" THEN [s |-> f.s, c |-> c.c] ELSE f

Promised(p) == RunBlock(p.block, [decisions |-> p.decisions, log |-> <<>>], 0)

\* Whatever way control takes out of nested statements, every statement runs that the language
\* says, once and in that order, and the function ends as it says.  Each statement finds the
\* operand stack as deep as the generator computed for its place (js_EmitTree's stackDepth, on
\* which JSOP_SETSP and the size of the stack rely), and the scope chain as the enclosing with
\* statements and catch clauses make it, unless an exception has left one of them.
UnwindsExactly ==
  /\ frame.status = "running" /\ Ins.op = "mark" =>
       /\ Len(frame.stack) = Ins.depth
       /\ ~frame.stale => Len(frame.scope) = Ins.scopes
  /\ frame.status # "running" =>
       LET r == Promised(source)
       IN  /\ frame.log = r.s.log
           /\ frame.status = "threw" <=> r.c.type = "throw"
           /\ frame.status = "threw" => frame.exception = r.c.value
           /\ frame.status = "returned" => frame.rval = r.c.value
=============================================================================
