------------------------------ MODULE Compiler ------------------------------
(***************************************************************************)
(* Expressions from source to bytecode: the parser (jsparse.c), the        *)
(* constant folder, which works on the parser's tree in place, and the     *)
(* code generator (jsemit.c).  A program returns one expression from a     *)
(* function, whose names are arguments, local variables or neither.        *)
(*                                                                         *)
(* A text is a sequence of tokens, each a string; a string literal is in   *)
(* single quotes.  A parse node has a type, an opcode (the token types of  *)
(* operators with one opcode each are left out), an atom, a number and its *)
(* kids.  Functions, regular expressions, getters, setters and sharp       *)
(* variables are left out.                                                 *)
(***************************************************************************)
EXTENDS Integers, Sequences, TLC

CONSTANTS
  ArgNames, VarNames   \* the names LookupArgOrVar finds slots for

ASSUME SlotsAssumption == ArgNames \cap VarNames = {}

(***************************************************************************)
(* js_CodeSpec: the token an opcode is printed with, its precedence, how   *)
(* many operands it pops and how many it pushes.                           *)
(***************************************************************************)
\* Opcode, token, precedence, operands popped and pushed
CodeRows ==
  {<<"bitor", "|", 2, 2, 1>>, <<"bitxor", "^", 3, 2, 1>>, <<"bitand", "&", 4, 2, 1>>,
   <<"eq", "==", 5, 2, 1>>, <<"lt", "<", 6, 2, 1>>, <<"in", "in", 6, 2, 1>>,
   <<"lsh", "<<", 7, 2, 1>>, <<"add", "+", 8, 2, 1>>, <<"sub", "-", 8, 2, 1>>,
   <<"mul", "*", 9, 2, 1>>, <<"not", "!", 10, 1, 1>>, <<"bitnot", "~", 10, 1, 1>>,
   <<"neg", "-", 10, 1, 1>>, <<"pos", "+", 10, 1, 1>>, <<"typeof", "", 10, 1, 1>>,
   <<"void", "", 10, 1, 1>>, <<"null", "null", 12, 0, 1>>, <<"this", "this", 12, 0, 1>>,
   <<"true", "true", 12, 0, 1>>, <<"false", "false", 12, 0, 1>>, <<"zero", "0", 12, 0, 1>>,
   <<"one", "1", 12, 0, 1>>, <<"getprop", "", 11, 1, 1>>, <<"getelem", "", 11, 2, 1>>,
   <<"setprop", "", 1, 2, 1>>, <<"setelem", "", 1, 3, 1>>, <<"setname", "", 1, 2, 1>>,
   <<"setarg", "", 1, 1, 1>>, <<"setvar", "", 1, 1, 1>>, <<"bindname", "", 0, 0, 1>>,
   <<"pushobj", "", 0, 0, 1>>, <<"push", "", 0, 0, 1>>, <<"call", "", 11, -1, 1>>,
   <<"new", "", 10, -1, 1>>, <<"newinit", "", 10, 2, 1>>, <<"endinit", "", 0, 0, 0>>,
   <<"initprop", "", 0, 1, 0>>, <<"initelem", "", 0, 2, 0>>, <<"dup", "", 0, 1, 2>>,
   <<"dup2", "", 0, 2, 4>>, <<"pop", "", 0, 1, 0>>, <<"return", "", 0, 1, 0>>,
   <<"ifeq", "", 0, 1, 0>>, <<"goto", "", 0, 0, 0>>, <<"or", "", 0, 1, 0>>,
   <<"and", "", 0, 1, 0>>, <<"group", "", 0, 0, 0>>, <<"nop", "", 0, 0, 0>>}
  \cup {<<op, "", 12, 0, 1>> : op \in {"name", "number", "string", "uint16", "getarg", "getvar"}}
  \cup {<<op, "", 10, 0, 1>> : op \in {"delname", "incname", "decname", "nameinc", "namedec", "incarg", "decarg", "arginc",
                                  "argdec", "incvar", "decvar", "varinc", "vardec"}}
  \cup {<<op, "", 10, 1, 1>> : op \in {"delprop", "incprop", "decprop", "propinc", "propdec"}}
  \cup {<<op, "", 10, 2, 1>> : op \in {"delelem", "incelem", "decelem", "eleminc", "elemdec"}}
SpecOf(row) == [token |-> row[2], prec |-> row[3], nuses |-> row[4], ndefs |-> row[5]]
js_CodeSpec ==
  [op \in {row[1] : row \in CodeRows} |-> SpecOf(CHOOSE row \in CodeRows : row[1] = op)]

(***************************************************************************)
(* Tokens.                                                                 *)
(***************************************************************************)
Levels ==   \* of left-associative operators, the loosest first
  <<{"|"}, {"^"}, {"&"}, {"=="}, {"<", "in"}, {"<<"}, {"+", "-"}, {"*"}>>
InfixTokens == UNION {Levels[i] : i \in DOMAIN Levels}
InfixOp == [t \in InfixTokens |->
              CHOOSE op \in DOMAIN js_CodeSpec :
                js_CodeSpec[op].token = t /\ js_CodeSpec[op].nuses = 2]
BinaryOps == {InfixOp[t] : t \in InfixTokens}
PrefixOp == ("!" :> "not") @@ ("~" :> "bitnot") @@ ("-" :> "neg") @@ ("+" :> "pos") @@
            ("typeof" :> "typeof") @@ ("void" :> "void")
AssignOp ==
  ("=" :> "nop") @@ ("+=" :> "add") @@ ("-=" :> "sub") @@ ("*=" :> "mul") @@ ("|=" :> "bitor")
Primaries == {"null", "this", "true", "false"}
Keywords == Primaries \cup {"typeof", "void", "delete", "new", "in"}
Punctuators == InfixTokens \cup DOMAIN PrefixOp \cup DOMAIN AssignOp \cup
  {"(", ")", "[", "]", "{", "}", ",", ".", ":", "?", "||", "&&", "++", "--"}

MaxNumber == 99
Numerals == {ToString(k) : k \in 0..MaxNumber}
BadNumerals == {t \o "." : t \in Numerals}   \* a number that runs into a dot
NumberOf(t) == CHOOSE k \in 0..MaxNumber : ToString(k) = t
IsString(t) == t # "" /\ SubSeq(t, 1, 1) = "'"
Unquote(t) == SubSeq(t, 2, Len(t) - 1)
ReservedTokens == Keywords \cup Punctuators \cup Numerals \cup BadNumerals
IsName(t) == t # "" /\ ~IsString(t) /\ t \notin ReservedTokens
\* ATOM_IS_IDENTIFIER
IsIdentifier(atom) == IsName(atom)

NextToken(ts) == IF ts = <<>> THEN "" ELSE Head(ts)

(***************************************************************************)
(* The parser.  A function of the grammar takes the tokens that are left   *)
(* and returns a node and the tokens after it; an error leaves none.       *)
(***************************************************************************)
Node(type, op, atom, val, kids) ==
  [type |-> type, op |-> op, atom |-> atom, val |-> val, kids |-> kids]
OpNode(type, op, kids) == Node(type, op, "", 0, kids)
NumberNode(k) == Node("number", "number", "", k, <<>>)
StringNode(s) == Node("string", "string", s, 0, <<>>)
Parsed(n, rest) == [n |-> n, rest |-> rest]
SyntaxError == Parsed(OpNode("error", "nop", <<>>), <<>>)
\* MUST_MATCH_TOKEN, and an error found in a part
Expect(t, p, n) == IF NextToken(p.rest) = t THEN Parsed(n, Tail(p.rest)) ELSE SyntaxError

IsList(n) == Len(n.kids) > 2
NewBinary(op, left, right) ==
  IF left.type = op THEN [left EXCEPT !.kids = Append(@, right)]
  ELSE IF op = "add" /\ left.type = "number" /\ right.type = "number"
       THEN NumberNode(left.val + right.val)
  ELSE OpNode(op, op, <<left, right>>)

RECURSIVE Ungroup(_)
Ungroup(n) == IF n.type = "rp" THEN Ungroup(n.kids[1]) ELSE n

SetOp == ("name" :> "setname") @@ ("dot" :> "setprop") @@ ("lb" :> "setelem")
References == DOMAIN SetOp
IncOps ==
  [k \in References |-> CASE k = "name" -> <<<<"incname", "nameinc">>, <<"decname", "namedec">>>>
                          [] k = "dot"  -> <<<<"incprop", "propinc">>, <<"decprop", "propdec">>>>
                          [] k = "lb"   -> <<<<"incelem", "eleminc">>, <<"decelem", "elemdec">>>>]
\* SetIncOpKid; call results, which natives may make references, are left out
IncDec(t, p, preorder) ==
  LET kid == Ungroup(p.n)
  IN  IF kid.type \notin References THEN SyntaxError
      ELSE Parsed(OpNode("incdec",
                         IncOps[kid.type][IF t = "++" THEN 1 ELSE 2][IF preorder THEN 1 ELSE 2],
                         <<kid>>), p.rest)

RECURSIVE Expr(_), AssignExpr(_), OrExpr(_), AndExpr(_), LeftExpr(_, _), LeftRest(_, _),
          UnaryExpr(_), MemberExpr(_, _), MemberRest(_, _), List(_, _, _), Elements(_, _),
          Properties(_, _)

\* A list of assignment expressions with commas between them, after those in kids.
ListRest(kids, p, close) ==
  IF NextToken(p.rest) = "," THEN List(kids, Tail(p.rest), close)
  ELSE IF close = "" THEN Parsed(OpNode("list", "nop", kids), p.rest)
  ELSE Expect(close, p, OpNode("list", "nop", kids))
ListAfter(kids, p, close) == ListRest(Append(kids, p.n), p, close)
List(kids, ts, close) == ListAfter(kids, AssignExpr(ts), close)

CommaNode(p) ==
  Parsed(IF Len(p.n.kids) = 1 THEN p.n.kids[1] ELSE OpNode("comma", "nop", p.n.kids), p.rest)
Expr(ts) == CommaNode(List(<<>>, ts, ""))

HookNode(test, then, p) == Parsed(OpNode("hook", "nop", <<test, then, p.n>>), p.rest)
HookRest(test, p) ==
  IF NextToken(p.rest) = ":" THEN HookNode(test, p.n, AssignExpr(Tail(p.rest))) ELSE SyntaxError
CondRest(p) ==
  IF NextToken(p.rest) = "?" THEN HookRest(p.n, AssignExpr(Tail(p.rest))) ELSE p
CondExpr(ts) == CondRest(OrExpr(ts))

AssignNode(op, left, p) ==
  Parsed(OpNode("assign", op, <<[left EXCEPT !.op = SetOp[left.type]], p.n>>), p.rest)
AssignRest(p) ==
  IF NextToken(p.rest) \notin DOMAIN AssignOp THEN p
  ELSE IF Ungroup(p.n).type \notin References THEN SyntaxError
  ELSE AssignNode(AssignOp[NextToken(p.rest)], Ungroup(p.n), AssignExpr(Tail(p.rest)))
AssignExpr(ts) == AssignRest(CondExpr(ts))

TwoKids(n, p, q) == Parsed([n EXCEPT !.kids = <<p.n, q.n>>], q.rest)
OrRest(p) ==
  IF NextToken(p.rest) # "||" THEN p
  ELSE TwoKids(OpNode("or", "or", <<>>), p, OrExpr(Tail(p.rest)))
OrExpr(ts) == OrRest(AndExpr(ts))
AndRest(p) ==
  IF NextToken(p.rest) # "&&" THEN p
  ELSE TwoKids(OpNode("and", "and", <<>>), p, AndExpr(Tail(p.rest)))
AndExpr(ts) == AndRest(LeftExpr(1, ts))

\* BitOrExpr down to MulExpr, one of Levels each
LeftNode(op, p, q) == Parsed(NewBinary(op, p.n, q.n), q.rest)
LeftExpr(i, ts) ==
  IF i > Len(Levels) THEN UnaryExpr(ts) ELSE LeftRest(i, LeftExpr(i + 1, ts))
LeftRest(i, p) ==
  IF NextToken(p.rest) \notin Levels[i] THEN p
  ELSE LeftRest(i, LeftNode(InfixOp[NextToken(p.rest)], p, LeftExpr(i + 1, Tail(p.rest))))

OneKid(type, op, kid, rest) == Parsed(OpNode(type, op, <<kid>>), rest)
UnaryNode(op, p) == OneKid("unary", op, p.n, p.rest)
DeleteNode(p) == OneKid("delete", "nop", Ungroup(p.n), p.rest)
PostfixRest(p) ==
  IF NextToken(p.rest) \in {"++", "--"}
  THEN IncDec(NextToken(p.rest), [p EXCEPT !.rest = Tail(@)], FALSE) ELSE p
UnaryExpr(ts) ==
  LET t == NextToken(ts)
  IN  CASE t \in DOMAIN PrefixOp -> UnaryNode(PrefixOp[t], UnaryExpr(Tail(ts)))
        [] t \in {"++", "--"} -> IncDec(t, MemberExpr(Tail(ts), TRUE), TRUE)
        [] t = "delete" -> DeleteNode(UnaryExpr(Tail(ts)))
        [] OTHER -> PostfixRest(MemberExpr(ts, TRUE))

\* kids are the callee and the arguments so far
WithArguments(type, op, p) ==
  IF p.n.type = "error" THEN p ELSE Parsed(OpNode(type, op, p.n.kids), p.rest)
ArgumentList(kids, ts) ==
  IF NextToken(ts) = ")" THEN Parsed(OpNode("list", "nop", kids), Tail(ts)) ELSE List(kids, ts, ")")
NewExpr(p) ==
  WithArguments("new", "new", IF NextToken(p.rest) = "(" THEN ArgumentList(<<p.n>>, Tail(p.rest))
                              ELSE OneKid("list", "nop", p.n, p.rest))

DotNode(n, atom) == Node("dot", "getprop", atom, 0, <<n>>)
IndexNode(n, p) ==   \* o['p'] is made o.p
  Expect("]", p, IF p.n.type = "string" THEN DotNode(n, p.n.atom)
                 ELSE OpNode("lb", "getelem", <<n, p.n>>))
MemberAfter(n, t, after, allowCallSyntax, rest) ==   \* t is the token after the member n
  CASE t = "." /\ IsName(NextToken(after)) ->
         MemberRest(Parsed(DotNode(n, Head(after)), Tail(after)), allowCallSyntax)
    [] t = "." /\ ~IsName(NextToken(after)) -> SyntaxError
    [] t = "[" -> MemberRest(IndexNode(n, Expr(after)), allowCallSyntax)
    [] t = "(" /\ allowCallSyntax ->
         MemberRest(WithArguments("lp", "call", ArgumentList(<<n>>, after)), allowCallSyntax)
    [] OTHER -> Parsed(n, rest)
MemberRest(p, allowCallSyntax) ==
  MemberAfter(p.n, NextToken(p.rest), IF p.rest = <<>> THEN <<>> ELSE Tail(p.rest),
              allowCallSyntax, p.rest)

Hole == OpNode("hole", "nop", <<>>)
ArrayNode(kids, endcomma) == Node("rb", "nop", IF endcomma THEN "endcomma" ELSE "", 0, kids)
ElementsRest(kids, p) ==
  IF NextToken(p.rest) = "," THEN Elements(Append(kids, p.n), Tail(p.rest))
  ELSE Expect("]", p, ArrayNode(Append(kids, p.n), FALSE))
Elements(kids, ts) ==   \* of an array initialiser, up to its bracket
  CASE NextToken(ts) = "]" -> Parsed(ArrayNode(kids, kids # <<>>), Tail(ts))
    [] NextToken(ts) = "," -> Elements(Append(kids, Hole), Tail(ts))
    [] OTHER -> ElementsRest(kids, AssignExpr(ts))

PropertiesRest(kids, p) ==
  IF NextToken(p.rest) = "," THEN Properties(kids, Tail(p.rest))
  ELSE Expect("}", p, OpNode("rc", "nop", kids))
PropertyAfter(kids, id, p) ==   \* a property is a "colon" node
  PropertiesRest(Append(kids, OpNode("colon", "nop", <<id, p.n>>)), p)
PropertyId(t) ==
  CASE t \in Numerals -> NumberNode(NumberOf(t))
    [] t \notin Numerals -> StringNode(IF IsString(t) THEN Unquote(t) ELSE t)
Properties(kids, ts) ==   \* of an object initialiser
  LET t == NextToken(ts)
  IN  CASE t = "}" -> Parsed(OpNode("rc", "nop", kids), Tail(ts))
        [] t # "" /\ (t \in Numerals \/ IsString(t) \/ IsName(t)) /\ NextToken(Tail(ts)) = ":" ->
             PropertyAfter(kids, PropertyId(t), AssignExpr(Tail(Tail(ts))))
        [] OTHER -> SyntaxError

GroupNode(p) == Expect(")", p, OpNode("rp", "nop", <<p.n>>))
PrimaryExpr(ts) ==
  LET t == NextToken(ts)
  IN  CASE t = "[" -> Elements(<<>>, Tail(ts))
        [] t = "{" -> Properties(<<>>, Tail(ts))
        [] t = "(" -> GroupNode(Expr(Tail(ts)))
        [] t \in Numerals  -> Parsed(NumberNode(NumberOf(t)), Tail(ts))
        [] t \in Primaries -> Parsed(OpNode("primary", t, <<>>), Tail(ts))
        [] IsString(t) -> Parsed(StringNode(Unquote(t)), Tail(ts))
        [] IsName(t)   -> Parsed(Node("name", "name", t, 0, <<>>), Tail(ts))
        [] OTHER -> SyntaxError
MemberExpr(ts, allowCallSyntax) ==
  IF NextToken(ts) # "new" THEN MemberRest(PrimaryExpr(ts), allowCallSyntax)
  ELSE MemberRest(NewExpr(MemberExpr(Tail(ts), FALSE)), allowCallSyntax)

RECURSIVE WellFormed(_)
WellFormed(n) == n.type # "error" /\ \A i \in DOMAIN n.kids : WellFormed(n.kids[i])
Parse(ts) == LET p == Expr(ts) IN IF p.rest = <<>> THEN p.n ELSE SyntaxError.n

(***************************************************************************)
(* js_FoldConstants.  Numbers are integers: what folds to a fraction, to   *)
(* minus zero or to no number at all is left out.                          *)
(***************************************************************************)
FoldNumber(n) ==   \* FoldType to TOK_NUMBER
  IF n.type = "string" /\ n.atom \in Numerals THEN NumberNode(NumberOf(n.atom)) ELSE n
FoldText(n) ==     \* FoldType to TOK_STRING
  IF n.type = "number" THEN StringNode(ToString(n.val)) ELSE n
Constants == {"number", "string"}

Arith(op, i, j) ==
  CASE op = "add" -> i + j [] op = "sub" -> i - j [] op = "mul" -> i * j [] op = "lsh" -> i * 2^j

RECURSIVE FoldLeft1(_, _, _)
FoldLeft1(op, acc, kids) ==
  IF kids = <<>> THEN acc ELSE FoldLeft1(op, Arith(op, acc, Head(kids).val), Tail(kids))
FoldBinaryNumeric(n) ==
  LET conv(i) == FoldNumber(n.kids[i])
      reached(i) == ~IsList(n) \/ \A j \in 1..i-1 : conv(j).type = "number"
      kids == [i \in DOMAIN n.kids |-> IF reached(i) THEN conv(i) ELSE n.kids[i]]
  IN  IF \A i \in DOMAIN kids : kids[i].type = "number"
      THEN NumberNode(FoldLeft1(n.op, kids[1].val, Tail(kids)))
      ELSE [n EXCEPT !.kids = kids]

RECURSIVE Concat(_)
Concat(kids) == IF kids = <<>> THEN "" ELSE FoldText(Head(kids)).atom \o Concat(Tail(kids))
\* A sum whose kids were as in parsed when it was parsed (PNX_STRCAT and PNX_CANTFOLD).
FoldPlus(n, parsed) ==
  LET isText == \E i \in DOMAIN n.kids : n.kids[i].type = "string"
  IN  IF IsList(n)
      THEN IF \E i \in DOMAIN parsed : parsed[i].type \notin Constants THEN n
           ELSE StringNode(Concat(n.kids))
      ELSE IF ~isText THEN FoldBinaryNumeric(n)
      ELSE IF \A i \in 1..2 : n.kids[i].type \in Constants THEN StringNode(Concat(n.kids))
      ELSE n

FoldHook(n) ==
  LET c == n.kids[1]
      isPrimary(ops) == c.type = "primary" /\ c.op \in ops
      other == \/ c.type = "number" /\ c.val = 0
               \/ c.type = "string" /\ c.atom = ""
               \/ isPrimary({"false", "null"})
  IN  IF c.type \in Constants \/ isPrimary({"true", "false", "null"})
      THEN n.kids[IF other THEN 3 ELSE 2] ELSE n

FoldUnary(n) ==
  LET k == n.kids[1].val
  IN  IF n.kids[1].type # "number" THEN n
      ELSE CASE n.op = "bitnot" -> NumberNode(-k - 1)
             [] n.op = "neg"    -> NumberNode(-k)
             [] n.op = "pos"    -> NumberNode(k)
             [] n.op = "not"    -> OpNode("primary", IF k = 0 THEN "true" ELSE "false", <<>>)
             [] OTHER           -> n

RECURSIVE js_FoldConstants(_)
js_FoldConstants(n) ==
  LET m == [n EXCEPT !.kids = [i \in DOMAIN n.kids |-> js_FoldConstants(n.kids[i])]]
  IN  CASE n.type = "hook"  -> FoldHook(m)
        [] n.type = "add"   -> FoldPlus(m, n.kids)
        [] n.type \in {"sub", "mul", "lsh"} -> FoldBinaryNumeric(m)
        [] n.type = "unary" -> FoldUnary(m)
        [] OTHER            -> m

(***************************************************************************)
(* The code generator: cg has the code so far, the model of the stack      *)
(* depth it keeps (js_Emit's UpdateDepth), and its maximum.  An            *)
(* instruction has an atom, a number (an index, an argument count or the   *)
(* place a jump goes to), its source note with the note's offset, and the  *)
(* depth the generator has before it.                                      *)
(***************************************************************************)
EmptyCode == [code |-> <<>>, depth |-> 0, max |-> 0]
Next1(cg) == Len(cg.code) + 1   \* CG_NEXT

\* The depth after an instruction with specification cs.
UpdateDepth(cg, cs, num) ==
  cg.depth - (IF cs.nuses = -1 THEN num + 2 ELSE cs.nuses) + cs.ndefs
AfterIns(cg, ins, depth) ==
  [code |-> Append(cg.code, ins), depth |-> depth, max |-> IF depth > cg.max THEN depth ELSE cg.max]
Emit3(cg, op, atom, num, note) ==
  AfterIns(cg, [op |-> op, atom |-> atom, num |-> num, note |-> note, off |-> 0,
                depth |-> cg.depth], UpdateDepth(cg, js_CodeSpec[op], num))
EmitOp(cg, op) == Emit3(cg, op, "", 0, "")
EmitNoted(cg, op, note) == Emit3(cg, op, "", 0, note)
EmitAtomOp(cg, op, atom) == Emit3(cg, op, atom, 0, "")
PatchJump(cg, i) == [cg EXCEPT !.code[i].num = Next1(cg)]
SetNoteOffset(cg, i, off) == [cg EXCEPT !.code[i].off = off]

EmitNumberOp(cg, k) ==
  CASE k = 0 -> EmitOp(cg, "zero") [] k = 1 -> EmitOp(cg, "one")
    [] k > 1 -> Emit3(cg, "uint16", "", k, "") [] k < 0 -> Emit3(cg, "number", "", k, "")

\* LookupArgOrVar: the opcode for a name that has a slot
ArgOp == ("name" :> "getarg") @@ ("setname" :> "setarg") @@ ("incname" :> "incarg") @@
         ("decname" :> "decarg") @@ ("nameinc" :> "arginc") @@ ("namedec" :> "argdec") @@
         ("delname" :> "false")
VarOp == ("name" :> "getvar") @@ ("setname" :> "setvar") @@ ("incname" :> "incvar") @@
         ("decname" :> "decvar") @@ ("nameinc" :> "varinc") @@ ("namedec" :> "vardec") @@
         ("delname" :> "false")
HasSlot(name) == name \in ArgNames \cup VarNames
LookupArgOrVar(name, op) ==
  IF name \in ArgNames THEN ArgOp[op] ELSE IF name \in VarNames THEN VarOp[op] ELSE op
EmitName(cg, name, op) ==
  LET o == LookupArgOrVar(name, op)
  IN  IF o = "false" THEN EmitOp(cg, o) ELSE EmitAtomOp(cg, o, name)

\* Mutant of GroupOp: no code for parentheses.
NoGroup(cg) == cg
GroupOp(cg) == EmitOp(cg, "group")

RECURSIVE js_EmitTree(_, _), EmitAll(_, _), EmitChain(_, _, _), EmitLogical(_, _, _),
          EmitElements(_, _, _), EmitProperties(_, _)

EmitAll(cg, kids) == IF kids = <<>> THEN cg ELSE EmitAll(js_EmitTree(cg, Head(kids)), Tail(kids))
EmitChain(cg, op, kids) ==   \* the operands of op after the first
  IF kids = <<>> THEN cg ELSE EmitChain(EmitOp(js_EmitTree(cg, Head(kids)), op), op, Tail(kids))

RECURSIVE EmitComma(_, _, _)
\* TOK_COMMA: the pop before an operand has the distance to the operand's end
EmitComma(cg, kids, pop) ==
  LET c == js_EmitTree(cg, Head(kids))
      d == IF pop = 0 THEN c ELSE SetNoteOffset(c, pop, Len(c.code) + 1 - pop)
  IN  IF Len(kids) = 1 THEN d
      ELSE EmitComma(EmitNoted(d, "pop", "pcdelta"), Tail(kids), Next1(d))

\* A reference on the stack, and with it its value (for += and the like).
EmitBase(cg, n) ==
  CASE n.type = "name" -> IF HasSlot(n.atom) THEN cg ELSE EmitAtomOp(cg, "bindname", n.atom)
    [] n.type = "dot"  -> js_EmitTree(cg, n.kids[1])
    [] n.type = "lb"   -> EmitAll(cg, n.kids)
EmitFetch(cg, n) ==
  CASE n.type = "lb" -> EmitOp(EmitOp(cg, "dup2"), "getelem")
    [] n.type = "name" /\ HasSlot(n.atom) -> EmitName(cg, n.atom, "name")
    [] OTHER -> EmitAtomOp(EmitOp(cg, "dup"), "getprop", n.atom)
EmitAssign(cg, n) ==
  LET left  == n.kids[1]
      base  == EmitBase(cg, left)
      value == IF n.op = "nop" THEN js_EmitTree(base, n.kids[2])
               ELSE EmitNoted(js_EmitTree(EmitFetch(base, left), n.kids[2]), n.op, "assignop")
  IN  CASE left.type = "name" -> EmitName(value, left.atom, "setname")
        [] left.type = "dot"  -> EmitAtomOp(value, "setprop", left.atom)
        [] left.type = "lb"   -> EmitOp(value, "setelem")

\* An operator on a reference: ++, -- and delete
EmitOnReference(cg, op, n) ==
  CASE n.type = "name" -> EmitName(cg, n.atom, op)
    [] n.type = "dot"  -> EmitAtomOp(js_EmitTree(cg, n.kids[1]), op, n.atom)
    [] n.type = "lb"   -> EmitOp(EmitAll(cg, n.kids), op)
DeleteOp == ("name" :> "delname") @@ ("dot" :> "delprop") @@ ("lb" :> "delelem")

\* Mutant of AfterHook: both branches' values stay in the stack model.
BothCounted(cg) == cg
AfterHook(cg) == [cg EXCEPT !.depth = @ - 1]
EmitHook(cg, n) ==
  LET cg1  == EmitNoted(js_EmitTree(cg, n.kids[1]), "ifeq", "cond")
      beq == Len(cg1.code)
      cg2  == EmitOp(js_EmitTree(cg1, n.kids[2]), "goto")
      jmp == Len(cg2.code)
      cg3  == js_EmitTree(PatchJump(cg2, beq), n.kids[3])
  IN  AfterHook(SetNoteOffset(PatchJump(cg3, jmp), beq, jmp - beq))

\* TOK_OR, TOK_AND: a chain of both, down the right operands, whose jumps all go to its end
EmitLogical(cg, n, jumps) ==
  IF n.type \notin {"or", "and"}
  THEN LET c == js_EmitTree(cg, n)
       IN  [c EXCEPT !.code = [i \in DOMAIN c.code |-> IF i \in jumps
                                                       THEN [c.code[i] EXCEPT !.num = Next1(c)]
                                                       ELSE c.code[i]]]
  ELSE LET c == EmitOp(js_EmitTree(cg, n.kids[1]), n.op)
       IN  EmitLogical(c, n.kids[2], jumps \cup {Len(c.code)})

EmitNewInit(cg, class) ==
  EmitOp(EmitOp(EmitAtomOp(cg, "name", class), "pushobj"), "newinit")
EmitElements(cg, kids, i) ==
  IF kids = <<>> THEN cg
  ELSE LET c == EmitNumberOp(cg, i)
           v == IF Head(kids).type = "hole" THEN EmitOp(c, "push") ELSE js_EmitTree(c, Head(kids))
       IN  EmitElements(EmitOp(v, "initelem"), Tail(kids), i + 1)
EmitProperties(cg, kids) ==
  IF kids = <<>> THEN cg
  ELSE LET id == Head(kids).kids[1]
           v  == Head(kids).kids[2]
           c  == IF id.type = "number"
                 THEN EmitNoted(js_EmitTree(EmitNumberOp(cg, id.val), v), "initelem", "label")
                 ELSE EmitAtomOp(js_EmitTree(cg, v), "initprop", id.atom)
       IN  EmitProperties(c, Tail(kids))

EmitCall(cg, n) ==
  LET callee == EmitOp(js_EmitTree(cg, n.kids[1]), "pushobj")
  IN  Emit3(EmitAll(callee, Tail(n.kids)), n.op, "", Len(n.kids) - 1, "")

js_EmitTree(cg, n) ==
  CASE n.type = "comma"  -> EmitComma(cg, n.kids, 0)
    [] n.type = "assign" -> EmitAssign(cg, n)
    [] n.type = "hook"   -> EmitHook(cg, n)
    [] n.type \in {"or", "and"} -> EmitLogical(cg, n, {})
    [] n.type \in BinaryOps -> EmitChain(js_EmitTree(cg, n.kids[1]), n.op, Tail(n.kids))
    [] n.type = "unary"  -> EmitOp(js_EmitTree(cg, n.kids[1]), n.op)
    [] n.type = "incdec" -> EmitOnReference(cg, n.op, n.kids[1])
    [] n.type = "delete" -> IF n.kids[1].type \notin References THEN EmitOp(cg, "true")
                            ELSE EmitOnReference(cg, DeleteOp[n.kids[1].type], n.kids[1])
    [] n.type \in {"dot", "lb"} -> EmitOnReference(cg, n.op, n)
    [] n.type \in {"lp", "new"} -> EmitCall(cg, n)
    [] n.type = "rb"     -> EmitNoted(EmitElements(EmitNewInit(cg, "Array"), n.kids, 0), "endinit",
                                      IF n.atom = "endcomma" THEN "continue" ELSE "")
    [] n.type = "rc"     -> EmitOp(EmitProperties(EmitNewInit(cg, "Object"), n.kids), "endinit")
    [] n.type = "rp"     -> GroupOp(js_EmitTree(cg, n.kids[1]))
    [] n.type = "name"   -> EmitName(cg, n.atom, "name")
    [] n.type = "string" -> EmitAtomOp(cg, "string", n.atom)
    [] n.type = "number" -> EmitNumberOp(cg, n.val)
    [] n.type = "primary" -> EmitOp(cg, n.op)

\* The statement that returns an expression
CompileScript(n) == EmitOp(js_EmitTree(EmptyCode, n), "return")
=============================================================================
