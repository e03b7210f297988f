------------------------------- MODULE Regexp -------------------------------
(***************************************************************************)
(* Regular expressions (jsregexp.c): the operator-precedence parser, the   *)
(* bytecode emitter, and the backtracking machine that runs the bytecode.  *)
(* A case is a pattern, as the tokens of its source, and an input string.  *)
(* The machine keeps two stacks: the states of the enclosing operators,    *)
(* with the progress of every quantifier, and the choices left open, each  *)
(* of which saves the whole first stack and some of the captures.  One     *)
(* step is one turn of the loop of ParseRegExp or of ExecuteREBytecode.    *)
(* Captures are numbered from 1; Inf stands for (uint16)-1.                *)
(***************************************************************************)
EXTENDS Integers, Sequences, FiniteSets, SequencesExt

CONSTANT Cases   \* [text: sequence of tokens, tree: the pattern, input: sequence of characters]

VARIABLES
  re,         \* the case at hand
  phase,      \* "operand" and "operator" (where the parser stands), "match", "error", "done"
  parse,      \* CompilerState: cp, parenCount, and the two stacks of ParseRegExp
  program,    \* JSRegExp.program
  skipped,    \* REGlobalData.skipped
  regs           \* the registers of ExecuteREBytecode

reVars == <<re, phase, parse, program, skipped, regs>>

Inf == 65535
Unset == [index |-> -1, length |-> 0]
EmptyTerm == <<[op |-> "empty"]>>
Opens == {"lparen", "lparennon", "assert", "assert_not"}
SimpleOps == {"bol", "eol", "dot", "class", "flat", "backref"}

(***************************************************************************)
(* The parser.  An operand is a chain of nodes, the links of u.next.       *)
(***************************************************************************)
AtEnd == parse.cp > Len(re.text)
Token == re.text[parse.cp]

\* ParseQuantifier: a quantifier token after a term wraps the term.
QuantifierAt(i) == i <= Len(re.text) /\ re.text[i].op = "quant"
Quantified(term, i) ==
  IF QuantifierAt(i)
  THEN <<[op |-> "quant", min |-> re.text[i].min, max |-> re.text[i].max,
          greedy |-> re.text[i].greedy, kid |-> term]>>
  ELSE term
AfterQuantifier(i) == IF QuantifierAt(i) THEN i + 1 ELSE i

\* ParseTerm: the anchors take no quantifier; a flat node remembers its place in the source.
AnchorAt(i) == re.text[i].op \in {"bol", "eol"}
Term(i) ==
  LET t == re.text[i]
      node == IF t.op = "flat" THEN <<[op |-> "flat", str |-> t.str, at |-> i]>> ELSE <<t>>
  IN  IF AnchorAt(i) THEN node ELSE Quantified(node, i + 1)
AfterTerm(i) == IF AnchorAt(i) THEN i + 1 ELSE AfterQuantifier(i + 1)

\* ProcessOp: an alternation of two chains that begin with characters or classes tests the
\* next character before it tries either.
Leading(chain) ==
  CASE chain[1].op = "flat"  -> {chain[1].str[1]}
    [] chain[1].op = "class" -> chain[1].set
    [] OTHER                 -> {}
Prerequisite(a, b) ==
  /\ {a[1].op, b[1].op} \subseteq {"flat", "class"}
  /\ "flat" \in {a[1].op, b[1].op}
Alternation(a, b) ==
  <<[op |-> IF Prerequisite(a, b) THEN "altprereq" ELSE "alt",
     first |-> Leading(a) \cup Leading(b), kid |-> a, kid2 |-> b]>>
Combine(op, a, b) == IF op = "concat" THEN a \o b ELSE Alternation(a, b)

\* Process the stacked operators down to the first one in stop.
RECURSIVE Reduce(_, _, _)
Reduce(ops, nds, stop) ==
  IF ops = <<>> \/ Last(ops).op \in stop THEN [operators |-> ops, operands |-> nds]
  ELSE LET n == Len(nds)
       IN  Reduce(Front(ops),
                  SubSeq(nds, 1, n - 2) \o <<Combine(Last(ops).op, nds[n - 1], nds[n])>>, stop)

HasOpen == \E i \in DOMAIN parse.operators : parse.operators[i].op \in Opens

PushOperand(chain, cp) ==
  /\ parse' = [parse EXCEPT !.operands = Append(@, chain), !.cp = cp]
  /\ phase' = "operator"
PushOperator(op, st, cp) ==
  /\ parse' = [st EXCEPT !.operators = Append(@, op), !.cp = cp]
  /\ phase' = "operand"

ParseOperand ==
  /\ phase = "operand"
  /\ \/ /\ AtEnd
        /\ IF Len(parse.operators) >= Len(parse.operands)
           THEN PushOperand(EmptyTerm, parse.cp)
           ELSE phase' = "operator" /\ UNCHANGED parse
     \/ /\ ~AtEnd /\ Token.op \in Opens
        /\ LET n == parse.parenCount + (IF Token.op = "lparen" THEN 1 ELSE 0)
           IN  PushOperator([op |-> Token.op, paren |-> n],
                            [parse EXCEPT !.parenCount = n], parse.cp + 1)
     \/ /\ ~AtEnd
        /\ Token.op = "quant" \/ (Token.op = "close" /\ ~HasOpen)
        /\ phase' = "error" /\ UNCHANGED parse
     \/ /\ ~AtEnd
        /\ Token.op = "bar" \/ (Token.op = "close" /\ HasOpen)
        /\ PushOperand(EmptyTerm, parse.cp)
     \/ /\ ~AtEnd /\ Token.op \in SimpleOps
        /\ PushOperand(Term(parse.cp), AfterTerm(parse.cp))
  /\ UNCHANGED <<re, program, skipped, regs>>

ParseBar ==
  /\ phase = "operator" /\ ~AtEnd /\ Token.op = "bar"
  /\ LET r == Reduce(parse.operators, parse.operands, Opens \cup {"alt"})
     IN  PushOperator([op |-> "alt", paren |-> 0], r @@ parse, parse.cp + 1)
  /\ UNCHANGED <<re, program, skipped, regs>>

ParseClose ==
  /\ phase = "operator" /\ ~AtEnd /\ Token.op = "close"
  /\ IF ~HasOpen THEN phase' = "error" /\ UNCHANGED parse
     ELSE LET r     == Reduce(parse.operators, parse.operands, Opens)
              open  == Last(r.operators)
              inner == Last(r.operands)
              group == IF open.op = "lparennon" THEN inner
                       ELSE <<[op |-> open.op, paren |-> open.paren, kid |-> inner]>>
          IN  /\ parse' = [parse EXCEPT
                    !.operators = Front(r.operators),
                    !.operands = Append(Front(r.operands), Quantified(group, parse.cp + 1)),
                    !.cp = AfterQuantifier(parse.cp + 1)]
              /\ UNCHANGED phase
  /\ UNCHANGED <<re, program, skipped, regs>>

\* A quantifier with nothing before it, or one that follows another, is an error; anything
\* else starts the next term.
ParseNext ==
  /\ phase = "operator" /\ ~AtEnd /\ Token.op \notin {"bar", "close"}
  /\ IF Token.op = "quant" THEN phase' = "error" /\ UNCHANGED parse
     ELSE PushOperator([op |-> "concat", paren |-> 0], parse, parse.cp)
  /\ UNCHANGED <<re, program, skipped, regs>>

(***************************************************************************)
(* EmitREBytecode: nodes, from instruction i on.  Neighbouring characters  *)
(* of the source become one flat instruction; an empty term emits nothing. *)
(***************************************************************************)
Merges(chain) ==
  /\ Len(chain) > 1 /\ chain[1].op = "flat" /\ chain[2].op = "flat"
  /\ chain[1].at + Len(chain[1].str) = chain[2].at

RECURSIVE EmitREBytecode(_, _)
EmitREBytecode(chain, i) ==
  IF chain = <<>> THEN <<>>
  ELSE IF Merges(chain)
  THEN EmitREBytecode(<<[chain[1] EXCEPT !.str = @ \o chain[2].str]>> \o SubSeq(chain, 3, Len(chain)), i)
  ELSE
  LET n == chain[1]
      code ==
        CASE n.op = "empty" -> <<>>
          [] n.op \in {"alt", "altprereq"} ->
               LET a == EmitREBytecode(n.kid, i + 1)
                   j == i + Len(a) + 1
                   b == EmitREBytecode(n.kid2, j + 1)
               IN  <<[op |-> n.op, first |-> n.first, next |-> j + 1]>> \o a
                     \o <<[op |-> "jump", to |-> j + Len(b) + 2]>> \o b
                     \o <<[op |-> "endalt"]>>
          [] n.op = "lparen" ->
               <<[op |-> "lparen", paren |-> n.paren]>> \o EmitREBytecode(n.kid, i + 1)
                 \o <<[op |-> "rparen", paren |-> n.paren]>>
          [] n.op \in {"assert", "assert_not"} ->
               LET a == EmitREBytecode(n.kid, i + 1)
               IN  <<[op |-> n.op, end |-> i + Len(a) + 1]>> \o a
                     \o <<[op |-> IF n.op = "assert" THEN "asserttest" ELSE "assertnottest"]>>
          [] n.op = "quant" ->
               LET a == EmitREBytecode(n.kid, i + 1)
               IN  <<[op |-> IF n.greedy THEN "quant" ELSE "minimalquant",
                      min |-> n.min, max |-> n.max, end |-> i + Len(a) + 1]>> \o a
                     \o <<[op |-> "endchild"]>>
          [] OTHER -> <<n>>
  IN  code \o EmitREBytecode(Tail(chain), i + Len(code))

\* InitMatch and MatchRegExp: the registers for an attempt at position cp.
Registers(cp, parens) ==
  [op |-> "start", pc |-> 1, cp |-> cp, result |-> FALSE, soFar |-> 0,
   parens |-> [k \in 1..parens |-> Unset], states |-> <<>>, back |-> <<>>]

\* js_NewRegExp: the end of the source closes the parse.  An open parenthesis left over is
\* an error (ProcessOp).
ParseEnd ==
  /\ phase = "operator" /\ AtEnd
  /\ IF HasOpen
     THEN phase' = "error" /\ UNCHANGED <<program, skipped, regs>>
     ELSE LET r == Reduce(parse.operators, parse.operands, {})
          IN  /\ program' = Append(EmitREBytecode(r.operands[1], 1), [op |-> "end"])
              /\ regs' = Registers(0, parse.parenCount)
              /\ skipped' = 0
              /\ phase' = "match"
  /\ UNCHANGED <<re, parse>>

(***************************************************************************)
(* The machine.  m.op is the operation fetched and m.pc the place of its   *)
(* operands: a choice left open may name an operation of its own           *)
(* ("repeat", "minimalrepeat") on the operands of its quantifier.          *)
(***************************************************************************)
cpend == Len(re.input)
Cur == program[regs.pc]
IsSimple(i) == program[i].op \in SimpleOps

NoMatch == -1
\* SimpleMatch, BackrefMatcher: where the simple instruction i leaves a match that stands at
\* cp, or NoMatch.
Literal(str, cp) ==
  IF cp + Len(str) <= cpend /\ SubSeq(re.input, cp + 1, cp + Len(str)) = str
  THEN cp + Len(str) ELSE NoMatch
SimpleMatch(i, cp, parens) ==
  LET n == program[i]
  IN  CASE n.op = "bol"     -> IF cp = 0 THEN cp ELSE NoMatch
        [] n.op = "eol"     -> IF cp = cpend THEN cp ELSE NoMatch
        [] n.op = "dot"     -> IF cp < cpend THEN cp + 1 ELSE NoMatch
        [] n.op = "class"   -> IF cp < cpend /\ re.input[cp + 1] \in n.set
                               THEN cp + 1 ELSE NoMatch
        [] n.op = "flat"    -> Literal(n.str, cp)
        [] n.op = "backref" ->
             LET p == parens[n.paren]
             IN  IF p.index = -1 THEN cp
                 ELSE Literal(SubSeq(re.input, p.index + 1, p.index + p.length), cp)

Cleared(parens, lo, hi) ==
  [k \in DOMAIN parens |-> IF lo < k /\ k <= hi THEN Unset ELSE parens[k]]

\* PushBackTrackState: leave a choice open, with the states, and with the captures from lo to
\* hi, which it clears.
Leave(r, op, pc, cp, lo, hi) ==
  [r EXCEPT !.back = Append(@, [op |-> op, pc |-> pc, cp |-> cp, states |-> r.states,
                                lo |-> lo, saved |-> SubSeq(r.parens, lo + 1, hi)]),
            !.parens = Cleared(@, lo, hi)]

\* The end of the loop: take up the last choice, with what it saved or else without the
\* captures that began after its enclosing operator.
NotRestored(r, b) == r.parens
Restored(r, b) ==
  LET hi == b.lo + Len(b.saved)
  IN  [k \in DOMAIN r.parens |->
         IF b.lo < k /\ k <= hi THEN b.saved[k - b.lo] ELSE r.parens[k]]
Reject(r) ==
  IF r.back = <<>> THEN [r EXCEPT !.op = "fail", !.result = FALSE]
  ELSE LET b == Last(r.back)
           whole == [r EXCEPT !.op = b.op, !.pc = b.pc, !.cp = b.cp, !.result = FALSE,
                              !.states = b.states, !.back = Front(@)]
       IN  IF b.saved # <<>>
           THEN [whole EXCEPT !.parens = Restored(r, b), !.soFar = b.lo + Len(b.saved)]
           ELSE [whole EXCEPT !.parens = Cleared(@, Last(b.states).soFar, r.soFar),
                              !.soFar = Last(b.states).soFar]

Fetch(r, i) == [r EXCEPT !.pc = i, !.op = program[i].op]
Accept(r) == Fetch([r EXCEPT !.result = TRUE], r.pc + 1)
PushState(r, s) == [r EXCEPT !.states = Append(@, s)]
PopState(r) == [r EXCEPT !.states = Front(@)]
State(min, max, soFar, pc, op, index, depth) ==
  [min |-> min, max |-> max, soFar |-> soFar, pc |-> pc, op |-> op,
   index |-> index, depth |-> depth]

\* A match of a leading simple instruction is sought through the rest of the input at once.
Starts(cp) == {i \in cp..cpend : SimpleMatch(1, i, regs.parens) # NoMatch}
Start ==
  /\ regs.op = "start"
  /\ IF ~IsSimple(1) THEN regs' = Fetch(regs, 1) /\ UNCHANGED skipped
     ELSE IF Starts(regs.cp) = {}
     THEN regs' = [regs EXCEPT !.op = "fail"] /\ skipped' = cpend + 1
     ELSE LET cp == CHOOSE i \in Starts(regs.cp) : \A j \in Starts(regs.cp) : i <= j
          IN  /\ regs' = Accept([regs EXCEPT !.cp = SimpleMatch(1, cp, regs.parens)])
              /\ skipped' = cp

Simple ==
  /\ regs.op \in SimpleOps
  /\ LET cp == SimpleMatch(regs.pc, regs.cp, regs.parens)
     IN  regs' = IF cp = NoMatch THEN Reject(regs) ELSE Accept([regs EXCEPT !.cp = cp])
  /\ UNCHANGED skipped

\* REOP_ALT, REOP_ALTPREREQ and REOP_ALTPREREQ2: try the first alternative, with the second left
\* open, unless the first begins with a simple instruction that fails at once.
TryFirst(r) ==
  LET p  == PushState(r, State(0, 0, r.soFar, 0, "alt", 0, 0))
      cp == SimpleMatch(r.pc + 1, r.cp, r.parens)
      open(q) == Leave(q, program[Cur.next].op, Cur.next, r.cp, 0, 0)
  IN  IF ~IsSimple(r.pc + 1) THEN Fetch(open(p), r.pc + 1)
      ELSE IF cp = NoMatch THEN Fetch(p, Cur.next)
      ELSE Fetch(open([p EXCEPT !.cp = cp, !.result = TRUE]), r.pc + 2)
Alt ==
  /\ regs.op \in {"alt", "altprereq"}
  /\ regs' = IF /\ regs.op = "altprereq"
                /\ regs.cp = cpend \/ re.input[regs.cp + 1] \notin Cur.first
             THEN Reject(regs) ELSE TryFirst(regs)
  /\ UNCHANGED skipped
EndOfAlternative ==
  /\ regs.op \in {"jump", "endalt"}
  /\ regs' = Fetch(PopState(regs), IF regs.op = "jump" THEN Cur.to ELSE regs.pc + 1)
  /\ UNCHANGED skipped

Paren ==
  /\ regs.op \in {"lparen", "rparen"}
  /\ regs' = Fetch(IF regs.op = "lparen"
                THEN [regs EXCEPT !.soFar = IF Cur.paren > @ THEN Cur.paren ELSE @,
                               !.parens[Cur.paren] = [index |-> regs.cp, length |-> 0]]
                ELSE [regs EXCEPT !.parens[Cur.paren].length =
                        regs.cp - regs.parens[Cur.paren].index],
                regs.pc + 1)
  /\ UNCHANGED skipped

\* Lookahead: the state remembers how many choices were open, and its end drops the others.
Lookahead ==
  /\ regs.op \in {"assert", "assert_not"}
  /\ LET test == IF regs.op = "assert" THEN "asserttest" ELSE "assertnottest"
         s == State(0, 0, regs.soFar, 0, test, regs.cp, Len(regs.back))
     IN  regs' = IF /\ regs.op = "assert" /\ IsSimple(regs.pc + 1)
                    /\ SimpleMatch(regs.pc + 1, regs.cp, regs.parens) = NoMatch
                 THEN Reject(regs)
                 ELSE Fetch(Leave(PushState(regs, s), test, Cur.end, regs.cp, 0, 0), regs.pc + 1)
  /\ UNCHANGED skipped
LookaheadEnd ==
  /\ regs.op \in {"asserttest", "assertnottest"}
  /\ LET s == Last(regs.states)
         r == [PopState(regs) EXCEPT !.cp = s.index, !.back = SubSeq(@, 1, s.depth)]
     IN  regs' = IF regs.result = (regs.op = "asserttest") THEN Accept(r) ELSE Reject(r)
  /\ UNCHANGED skipped

\* REOP_STAR, REOP_PLUS, REOP_OPT and REOP_QUANT.
Leap(r) == [r EXCEPT !.pc = Cur.end]
Quant ==
  /\ regs.op = "quant"
  /\ LET cp     == SimpleMatch(regs.pc + 1, regs.cp, regs.parens)
         enter(r) == LET p == PushState(r, State(Cur.min, Cur.max, regs.soFar, regs.pc,
                                                 "repeat", regs.cp, 0))
                     IN  IF Cur.min = 0 THEN Leave(p, "repeat", regs.pc, regs.cp, 0, 0) ELSE p
     IN  regs' = IF Cur.max = 0 THEN Fetch([regs EXCEPT !.result = TRUE], Cur.end + 1)
              ELSE IF ~IsSimple(regs.pc + 1) THEN Fetch(enter(regs), regs.pc + 1)
              ELSE IF cp # NoMatch
              THEN Fetch(enter([regs EXCEPT !.cp = cp, !.result = TRUE]), regs.pc + 2)
              ELSE IF Cur.min = 0 THEN Accept(Leap(regs)) ELSE Reject(regs)
  /\ UNCHANGED skipped

EndChild ==
  /\ regs.op = "endchild"
  /\ regs' = [regs EXCEPT !.pc = Last(regs.states).pc, !.op = Last(regs.states).op]
  /\ UNCHANGED skipped

\* One iteration fewer to do.
OneFewer(s) ==
  [s EXCEPT !.min = IF @ = 0 THEN 0 ELSE @ - 1, !.max = IF @ = Inf THEN Inf ELSE @ - 1]
MatchedNothing(s) == s.min = 0 /\ regs.cp = s.index   \* an iteration that matched the empty string

\* REOP_REPEAT.  A child of one simple instruction is matched here, and the loop goes round.
Again(r, s) ==
  LET next   == r.pc + 1
      simple == IsSimple(next)
      cp     == SimpleMatch(next, r.cp, r.parens)
      repeated == IF simple THEN next + 1 ELSE next
      q      == PushState(IF simple THEN [r EXCEPT !.cp = cp] ELSE r, [s EXCEPT !.index = r.cp])
      p      == IF s.min = 0 THEN Leave(q, "repeat", r.pc, r.cp, s.soFar, r.soFar) ELSE q
  IN  IF simple /\ cp = NoMatch
      THEN IF s.min = 0 THEN Accept(Leap(r)) ELSE Reject(r)
      ELSE IF program[repeated].op = "endchild" THEN p
      ELSE Fetch([p EXCEPT !.soFar = s.soFar], repeated)
Repeat ==
  /\ regs.op = "repeat"
  /\ LET s == Last(regs.states)
         r == PopState(regs)
         t == OneFewer(s)
     IN  regs' = IF ~regs.result THEN (IF s.min = 0 THEN Accept(Leap(r)) ELSE Reject(r))
              ELSE IF MatchedNothing(s) THEN Reject(r)
              ELSE IF t.max = 0 THEN Accept(Leap(r))
              ELSE Again(r, t)
  /\ UNCHANGED skipped

\* REOP_MINIMALSTAR, -PLUS, -OPT and -QUANT, and REOP_MINIMALREPEAT: go on without the child when
\* that is allowed, with one more iteration left open.
Onwards(r, s) ==
  Fetch(PopState(Leave(PushState(r, s), "minimalrepeat", r.pc, r.cp, 0, 0)), Cur.end + 1)
Iterate(r, s) ==
  Fetch(PushState([r EXCEPT !.parens = Cleared(@, s.soFar, r.soFar)], [s EXCEPT !.index = r.cp]),
        r.pc + 1)
MinimalQuant ==
  /\ regs.op = "minimalquant"
  /\ LET s == State(Cur.min, Cur.max, regs.soFar, regs.pc, "minimalrepeat", regs.cp, 0)
     IN  regs' = IF Cur.min # 0 THEN Fetch(PushState(regs, s), regs.pc + 1) ELSE Onwards(regs, s)
  /\ UNCHANGED skipped
MinimalRepeat ==
  /\ regs.op = "minimalrepeat"
  /\ LET s == Last(regs.states)
         r == PopState(regs)
         t == OneFewer(s)
     IN  regs' = IF ~regs.result THEN (IF s.max > 0 THEN Iterate(r, s) ELSE Reject(r))
              ELSE IF MatchedNothing(s) THEN Reject(r)
              ELSE IF t.min # 0 THEN Iterate(r, t)
              ELSE Onwards(r, [t EXCEPT !.index = r.cp, !.soFar = r.soFar])
  /\ UNCHANGED skipped

Execute ==
  /\ phase = "match"
  /\ \/ Start \/ Simple \/ Alt \/ EndOfAlternative \/ Paren \/ Lookahead \/ LookaheadEnd
     \/ Quant \/ EndChild \/ Repeat \/ MinimalQuant \/ MinimalRepeat
  /\ UNCHANGED <<re, phase, parse, program>>

\* MatchRegExp: after a failure, the next starting position, with fresh registers.
NextPosition ==
  /\ phase = "match" /\ regs.op = "fail"
  /\ IF skipped + 1 > cpend THEN phase' = "done" /\ UNCHANGED <<skipped, regs>>
     ELSE /\ skipped' = skipped + 1
          /\ regs' = Registers(skipped + 1, Len(regs.parens))
          /\ UNCHANGED phase
  /\ UNCHANGED <<re, parse, program>>

Matched ==
  /\ phase = "match" /\ regs.op = "end"
  /\ phase' = "done"
  /\ UNCHANGED <<re, parse, program, skipped, regs>>

NoRe == [text |-> <<>>, tree |-> <<>>, input |-> <<>>]
NoParse == [cp |-> 1, parenCount |-> 0, operators |-> <<>>, operands |-> <<>>]
ReInitOf(c) ==
  /\ re = c
  /\ phase = "operand"
  /\ parse = NoParse
  /\ program = <<>>
  /\ skipped = 0
  /\ regs = Registers(0, 0)
ReInit == \E c \in Cases : ReInitOf(c)

ReNext == ParseOperand \/ ParseBar \/ ParseClose \/ ParseNext \/ ParseEnd
            \/ Execute \/ NextPosition \/ Matched
ReSpec == ReInit /\ [][ReNext]_reVars

(***************************************************************************)
(* The promise: ECMA-262 15.10.2, which the comments of jsregexp.c follow. *)
(* A pattern is a sequence of nodes and its continuation the nodes after   *)
(* it; "done" and "again" are what a group and a quantifier leave behind   *)
(* in the continuation.                                                    *)
(***************************************************************************)
Failure == [ok |-> FALSE, end |-> 0, cap |-> <<>>]
RECURSIVE Groups(_)
Groups(nds) ==
  UNION {LET n == nds[i]
             inside == IF n.op \in Opens \cup {"quant"} THEN Groups(n.kid)
                       ELSE IF n.op = "alt" THEN Groups(n.kid) \cup Groups(n.kid2) ELSE {}
         IN  IF n.op = "lparen" THEN {n.paren} \cup inside ELSE inside : i \in DOMAIN nds}

RECURSIVE Ecma(_, _, _, _)
Ecma(nds, e, cap, s) ==
  IF nds = <<>> THEN [ok |-> TRUE, end |-> e, cap |-> cap]
  ELSE
  LET n == Head(nds)
      k == Tail(nds)
      at(str, then) == IF e + Len(str) <= Len(s) /\ SubSeq(s, e + 1, e + Len(str)) = str
                       THEN Ecma(then, e + Len(str), cap, s) ELSE Failure
      or(a, b) == IF a.ok THEN a ELSE b
      iterate == Ecma(n.kid \o <<[op |-> "again", quant |-> n, from |-> e]>> \o k, e,
                      [i \in DOMAIN cap |-> IF i \in Groups(n.kid) THEN Unset ELSE cap[i]], s)
      leave == Ecma(k, e, cap, s)
  IN  CASE n.op = "bol"   -> IF e = 0 THEN leave ELSE Failure
        [] n.op = "eol"   -> IF e = Len(s) THEN leave ELSE Failure
        [] n.op = "dot"   -> IF e < Len(s) THEN Ecma(k, e + 1, cap, s) ELSE Failure
        [] n.op = "class" -> IF e < Len(s) /\ s[e + 1] \in n.set
                             THEN Ecma(k, e + 1, cap, s) ELSE Failure
        [] n.op = "flat"  -> at(n.str, k)
        [] n.op = "backref" ->
             LET p == cap[n.paren]
             IN  IF p = Unset THEN leave
                 ELSE at(SubSeq(s, p.index + 1, p.index + p.length), k)
        [] n.op = "empty" -> leave
        [] n.op = "alt"   -> or(Ecma(n.kid \o k, e, cap, s), Ecma(n.kid2 \o k, e, cap, s))
        [] n.op = "lparennon" -> Ecma(n.kid \o k, e, cap, s)
        [] n.op = "lparen" ->
             Ecma(n.kid \o <<[op |-> "done", paren |-> n.paren, from |-> e]>> \o k, e, cap, s)
        [] n.op = "done" ->
             Ecma(k, e, [cap EXCEPT ![n.paren] = [index |-> n.from, length |-> e - n.from]], s)
        [] n.op = "assert" -> LET a == Ecma(n.kid, e, cap, s)
                              IN  IF a.ok THEN Ecma(k, e, a.cap, s) ELSE Failure
        [] n.op = "assert_not" -> IF Ecma(n.kid, e, cap, s).ok THEN Failure ELSE leave
        [] n.op = "again" -> IF n.quant.min = 0 /\ e = n.from THEN Failure
                             ELSE Ecma(<<[n.quant EXCEPT !.min = IF @ > 0 THEN @ - 1 ELSE 0,
                                            !.max = IF @ < Inf THEN @ - 1 ELSE Inf]>> \o k,
                                       e, cap, s)
        [] n.op = "quant" ->
             IF n.max = 0 THEN leave
             ELSE IF n.min > 0 THEN iterate
             ELSE IF n.greedy THEN or(iterate, leave) ELSE or(leave, iterate)

EcmaFrom(nds, e, s) ==
  Ecma(nds, e, [i \in 1..Cardinality(Groups(nds)) |-> Unset], s)
Hits == {i \in 0..cpend : EcmaFrom(re.tree, i, re.input).ok}

\* The whole of a regular expression, from the text of the pattern to the end of the search:
\* a text is refused exactly when it is no pattern; the search fails exactly when the pattern
\* matches nowhere; otherwise it stops at the leftmost match, the one the standard's order of
\* alternatives and iterations prefers, and reports every capture that match has.  Restoring
\* too little on a backtrack (states, captures, choices), or losing count of a quantifier,
\* shows only where a later part of the pattern fails and an earlier choice is resumed.
MatchesExact ==
  /\ phase = "error" => re.tree = <<>>
  /\ phase = "match" => re.tree # <<>>
  /\ (phase = "done" /\ Hits = {}) => regs.op = "fail"
  /\ (phase = "done" /\ Hits # {}) =>
       LET e == EcmaFrom(re.tree, skipped, re.input)
       IN  /\ regs.op = "end"
           /\ skipped \in Hits /\ \A i \in Hits : skipped <= i
           /\ regs.cp = e.end
           /\ \A i \in DOMAIN e.cap : e.cap[i] # Unset => regs.parens[i] = e.cap[i]
=============================================================================
