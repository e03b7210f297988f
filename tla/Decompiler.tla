----------------------------- MODULE Decompiler -----------------------------
(***************************************************************************)
(* Bytecode back to source (jsopcode.c): a stack of strings, one for each  *)
(* value the code would have on its own stack, each with the opcode that   *)
(* made it, from which PopOff decides on parentheses.                      *)
(***************************************************************************)
EXTENDS Compiler

(***************************************************************************)
(* Text.  Strings that are printed with nothing between them may run into  *)
(* one token.                                                              *)
(***************************************************************************)
Signs == {"-", "+"}
PrintPrefix(token, text) ==
  IF token \in Signs /\ text # <<>> /\ Head(text) = token THEN <<token \o token>> \o Tail(text)
  ELSE IF token \in Signs /\ text # <<>> /\ Head(text) = token \o token
       THEN <<token \o token, token>> \o Tail(text)
  ELSE <<token>> \o text
PrintDot(text, name) ==
  IF Len(text) = 1 /\ text[1] \in Numerals THEN <<text[1] \o ".", name>>
  ELSE text \o <<".", name>>
QuoteString(atom) == "'" \o atom \o "'"
\* GET_ATOM_QUOTE_AND_FMT
PrintMember(text, atom) ==
  IF IsIdentifier(atom) THEN PrintDot(text, atom) ELSE text \o <<"[", QuoteString(atom), "]">>
Grouped(text) == <<"(">> \o text \o <<")">>

RECURSIVE Commas(_)
Commas(texts) ==
  IF Len(texts) <= 1 THEN (IF texts = <<>> THEN <<>> ELSE texts[1])
  ELSE texts[1] \o <<",">> \o Commas(Tail(texts))

(***************************************************************************)
(* The stack of strings.                                                   *)
(***************************************************************************)
Item(text, op) == [text |-> text, op |-> op]
TopItem(ss) == ss[Len(ss)]
Without(ss, k) == SubSeq(ss, 1, Len(ss) - k)

\* PushOff has room for the script's depth; what does not fit is an error.
PushOff(ss, item, depth) ==
  IF Len(ss) >= depth THEN <<Item(<<"out of memory">>, "nop")>> ELSE Append(ss, item)

PopOff(item, op) ==
  LET prec == js_CodeSpec[item.op].prec
  IN  IF prec # 0 /\ prec < js_CodeSpec[op].prec THEN Grouped(item.text) ELSE item.text

\* JSOP_GROUP: parentheses for the last operator, unless PopOff has added them
GroupText(item, lastop) ==
  LET popped == PopOff(item, lastop)
  IN  IF js_CodeSpec[item.op].prec >= js_CodeSpec[lastop].prec THEN Grouped(popped) ELSE popped

Increments == {"incname", "incprop", "incelem", "incarg", "incvar", "nameinc", "propinc", "eleminc",
               "arginc", "varinc"}
PreName == {"incname", "decname", "incarg", "decarg", "incvar", "decvar"}
NamePost == {"nameinc", "namedec", "arginc", "argdec", "varinc", "vardec"}
IncToken(op) == IF op \in Increments THEN "++" ELSE "--"

\* What the instruction i prints onto the stack, and the opcode it leaves there.
PrintOp(cg, ss, lastop, i) ==
  LET ins   == cg.code[i]
      op    == ins.op
      cs    == js_CodeSpec[op]
      n     == Len(ss)
      raw(k) == ss[n - k].text                 \* with parentheses turned off
      str(k) == PopOff(ss[n - k], op)          \* POP_STR, of the k-th below the top
      push(k, text) == PushOff(Without(ss, k), Item(text, op), cg.max)
      assigns == i > 1 /\ cg.code[i-1].note = "assignop"
      equals  == <<IF assigns THEN js_CodeSpec[lastop].token \o "=" ELSE "=">>
      comma(more) == IF more THEN <<",">> ELSE <<>>
  IN  CASE cs.token # "" /\ cs.nuses = 2 ->
             push(2, IF ins.note = "assignop" THEN str(0) ELSE str(1) \o <<cs.token>> \o str(0))
        [] cs.token # "" /\ cs.nuses = 1 -> push(1, PrintPrefix(cs.token, str(0)))
        [] cs.token # "" /\ cs.nuses = 0 -> push(0, <<cs.token>>)
        [] op = "group" -> push(1, GroupText(TopItem(ss), lastop))
        [] op \in {"push", "pushobj", "bindname"} -> push(0, <<>>)
        [] op = "dup"  -> PushOff(ss, TopItem(ss), cg.max)
        [] op = "dup2" -> PushOff(PushOff(ss, ss[n-1], cg.max), ss[n-1], cg.max)
        [] op = "setname" -> push(2, <<ins.atom>> \o equals \o str(0))
        [] op \in {"setarg", "setvar"} -> push(1, <<ins.atom>> \o equals \o str(0))
        [] op = "setprop" -> push(2, PrintMember(str(1), ins.atom) \o equals \o str(0))
        [] op = "setelem" -> push(3, str(2) \o <<"[">> \o raw(1) \o <<"]">> \o equals \o raw(0))
        [] op \in {"call", "new"} ->
             LET args == [k \in 1..ins.num |-> raw(ins.num - k)]
             IN  push(ins.num + 2, (IF op = "new" THEN <<"new">> ELSE <<>>) \o raw(ins.num + 1)
                                   \o Grouped(Commas(args)))
        [] op = "delname" -> push(0, <<"delete", ins.atom>>)
        [] op = "delprop" -> push(1, <<"delete">> \o PrintMember(str(0), ins.atom))
        [] op = "delelem" -> push(2, <<"delete">> \o str(1) \o <<"[">> \o str(0) \o <<"]">>)
        [] op \in {"typeof", "void"} -> push(1, <<op>> \o str(0))
        [] op \in PreName  -> push(0, <<IncToken(op), ins.atom>>)
        [] op \in NamePost -> push(0, <<ins.atom, IncToken(op)>>)
        [] op \in {"incprop", "decprop"} ->
             push(1, <<IncToken(op)>> \o PrintMember(str(0), ins.atom))
        [] op \in {"propinc", "propdec"} ->
             push(1, PrintMember(str(0), ins.atom) \o <<IncToken(op)>>)
        [] op \in {"incelem", "decelem"} ->
             push(2, <<IncToken(op)>> \o str(1) \o <<"[">> \o str(0) \o <<"]">>)
        [] op \in {"eleminc", "elemdec"} ->
             push(2, str(1) \o <<"[">> \o str(0) \o <<"]", IncToken(op)>>)
        [] op = "getprop" -> push(1, PrintMember(str(0), ins.atom))
        [] op = "getelem" -> push(2, str(1) \o <<"[">> \o raw(0) \o <<"]">>)
        [] op \in {"name", "getarg", "getvar"} -> push(0, <<ins.atom>>)
        [] op \in {"uint16", "number"} ->
             push(0, IF ins.num < 0 THEN <<"-", ToString(-ins.num)>> ELSE <<ToString(ins.num)>>)
        [] op = "string"  -> push(0, <<QuoteString(ins.atom)>>)
        [] op = "newinit" -> push(2, <<IF str(1) = <<"Object">> THEN "{" ELSE "[">>)
        [] op = "endinit" -> push(1, str(0) \o comma(ins.note = "continue")
                                     \o <<IF Head(str(0)) = "{" THEN "}" ELSE "]">>)
        [] op = "initprop" ->
             push(2, str(1) \o comma(Len(str(1)) > 1)
                     \o <<IF IsIdentifier(ins.atom) THEN ins.atom ELSE QuoteString(ins.atom), ":">>
                     \o str(0))
        [] op = "initelem" ->
             push(3, IF ins.note = "label"
                     THEN str(2) \o comma(Len(str(2)) > 1) \o str(1) \o <<":">> \o str(0)
                     ELSE str(2) \o comma(Len(str(2)) > 1 \/ str(1) # <<"0">>) \o str(0))

RECURSIVE Decompile(_, _, _, _, _)
\* The stack after the instructions from i up to end, op being the last one before them.
Decompile(cg, ss, lastop, i, end) ==
  IF i >= end THEN ss
  ELSE LET ins  == cg.code[i]
           rest == Without(ss, 1)
           first == PopOff(TopItem(ss), ins.op)
           \* the text of one operand, the instructions from j up to to, above rest
           operand(j, to) == PopOff(TopItem(Decompile(cg, rest, "nop", j, to)), ins.op)
           from(to, text) ==
             Decompile(cg, PushOff(rest, Item(text, ins.op), cg.max), ins.op, to, end)
       IN  CASE ins.op = "pop" /\ ins.note = "pcdelta" ->
                  from(i + ins.off, first \o <<",">> \o operand(i + 1, i + ins.off))
             [] ins.op = "ifeq" ->
                  LET jump == i + ins.off
                  IN  from(cg.code[jump].num,
                           first \o <<"?">> \o operand(i + 1, jump) \o
                           <<":">> \o operand(jump + 1, cg.code[jump].num))
             [] ins.op \in {"or", "and"} ->
                  from(ins.num, first \o <<IF ins.op = "or" THEN "||" ELSE "&&">> \o
                                operand(i + 1, ins.num))
             [] OTHER -> Decompile(cg, PrintOp(cg, ss, lastop, i), ins.op, i + 1, end)

\* js_DecompileScript, without the return and its semicolon
js_DecompileScript(cg) == TopItem(Decompile(cg, <<>>, "nop", 1, Len(cg.code))).text
=============================================================================
