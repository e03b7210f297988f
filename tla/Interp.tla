------------------------------- MODULE Interp -------------------------------
(***************************************************************************)
(* The interpreter's loop over the bytecode of an expression               *)
(* (jsinterp.c), between the compiler and the decompiler.                  *)
(*                                                                         *)
(* Values are symbolic.  What the expression does to the rest of the       *)
(* program, every operation that may run a getter, a conversion or a       *)
(* function, is an event of a trace, and what such an operation gives back *)
(* is <<"result", k>> for the k-th event.  Which way a test of an unknown  *)
(* value goes, and whether a name is found, is open, and recorded.         *)
(***************************************************************************)
EXTENDS Decompiler

CONSTANTS Sources   \* the expressions, sequences of tokens

VARIABLES
  expr,      \* the expression
  stage,     \* "source", "compiled", "printed", "running", "done" or "failed"
  cg,        \* its bytecode
  text,      \* what js_DecompileScript makes of it
  pc,
  operands,  \* fp->spbase up to sp
  obj,       \* the obj register of js_Interpret
  slots,     \* fp->argv and fp->vars: a value for every name that has a slot
  trace

exprVars == <<expr, stage, cg, text, pc, operands, obj, slots, trace>>

(***************************************************************************)
(* Values.                                                                 *)
(***************************************************************************)
Num(k) == <<"num", k>>
Str(s) == <<"str", s>>
Prim(op) == <<"prim", op>>
Undefined == <<"undefined">>
NullObject == <<"null">>
Bool(b) == Prim(IF b THEN "true" ELSE "false")
Kind(v) == v[1]

\* The values a test of v may have: js_ValueToBoolean
Truths(v) ==
  CASE Kind(v) = "num" -> {v[2] # 0}
    [] Kind(v) = "str" -> {v[2] # ""}
    [] Kind(v) = "prim" -> {v[2] \in {"true", "this"}}
    [] Kind(v) \in {"undefined", "null"} -> {FALSE}
    [] Kind(v) = "object" -> {TRUE}
    [] OTHER -> BOOLEAN
Not(v) == IF Truths(v) = BOOLEAN THEN <<"not", v>> ELSE Bool(FALSE \in Truths(v))

IsConstant(v) == Kind(v) \in {"num", "str"}
ToNumber(v) == IF Kind(v) = "str" /\ v[2] \in Numerals THEN Num(NumberOf(v[2])) ELSE v
ToText(v) == IF Kind(v) = "num" THEN ToString(v[2]) ELSE v[2]
NumberOnly == {"sub", "mul", "lsh", "bitor", "bitxor", "bitand"}

\* Whether op on two values does nothing but compute <<its value>>; otherwise <<>>.
Computed(op, l, r) ==
  IF op = "add" /\ IsConstant(l) /\ IsConstant(r)
  THEN <<IF Kind(l) = "num" /\ Kind(r) = "num" THEN Num(l[2] + r[2])
         ELSE Str(ToText(l) \o ToText(r))>>
  ELSE IF op \in {"sub", "mul", "lsh"} /\ Kind(ToNumber(l)) = "num" /\ Kind(ToNumber(r)) = "num"
  THEN <<Num(Arith(op, ToNumber(l)[2], ToNumber(r)[2]))>>
  ELSE <<>>
Operand(op, v) == IF op \in NumberOnly THEN ToNumber(v) ELSE v
Plus(v, by) == IF Kind(v) = "num" THEN Num(v[2] + by) ELSE <<"plus", v, by>>
Converted(op, v) ==   \* a unary operator on a number
  CASE op = "neg" -> Num(-v[2]) [] op = "bitnot" -> Num(-v[2] - 1) [] op = "pos" -> v

(***************************************************************************)
(* Writing, compiling and printing an expression.                          *)
(***************************************************************************)
InitialValues == [name \in ArgNames \cup VarNames |-> <<"slot", name>>]

ExprInitOf(source) ==
  /\ expr = source
  /\ stage = "source"
  /\ cg = EmptyCode
  /\ text = <<>>
  /\ pc = 1
  /\ operands = <<>>
  /\ obj = NullObject
  /\ slots = InitialValues
  /\ trace = <<>>
ExprInit == \E source \in Sources : ExprInitOf(source)

CompileIt ==
  /\ stage = "source"
  /\ stage' = "compiled"
  /\ cg' = CompileScript(js_FoldConstants(Parse(expr)))
  /\ UNCHANGED <<expr, text, pc, operands, obj, slots, trace>>

DecompileIt ==
  /\ stage = "compiled"
  /\ stage' = "printed"
  /\ text' = js_DecompileScript(cg)
  /\ UNCHANGED <<expr, cg, pc, operands, obj, slots, trace>>

StartRun ==
  /\ stage = "compiled"
  /\ stage' = "running"
  /\ UNCHANGED <<expr, cg, text, pc, operands, obj, slots, trace>>

(***************************************************************************)
(* One step of the loop.                                                   *)
(***************************************************************************)
Instruction == cg.code[pc]
Executing(ops) == stage = "running" /\ Instruction.op \in ops
sp(k) == operands[Len(operands) + 1 - k]                  \* sp[-k]
Under(k) == SubSeq(operands, 1, Len(operands) - k)
Result(k) == <<"result", Len(trace) + k>>                 \* of the k-th event from now
Do(events) == trace' = trace \o events
Quiet == UNCHANGED <<expr, stage, cg, text>>
Advance == pc' = pc + 1 /\ Quiet
Replace(k, v) == operands' = Append(Under(k), v)            \* pops k and pushes v
Id == Str(Instruction.atom)

Literals ==
  /\ Executing({"zero", "one", "uint16", "number", "string", "null", "this", "true", "false",
              "getarg", "getvar"})
  /\ LET op == Instruction.op
     IN  Replace(0, CASE op = "zero" -> Num(0) [] op = "one" -> Num(1)
                    [] op \in {"uint16", "number"} -> Num(Instruction.num)
                    [] op = "string" -> Str(Instruction.atom)
                    [] op \in {"getarg", "getvar"} -> slots[Instruction.atom]
                    [] op = "null" -> NullObject
                    [] OTHER -> Prim(op))
  /\ obj' = NullObject
  /\ Advance /\ UNCHANGED <<slots, trace>>

SetSlotOp ==
  /\ Executing({"setarg", "setvar"})
  /\ slots' = [slots EXCEPT ![Instruction.atom] = sp(1)]
  /\ obj' = NullObject
  /\ Advance /\ UNCHANGED <<operands, trace>>

StackOps ==
  /\ Executing({"push", "pushobj", "dup", "dup2", "void", "not", "typeof"})
  /\ LET op == Instruction.op
     IN  operands' = CASE op = "push"    -> Append(operands, Undefined)
                       [] op = "pushobj" -> Append(operands, obj)
                       [] op = "dup"     -> Append(operands, sp(1))
                       [] op = "dup2"    -> operands \o <<sp(2), sp(1)>>
                       [] op = "void"    -> Append(Under(1), Undefined)
                       [] op = "not"     -> Append(Under(1), Not(sp(1)))
                       [] op = "typeof"  -> Append(Under(1), <<"typeof", sp(1)>>)
  /\ Advance /\ UNCHANGED <<obj, slots, trace>>

\* Mutant of Group: obj stays what it was.
GroupKeepingObj ==
  /\ Executing({"group"})
  /\ Advance /\ UNCHANGED <<operands, obj, slots, trace>>
Group ==
  /\ Executing({"group"})
  /\ obj' = NullObject
  /\ Advance /\ UNCHANGED <<operands, slots, trace>>

EndInit ==
  /\ Executing({"endinit"})
  /\ Advance /\ UNCHANGED <<operands, obj, slots, trace>>

Pop ==
  /\ Executing({"pop"})
  /\ operands' = Under(1)
  /\ Advance /\ UNCHANGED <<obj, slots, trace>>

ReturnValue ==
  /\ Executing({"return"})
  /\ operands' = Under(1)
  /\ stage' = "done"
  /\ Do(<<<<"value", sp(1)>>>>)
  /\ UNCHANGED <<expr, cg, text, pc, obj, slots>>

GotoOp ==
  /\ Executing({"goto"})
  /\ pc' = Instruction.num
  /\ Quiet /\ UNCHANGED <<operands, obj, slots, trace>>

Branch ==
  /\ Executing({"ifeq", "or", "and"})
  /\ \E b \in Truths(sp(1)) :
       LET jumps == b = (Instruction.op = "or")
       IN  /\ pc' = IF jumps THEN Instruction.num ELSE pc + 1
           /\ operands' = IF jumps /\ Instruction.op # "ifeq" THEN operands ELSE Under(1)
           /\ IF Truths(sp(1)) = BOOLEAN THEN Do(<<<<"test", sp(1), b>>>>) ELSE UNCHANGED trace
  /\ Quiet /\ UNCHANGED <<obj, slots>>

\* js_FindProperty did not find the name: an error, unless typeof comes next.
RECURSIVE BeforeTypeof(_)
BeforeTypeof(i) ==
  \/ cg.code[i].op = "typeof"
  \/ cg.code[i].op = "group" /\ BeforeTypeof(i + 1)
NotFound ==
  /\ Executing({"name", "incname", "decname", "nameinc", "namedec"})
  /\ Do(<<<<"not found", Instruction.atom>>>>)
  /\ obj' = <<"object", Len(trace) + 1>>
  /\ IF Instruction.op = "name" /\ BeforeTypeof(pc + 1)
     THEN Replace(0, Undefined) /\ Advance
     ELSE stage' = "failed" /\ UNCHANGED <<expr, cg, text, pc, operands>>
  /\ UNCHANGED slots

Name ==
  /\ Executing({"name"})
  /\ Do(<<<<"name", Instruction.atom>>>>)
  /\ obj' = <<"object", Len(trace) + 1>>
  /\ Replace(0, Result(1))
  /\ Advance /\ UNCHANGED slots

BindName ==
  /\ Executing({"bindname"})
  /\ Do(<<<<"bind", Instruction.atom>>>>)
  /\ obj' = <<"object", Len(trace) + 1>>
  /\ Replace(0, obj')
  /\ Advance /\ UNCHANGED slots

DeleteName ==
  /\ Executing({"delname"})
  /\ Do(<<<<"delete name", Instruction.atom>>>>)
  /\ obj' = <<"object", Len(trace) + 1>>
  /\ Replace(0, Result(1))
  /\ Advance /\ UNCHANGED slots

\* PROPERTY_OP and ELEMENT_OP
Access ==
  /\ Executing({"getprop", "getelem", "delprop", "delelem"})
  /\ LET elem == Instruction.op \in {"getelem", "delelem"}
         n    == IF elem THEN 2 ELSE 1
         what == IF Instruction.op \in {"getprop", "getelem"} THEN "get" ELSE "delete"
     IN  /\ Do(<<<<what, sp(n), IF elem THEN sp(1) ELSE Id>>>>)
         /\ obj' = sp(n)
         /\ Replace(n, Result(1))
  /\ Advance /\ UNCHANGED slots

Set ==
  /\ Executing({"setname", "setprop", "setelem", "initprop", "initelem"})
  /\ LET n == js_CodeSpec[Instruction.op].nuses
         init == Instruction.op \in {"initprop", "initelem"}
         base == IF init THEN sp(n + 1) ELSE sp(n)
     IN  /\ Do(<<<<"set", base, IF Instruction.op \in {"setelem", "initelem"} THEN sp(2) ELSE Id,
                   sp(1)>>>>)
         /\ obj' = base
         /\ IF init THEN operands' = Under(n) ELSE Replace(n, sp(1))
  /\ Advance /\ UNCHANGED slots

Binary ==
  /\ Executing(BinaryOps)
  /\ LET op == Instruction.op
         l  == Operand(op, sp(2))
         r  == Operand(op, sp(1))
     IN  IF Computed(op, l, r) # <<>>
         THEN Replace(2, Computed(op, l, r)[1]) /\ UNCHANGED trace
         ELSE Do(<<<<op, l, r>>>>) /\ Replace(2, Result(1))
  /\ Advance /\ UNCHANGED <<obj, slots>>

Unary ==
  /\ Executing({"neg", "pos", "bitnot"})
  /\ LET v == ToNumber(sp(1))
     IN  IF Kind(v) = "num" THEN Replace(1, Converted(Instruction.op, v)) /\ UNCHANGED trace
         ELSE Do(<<<<Instruction.op, v>>>>) /\ Replace(1, Result(1))
  /\ Advance /\ UNCHANGED <<obj, slots>>

Posts == {"nameinc", "namedec", "propinc", "propdec", "eleminc", "elemdec", "arginc", "argdec",
          "varinc", "vardec"}
By(op) == IF op \in Increments THEN 1 ELSE -1

\* do_incop: the property is got, made a number, and set to what comes after it.
IncProperty ==
  /\ Executing(UNION {{IncOps[k][i][1], IncOps[k][i][2]} : k \in References, i \in 1..2})
  /\ LET op    == Instruction.op
         name  == op \in {"incname", "decname", "nameinc", "namedec"}
         elem  == op \in {"incelem", "decelem", "eleminc", "elemdec"}
         n     == js_CodeSpec[op].nuses
         base  == IF name THEN <<"object", Len(trace) + 1>> ELSE sp(n)
         id    == IF elem THEN sp(1) ELSE Id
         first == IF name THEN 1 ELSE 0
         value == Result(first + 2)
     IN  /\ Do((IF name THEN <<<<"find", Instruction.atom>>>> ELSE <<>>) \o
               <<<<"get", base, id>>, <<"number", Result(first + 1)>>,
                 <<"set", base, id, Plus(value, By(op))>>>>)
         /\ obj' = base
         /\ Replace(n, IF op \in Posts THEN value ELSE Plus(value, By(op)))
  /\ Advance /\ UNCHANGED slots

\* FAST_INCREMENT_OP, which leaves obj alone
IncSlot ==
  /\ Executing({"incarg", "decarg", "arginc", "argdec", "incvar", "decvar", "varinc", "vardec"})
  /\ LET op    == Instruction.op
         v     == ToNumber(slots[Instruction.atom])
         value == IF Kind(v) = "num" THEN v ELSE Result(1)
     IN  /\ IF Kind(v) = "num" THEN UNCHANGED trace ELSE Do(<<<<"number", v>>>>)
         /\ slots' = [slots EXCEPT ![Instruction.atom] = Plus(value, By(op))]
         /\ Replace(0, IF op \in Posts THEN value ELSE Plus(value, By(op)))
  /\ Advance /\ UNCHANGED obj

Args(n) == [i \in 1..n |-> sp(n + 1 - i)]
CallOp ==
  /\ Executing({"call"})
  /\ LET n == Instruction.num
     IN  Do(<<<<"call", sp(n + 2), sp(n + 1), Args(n)>>>>) /\ Replace(n + 2, Result(1))
  /\ obj' = NullObject
  /\ Advance /\ UNCHANGED slots

New ==
  /\ Executing({"new", "newinit"})
  /\ LET n == Instruction.num
     IN  Do(<<<<"new", sp(n + 2), Args(n)>>>>) /\ Replace(n + 2, <<"object", Len(trace) + 1>>)
  /\ obj' = <<"object", Len(trace) + 1>>
  /\ Advance /\ UNCHANGED slots

ExprNext ==
  \/ CompileIt \/ DecompileIt \/ StartRun
  \/ Literals \/ SetSlotOp \/ StackOps \/ Group \/ EndInit \/ Pop \/ ReturnValue \/ GotoOp \/ Branch
  \/ NotFound \/ Name \/ BindName \/ DeleteName \/ Access \/ Set
  \/ Binary \/ Unary \/ IncProperty \/ IncSlot \/ CallOp \/ New
=============================================================================
