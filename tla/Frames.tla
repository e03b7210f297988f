------------------------------- MODULE Frames -------------------------------
(***************************************************************************)
(* Activations (jsfun.c, the frame of js_Invoke and js_Interpret): the     *)
(* arguments and variables of a call live in its frame; the arguments      *)
(* object and, for a heavyweight function, the Call object reflect them    *)
(* lazily, property by property, and take copies when the frame goes.      *)
(* What is deleted or overridden is noted in a bitmap and in frame flags.  *)
(*                                                                         *)
(* One activation.  Formals have different names; indices are not          *)
(* negative (the four below zero are the engine's own tiny ids); the       *)
(* arguments object, once made, is held by the program.                    *)
(***************************************************************************)
EXTENDS Naturals

CONSTANTS
    NFormals,      \* fun->nargs
    MaxActuals,    \* bound: frame.argc
    VarCells,      \* local variables, numbers above the arguments'
    ElementIds,    \* bound: indices used of the arguments object
    ArgsNames,     \* length, callee: each stands for its value in the frame too
    JSValues,      \* values the program assigns, among them VOID
    VOID,
    NoSlot         \* no own property

ASSUME FramesAssumption ==
    /\ NFormals \in Nat /\ MaxActuals \in Nat /\ ElementIds \subseteq Nat
    /\ VarCells \subseteq Nat
    /\ \A c \in VarCells : c >= NFormals /\ c >= MaxActuals
    /\ "length" \in ArgsNames /\ "arguments" \notin ArgsNames
    /\ VOID \in JSValues /\ NoSlot \notin JSValues \cup ArgsNames \cup {"arguments"}

VARIABLES
    fp,            \* the frame: in use or gone, argc, argv and vars, flags
    argsObj,       \* made or not, its properties' slots, the deleted bitmap
    callObj        \* likewise, the slots of the formals, variables and `arguments'

frameVars == <<fp, argsObj, callObj>>

MAXARGS == IF fp.argc > NFormals THEN fp.argc ELSE NFormals

Formals == 0 .. NFormals - 1

ArgvSlots == 0 .. (IF MaxActuals > NFormals THEN MaxActuals ELSE NFormals) - 1

\* js_Invoke: missing arguments and variables start void.  A heavyweight
\* function gets its Call object at once.
FramesInit ==
    /\ \E argc \in 0 .. MaxActuals, heavy \in BOOLEAN :
       \E actuals \in [0 .. argc - 1 -> JSValues] :
        /\ fp = [live |-> TRUE, argc |-> argc,
                 cells |-> [c \in ArgvSlots \cup VarCells |->
                              IF c \in DOMAIN actuals THEN actuals[c] ELSE VOID],
                 overridden |-> {}]
        /\ callObj = [made |-> heavy, slots |-> [c \in Formals \cup VarCells |-> NoSlot],
                      arguments |-> NoSlot]
    /\ argsObj = [made |-> FALSE, elems |-> [i \in ElementIds |-> NoSlot],
                  names |-> [a \in ArgsNames |-> NoSlot], deleted |-> {}]

OverriddenArguments == "arguments" \in fp.overridden

----------------------------------------------------------------------------
(* The arguments object *)

\* js_GetArgsObject, for JSOP_ARGUMENTS
GetArgsObject ==
    /\ fp.live /\ ~argsObj.made /\ ~OverriddenArguments
    /\ argsObj' = [argsObj EXCEPT !.made = TRUE]
    /\ UNCHANGED <<fp, callObj>>

\* Mutant of ArgInFrame: the bitmap is not looked at.
ArgInFrameAnyway(i) == fp.live /\ i < MAXARGS

\* ArgWasDeleted is false, of an index below MAXARGS.
ArgInFrame(i) == fp.live /\ i < MAXARGS /\ i \notin argsObj.deleted

NameInFrame(a) == fp.live /\ a \notin fp.overridden

\* args_getProperty, on the value that the property's slot has.
ElementOf(i) ==
    IF ArgInFrame(i) THEN fp.cells[i]
    ELSE IF argsObj.elems[i] = NoSlot THEN VOID ELSE argsObj.elems[i]

NameOf(a) ==
    IF NameInFrame(a) THEN a
    ELSE IF argsObj.names[a] = NoSlot THEN VOID ELSE argsObj.names[a]

\* args_resolve: what a lookup makes of a missing property.
ResolvedElem(i) ==
    IF argsObj.elems[i] = NoSlot /\ ArgInFrame(i) THEN fp.cells[i] ELSE argsObj.elems[i]

ResolvedName(a) ==
    IF argsObj.names[a] = NoSlot /\ NameInFrame(a) THEN a ELSE argsObj.names[a]

\* js_GetProperty resolves, and stores the value got in the slot.
GetElem(i) ==
    /\ argsObj.made
    /\ ResolvedElem(i) # NoSlot
    /\ argsObj' = [argsObj EXCEPT !.elems[i] = ElementOf(i)]
    /\ UNCHANGED <<fp, callObj>>

SetElem(i, v) ==
    /\ argsObj.made
    /\ argsObj' = [argsObj EXCEPT !.elems[i] = v]
    /\ fp' = IF ArgInFrame(i) THEN [fp EXCEPT !.cells[i] = v] ELSE fp
    /\ UNCHANGED callObj

\* js_DeleteProperty calls args_delProperty also for what is not there.
DeleteElem(i) ==
    /\ argsObj.made
    /\ argsObj' = [argsObj EXCEPT !.elems[i] = NoSlot,
                                  !.deleted = IF fp.live /\ i < MAXARGS THEN @ \cup {i} ELSE @]
    /\ UNCHANGED <<fp, callObj>>

GetArgsName(a) ==
    /\ argsObj.made
    /\ ResolvedName(a) # NoSlot
    /\ argsObj' = [argsObj EXCEPT !.names[a] = NameOf(a)]
    /\ UNCHANGED <<fp, callObj>>

Override(names) == fp' = [fp EXCEPT !.overridden = IF fp.live THEN @ \cup names ELSE @]

SetArgsName(a, v) ==
    /\ argsObj.made
    /\ argsObj' = [argsObj EXCEPT !.names[a] = v]
    /\ Override({a})
    /\ UNCHANGED callObj

DeleteArgsName(a) ==
    /\ argsObj.made
    /\ argsObj' = [argsObj EXCEPT !.names[a] = NoSlot]
    /\ Override({a})
    /\ UNCHANGED callObj

----------------------------------------------------------------------------
(* Arguments and variables *)

\* JSOP_SETARG and JSOP_SETVAR
SetCell(c, v) ==
    /\ fp.live
    /\ fp' = [fp EXCEPT !.cells[c] = v]
    /\ UNCHANGED <<argsObj, callObj>>

\* By name, through the Call object: call_resolve, call_getProperty and
\* js_GetCallVariable; call_setProperty and js_SetCallVariable.
GetByName(c) ==
    /\ callObj.made
    /\ callObj' = IF fp.live THEN [callObj EXCEPT !.slots[c] = fp.cells[c]] ELSE callObj
    /\ UNCHANGED <<fp, argsObj>>

SetByName(c, v) ==
    /\ callObj.made
    /\ callObj' = [callObj EXCEPT !.slots[c] = v]
    /\ fp' = IF fp.live THEN [fp EXCEPT !.cells[c] = v] ELSE fp
    /\ UNCHANGED argsObj

\* An assignment to `arguments'
SetArguments(v) ==
    /\ callObj.made /\ fp.live
    /\ callObj' = [callObj EXCEPT !.arguments = v]
    /\ Override({"arguments"})
    /\ UNCHANGED argsObj

----------------------------------------------------------------------------
(* js_PutCallObject and js_PutArgsObject, when the frame goes *)

\* Mutant of CallSlot: what call_resolve reflected earlier is left as it was.
CallSlotReflected(c) == IF callObj.slots[c] = NoSlot THEN fp.cells[c] ELSE callObj.slots[c]

\* call_enumerate: a lookup reflects the property, and the slot is set.
CallSlot(c) == fp.cells[c]

\* args_enumerate only looks up what is not reflected yet.  Then the names
\* are got and set, deleted or not.
Put ==
    /\ fp' = [fp EXCEPT !.live = FALSE]
    /\ argsObj' = IF ~argsObj.made THEN argsObj
                  ELSE [argsObj EXCEPT !.elems = [i \in ElementIds |-> ResolvedElem(i)],
                                       !.names = [a \in ArgsNames |-> NameOf(a)],
                                       !.deleted = {}]
    /\ callObj' = IF ~callObj.made THEN callObj
                  ELSE [callObj EXCEPT !.slots = [c \in DOMAIN @ |-> CallSlot(c)],
                                       !.arguments = IF argsObj.made /\ @ = NoSlot
                                                     THEN "arguments" ELSE @]

LeaveFrame == fp.live /\ Put

----------------------------------------------------------------------------

FramesNext ==
    \/ GetArgsObject
    \/ \E i \in ElementIds :
        \/ GetElem(i) \/ DeleteElem(i)
        \/ \E v \in JSValues : SetElem(i, v)
    \/ \E a \in ArgsNames :
        \/ GetArgsName(a) \/ DeleteArgsName(a)
        \/ \E v \in JSValues : SetArgsName(a, v)
    \/ \E c \in Formals \cup VarCells :
        \/ GetByName(c)
        \/ \E v \in JSValues : SetCell(c, v) \/ SetByName(c, v)
    \/ \E v \in JSValues : SetArguments(v)
    \/ LeaveFrame

FramesSpec == FramesInit /\ [][FramesNext]_frameVars

----------------------------------------------------------------------------
(* JSOP_ARGSUB and JSOP_ARGCNT: js_GetArgsProperty, `arguments' not overridden. *)

ArgSub(i) ==
    IF i >= MAXARGS THEN VOID
    ELSE IF argsObj.made /\ i \in argsObj.deleted THEN ElementOf(i)
    ELSE fp.cells[i]

ArgCnt ==
    IF argsObj.made /\ "length" \in fp.overridden THEN NameOf("length") ELSE "length"

----------------------------------------------------------------------------
(* Correctness. *)

\* What the program sees of the activation, while it runs and afterwards.
ShownCell(c) ==
    IF fp.live \/ ~callObj.made \/ c \notin DOMAIN callObj.slots THEN fp.cells[c]
    ELSE callObj.slots[c]

\* Without an arguments object: what it would say.
ShownElement(i) ==
    IF argsObj.made THEN ElementOf(i) ELSE IF i < MAXARGS THEN fp.cells[i] ELSE VOID

ShownName(a) ==
    IF a = "arguments"
    THEN IF OverriddenArguments \/ (~fp.live /\ argsObj.made /\ callObj.made)
         THEN callObj.arguments ELSE a
    ELSE IF argsObj.made THEN NameOf(a) ELSE a

AC == INSTANCE Activation WITH
        Cells <- ArgvSlots \cup VarCells, Elements <- ElementIds,
        Attributes <- ArgsNames \cup {"arguments"}, Undefined <- VOID,
        cell <- [c \in ArgvSlots \cup VarCells |-> ShownCell(c)],
        element <- [i \in ElementIds |-> ShownElement(i)],
        attribute <- [a \in ArgsNames \cup {"arguments"} |-> ShownName(a)],
        joined <- {i \in ElementIds : ArgInFrame(i)},
        seen <- {i \in ElementIds : argsObj.elems[i] # NoSlot}

\* The opcodes that do without the arguments object say what it would say, of
\* the arguments.
FastReadsAgree ==
    fp.live /\ ~OverriddenArguments =>
        /\ \A i \in ElementIds : i < MAXARGS => ArgSub(i) = ElementOf(i)
        /\ ArgCnt = NameOf("length")

\* Whatever is read, assigned, deleted and reflected in whatever order, an
\* assignment is seen by every way to read what it assigned and by nothing
\* else, and the frame's end is not seen at all: closures and the arguments
\* object go on showing what was there, but for an argument that was seen as an
\* element before.
ActivationsOutliveFrames ==
    [][FastReadsAgree' /\ (UNCHANGED frameVars \/ AC!Step(JSValues, AC!LeaveKeepingUnseen))]_frameVars
=============================================================================
