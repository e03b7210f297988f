----------------------------- MODULE Activation -----------------------------
(***************************************************************************)
(* What an activation promises the program: formals, extra actual          *)
(* arguments and local variables, and an arguments object whose elements   *)
(* are joined to the arguments while the function runs and they are not    *)
(* deleted.  What closures and the arguments object show outlives it.      *)
(***************************************************************************)
CONSTANTS
    Cells,        \* the arguments, by their index, and the local variables
    Elements,     \* indices of the arguments object
    Attributes,   \* its length and callee, and which one is `arguments'
    Undefined

VARIABLES
    cell,         \* what each argument and variable is
    element,      \* what each element of the arguments object is
    attribute,    \* what those are
    joined,       \* the elements that are arguments
    seen          \* the elements that have been looked at or assigned

AssignCell(c, v) ==
    /\ cell' = [cell EXCEPT ![c] = v]
    /\ element' = [i \in Elements |-> IF i = c /\ i \in joined THEN v ELSE element[i]]
    /\ UNCHANGED <<attribute, joined, seen>>

AssignElement(i, v) ==
    /\ element' = [element EXCEPT ![i] = v]
    /\ cell' = IF i \in joined THEN [cell EXCEPT ![i] = v] ELSE cell
    /\ seen \subseteq seen'
    /\ UNCHANGED <<attribute, joined>>

DeleteElement(i) ==
    /\ element' = [element EXCEPT ![i] = Undefined]
    /\ joined' = joined \ {i}
    /\ UNCHANGED <<cell, attribute>>

AssignAttribute(a, v) ==
    attribute' = [attribute EXCEPT ![a] = v] /\ UNCHANGED <<cell, element, joined, seen>>

Look == seen \subseteq seen' /\ UNCHANGED <<cell, element, attribute, joined>>

\* The frame goes: what was joined is not any more, and all keeps its value, but an
\* argument that was seen as an element may get an earlier one.
LeaveKeepingUnseen ==
    /\ joined' = {}
    /\ \A i \in Elements : i \notin joined \cap seen => element'[i] = element[i]
    /\ UNCHANGED <<cell, attribute>>

\* A step of the program, with the way the engine leaves an activation.
Step(values, leave) ==
    \/ \E c \in Cells, v \in values : AssignCell(c, v)
    \/ \E i \in Elements, v \in values : AssignElement(i, v)
    \/ \E i \in Elements : DeleteElement(i)
    \/ \E a \in Attributes, v \in values : AssignAttribute(a, v)
    \/ Look
    \/ leave
=============================================================================
