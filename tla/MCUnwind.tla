------------------------------ MODULE MCUnwind ------------------------------
(***************************************************************************)
(* A try statement with a finally block, in a with statement, whose only   *)
(* catch clause has a guard that fails or holds.                           *)
(***************************************************************************)
EXTENDS Unwind

Mark(i) == [op |-> "mark", name |-> i]

Guarded ==
  [op |-> "try", body |-> <<[op |-> "throw", value |-> 5]>>,
   catches |-> <<[guard |-> TRUE, body |-> <<Mark(2)>>]>>, final |-> <<Mark(3)>>]

GuardOnly ==
  {[block |-> <<[op |-> "with", body |-> <<Mark(1), Guarded, Mark(4)>>]>>, decisions |-> <<d>>] :
     d \in BOOLEAN}
=============================================================================
