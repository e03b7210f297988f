--------------------------- MODULE LocalRootScopes ---------------------------
(***************************************************************************)
(* What jsapi.h promises of JS_EnterLocalRootScope and its companions: a   *)
(* stack of scopes, each holding the things allocated since it was entered *)
(* and not forgotten.                                                      *)
(***************************************************************************)
EXTENDS Sequences, SequencesExt

CONSTANT Things

VARIABLE scopes     \* a sequence of scopes, each a sequence of things

Init == scopes = <<>>

InScope == scopes # <<>>

(* JS_EnterLocalRootScope *)
Enter == scopes' = Append(scopes, <<>>)

(* Every newborn of the current scope is rooted in it. *)
Allocate(v) ==
    /\ InScope
    /\ scopes' = [scopes EXCEPT ![Len(scopes)] = Append(@, v)]

(* JS_ForgetLocalRoot: the youngest root for v goes; the last one takes its place. *)
Forget(v) ==
    /\ InScope
    /\ LET top == Last(scopes)
           i   == SelectLastInSeq(top, LAMBDA u : u = v)
       IN  /\ i > 0
           /\ scopes' = [scopes EXCEPT ![Len(scopes)] =
                            Front(IF i = Len(top) THEN top ELSE [top EXCEPT ![i] = Last(top)])]

(* JS_LeaveLocalRootScope *)
Leave ==
    /\ InScope
    /\ scopes' = Front(scopes)

Next == Enter \/ Leave \/ \E v \in Things : Allocate(v) \/ Forget(v)

Spec == Init /\ [][Next]_scopes
=============================================================================
