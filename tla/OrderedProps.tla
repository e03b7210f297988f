---------------------------- MODULE OrderedProps ----------------------------
(***************************************************************************)
(* What a scope promises the objects that use it (jsscope.h): an ordered   *)
(* map from ids to attributes, in the order a for-in loop sees.  Adding an *)
(* id that is there moves it to the end.  An add that fails for want of    *)
(* memory may move the property to the end unchanged or lose it, and one   *)
(* that fails in the middle of forking the property tree leaves a scope of *)
(* which nothing is promised any more.                                     *)
(***************************************************************************)
EXTENDS Naturals, Sequences

CONSTANTS Scopes, Ids, Attrs

VARIABLES
    props,   \* scope -> id and attributes pairs, oldest first
    lost     \* the scopes of which nothing is promised

Pairs == Ids \X Attrs

Without(list, id) ==
    LET kept[i \in 0..Len(list)] ==
            IF i = 0 THEN <<>>
            ELSE IF list[i][1] = id THEN kept[i - 1] ELSE Append(kept[i - 1], list[i])
    IN kept[Len(list)]

With(list, id, attrs) == Append(Without(list, id), <<id, attrs>>)

Becomes(s, list) == props' = [props EXCEPT ![s] = list] /\ UNCHANGED lost

Lose(s) == props' = [props EXCEPT ![s] = <<>>] /\ lost' = lost \cup {s}

Put(s, id, attrs) == Becomes(s, With(props[s], id, attrs))

FailedPut(s) ==
    \E i \in DOMAIN props[s] :
        LET e == props[s][i] IN
        Becomes(s, With(props[s], e[1], e[2])) \/ Becomes(s, Without(props[s], e[1]))

Delete(s, id) == Becomes(s, Without(props[s], id))

OrderedPropsInit == props = [s \in Scopes |-> <<>>] /\ lost = {}

OrderedPropsNext ==
    \E s \in Scopes :
        /\ s \notin lost
        /\ \/ \E id \in Ids, attrs \in Attrs : Put(s, id, attrs)
           \/ FailedPut(s)
           \/ \E id \in Ids : Delete(s, id)
           \/ Becomes(s, <<>>)
           \/ Lose(s)

OrderedPropsStep == OrderedPropsNext \/ UNCHANGED <<props, lost>>

OrderedPropsSpec == OrderedPropsInit /\ [][OrderedPropsNext]_<<props, lost>>
=============================================================================
