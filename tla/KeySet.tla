------------------------------- MODULE KeySet -------------------------------
(***************************************************************************)
(* What a hash table promises its users (jsdhash.h, jshash.h): a set of    *)
(* keys with their entries.  Adding a key may fail for want of memory and  *)
(* then changes nothing; an enumeration may remove some of the entries.    *)
(***************************************************************************)
CONSTANTS Keys

VARIABLES
    present,   \* the keys a lookup finds
    answer     \* between calls "idle", else what a call has been asked and says

Idle == [op |-> "idle", keys |-> {}, ok |-> TRUE]

KeySetInit == present = {} /\ answer = Idle

Answers(op, keys, ok) ==
    answer = Idle /\ answer' = [op |-> op, keys |-> keys, ok |-> ok]

Add(k) ==
    \/ Answers("add", {k}, TRUE) /\ present' = present \cup {k}
    \/ Answers("add", {k}, FALSE) /\ present' = present

Remove(k) == Answers("remove", {k}, TRUE) /\ present' = present \ {k}

EnumerateRemoving ==
    /\ Answers("enumerate", answer'.keys, TRUE)
    /\ answer'.keys \subseteq present
    /\ present' = present \ answer'.keys

Return == answer # Idle /\ answer' = Idle /\ present' = present

KeySetNext ==
    \/ Return
    \/ \E k \in Keys : Add(k) \/ Remove(k)
    \/ EnumerateRemoving

KeySetSpec == KeySetInit /\ [][KeySetNext]_<<present, answer>>
=============================================================================
