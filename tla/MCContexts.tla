----------------------------- MODULE MCContexts -----------------------------
(***************************************************************************)
(* One run for what contexts keep: local roots, the activation of a        *)
(* function, and requests, two threads under fair scheduling.  These share *)
(* no state: a behaviour chooses a part and stays with it.                 *)
(***************************************************************************)
EXTENDS LocalRoots, GcRequest, Frames, TLC

CONSTANTS v1, v2, v3,     \* LocalRoots: things
          c1, c2, t1, t2  \* GcRequest: contexts, and a thread for each

VARIABLE part

MCThreadOf == (c1 :> t1) @@ (c2 :> t2)

-----------------------------------------------------------------------------

contextsVars == <<part, lrVars, vars, frameVars>>

ContextsInit ==
  /\ part \in {"local roots", "requests", "activations"}
  /\ LRInit /\ Init
  /\ FramesInit /\ (part # "activations" => fp.argc = 0 /\ ~callObj.made)

ContextsNext ==
  /\ UNCHANGED part
  /\ IF part = "local roots" THEN LRNext ELSE UNCHANGED lrVars
  /\ IF part = "requests" THEN Next ELSE UNCHANGED vars
  /\ IF part = "activations" THEN FramesNext ELSE UNCHANGED frameVars

\* Nothing of the requests is enabled, to be fair to, in the other parts.
ContextsSpec == ContextsInit /\ [][ContextsNext]_contextsVars /\ Fairness
=============================================================================
