----------------------------- MODULE MCObjects -----------------------------
(***************************************************************************)
(* An object with hooks and its prototype.  Two of their properties share  *)
(* an entry of the cache.                                                  *)
(***************************************************************************)
EXTENDS NativeObjects, TLC

CONSTANTS proto, child

MCProtoChain == (proto :> <<proto>>) @@ (child :> <<child, proto>>)
MCScopeChain == <<child, proto>>
MCCacheHash ==
  (<<proto, 1>> :> 1) @@ (<<child, 1>> :> 2) @@ (<<proto, 2>> :> 2) @@ (<<child, 2>> :> 3)
MCPropOffers ==
  {<<proto, 1, "plain">>, <<proto, 2, "shared">>, <<proto, 2, "half">>,
   <<child, 1, "hooked">>, <<child, 2, "hooked">>, <<child, 2, "half">>}
=============================================================================
