---------------------------- MODULE MCLocalRoots ----------------------------
(* Chunks of three entries instead of 64, and a count that wraps at nine. *)
EXTENDS LocalRoots

CONSTANTS a, b, c
=============================================================================
