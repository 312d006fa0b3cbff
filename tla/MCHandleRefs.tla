---------------------------- MODULE MCHandleRefs ----------------------------
(* Two threads: t1 has the variables v1 and v2 and makes calls, t2 has v3.  *)
EXTENDS HandleRefs, TLC

CONSTANTS t1, t2, v1, v2, v3

MCUserOf == (v1 :> t1) @@ (v2 :> t1) @@ (v3 :> t2)

Symmetry == Permutations(Objects) \cup Permutations(Slots) \cup Permutations(Handles)
              \cup Permutations({v1, v2})
=============================================================================
