----------------------------- MODULE MCRollout ------------------------------
(***************************************************************************)
(* Model checking of Rollout: two containers of one host.                  *)
(***************************************************************************)
EXTENDS Rollout, TLC

CONSTANTS web, cache, h1

OneHost == web :> h1 @@ cache :> h1

Symmetry == Permutations(Containers)
=============================================================================
