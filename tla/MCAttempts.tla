----------------------------- MODULE MCAttempts -----------------------------
(***************************************************************************)
(* Model checking of Attempts: two requests at a time, work that passes    *)
(* until the checks are edited, and work that never does.                  *)
(***************************************************************************)
EXTENDS Attempts, TLC

CONSTANTS empty, good

OncePassed == 0 :> {good} @@ 1 :> {}

Symmetry == Permutations(Calls) \union Permutations(Ids)
=============================================================================
