--------------------------- MODULE MCLabSessions ----------------------------
(***************************************************************************)
(* Model checking of LabSessions: the symmetry the safety runs use, and a  *)
(* pool that was filled before.  Students, and the calls of one process,   *)
(* are only compared with each other, so permuting them maps behaviours to *)
(* behaviours.                                                             *)
(***************************************************************************)
EXTENDS LabSessions, TLC

CONSTANT sc1

OneMachine == {PoolName(sc1, 1)}

Symmetry == Permutations(Students) \union Permutations(WebCalls)
=============================================================================
