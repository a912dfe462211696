-------------------------- MODULE MCEvidenceChain ---------------------------
(***************************************************************************)
(* Model checking of EvidenceChain: two processes, one of which has two    *)
(* appends in flight.                                                      *)
(***************************************************************************)
EXTENDS EvidenceChain, TLC

CONSTANTS w1, w2, w3, p1, p2

TwoInOne == w1 :> p1 @@ w2 :> p1 @@ w3 :> p2
=============================================================================
