-------------------------- MODULE MCLabSubmission ---------------------------
(***************************************************************************)
(* Model checking of LabSubmission: marks around the pass marks.           *)
(***************************************************************************)
EXTENDS LabSubmission, TLC

\* 59 points of 74, so 79.7% and 80%; a grading run may still fail.
OneMachine == {[earned |-> 59, total |-> 74, critical |-> FALSE]}

\* A write-up that clears the form's mark, and one that does not.
SomeWriteUps ==
    {[score |-> 1000, submitted |-> TRUE], [score |-> 300, submitted |-> TRUE]}

\* One session of this app, and one session of a peer lab.
SomeKeys == InAppKeys \union {<<"peer", 1>>}

Symmetry == Permutations(WebCalls)
=============================================================================
