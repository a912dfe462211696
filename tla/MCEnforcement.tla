--------------------------- MODULE MCEnforcement ----------------------------
(***************************************************************************)
(* Model checking of Enforcement: one server, two calls beside its expiry  *)
(* loop, two administrators, and a safe list that is written while an      *)
(* action waits.                                                           *)
(***************************************************************************)
EXTENDS Enforcement, TLC

CONSTANTS ann, ben, dot, web

\* What an administrator, and what the service desk, asks for.
FromConsole == [targets |-> {web}, by |-> ann, admin |-> TRUE, permanent |-> FALSE]
FromDesk    == [targets |-> {web}, by |-> dot, admin |-> FALSE, permanent |-> FALSE]

OneProposal   == {FromConsole}
DeskProposals == {FromDesk}

Cautious ==
    [protectedTargets |-> {}, maxTargets |-> 1, maxActionsPerHour |-> 1, ttl |-> 1,
     allowPermanent |-> FALSE, requireSecondApprover |-> TRUE]

SomePolicies ==
    {Cautious, [Cautious EXCEPT !.protectedTargets = {web}],
               [Cautious EXCEPT !.requireSecondApprover = FALSE]}

Symmetry == Permutations(Callers) \union Permutations(Actions)
=============================================================================
