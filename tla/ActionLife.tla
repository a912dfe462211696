----------------------------- MODULE ActionLife -----------------------------
(***************************************************************************)
(* What enforcement promises of one prevention action's life: it is asked  *)
(* for or taken at once, a waiting one is approved by somebody other than  *)
(* its requester or refused, one in force is lifted, and that is all: it   *)
(* is refused or lifted for good.                                          *)
(*                                                                         *)
(* The promise is about actions that one caller at a time works on.  Once  *)
(* two callers have crossed on an action it is `crossed`, and nothing is   *)
(* promised of it any more.                                                *)
(***************************************************************************)
CONSTANTS
    Actions,        \* the actions there may be
    People          \* who may ask for one and approve it

VARIABLES
    life,           \* life[a]: a's state
    asked,          \* asked[a]: who asked for a
    approved,       \* approved[a]: who approved it
    crossed         \* the actions two callers have crossed on

lifeVars == <<life, asked, approved, crossed>>

LifeInit ==
    /\ life = [a \in Actions |-> "NONE"]
    /\ crossed = {}

Others(a) == \A b \in Actions \ {a} :
    life'[b] = life[b] /\ asked'[b] = asked[b] /\ approved'[b] = approved[b]

Same(a) == asked'[a] = asked[a] /\ approved'[a] = approved[a]

Ask(a)     == life[a] = "NONE" /\ life'[a] = "PENDING"
Take(a)    == life[a] = "NONE" /\ life'[a] = "ACTIVE"
Approve(a) == /\ life[a] = "PENDING" /\ life'[a] = "ACTIVE"
              /\ asked'[a] = asked[a] /\ approved'[a] # asked'[a]
Refuse(a)  == life[a] = "PENDING" /\ life'[a] = "REFUSED" /\ Same(a)
Lift(a)    == life[a] = "ACTIVE" /\ life'[a] = "LIFTED" /\ Same(a)

Moves(a) == (Ask(a) \/ Take(a) \/ Approve(a) \/ Refuse(a) \/ Lift(a)) /\ crossed' = crossed
Cross(a) == crossed' = crossed \union {a}

LifeNext == \E a \in Actions :
    /\ Others(a)
    /\ Moves(a) \/ Cross(a) \/ (a \in crossed /\ crossed' = crossed)

LifeSpec == LifeInit /\ [][LifeNext]_lifeVars
=============================================================================
