--------------------------- MODULE MCSessionLock ----------------------------
(***************************************************************************)
(* SessionLock for TLC, and the mapping under which it implements          *)
(* FifoLock: the queue of a key is its calls in flight by place.           *)
(***************************************************************************)
EXTENDS SessionLock, FiniteSets

InFlight(k) == {c \in Callers : Queued(c, k)}

\* The members of S by their number: the i-th is the one that i numbers do not exceed.
Ranked(S, number) ==
    [i \in 1..Cardinality(S) |->
        CHOOSE c \in S : Cardinality({d \in S : number[d] <= number[c]}) = i]

ByPlace(k) == Ranked(InFlight(k), place)

Promise ==
    INSTANCE FifoLock WITH
        queue  <- [k \in Keys |-> ByPlace(k)],
        inside <- [k \in Keys |-> \E c \in InFlight(k) : at[c] = "working"]

(***************************************************************************)
(* The chained promises serve the calls on a session one at a time and in  *)
(* the order they were made.                                               *)
(***************************************************************************)
ServedInOrder == Promise!FifoSpec
=============================================================================
