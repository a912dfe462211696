------------------------------ MODULE FifoLock ------------------------------
(***************************************************************************)
(* What a caller of the per-session lock is promised: the calls on a key   *)
(* are served one at a time, in the order they were made.                  *)
(***************************************************************************)
EXTENDS Sequences

CONSTANTS Callers, Keys

VARIABLES
    queue,    \* queue[k]: the calls on key k that are not done, oldest first
    inside    \* inside[k]: whether the oldest of them has started its work

fifoVars == <<queue, inside>>

Waiting(c) == \E k \in Keys : \E i \in DOMAIN queue[k] : queue[k][i] = c

FifoInit ==
    /\ queue  = [k \in Keys |-> <<>>]
    /\ inside = [k \in Keys |-> FALSE]

Arrive(c, k) ==
    /\ ~Waiting(c)
    /\ queue' = [queue EXCEPT ![k] = Append(@, c)]
    /\ UNCHANGED inside

Start(k) ==
    /\ queue[k] # <<>>
    /\ ~inside[k]
    /\ inside' = [inside EXCEPT ![k] = TRUE]
    /\ UNCHANGED queue

Finish(k) ==
    /\ inside[k]
    /\ queue'  = [queue EXCEPT ![k] = Tail(@)]
    /\ inside' = [inside EXCEPT ![k] = FALSE]

\* The process holding the queues stops, and everybody in them with it.
Forget ==
    /\ queue'  = [k \in Keys |-> <<>>]
    /\ inside' = [k \in Keys |-> FALSE]

FifoNext ==
    \/ \E c \in Callers, k \in Keys : Arrive(c, k)
    \/ \E k \in Keys : Start(k) \/ Finish(k)
    \/ Forget

FifoSpec == FifoInit /\ [][FifoNext]_fifoVars
=============================================================================
