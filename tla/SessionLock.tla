---------------------------- MODULE SessionLock ----------------------------
(***************************************************************************)
(* The per-session lock of the lab's session manager: withSessionLock in   *)
(* src/src/lib/lab/sessions.ts.  The manager keeps one promise per session *)
(* id in a Map.  A caller chains its own gate behind the promise it found  *)
(* there, awaits the promise it found, runs its work, and opens its gate   *)
(* in a `finally`.  The promise under a key after n calls is therefore     *)
(* resolved exactly when gates 1..n are open.                              *)
(*                                                                         *)
(* The Map lives in the memory of one process: Restart is that process     *)
(* stopping, which forgets the promises together with everybody awaiting   *)
(* them.                                                                   *)
(***************************************************************************)
EXTENDS Integers

CONSTANTS
    Callers,     \* the calls that can be in flight at once
    Keys,        \* the locked things: session ids
    MaxLinks     \* bound on the calls chained to one key before a restart

ASSUME MaxLinksIsNat == MaxLinks \in Nat

VARIABLES
    chain,       \* chain[k]: how many gates have been chained to key k
    gates,       \* gates[k]: which of those gates are open
    at,          \* at[c]: where call c is
    key,         \* key[c]: the key of a call in flight
    place        \* place[c]: the number of its gate

lockVars == <<chain, gates, at, key, place>>

Links == 1..MaxLinks

LockTypeOK ==
    /\ chain \in [Keys -> 0..MaxLinks]
    /\ gates \in [Keys -> SUBSET Links]
    /\ at    \in [Callers -> {"out", "waiting", "working"}]
    /\ key   \in [Callers -> Keys]
    /\ place \in [Callers -> 0..MaxLinks]
    /\ \A c \in Callers : at[c] # "out" => place[c] \in Links

LockInit ==
    /\ chain = [k \in Keys |-> 0]
    /\ gates = [k \in Keys |-> {}]
    /\ at    = [c \in Callers |-> "out"]
    /\ key   \in [Callers -> Keys]
    /\ place = [c \in Callers |-> 0]

(***************************************************************************)
(* The promise the call found under its key has resolved: every gate       *)
(* chained before its own is open.                                         *)
(***************************************************************************)
PreviousResolved(c) == \A n \in Links : n < place[c] => n \in gates[key[c]]

(***************************************************************************)
(* The synchronous prefix of the call, up to `await previous`.             *)
(***************************************************************************)
Request(c, k) ==
    /\ at[c] = "out"
    /\ chain[k] < MaxLinks
    /\ chain' = [chain EXCEPT ![k] = @ + 1]
    /\ place' = [place EXCEPT ![c] = chain[k] + 1]
    /\ key'   = [key EXCEPT ![c] = k]
    /\ at'    = [at EXCEPT ![c] = "waiting"]
    /\ UNCHANGED gates

\* A mutation: the call does not await the promise it found.
EnterAtOnce(c) ==
    /\ at[c] = "waiting"
    /\ at' = [at EXCEPT ![c] = "working"]
    /\ UNCHANGED <<chain, gates, key, place>>

\* A mutation: a flag that somebody is at work, in place of the chain.
EnterWhenFree(c) ==
    /\ at[c] = "waiting"
    /\ \A d \in Callers : at[d] = "working" => key[d] # key[c]
    /\ at' = [at EXCEPT ![c] = "working"]
    /\ UNCHANGED <<chain, gates, key, place>>

Enter(c) ==
    /\ at[c] = "waiting"
    /\ PreviousResolved(c)
    /\ at' = [at EXCEPT ![c] = "working"]
    /\ UNCHANGED <<chain, gates, key, place>>

\* A mutation: the gate is not in a `finally`, and work that throws leaves it shut.
LeaveOnSuccessOnly(c) ==
    /\ at[c] = "working"
    /\ \E threw \in BOOLEAN :
        gates' = [gates EXCEPT ![key[c]] = IF threw THEN @ ELSE @ \union {place[c]}]
    /\ at'    = [at EXCEPT ![c] = "out"]
    /\ UNCHANGED <<chain, key, place>>

(***************************************************************************)
(* The `finally`: the gate opens whether the work returned or threw.  The  *)
(* entry in the Map stays, because the code compares it with a promise it  *)
(* has just made, which no entry can equal.                                *)
(***************************************************************************)
Leave(c) ==
    /\ at[c] = "working"
    /\ gates' = [gates EXCEPT ![key[c]] = @ \union {place[c]}]
    /\ at'    = [at EXCEPT ![c] = "out"]
    /\ UNCHANGED <<chain, key, place>>

Restart ==
    /\ chain' = [k \in Keys |-> 0]
    /\ gates' = [k \in Keys |-> {}]
    /\ at'    = [c \in Callers |-> "out"]
    /\ UNCHANGED <<key, place>>

LockNext ==
    \/ \E c \in Callers, k \in Keys : Request(c, k)
    \/ \E c \in Callers : Enter(c)
    \/ \E c \in Callers : Leave(c)
    \/ Restart

(***************************************************************************)
(* Fairness: a resolved promise is delivered by the event loop, and the    *)
(* work a caller does under the lock ends, because every wait in it has a  *)
(* deadline.  Nobody has to call.                                          *)
(***************************************************************************)
LockFairness == \A c \in Callers : WF_lockVars(Enter(c)) /\ WF_lockVars(Leave(c))

LockSpec == LockInit /\ [][LockNext]_lockVars

FairLockSpec == LockSpec /\ LockFairness

-----------------------------------------------------------------------------
Queued(c, k) == at[c] # "out" /\ key[c] = k

(***************************************************************************)
(* "One lock per session, so two callers cannot provision the same session *)
(* twice": two calls are never inside the work of one key together.        *)
(***************************************************************************)
MutualExclusion ==
    \A c, d \in Callers :
        at[c] = "working" /\ at[d] = "working" /\ key[c] = key[d] => c = d

(***************************************************************************)
(* Why it holds: calls on a key have places of their own within the chain, *)
(* the gate of a call in flight is still shut, and a call is at work only  *)
(* once every gate before its own is open.                                 *)
(***************************************************************************)
LockInv ==
    /\ \A c \in Callers : at[c] # "out" => place[c] \in 1..chain[key[c]]
    /\ \A c \in Callers : at[c] # "out" => place[c] \notin gates[key[c]]
    /\ \A k \in Keys : \A n \in gates[k] : n <= chain[k]
    /\ \A c, d \in Callers :
        at[c] # "out" /\ at[d] # "out" /\ key[c] = key[d] /\ place[c] = place[d] => c = d
    /\ \A c \in Callers : at[c] = "working" => PreviousResolved(c)

(***************************************************************************)
(* Every call that waits is let in (or lost with its process).             *)
(***************************************************************************)
NobodyWaitsForever == \A c \in Callers : (at[c] = "waiting") ~> (at[c] # "waiting")
=============================================================================
