----------------------------- MODULE LabModels ------------------------------
(***************************************************************************)
(* The states of a lab session and the machine names of the range, from    *)
(* src/src/lib/lab/models.ts and src/src/lib/lab/config.ts.                *)
(***************************************************************************)
EXTENDS Integers

SessionStates ==
    {"requested", "allocating", "provisioning", "ready", "in_use", "checking",
     "passed", "failed", "recycling", "destroyed", "error"}

\* The student can still be handed this machine.
LiveStates ==
    {"requested", "allocating", "provisioning", "ready", "in_use", "checking"}

\* The machine is the student's to sit in front of.
UsableStates == {"ready", "in_use", "passed"}

TerminalStates == {"destroyed", "error"}

(***************************************************************************)
(* Machine names.  A workload is part of the scenario here: the code keys  *)
(* both by the pair.  sessionName carries the row's id, poolName an index. *)
(***************************************************************************)
NoInstance == [kind |-> "none"]

SessionName(scenario, sid)  == [kind |-> "session", scenario |-> scenario, n |-> sid]
PoolName(scenario, index)   == [kind |-> "pool", scenario |-> scenario, n |-> index]
=============================================================================
