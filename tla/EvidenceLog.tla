---------------------------- MODULE EvidenceLog ----------------------------
(***************************************************************************)
(* What an append to the evidence log is to its caller: it is asked for,   *)
(* and either the entry is stored, once, and the caller told so, or the    *)
(* append throws, and then the entry may be there or not.  Nothing is      *)
(* stored that nobody asked for, and nothing stored goes away.  A caller   *)
(* that stops hears nothing of what it asked.                              *)
(***************************************************************************)
EXTENDS Naturals

CONSTANTS
    Writers,        \* who appends
    Events,         \* what is appended
    NoEvent         \* what nobody appends

VARIABLES
    log,            \* log[e]: how often e is stored
    asked           \* asked[w]: the append of w and what became of it

logVars == <<log, asked>>

Nothing == [at |-> "idle", event |-> NoEvent]

LogInit ==
    /\ log = [e \in Events |-> 0]
    /\ asked = [w \in Writers |-> Nothing]

\* What becomes of the log: the entry is in it once more, or perhaps not.
Takes(e)   == log' = [log EXCEPT ![e] = @ + 1]
MayTake(e) == Takes(e) \/ UNCHANGED log

Becomes(w, at) == asked' = [asked EXCEPT ![w].at = at]

Ask(w, e) ==
    /\ asked[w].at = "idle"
    /\ asked' = [asked EXCEPT ![w] = [at |-> "asked", event |-> e]]
    /\ UNCHANGED log

Store(w) == asked[w].at = "asked" /\ Takes(asked[w].event) /\ Becomes(w, "stored")
Throw(w) == asked[w].at = "asked" /\ MayTake(asked[w].event) /\ Becomes(w, "thrown")

Answer(w) ==
    /\ asked[w].at \in {"stored", "thrown"}
    /\ asked' = [asked EXCEPT ![w] = Nothing]
    /\ UNCHANGED log

Stop(W) ==
    /\ asked' = [w \in Writers |-> IF w \in W THEN Nothing ELSE asked[w]]
    /\ UNCHANGED log

LogNext ==
    \/ \E w \in Writers : Store(w) \/ Throw(w) \/ Answer(w)
    \/ \E w \in Writers, e \in Events : Ask(w, e)
    \/ \E W \in SUBSET Writers : Stop(W)

LogSpec == LogInit /\ [][LogNext]_logVars
=============================================================================
