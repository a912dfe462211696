------------------------------ MODULE Rollout -------------------------------
(***************************************************************************)
(* Container rollouts of Ontrak Sync: apply_rollouts, _roll_one and        *)
(* undo_roll of src/ontrak-sync/backend/ontrak/applier.py, decide_roll of  *)
(* rollout.py, and the container_rolls, rollout_targets and                *)
(* rollout_optouts tables of db.py.                                        *)
(*                                                                         *)
(* A pass or an undo holds RUN_LOCK from its first read to its last write. *)
(* Claims, releases and clears do not ask for it: they run beside a pass,  *)
(* on the same connection.  A pass reads the remit, the findings and the   *)
(* roll history once, and works through them for minutes.                  *)
(***************************************************************************)
EXTENDS Integers, Sequences, FiniteSets

CONSTANTS
    Containers,     \* what a remit can be about: one image in one container
    Hosts,
    HostOf,         \* the host of a container
    Adopts,         \* ONTRAK_ROLLOUT_ADOPT is on: a pass claims what scans found
    Cooldown,       \* the cooldown, in ticks of the clock
    MaxPerRun, MaxPerHost,  \* the two limits of a pass
    None,           \* no remit, no container, no time
    Released,       \* what a person decided who gave a container back
    MaxImage,       \* bound on the images the registry publishes
    MaxTime,        \* bound on the clock
    MaxPasses,      \* bound on the passes
    MaxRequests,    \* bound on the requests people make
    MaxLosses       \* bound on the passes and undos that end early

Images == 0..MaxImage
Remits == [auto : BOOLEAN]
Times  == (0..MaxTime) \union {None}

ASSUME HostOfIsTotal == HostOf \in [Containers -> Hosts]
ASSUME RailsAreNumbers == Cooldown \in Nat /\ MaxPerRun \in Nat /\ MaxPerHost \in Nat
ASSUME BoundsAreNumbers == MaxTime \in Nat /\ MaxImage \in Nat \ {0}
ASSUME NoneIsNothing == None \notin Nat \union Containers \union Remits
ASSUME ReleasedIsNoRemit == Released \notin Remits \union {None}

VARIABLES
    rows,           \* rows[c]: the container_rolls of c, oldest first
    remit,          \* remit[c]: the terms c is owned on, or None
    optout,         \* the containers on the opt-out list
    flagged,        \* the containers with an open finding
    image,          \* image[c]: what c runs
    tag,            \* tag[c]: what its ref names on its host
    latest,         \* latest[c]: what its ref names in the registry
    pass,           \* the pass: where it is and what it has read
    roll,           \* the roll or undo in progress
    request,        \* the claim or release in progress
    now,            \* the clock
    decided,        \* history: decided[c]: what a person last decided of c
    contested,      \* history: containers decided on while a pass adopted them
    owed,           \* history: containers nobody looked at since they ended badly
    restarted,      \* history: what the present pass brought up
    untraced,       \* history: containers an undo was lost on
    spent

vars == <<rows, remit, optout, flagged, image, tag, latest, pass, roll, request, now,
          decided, contested, owed, restarted, untraced, spent>>
host    == <<image, tag, latest>>
tables  == <<remit, optout, flagged>>
history == <<decided, contested, owed, restarted, untraced>>

BadStates == {"rolling", "rolled-back", "failed"}
RowStates == BadStates \union {"rolled", "untouched"}
Rows == [state : RowStates, cleared : BOOLEAN, from : Images, to : Images \union {None},
         began : Times, ended : Times, undo : BOOLEAN]

PassPcs == {"idle", "adopt", "kept", "claim", "targets", "history", "roll"}
RollPcs == {"idle", "image", "pull", "up", "health", "verify", "back", "backup", "record"}

NoPass == [pc |-> "idle", moment |-> 0, owned |-> {}, kept |-> {}, todo |-> {},
           auto |-> {}, behind |-> {}, blocked |-> {}, last |-> [c \in Containers |-> None],
           used |-> 0, perHost |-> [h \in Hosts |-> 0]]
NoRoll    == [pc |-> "idle", c |-> None, from |-> 0, to |-> None, undo |-> FALSE]
NoRequest == [op |-> "none", c |-> None, auto |-> FALSE]

TypeOK ==
    /\ rows \in [Containers -> Seq(Rows)]
    /\ remit \in [Containers -> Remits \union {None}]
    /\ optout \subseteq Containers /\ flagged \subseteq Containers
    /\ image \in [Containers -> Images] /\ tag \in [Containers -> Images]
    /\ latest \in [Containers -> Images]
    /\ pass.pc \in PassPcs /\ roll.pc \in RollPcs
    /\ roll.pc # "idle" => roll.c \in Containers /\ (roll.undo <=> pass.pc = "idle")
    /\ roll.pc \notin {"idle", "image"} /\ ~roll.undo =>
          rows[roll.c] # <<>> /\ rows[roll.c][Len(rows[roll.c])].state = "rolling"
    /\ now \in 0..MaxTime

Init ==
    /\ rows = [c \in Containers |-> <<>>]
    /\ remit = [c \in Containers |-> None]
    /\ optout = {} /\ flagged = Containers
    /\ image = [c \in Containers |-> 0]
    /\ tag = [c \in Containers |-> 0]
    /\ latest = [c \in Containers |-> 1]
    /\ pass = NoPass /\ roll = NoRoll /\ request = NoRequest
    /\ now = 0
    /\ decided = [c \in Containers |-> None]
    /\ contested = {} /\ owed = {} /\ restarted = {} /\ untraced = {}
    /\ spent = [passes |-> 0, requests |-> 0, losses |-> 0]

LastOf(s) == s[Len(s)]
LockFree  == pass.pc = "idle" /\ roll.pc = "idle"
InPass(pc) == pass.pc = pc /\ roll.pc = "idle"

-----------------------------------------------------------------------------
(***************************************************************************)
(* The pass: adoption, the remit, the history.                             *)
(***************************************************************************)
StartPass ==
    /\ LockFree
    /\ spent.passes < MaxPasses
    /\ spent' = [spent EXCEPT !.passes = @ + 1]
    /\ pass' = [NoPass EXCEPT !.pc = IF Adopts THEN "adopt" ELSE "targets", !.moment = now]
    /\ restarted' = {}
    /\ UNCHANGED <<rows, tables, host, roll, request, now, decided, contested, owed, untraced>>

\* adopt_discovered reads what is owned, then what is kept out.
ReadOwned ==
    /\ InPass("adopt")
    /\ pass' = [pass EXCEPT !.pc = "kept", !.owned = {c \in Containers : remit[c] # None}]
    /\ UNCHANGED <<rows, tables, host, roll, request, now, history, spent>>

ReadKept ==
    /\ InPass("kept")
    /\ pass' = [pass EXCEPT !.pc = "claim", !.kept = optout]
    /\ UNCHANGED <<rows, tables, host, roll, request, now, history, spent>>

\* A mutation: the list of what is kept out is not asked.
Unowned == Containers \ pass.owned

\* What no remit and no opt-out names.
Adoptable == Containers \ (pass.owned \union pass.kept)

\* claim_rollout_target: the row is made, or its terms are replaced.
AdoptOne(c) ==
    /\ InPass("claim")
    /\ c \in Adoptable
    /\ remit' = [remit EXCEPT ![c] = [auto |-> TRUE]]
    /\ pass' = [pass EXCEPT !.owned = @ \union {c}]
    /\ contested' = IF request.c = c THEN contested \union {c} ELSE contested
    /\ UNCHANGED <<rows, optout, flagged, host, roll, request, now, decided, owed, restarted, untraced, spent>>

EndAdoption ==
    /\ InPass("claim")
    /\ Adoptable = {}
    /\ pass' = [pass EXCEPT !.pc = "targets"]
    /\ UNCHANGED <<rows, tables, host, roll, request, now, history, spent>>

\* _roll_targets: the remit, and the open findings.
ReadTargets ==
    /\ InPass("targets")
    /\ LET owned == {c \in Containers : remit[c] # None} IN
        pass' = [pass EXCEPT !.pc = "history", !.todo = owned,
                             !.auto = {c \in owned : remit[c].auto}, !.behind = flagged]
    /\ UNCHANGED <<rows, tables, host, roll, request, now, history, spent>>

\* A mutation: a roll that never finished does not count as a failure.
BlockedBut(c) ==
    LET bad == {i \in DOMAIN rows[c] : rows[c][i].state \in BadStates \ {"rolling"}} IN
    \E i \in bad : ~rows[c][i].cleared /\ \A j \in bad : j <= i

\* rollout_history: the newest of the bad rows, unless it was cleared ...
Blocked(c) ==
    LET bad == {i \in DOMAIN rows[c] : rows[c][i].state \in BadStates} IN
    \E i \in bad : ~rows[c][i].cleared /\ \A j \in bad : j <= i

\* A mutation: the cooldown runs from the beginning of the roll.
BeganAt(c) ==
    LET landed == {i \in DOMAIN rows[c] : rows[c][i].state = "rolled"} IN
    IF landed = {} THEN None
    ELSE rows[c][CHOOSE i \in landed : \A j \in landed : j <= i].began

\* ... and the end of the newest roll that landed.
LastRolledAt(c) ==
    LET landed == {i \in DOMAIN rows[c] : rows[c][i].state = "rolled"} IN
    IF landed = {} THEN None
    ELSE rows[c][CHOOSE i \in landed : \A j \in landed : j <= i].ended

ReadHistory ==
    /\ InPass("history")
    /\ pass' = [pass EXCEPT !.pc = "roll",
                            !.blocked = {c \in pass.todo : Blocked(c)},
                            !.last = [c \in Containers |-> LastRolledAt(c)]]
    /\ UNCHANGED <<rows, tables, host, roll, request, now, history, spent>>

-----------------------------------------------------------------------------
(***************************************************************************)
(* decide_roll, for the next container of the pass.  Rails that read only  *)
(* configuration or the host (the kill switch, the host list, protected    *)
(* refs, window and freeze, whether it runs and its plan holds) may refuse *)
(* any container.                                                          *)
(***************************************************************************)
CoolingDown(c) == pass.last[c] # None /\ pass.moment - pass.last[c] < Cooldown

MayRoll(c) ==
    /\ c \in pass.auto
    /\ c \notin pass.blocked
    /\ c \in pass.behind
    /\ ~CoolingDown(c)
    /\ pass.used < MaxPerRun
    /\ pass.perHost[HostOf[c]] < MaxPerHost

RollOne(c) ==
    /\ InPass("roll")
    /\ c \in pass.todo
    /\ MayRoll(c)
    /\ pass' = [pass EXCEPT !.todo = @ \ {c}, !.perHost[HostOf[c]] = @ + 1]
    /\ roll' = [NoRoll EXCEPT !.pc = "image", !.c = c]
    /\ UNCHANGED <<rows, tables, host, request, now, history, spent>>

LeaveAlone(c) ==
    /\ InPass("roll")
    /\ c \in pass.todo
    /\ pass' = [pass EXCEPT !.todo = @ \ {c}]
    /\ UNCHANGED <<rows, tables, host, roll, request, now, history, spent>>

EndPass ==
    /\ InPass("roll")
    /\ pass.todo = {}
    /\ pass' = NoPass
    /\ UNCHANGED <<rows, tables, host, roll, request, now, history, spent>>

-----------------------------------------------------------------------------
(***************************************************************************)
(* _roll_one.  The row is opened and committed before anything is touched; *)
(* every way out closes it.                                                *)
(***************************************************************************)
InRoll(pc) == roll.pc = pc
Now        == LastOf(rows[roll.c])

\* finish_container_roll, and what the pass counts of it.
Finish(state, to) ==
    /\ rows' = [rows EXCEPT ![roll.c][Len(rows[roll.c])] =
                   [Now EXCEPT !.state = state, !.to = to, !.ended = now]]
    /\ pass' = [pass EXCEPT !.used = IF state = "untouched" THEN @ ELSE @ + 1]
    /\ owed' = IF state \in BadStates /\ ~Now.cleared THEN owed \union {roll.c} ELSE owed
    /\ roll' = NoRoll

CannotRead ==
    /\ InRoll("image")
    /\ roll' = NoRoll
    /\ UNCHANGED <<rows, tables, host, pass, request, now, history, spent>>

\* start_container_roll, on the image that is running.
OpenRow ==
    /\ InRoll("image")
    /\ rows' = [rows EXCEPT ![roll.c] =
                   Append(@, [state |-> "rolling", cleared |-> FALSE, from |-> image[roll.c],
                              to |-> None, began |-> now, ended |-> None, undo |-> FALSE])]
    /\ roll' = [roll EXCEPT !.pc = "pull", !.from = image[roll.c]]
    /\ UNCHANGED <<tables, host, pass, request, now, history, spent>>

PullFails ==
    /\ InRoll("pull")
    /\ Finish("untouched", None)
    /\ UNCHANGED <<tables, host, request, now, decided, contested, restarted, untraced, spent>>

Pull ==
    /\ InRoll("pull")
    /\ tag' = [tag EXCEPT ![roll.c] = latest[roll.c]]
    /\ \/ /\ latest[roll.c] # roll.from
          /\ roll' = [roll EXCEPT !.pc = "up", !.to = latest[roll.c]]
          /\ UNCHANGED <<rows, pass, owed>>
       \/ /\ latest[roll.c] = roll.from
          /\ Finish("untouched", latest[roll.c])
    /\ UNCHANGED <<tables, image, latest, request, now, decided, contested, restarted, untraced, spent>>

\* compose up: it may fail, and replace the container or not either way.
MayReplace(c) == image' \in {image, [image EXCEPT ![c] = tag[c]]}

ComposeUp ==
    /\ InRoll("up")
    /\ MayReplace(roll.c)
    /\ \E pc \in {"health", "back"} : roll' = [roll EXCEPT !.pc = pc]
    /\ restarted' = restarted \union {roll.c}
    /\ UNCHANGED <<rows, tables, tag, latest, pass, request, now, decided, contested, owed, untraced, spent>>

\* _wait_for_health.
ComesUp ==
    /\ InRoll("health")
    /\ roll' = [roll EXCEPT !.pc = "verify"]
    /\ UNCHANGED <<rows, tables, host, pass, request, now, history, spent>>

StaysDown ==
    /\ InRoll("health")
    /\ roll' = [roll EXCEPT !.pc = "back"]
    /\ UNCHANGED <<rows, tables, host, pass, request, now, history, spent>>

\* A mutation: what came up is taken for what was asked for.
LandsUnverified ==
    /\ InRoll("verify")
    /\ Finish("rolled", roll.to)
    /\ flagged' = flagged \ {roll.c}
    /\ UNCHANGED <<remit, optout, host, request, now, decided, contested, restarted, untraced, spent>>

\* It runs what it was asked to: the roll landed, and its finding is closed.
Lands ==
    /\ InRoll("verify")
    /\ image[roll.c] = roll.to
    /\ Finish("rolled", roll.to)
    /\ flagged' = flagged \ {roll.c}
    /\ UNCHANGED <<remit, optout, host, request, now, decided, contested, restarted, untraced, spent>>

\* It runs something else, or its image cannot be read.
NotReplaced ==
    /\ InRoll("verify")
    /\ Finish("untouched", roll.to)
    /\ UNCHANGED <<tables, host, request, now, decided, contested, restarted, untraced, spent>>

-----------------------------------------------------------------------------
(***************************************************************************)
(* _put_image_back, for a roll that did not come up and for an undo.       *)
(***************************************************************************)
BackTag ==
    /\ InRoll("back")
    /\ tag' = [tag EXCEPT ![roll.c] = roll.from]
    /\ roll' = [roll EXCEPT !.pc = "backup"]
    /\ UNCHANGED <<rows, tables, image, latest, pass, request, now, history, spent>>

\* The old image is gone from the host, or cannot be tagged.
CannotTag ==
    /\ InRoll("back")
    /\ IF roll.undo
       THEN /\ roll' = [roll EXCEPT !.pc = "record"]
            /\ UNCHANGED <<rows, pass, owed>>
       ELSE Finish("failed", roll.to)
    /\ UNCHANGED <<tables, host, request, now, decided, contested, restarted, untraced, spent>>

BackUp ==
    /\ InRoll("backup")
    /\ MayReplace(roll.c)
    /\ IF roll.undo
       THEN /\ roll' = [roll EXCEPT !.pc = "record"]
            /\ UNCHANGED <<rows, pass, owed>>
       ELSE \/ image'[roll.c] = roll.from /\ Finish("rolled-back", roll.to)
            \/ Finish("failed", roll.to)
    /\ UNCHANGED <<tables, tag, latest, request, now, decided, contested, restarted, untraced, spent>>

-----------------------------------------------------------------------------
(***************************************************************************)
(* undo_roll: a roll that landed is put back, and a row of its own says    *)
(* so, which holds the container.  For an undo, roll.to is what it found   *)
(* running.                                                                *)
(***************************************************************************)
Ask == spent.requests < MaxRequests /\ spent' = [spent EXCEPT !.requests = @ + 1]

StartUndo(c, i) ==
    /\ LockFree /\ Ask
    /\ i \in DOMAIN rows[c]
    /\ rows[c][i].state = "rolled"
    /\ roll' = [pc |-> "back", c |-> c, from |-> rows[c][i].from, to |-> image[c], undo |-> TRUE]
    /\ UNCHANGED <<rows, tables, host, pass, request, now, history>>

RecordUndo ==
    /\ InRoll("record")
    /\ \E state \in {"rolled-back", "failed"} :
        /\ state = "rolled-back" => image[roll.c] = roll.from
        /\ rows' = [rows EXCEPT ![roll.c] =
                       Append(@, [state |-> state, cleared |-> FALSE, from |-> roll.to,
                                  to |-> roll.from, began |-> now, ended |-> now, undo |-> TRUE])]
    /\ owed' = owed \union {roll.c}
    /\ roll' = NoRoll
    /\ UNCHANGED <<tables, host, pass, request, now, decided, contested, restarted, untraced, spent>>

-----------------------------------------------------------------------------
(***************************************************************************)
(* What people ask for without the lock.                                   *)
(***************************************************************************)
\* clear_container_roll_blocker: every bad row of the container.
ClearBlock(c) ==
    /\ Ask
    /\ \E i \in DOMAIN rows[c] : rows[c][i].state \in BadStates /\ ~rows[c][i].cleared
    /\ rows' = [rows EXCEPT ![c] = [i \in DOMAIN rows[c] |->
                   [rows[c][i] EXCEPT !.cleared = @ \/ rows[c][i].state \in BadStates]]]
    /\ owed' = owed \ {c}
    /\ UNCHANGED <<tables, host, pass, roll, request, now, decided, contested, restarted, untraced>>

\* A decision the adoption in progress has not read, or not all of.
Adopting   == pass.pc \in {"kept", "claim"}
Contest(c) == contested' = IF Adopting THEN contested \union {c} ELSE contested

\* claim: the opt-out is lifted ...
StartClaim(c, auto) ==
    /\ request = NoRequest /\ Ask
    /\ optout' = optout \ {c}
    /\ request' = [op |-> "claim", c |-> c, auto |-> auto]
    /\ Contest(c)
    /\ UNCHANGED <<rows, remit, flagged, host, pass, roll, now, decided, owed, restarted, untraced>>

\* ... and the remit written, on these terms.
EndClaim ==
    /\ request.op = "claim"
    /\ remit' = [remit EXCEPT ![request.c] = [auto |-> request.auto]]
    /\ decided' = [decided EXCEPT ![request.c] = [auto |-> request.auto]]
    /\ request' = NoRequest
    /\ Contest(request.c)
    /\ UNCHANGED <<rows, optout, flagged, host, pass, roll, now, owed, restarted, untraced, spent>>

\* release: the remit is deleted ...
StartRelease(c) ==
    /\ request = NoRequest /\ Ask
    /\ remit[c] # None
    /\ remit' = [remit EXCEPT ![c] = None]
    /\ request' = [op |-> "release", c |-> c, auto |-> FALSE]
    /\ Contest(c)
    /\ UNCHANGED <<rows, optout, flagged, host, pass, roll, now, decided, owed, restarted, untraced>>

\* ... and the container kept out.
EndRelease ==
    /\ request.op = "release"
    /\ optout' = optout \union {request.c}
    /\ decided' = [decided EXCEPT ![request.c] = Released]
    /\ request' = NoRequest
    /\ Contest(request.c)
    /\ UNCHANGED <<rows, remit, flagged, host, pass, roll, now, owed, restarted, untraced, spent>>

-----------------------------------------------------------------------------
(***************************************************************************)
(* A scan, under the lock: the tag on the host against the registry's, or  *)
(* no answer, which leaves the finding as it is.                           *)
(***************************************************************************)
Scan ==
    /\ LockFree
    /\ \E judged \in SUBSET Containers :
        flagged' = (flagged \ judged) \union {c \in judged : tag[c] # latest[c]}
    /\ UNCHANGED <<rows, remit, optout, host, pass, roll, request, now, history, spent>>

Publish(c) ==
    /\ latest[c] < MaxImage
    /\ latest' = [latest EXCEPT ![c] = @ + 1]
    /\ UNCHANGED <<rows, tables, image, tag, pass, roll, request, now, history, spent>>

Tick ==
    /\ now < MaxTime
    /\ now' = now + 1
    /\ UNCHANGED <<rows, tables, host, pass, roll, request, history, spent>>

(***************************************************************************)
(* The pass or the undo ends where it is: it threw, or the process was     *)
(* stopped.  What it had not committed is as if it had not been done.      *)
(***************************************************************************)
Lost ==
    /\ ~LockFree /\ pass.pc # "claim"
    /\ spent.losses < MaxLosses
    /\ spent' = [spent EXCEPT !.losses = @ + 1]
    /\ pass' = NoPass /\ roll' = NoRoll
    /\ owed' = IF roll.pc \in RollPcs \ {"idle", "image"} /\ ~roll.undo /\ ~Now.cleared
               THEN owed \union {roll.c} ELSE owed
    /\ untraced' = IF roll.undo THEN untraced \union {roll.c} ELSE untraced
    /\ UNCHANGED <<rows, tables, host, request, now, decided, contested, restarted>>

PassStep ==
    \/ StartPass \/ ReadOwned \/ ReadKept \/ EndAdoption \/ ReadTargets \/ ReadHistory \/ EndPass
    \/ \E c \in Containers : AdoptOne(c) \/ RollOne(c) \/ LeaveAlone(c)

RollStep ==
    \/ CannotRead \/ OpenRow \/ PullFails \/ Pull \/ ComposeUp \/ ComesUp \/ StaysDown
    \/ Lands \/ NotReplaced \/ BackTag \/ CannotTag \/ BackUp \/ RecordUndo

RequestStep ==
    \/ \E c \in Containers : ClearBlock(c) \/ StartRelease(c)
    \/ \E c \in Containers, auto \in BOOLEAN : StartClaim(c, auto)
    \/ \E c \in Containers : \E i \in DOMAIN rows[c] : StartUndo(c, i)
    \/ EndClaim \/ EndRelease

Next ==
    \/ PassStep \/ RollStep \/ RequestStep
    \/ Scan \/ Tick \/ Lost \/ \E c \in Containers : Publish(c)

Spec == Init /\ [][Next]_vars

-----------------------------------------------------------------------------
(***************************************************************************)
(* "The rail that turns a nightly crash-loop into one incident": a         *)
(* container whose roll ended badly or never ended, or that an operator    *)
(* put back by hand, is not brought up again by any pass until somebody    *)
(* has cleared it.                                                         *)
(***************************************************************************)
HeldUntilLookedAt ==
    [][\A c \in owed : c \notin restarted /\ InRoll("up") => c \notin restarted']_vars

(***************************************************************************)
(* "Verified, not assumed": when nobody works on a container, it runs what *)
(* its newest row says it was rolled to, or put back to.  An undo lost     *)
(* before it had a row is excepted.                                        *)
(***************************************************************************)
RecordMatchesContainer ==
    \A c \in Containers \ untraced :
        rows[c] # <<>> /\ roll.c # c =>
            LET row == LastOf(rows[c]) IN
            /\ row.state = "rolled" => image[c] = row.to
            /\ row.state = "rolled-back" => image[c] = IF row.undo THEN row.to ELSE row.from

(***************************************************************************)
(* Two rolls of a container that both landed lie a cooldown apart, from    *)
(* the end of one to the end of the next, and no pass brings up more       *)
(* containers of one host than it may.                                     *)
(***************************************************************************)
RailsHold ==
    /\ \A c \in Containers : \A i, j \in DOMAIN rows[c] :
        i < j /\ rows[c][i].state = "rolled" /\ rows[c][j].state = "rolled" =>
            rows[c][j].ended - rows[c][i].ended >= Cooldown
    /\ \A h \in Hosts : Cardinality({c \in restarted : HostOf[c] = h}) <= MaxPerHost

(***************************************************************************)
(* "A control that undoes itself is worse than no control": what a person  *)
(* decided of a container stands, adoption or not, until a person decides  *)
(* again.  A decision made while a pass is adopting that container is      *)
(* excepted.                                                               *)
(***************************************************************************)
DecisionsLast ==
    \A c \in Containers \ contested :
        request.c # c /\ decided[c] # None =>
            remit[c] = IF decided[c] = Released THEN None ELSE decided[c]
=============================================================================
