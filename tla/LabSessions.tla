---------------------------- MODULE LabSessions -----------------------------
(***************************************************************************)
(* The lifecycle of the in-app lab's machines: the SessionManager of       *)
(* src/src/lib/lab/sessions.ts over the session table, the hypervisor and  *)
(* the warm pool.                                                          *)
(*                                                                         *)
(* A call of the manager (a server action of the portal, or a CLI command) *)
(* works on its own copy of a session row and writes the WHOLE row back    *)
(* whenever it saves; the store has no version check, so the last writer   *)
(* wins.  Every read or write of the table and every hypervisor request is *)
(* an await, hence a step of its own here.                                 *)
(*                                                                         *)
(* Web calls share the server process and its lock Map.  A CLI command is  *)
(* a process of its own and finds an empty Map.  Templates are taken to be *)
(* built, session.destroy_on_complete to be on (its default) and the store *)
(* to answer; whether an instance is up is not tracked.                    *)
(***************************************************************************)
EXTENDS LabModels, FiniteSets

CONSTANTS
    Students, Scenarios,
    WebCalls, CliCalls,     \* the calls that can be in flight in each place
    WebOps, CliOps,         \* the operations an instance lets them make
    MaxPerStudent,          \* session.max_per_student
    PoolTarget, PoolCeiling,  \* pool.default_target and pool.max_total
    MaxRows,                \* bound on session rows
    MaxIndex,               \* bound on the index in a pool name
    MaxClock,               \* bound on the coarse clock
    MaxCalls,               \* bound on the calls made, sweeps not counted
    MaxCrashes,             \* bound on the crashes
    InitialPool,            \* the pool machines that earlier refills left
    Nobody                  \* fills the student and scenario of an unused row

Calls == WebCalls \union CliCalls
Sids  == 1..MaxRows
OpNames == {"start", "open", "edit", "check", "complete", "reset", "end",
            "reap", "drain", "prewarm"}

ASSUME BoundsAreNat ==
    {MaxPerStudent, PoolTarget, PoolCeiling, MaxRows, MaxIndex, MaxClock, MaxCalls,
     MaxCrashes} \subseteq Nat
ASSUME WebAndCliApart == WebCalls \intersect CliCalls = {}
ASSUME OpsAreOps == WebOps \subseteq OpNames /\ CliOps \subseteq OpNames
ASSUME ScenariosAreFinite == IsFiniteSet(Scenarios)
ASSUME NobodyIsNobody == Nobody \notin Students \union Scenarios

VARIABLES
    rows,      \* the session table
    vms,       \* the instances on the hypervisor, templates left out
    call,      \* call[t]: what call t is doing, with its copy of the row
    results,   \* results[s]: how many results were stored for session s
    clock,     \* coarse time: a tick is longer than any one sweep's threshold
    calls,     \* calls made so far
    crashes,   \* processes lost so far
    lockChain, lockGates, lockAt, lockKey, lockPlace,  \* the web process's Map
    overtaken, \* overtaken[t]: the sessions that moved on since call t read them
    crossed,   \* the sessions whose row was written from such a reading
    doubtful   \* the machines claimed, kept or destroyed on the strength of one

lock    == <<lockChain, lockGates, lockAt, lockKey, lockPlace>>
env     == <<clock, calls, crashes>>
history == <<overtaken, crossed, doubtful>>
vars == <<rows, vms, call, results, clock, calls, crashes,
          lockChain, lockGates, lockAt, lockKey, lockPlace,
          overtaken, crossed, doubtful>>

Lock == INSTANCE SessionLock WITH
            Callers <- WebCalls, Keys <- Sids, MaxLinks <- MaxCalls,
            chain <- lockChain, gates <- lockGates, at <- lockAt,
            key <- lockKey, place <- lockPlace

-----------------------------------------------------------------------------
(***************************************************************************)
(* Types                                                                   *)
(***************************************************************************)
PoolNames(scenario) == {PoolName(scenario, i) : i \in 1..MaxIndex}
Names ==
    (UNION {PoolNames(sc) : sc \in Scenarios}) \union
    {SessionName(sc, s) : sc \in Scenarios, s \in Sids}

ASSUME PoolsWereFilled ==
    /\ InitialPool \subseteq UNION {PoolNames(sc) : sc \in Scenarios}
    /\ Cardinality(InitialPool) <= PoolCeiling
    /\ \A sc \in Scenarios : Cardinality(InitialPool \intersect PoolNames(sc)) <= PoolTarget

Row == [state    : SessionStates \union {"absent"},
        student  : Students \union {Nobody},
        scenario : Scenarios \union {Nobody},
        instance : Names \union {NoInstance},
        resolved : BOOLEAN,
        completed : BOOLEAN,          \* completedAt is set
        created  : 0..MaxClock,
        expires  : 0..MaxClock]

NoRow == [state |-> "absent", student |-> Nobody, scenario |-> Nobody,
          instance |-> NoInstance, resolved |-> FALSE, completed |-> FALSE,
          created |-> 0, expires |-> 0]

Pcs == {"idle", "touch", "insert", "handoff", "queued", "release", "allocate",
        "claim", "listed", "claimed", "clone", "cloned", "await", "finish",
        "resetting", "recycle", "destroy", "destroyed", "check", "grade",
        "graded", "verdict", "record", "claimforuse", "save", "sweep", "stuck", "refill",
        "prewarm", "boot", "drain", "drainlist", "draining"}

Call == [op : OpNames \union {"none"}, pc : Pcs, sid : 0..MaxRows,
         row : Row,                   \* the call's copy of its session
         report : {"none", "error", "unresolved", "resolved"},
         names : SUBSET Names,        \* the claims, or the pool, as it last read them
         snap : [Sids -> Row],        \* the sweep's listing, NoRow once handled
         now : 0..MaxClock,           \* the sweep's clock
         pool : Scenarios \union {Nobody},
         want : [Scenarios -> Nat],   \* machines still to create
         index : Nat]                 \* the next pool index

NoCall == [op |-> "none", pc |-> "idle", sid |-> 0, row |-> NoRow,
           report |-> "none", names |-> {}, snap |-> [s \in Sids |-> NoRow],
           now |-> 0, pool |-> Nobody, want |-> [sc \in Scenarios |-> 0],
           index |-> 0]

TypeOK ==
    /\ rows \in [Sids -> Row]
    /\ vms \subseteq Names
    /\ call \in [Calls -> Call]
    /\ results \in [Sids -> Nat]
    /\ clock \in 0..MaxClock
    /\ calls \in 0..MaxCalls
    /\ crashes \in 0..MaxCrashes
    /\ Lock!LockTypeOK
    /\ overtaken \in [Calls -> SUBSET Sids]
    /\ crossed \subseteq Sids
    /\ doubtful \subseteq Names

Init ==
    /\ rows = [s \in Sids |-> NoRow]
    /\ vms = InitialPool
    /\ call = [t \in Calls |-> NoCall]
    /\ results = [s \in Sids |-> 0]
    /\ clock = 0 /\ calls = 0 /\ crashes = 0
    /\ Lock!LockInit
    /\ overtaken = [t \in Calls |-> {}]
    /\ crossed = {} /\ doubtful = {}

-----------------------------------------------------------------------------
(***************************************************************************)
(* Calls                                                                   *)
(***************************************************************************)
Idle(t)   == call[t].pc = "idle"
At(t, pc) == call[t].pc = pc

\* Call t may be made now: it is one the instance offers, and not one too many.
MayCall(t, op) ==
    /\ Idle(t)
    /\ op \in (IF t \in WebCalls THEN WebOps ELSE CliOps)

Begin(t, fields) ==
    /\ calls < MaxCalls
    /\ calls' = calls + 1
    /\ call' = [call EXCEPT ![t] = fields]
    /\ UNCHANGED <<clock, crashes>>

Go(t, pc)           == call' = [call EXCEPT ![t].pc = pc]
Become(t, pc, row)  == call' = [call EXCEPT ![t].pc = pc, ![t].row = row]
Return(t)           == call' = [call EXCEPT ![t] = NoCall]

\* A call that begins by reading session s and takes its copy as `row`.
On(op, pc, s, row)  == [NoCall EXCEPT !.op = op, !.pc = pc, !.sid = s, !.row = row]

\* A time limit from now on.
Later(time) == IF time < MaxClock THEN time + 1 ELSE time

(***************************************************************************)
(* saveSession: one UPDATE of every column of the row.                     *)
(***************************************************************************)
Save(t, row) == rows' = [rows EXCEPT ![call[t].sid] = row]

(***************************************************************************)
(* createSession, as startLabSession and `ontrak session start` call it.   *)
(* The live sessions are read once; a live session for the scenario is     *)
(* touched and returned, and otherwise a row is inserted unless the        *)
(* student is at the limit.                                                *)
(***************************************************************************)
LiveSessionsFor(u) == {s \in Sids : rows[s].student = u /\ rows[s].state \in LiveStates}

StartRead(t, u, sc) ==
    /\ MayCall(t, "start")
    /\ \/ \E s \in LiveSessionsFor(u) :
            /\ rows[s].scenario = sc
            /\ Begin(t, On("start", "touch", s, rows[s]))
       \/ /\ \A s \in LiveSessionsFor(u) : rows[s].scenario # sc
          /\ Cardinality(LiveSessionsFor(u)) < MaxPerStudent
          /\ Begin(t, On("start", "insert", 0,
                 [NoRow EXCEPT !.state = "requested", !.student = u, !.scenario = sc]))
    /\ UNCHANGED <<rows, vms, results, lock>>

\* touch, then startLabSession resumes a usable session and provisions the rest;
\* the CLI's allocate provisions whatever it is given.
TouchExisting(t) ==
    /\ At(t, "touch")
    /\ Save(t, call[t].row)
    /\ IF t \in WebCalls /\ call[t].row.state \in UsableStates
       THEN Return(t)
       ELSE Go(t, "handoff")
    /\ UNCHANGED <<vms, results, env, lock>>

Unused == {s \in Sids : rows[s].state = "absent"}

InsertRow(t) ==
    /\ At(t, "insert")
    /\ IF Unused = {}
       THEN Return(t) /\ UNCHANGED rows          \* MaxRows is reached
       ELSE LET s == CHOOSE i \in Unused : \A j \in Unused : i <= j
                fresh == [call[t].row EXCEPT !.created = clock,
                                             !.expires = Later(clock)]
            IN  /\ rows' = [rows EXCEPT ![s] = fresh]
                /\ call' = [call EXCEPT ![t].pc = "handoff", ![t].sid = s, ![t].row = fresh]
    /\ UNCHANGED <<vms, results, env, lock>>

(***************************************************************************)
(* provision: under the session's lock, re-read the row, and build only    *)
(* what is still waiting to be built.  A CLI command has the Map, and so   *)
(* the lock, to itself.                                                    *)
(***************************************************************************)
Enqueue(t) ==
    /\ At(t, "handoff")
    /\ IF t \in WebCalls THEN Lock!Request(t, call[t].sid) ELSE UNCHANGED lock
    /\ Go(t, "queued")
    /\ UNCHANGED <<rows, vms, results, env>>

Fresh(t) == rows[call[t].sid]

\* A mutation: the work is not run under the lock.
ProvisionUnlocked(t) ==
    /\ At(t, "queued")
    /\ Become(t, "allocate", [Fresh(t) EXCEPT !.state = "allocating"])
    /\ UNCHANGED <<rows, vms, results, env, lock>>

\* A mutation: provision trusts the row it was handed and does not read it again.
ProvisionStale(t) ==
    /\ At(t, "queued")
    /\ IF t \in WebCalls THEN Lock!Enter(t) ELSE UNCHANGED lock
    /\ IF call[t].row.state \in {"requested", "allocating"}
       THEN Become(t, "allocate", [call[t].row EXCEPT !.state = "allocating"])
       ELSE Go(t, "release")
    /\ UNCHANGED <<rows, vms, results, env>>

Provision(t) ==
    /\ At(t, "queued")
    /\ IF t \in WebCalls THEN Lock!Enter(t) ELSE UNCHANGED lock
    /\ IF Fresh(t).state \in {"requested", "allocating"}
       THEN Become(t, "allocate", [Fresh(t) EXCEPT !.state = "allocating"])
       ELSE Become(t, "release", Fresh(t))
    /\ UNCHANGED <<rows, vms, results, env>>

Unlock(t) == IF t \in WebCalls /\ call[t].op = "start" THEN Lock!Leave(t) ELSE UNCHANGED lock

Release(t) ==
    /\ At(t, "release")
    /\ Unlock(t)
    /\ Return(t)
    /\ UNCHANGED <<rows, vms, results, env>>

Allocate(t) ==
    /\ At(t, "allocate")
    /\ Save(t, call[t].row)
    /\ Go(t, "claim")
    /\ UNCHANGED <<vms, results, env, lock>>

(***************************************************************************)
(* claimPool: availability is derived.  The claims are read from the       *)
(* table, then the instances from the hypervisor, and the lowest unclaimed *)
(* pool machine that is up (which is not tracked) goes onto the row.       *)
(***************************************************************************)
ClaimedInstances ==
    {rows[s].instance : s \in {r \in Sids : rows[r].state \notin TerminalStates}} \ {NoInstance}

PoolInstances(sc) == vms \intersect PoolNames(sc)

Lowest(names) == CHOOSE m \in names : \A o \in names : m.n <= o.n

ListClaimed(t) ==
    /\ At(t, "claim")
    /\ call' = [call EXCEPT ![t].pc = "listed", ![t].names = ClaimedInstances]
    /\ UNCHANGED <<rows, vms, results, env, lock>>

PickPool(t) ==
    /\ At(t, "listed")
    /\ \E available \in SUBSET (PoolInstances(call[t].row.scenario) \ call[t].names) :
        call' = [call EXCEPT ![t].names = {},
                    ![t].pc = IF available = {} THEN "clone" ELSE "claimed",
                    ![t].row = IF available = {} THEN @
                               ELSE [@ EXCEPT !.instance = Lowest(available),
                                              !.state = "provisioning"]]
    /\ UNCHANGED <<rows, vms, results, env, lock>>

\* A mutation: the claim is saved only once the guest has answered.
KeepForLater(t) ==
    /\ call[t].pc \in {"claimed", "cloned"}
    /\ Go(t, "await")
    /\ UNCHANGED <<rows, vms, results, env, lock>>

\* The save that makes a claim, or a finished clone, the session's.
KeepMachine(t) ==
    /\ call[t].pc \in {"claimed", "cloned"}
    /\ Save(t, call[t].row)
    /\ Go(t, "await")
    /\ UNCHANGED <<vms, results, env, lock>>

OwnName(t) == SessionName(call[t].row.scenario, call[t].sid)

\* copyInstance refuses a name that is taken; startInstance follows the copy.
Clone(t) ==
    /\ At(t, "clone")
    /\ OwnName(t) \notin vms
    /\ vms' = vms \union {OwnName(t)}
    /\ Become(t, "cloned", [call[t].row EXCEPT !.instance = OwnName(t)])
    /\ UNCHANGED <<rows, results, env, lock>>

\* The listing or the copy fails, or the start after the copy: the catch of
\* provision and reset.
MachineFails(t) ==
    /\ call[t].pc \in {"listed", "clone"}
    /\ vms' \in {vms} \union (IF At(t, "clone") THEN {vms \union {OwnName(t)}} ELSE {})
    /\ call' = [call EXCEPT ![t].pc = "finish", ![t].names = {},
                            ![t].row.state = "error"]
    /\ UNCHANGED <<rows, results, env, lock>>

(***************************************************************************)
(* awaitGuest: an address and a transport that answers before the deadline *)
(* (and for Windows a new password), or the error state.                   *)
(***************************************************************************)
GuestAnswers(t) ==
    /\ At(t, "await")
    /\ call[t].row.instance \in vms
    /\ Become(t, "finish", [call[t].row EXCEPT !.state = "ready"])
    /\ UNCHANGED <<rows, vms, results, env, lock>>

GuestSilent(t) ==
    /\ At(t, "await")
    /\ Become(t, "finish", [call[t].row EXCEPT !.state = "error"])
    /\ UNCHANGED <<rows, vms, results, env, lock>>

\* The last save of provision and of reset, and the end of provision's lock.
Finish(t) ==
    /\ At(t, "finish")
    /\ Save(t, call[t].row)
    /\ Unlock(t)
    /\ Return(t)
    /\ UNCHANGED <<vms, results, env>>

-----------------------------------------------------------------------------
(***************************************************************************)
(* Using a session.  The page shows no control once the session is handed  *)
(* in, disables the check unless the machine is usable, and hides the end  *)
(* of a terminal session; a page kept open may still send any of them.     *)
(***************************************************************************)

(***************************************************************************)
(* The session page: claimForUse of a ready session, which saves it in     *)
(* touch and again itself, or touch alone of one in use.                   *)
(***************************************************************************)
OpenRead(t, s) ==
    /\ MayCall(t, "open")
    /\ rows[s].state \in UsableStates
    /\ Begin(t, On("open", IF rows[s].state = "ready" THEN "claimforuse" ELSE "save", s,
           [rows[s] EXCEPT !.state = IF @ = "ready" THEN "in_use" ELSE @]))
    /\ UNCHANGED <<rows, vms, results, lock>>

(***************************************************************************)
(* extend, setTimeLimit and revealHint, of whatever session the form       *)
(* names: the deadline moves by an extension or starts again from now, or  *)
(* the hint level moves, which is not tracked.                             *)
(***************************************************************************)
Deadlines(row)  == {Later(IF row.expires > clock THEN row.expires ELSE clock),
                    Later(clock), row.expires}

EditRead(t, s) ==
    /\ MayCall(t, "edit")
    /\ rows[s].state # "absent"
    /\ \E deadline \in Deadlines(rows[s]) :
        Begin(t, On("edit", "save", s, [rows[s] EXCEPT !.expires = deadline]))
    /\ UNCHANGED <<rows, vms, results, lock>>

TouchBeforeClaim(t) ==
    /\ At(t, "claimforuse")
    /\ Save(t, call[t].row)
    /\ Go(t, "save")
    /\ UNCHANGED <<vms, results, env, lock>>

SaveRow(t) ==
    /\ At(t, "save")
    /\ Save(t, call[t].row)
    /\ Return(t)
    /\ UNCHANGED <<vms, results, env, lock>>

(***************************************************************************)
(* checkLabSession and runChecks.  The action, not the CLI, turns away a   *)
(* session still starting up; runChecks itself asks only for an instance.  *)
(***************************************************************************)
CheckRead(t, s) ==
    /\ MayCall(t, "check")
    /\ rows[s].state # "absent" /\ rows[s].instance # NoInstance
    /\ t \in WebCalls => rows[s].state \notin {"requested", "allocating", "provisioning"}
    /\ Begin(t, On("check", "check", s, [rows[s] EXCEPT !.state = "checking"]))
    /\ UNCHANGED <<rows, vms, results, lock>>

CheckSave(t) ==
    /\ At(t, "check")
    /\ Save(t, call[t].row)
    /\ Go(t, "grade")
    /\ UNCHANGED <<vms, results, env, lock>>

Grade(t) ==
    /\ At(t, "grade")
    /\ \E report \in {"error", "unresolved", "resolved"} :
        /\ report # "error" => call[t].row.instance \in vms
        /\ LET resolved == call[t].row.resolved \/ report = "resolved"
           IN  call' = [call EXCEPT ![t].pc = "graded", ![t].report = report,
                            ![t].row.resolved = resolved,
                            ![t].row.state = IF resolved THEN "passed" ELSE "in_use"]
    /\ UNCHANGED <<rows, vms, results, env, lock>>

GradedSave(t) ==
    /\ At(t, "graded")
    /\ Save(t, call[t].row)
    /\ IF call[t].op = "complete" THEN Go(t, "verdict") ELSE Return(t)
    /\ UNCHANGED <<vms, results, env, lock>>

(***************************************************************************)
(* complete: refused on a terminal or a submitted session; otherwise the   *)
(* machine is graded, the write-up may still deny the pass, the row is     *)
(* marked, the result stored and the machine destroyed.                    *)
(***************************************************************************)
CompleteRead(t, s) ==
    /\ MayCall(t, "complete")
    /\ rows[s].state \notin TerminalStates \union {"absent"}
    /\ ~rows[s].completed
    /\ IF rows[s].instance = NoInstance
       THEN Begin(t, [On("complete", "verdict", s, rows[s]) EXCEPT !.report = "error"])
       ELSE Begin(t, On("complete", "check", s, [rows[s] EXCEPT !.state = "checking"]))
    /\ UNCHANGED <<rows, vms, results, lock>>

\* A mutation: the row is saved before completedAt is set on it.
VerdictUnmarked(t) ==
    /\ At(t, "verdict")
    /\ \E writeUpClears \in BOOLEAN :
        LET resolved == call[t].report = "resolved" /\ writeUpClears
            row == [call[t].row EXCEPT !.state = IF resolved THEN "passed" ELSE "failed",
                                       !.resolved = resolved]
        IN  Save(t, row) /\ Become(t, "record", [row EXCEPT !.completed = TRUE])
    /\ UNCHANGED <<vms, results, env, lock>>

Verdict(t) ==
    /\ At(t, "verdict")
    /\ \E writeUpClears \in BOOLEAN :
        LET resolved == call[t].report = "resolved" /\ writeUpClears
            row == [call[t].row EXCEPT !.state = IF resolved THEN "passed" ELSE "failed",
                                       !.resolved = resolved, !.completed = TRUE]
        IN  Save(t, row) /\ Become(t, "record", row)
    /\ UNCHANGED <<vms, results, env, lock>>

RecordResult(t) ==
    /\ At(t, "record")
    /\ results' = [results EXCEPT ![call[t].sid] = @ + 1]
    /\ Go(t, "destroy")
    /\ UNCHANGED <<rows, vms, env, lock>>

-----------------------------------------------------------------------------
(***************************************************************************)
(* Throwing machines away                                                  *)
(***************************************************************************)

\* end, and the recycle it and the sweep share.
EndRead(t, s) ==
    /\ MayCall(t, "end")
    /\ rows[s].state \notin TerminalStates \union {"absent"}
    /\ Begin(t, On("end", "recycle", s, [rows[s] EXCEPT !.state = "recycling"]))
    /\ UNCHANGED <<rows, vms, results, lock>>

ResetRead(t, s) ==
    /\ MayCall(t, "reset")
    /\ rows[s].state \notin TerminalStates \union {"absent"}
    /\ Begin(t, On("reset", "recycle", s, [rows[s] EXCEPT !.state = "recycling"]))
    /\ UNCHANGED <<rows, vms, results, lock>>

\* A mutation: the machine goes before the row says that it will.
RecycleUnsaved(t) ==
    /\ At(t, "recycle")
    /\ Go(t, "destroy")
    /\ UNCHANGED <<rows, vms, results, env, lock>>

RecycleSave(t) ==
    /\ At(t, "recycle")
    /\ Save(t, call[t].row)
    /\ Go(t, "destroy")
    /\ UNCHANGED <<vms, results, env, lock>>

\* What the operation makes of its row once the machine is gone.
AfterDestroy(op, row) ==
    CASE op \in {"reset", "complete"} ->
            [row EXCEPT !.instance = NoInstance]
      [] op \notin {"reset", "complete"} /\ row.state = "recycling" ->
            [row EXCEPT !.state = "destroyed"]
      [] op \notin {"reset", "complete"} /\ row.state # "recycling" ->
            [row EXCEPT !.state = "error", !.instance = NoInstance]

(***************************************************************************)
(* destroyInstance: a hypervisor error is logged and swallowed, so the     *)
(* machine may outlive the call.                                           *)
(***************************************************************************)
DestroyInstance(t) ==
    /\ At(t, "destroy")
    /\ vms' \in {vms, vms \ {call[t].row.instance}}
    /\ Become(t, "destroyed", AfterDestroy(call[t].op, call[t].row))
    /\ UNCHANGED <<rows, results, env, lock>>

DestroyedSave(t) ==
    /\ At(t, "destroyed")
    /\ Save(t, call[t].row)
    /\ CASE call[t].op = "reset" -> Go(t, "claim")
         [] call[t].op = "reap"  ->
                call' = [call EXCEPT ![t].row = NoRow, ![t].sid = 0,
                             ![t].pc = IF call[t].row.state = "error" THEN "stuck" ELSE "sweep"]
         [] OTHER                -> Return(t)
    /\ UNCHANGED <<vms, results, env, lock>>

-----------------------------------------------------------------------------
(***************************************************************************)
(* Maintenance: reap                                                       *)
(***************************************************************************)
Watched == {"ready", "in_use", "passed", "failed", "checking"}
\* A mutation: the sweep forgets the sessions that claimed from the pool.
BuildingClonesOnly == {"allocating"}

Building == {"allocating", "provisioning"}

Snapshot(states) == [s \in Sids |-> IF rows[s].state \in states THEN rows[s] ELSE NoRow]
Listed(t)        == {s \in Sids : call[t].snap[s].state # "absent"}

ReapList(t) ==
    /\ MayCall(t, "reap")
    /\ call' = [call EXCEPT ![t] = [NoCall EXCEPT !.op = "reap", !.pc = "sweep",
                                        !.snap = Snapshot(Watched), !.now = clock]]
    /\ UNCHANGED <<rows, vms, results, env, lock>>

(***************************************************************************)
(* One session of the listing: expired ones are recycled, idle ones too    *)
(* unless the listing says they are being graded.  How long a session has  *)
(* been idle is not tracked; any sweep may find it too long.               *)
(***************************************************************************)
\* A mutation: a grading run is spared even when its time is up.
SweepSparesGrading(t, s) ==
    /\ At(t, "sweep")
    /\ s \in Listed(t)
    /\ \/ /\ call[t].snap[s].state # "checking"
          /\ call' = [call EXCEPT ![t].pc = "recycle", ![t].sid = s,
                          ![t].row = [call[t].snap[s] EXCEPT !.state = "recycling"],
                          ![t].snap[s] = NoRow]
       \/ /\ call[t].now <= call[t].snap[s].expires \/ call[t].snap[s].state = "checking"
          /\ call' = [call EXCEPT ![t].snap[s] = NoRow]
    /\ UNCHANGED <<rows, vms, results, env, lock>>

SweepNext(t, s) ==
    /\ At(t, "sweep")
    /\ s \in Listed(t)
    /\ \/ /\ \/ call[t].now > call[t].snap[s].expires
             \/ call[t].snap[s].state # "checking"
          /\ call' = [call EXCEPT ![t].pc = "recycle", ![t].sid = s,
                          ![t].row = [call[t].snap[s] EXCEPT !.state = "recycling"],
                          ![t].snap[s] = NoRow]
       \/ /\ call[t].now <= call[t].snap[s].expires
          /\ call' = [call EXCEPT ![t].snap[s] = NoRow]
    /\ UNCHANGED <<rows, vms, results, env, lock>>

StuckList(t) ==
    /\ At(t, "sweep")
    /\ Listed(t) = {}
    /\ call' = [call EXCEPT ![t].pc = "stuck", ![t].snap = Snapshot(Building)]
    /\ UNCHANGED <<rows, vms, results, env, lock>>

StuckNext(t, s) ==
    /\ At(t, "stuck")
    /\ s \in Listed(t)
    /\ IF call[t].now > call[t].snap[s].created
       THEN call' = [call EXCEPT ![t].pc = "destroy", ![t].sid = s,
                         ![t].row = call[t].snap[s], ![t].snap[s] = NoRow]
       ELSE call' = [call EXCEPT ![t].snap[s] = NoRow]
    /\ UNCHANGED <<rows, vms, results, env, lock>>

(***************************************************************************)
(* refillPool: the deficit counts every pool machine, claimed or not.      *)
(***************************************************************************)
\* A mutation: the difference may be negative.
SignedDeficit(sc) == PoolTarget - Cardinality(PoolInstances(sc))

Deficit(sc) ==
    LET total == Cardinality(PoolInstances(sc))
    IN  IF total < PoolTarget THEN PoolTarget - total ELSE 0

RefillStatus(t) ==
    /\ At(t, "stuck")
    /\ Listed(t) = {}
    /\ call' = [call EXCEPT ![t].pc = "refill",
                            ![t].want = [sc \in Scenarios |-> Deficit(sc)]]
    /\ UNCHANGED <<rows, vms, results, env, lock>>

PrewarmCall(t, sc, count) ==
    /\ MayCall(t, "prewarm")
    /\ Begin(t, [NoCall EXCEPT !.op = "prewarm", !.pc = "refill", !.want[sc] = count])
    /\ UNCHANGED <<rows, vms, results, lock>>

PoolTotal == Cardinality(UNION {PoolInstances(sc) : sc \in Scenarios})
\* A mutation: the budget is what may be unclaimed.
BudgetOfUnclaimed ==
    LET ready == Cardinality((UNION {PoolInstances(sc) : sc \in Scenarios}) \ ClaimedInstances)
    IN  IF ready < PoolCeiling THEN PoolCeiling - ready ELSE 0

Budget == IF PoolTotal < PoolCeiling THEN PoolCeiling - PoolTotal ELSE 0

NextPoolIndex(sc) ==
    1 + (IF PoolInstances(sc) = {} THEN 0
         ELSE CHOOSE i \in {m.n : m \in PoolInstances(sc)} :
                \A m \in PoolInstances(sc) : m.n <= i)

\* prewarm takes its listing: how many it may create, and from which index.
PrewarmList(t, sc) ==
    /\ At(t, "refill")
    /\ call[t].want[sc] > 0
    /\ LET count == IF call[t].want[sc] < Budget THEN call[t].want[sc] ELSE Budget
       IN  call' = [call EXCEPT ![t].pc = IF count = 0 THEN "refill" ELSE "prewarm",
                        ![t].pool = IF count = 0 THEN @ ELSE sc,
                        ![t].want[sc] = count, ![t].index = NextPoolIndex(sc)]
    /\ UNCHANGED <<rows, vms, results, env, lock>>

NextName(t) == PoolName(call[t].pool, call[t].index)

PrewarmClone(t) ==
    /\ At(t, "prewarm")
    /\ call[t].index <= MaxIndex
    /\ NextName(t) \notin vms
    /\ vms' = vms \union {NextName(t)}
    /\ Go(t, "boot")
    /\ UNCHANGED <<rows, results, env, lock>>

PrewarmBooted(t) ==
    /\ At(t, "boot")
    /\ LET left == call[t].want[call[t].pool] - 1
       IN  call' = [call EXCEPT ![t].want[call[t].pool] = left,
                        ![t].pc = IF left = 0 THEN "refill" ELSE "prewarm",
                        ![t].pool = IF left = 0 THEN Nobody ELSE @,
                        ![t].index = IF left = 0 THEN 0 ELSE @ + 1]
    /\ UNCHANGED <<rows, vms, results, env, lock>>

\* The clone is refused, its start fails or the guest never answers: stop this pool.
PrewarmFails(t) ==
    /\ call[t].pc \in {"prewarm", "boot"}
    /\ vms' \in {vms} \union
            (IF At(t, "prewarm") /\ call[t].index <= MaxIndex
             THEN {vms \union {NextName(t)}} ELSE {})
    /\ call' = [call EXCEPT ![t].want[call[t].pool] = 0, ![t].pc = "refill",
                            ![t].pool = Nobody, ![t].index = 0]
    /\ UNCHANGED <<rows, results, env, lock>>

RefillDone(t) ==
    /\ At(t, "refill")
    /\ \A sc \in Scenarios : call[t].want[sc] = 0
    /\ Return(t)
    /\ UNCHANGED <<rows, vms, results, env, lock>>

(***************************************************************************)
(* drainPool: the claims, then the instances, then one destroyInstance     *)
(* after the other of the machines that were available then.               *)
(***************************************************************************)
DrainCall(t, sc) ==
    /\ MayCall(t, "drain")
    /\ Begin(t, [NoCall EXCEPT !.op = "drain", !.pc = "drain", !.pool = sc])
    /\ UNCHANGED <<rows, vms, results, lock>>

DrainClaims(t) ==
    /\ At(t, "drain")
    /\ call' = [call EXCEPT ![t].pc = "drainlist", ![t].names = ClaimedInstances]
    /\ UNCHANGED <<rows, vms, results, env, lock>>

\* A mutation: the claims are read and not looked at.
DrainAll(t) ==
    /\ At(t, "drainlist")
    /\ call' = [call EXCEPT ![t].pc = "draining", ![t].names = PoolInstances(call[t].pool)]
    /\ UNCHANGED <<rows, vms, results, env, lock>>

DrainList(t) ==
    /\ At(t, "drainlist")
    /\ \E available \in SUBSET (PoolInstances(call[t].pool) \ call[t].names) :
        call' = [call EXCEPT ![t].pc = "draining",
                    ![t].names = available]
    /\ UNCHANGED <<rows, vms, results, env, lock>>

DrainNext(t) ==
    /\ At(t, "draining")
    /\ IF call[t].names = {}
       THEN Return(t) /\ UNCHANGED vms
       ELSE \E m \in call[t].names :
                /\ vms' \in {vms, vms \ {m}}
                /\ call' = [call EXCEPT ![t].names = @ \ {m}]
    /\ UNCHANGED <<rows, results, env, lock>>

-----------------------------------------------------------------------------
(***************************************************************************)
(* Time and crashes                                                        *)
(***************************************************************************)
Tick ==
    /\ clock < MaxClock
    /\ clock' = clock + 1
    /\ UNCHANGED <<rows, vms, call, results, calls, crashes, lock>>

\* The web process stops: its calls end where they are and its Map is gone.
WebCrash ==
    /\ crashes < MaxCrashes
    /\ \E t \in WebCalls : ~Idle(t)
    /\ crashes' = crashes + 1
    /\ call' = [t \in Calls |-> IF t \in WebCalls THEN NoCall ELSE call[t]]
    /\ Lock!Restart
    /\ UNCHANGED <<rows, vms, results, clock, calls>>

\* A CLI command is interrupted.
CliCrash(t) ==
    /\ crashes < MaxCrashes
    /\ t \in CliCalls
    /\ ~Idle(t)
    /\ crashes' = crashes + 1
    /\ Return(t)
    /\ UNCHANGED <<rows, vms, results, clock, calls, lock>>

Starts(t) ==
    \/ \E u \in Students, sc \in Scenarios : StartRead(t, u, sc)
    \/ \E s \in Sids :
        \/ OpenRead(t, s) \/ EditRead(t, s) \/ CheckRead(t, s)
        \/ CompleteRead(t, s) \/ EndRead(t, s) \/ ResetRead(t, s)
    \/ \E sc \in Scenarios : DrainCall(t, sc) \/ \E n \in 1..MaxIndex : PrewarmCall(t, sc, n)

\* The steps of a call that is under way, the sweep's start among them.
Steps(t) ==
    \/ TouchExisting(t) \/ InsertRow(t) \/ Enqueue(t) \/ Provision(t) \/ Release(t)
    \/ Allocate(t) \/ ListClaimed(t) \/ PickPool(t) \/ KeepMachine(t)
    \/ Clone(t) \/ MachineFails(t) \/ GuestAnswers(t) \/ GuestSilent(t) \/ Finish(t)
    \/ TouchBeforeClaim(t) \/ SaveRow(t) \/ CheckSave(t) \/ Grade(t) \/ GradedSave(t)
    \/ Verdict(t) \/ RecordResult(t)
    \/ RecycleSave(t) \/ DestroyInstance(t) \/ DestroyedSave(t)
    \/ ReapList(t) \/ StuckList(t) \/ RefillStatus(t)
    \/ \E s \in Sids : SweepNext(t, s) \/ StuckNext(t, s)
    \/ \E sc \in Scenarios : PrewarmList(t, sc)
    \/ PrewarmClone(t) \/ PrewarmBooted(t) \/ PrewarmFails(t) \/ RefillDone(t)
    \/ DrainClaims(t) \/ DrainList(t) \/ DrainNext(t)

-----------------------------------------------------------------------------
(***************************************************************************)
(* What became of what calls had read.  The store has no version check, so *)
(* a call may write a row, claim a machine or destroy one on the strength  *)
(* of a reading that another call has since overtaken, and the manager     *)
(* promises nothing of the session and the machine from then on.  This     *)
(* names them; every other one is promised what follows.                   *)
(***************************************************************************)

\* The sessions whose rows call c acts upon as it read them: its own, which
\* provision reads again, those of its listing, and all of them where it has the
\* claims in hand.
Knows(c) ==
    {s \in Sids :
        \/ s = c.sid /\ c.pc \notin {"handoff", "queued"}
        \/ c.snap[s].state # "absent"
        \/ c.pc \in {"listed", "claimed", "drainlist", "draining"}}

\* The sessions that a step of call t moves on.
Changed(t) ==
    {s \in Sids :
        \/ rows'[s] # rows[s]
        \/ At(t, "destroy") /\ s = call[t].sid /\ vms' # vms}

\* Call t is about to write its row.
SavePcs ==
    {"touch", "allocate", "claimed", "cloned", "finish", "claimforuse", "save", "check",
     "graded", "verdict", "recycle", "destroyed"}

\* It does so over what it has not read; or it is a check, which runChecks begins
\* on any session that has an instance, of a session that is over.
Careless(t) ==
    \/ call[t].pc \in SavePcs /\ call[t].sid \in overtaken[t]
    \/ At(t, "check") /\ call[t].op = "check" /\ rows[call[t].sid].state \in TerminalStates

\* The machines that sessions overtaken since call t read them now have.
Elsewhere(t) ==
    {rows[s].instance : s \in {i \in overtaken[t] : rows[i].state \notin TerminalStates}}

\* The machines a step of call t takes without knowing whose they are now.
Misjudged(t) ==
    {m \in vms \ vms' :
        m \in Elsewhere(t) \/ (At(t, "destroy") /\ call[t].sid \in overtaken[t])}
    \union
    {m \in {call[t].row.instance} :
        Careless(t) \/ (At(t, "claimed") /\ m \in Elsewhere(t))}

Remember(t) ==
    /\ overtaken' = [d \in Calls |->
            (overtaken[d] \union IF d = t THEN {} ELSE Changed(t)) \intersect Knows(call'[d])]
    /\ crossed'  = crossed \union (IF Careless(t) THEN {call[t].sid} ELSE {})
    /\ doubtful' = doubtful \union (Misjudged(t) \ {NoInstance})

\* A call that is gone has read nothing.
Forget ==
    /\ overtaken' = [d \in Calls |-> overtaken[d] \intersect Knows(call'[d])]
    /\ UNCHANGED <<crossed, doubtful>>

-----------------------------------------------------------------------------
Next ==
    \/ \E t \in Calls : Starts(t) /\ Remember(t)
    \/ \E t \in Calls : Steps(t) /\ Remember(t)
    \/ \E t \in Calls : CliCrash(t) /\ Forget
    \/ WebCrash /\ Forget
    \/ Tick /\ UNCHANGED history

Spec == Init /\ [][Next]_vars

(***************************************************************************)
(* Fairness: a call under way gets its answers or its timeouts, sweeps are *)
(* scheduled again and again, and time passes.  Nothing makes a student    *)
(* call, and nothing crashes for certain.                                  *)
(***************************************************************************)
FairSpec ==
    /\ Spec
    /\ WF_vars(Tick /\ UNCHANGED history)
    /\ \A t \in Calls : WF_vars(Steps(t) /\ Remember(t))

-----------------------------------------------------------------------------
(***************************************************************************)
(* Properties                                                              *)
(***************************************************************************)

(***************************************************************************)
(* "One lock per session, so two callers cannot provision the same session *)
(* twice": of the callers in the server process at most one is between the *)
(* re-read and the last save of provision.                                 *)
(***************************************************************************)
ProvisionPcs == {"allocate", "claim", "listed", "claimed", "clone", "cloned", "await", "finish"}
Provisioning(t) == call[t].op = "start" /\ call[t].pc \in ProvisionPcs

OneBuilderPerProcess ==
    \A t, d \in WebCalls :
        t # d /\ Provisioning(t) /\ Provisioning(d) => call[t].sid # call[d].sid

(***************************************************************************)
(* pool.max_total bounds the pool machines of all scenarios together, and  *)
(* the refill brings no pool over its target, whatever claims, drains and  *)
(* destructions happen around one prewarming process.                      *)
(***************************************************************************)
PoolsWithinBounds ==
    /\ PoolTotal <= PoolCeiling
    /\ \A sc \in Scenarios : Cardinality(PoolInstances(sc)) <= PoolTarget

(***************************************************************************)
(* Two sessions that are not over never have one machine between them,     *)
(* however builds, claims, ends, drains and edits overlap.  The exception  *)
(* is a machine once taken on a reading that was overtaken: two builds     *)
(* that list the claims before either has saved its own.                   *)
(***************************************************************************)
ExclusiveMachine ==
    \A r, s \in Sids :
        /\ r # s
        /\ rows[r].state \notin TerminalStates /\ rows[s].state \notin TerminalStates
        /\ rows[r].instance \notin doubtful \union {NoInstance}
        => rows[r].instance # rows[s].instance

(***************************************************************************)
(* A session the table calls ready has its machine on the hypervisor, with *)
(* the same exception: a drain that listed the claims before this one, an  *)
(* end that comes back to a machine the session has got again since.       *)
(***************************************************************************)
ReadyHasMachine ==
    \A s \in Sids :
        rows[s].state = "ready" /\ rows[s].instance \notin doubtful => rows[s].instance \in vms

(***************************************************************************)
(* A session that reached destroyed or error stays there, unless a call    *)
(* writes over it what it read before, or checks it.  A build re-reads the *)
(* row under the session's lock, and sees that the session is over.        *)
(***************************************************************************)
TerminalIsFinal ==
    [][\A s \in Sids \ crossed' :
        rows[s].state \in TerminalStates => rows'[s].state \in TerminalStates]_rows

(***************************************************************************)
(* One submission, one result: the guard on completedAt.  Two submissions  *)
(* that both read the session before either has marked it are the          *)
(* exception, and so is one whose mark was written over.                   *)
(***************************************************************************)
OneResult == \A s \in Sids \ crossed : results[s] <= 1

(***************************************************************************)
(* The second half of reap: a session that a crash left half built ends up *)
(* somewhere else, as does one whose build goes on for too long.           *)
(***************************************************************************)
HalfBuilt(s) == rows[s].state \in {"allocating", "provisioning"}

LeavesBuilding ==
    \A s \in Sids : HalfBuilt(s) /\ rows[s].created < MaxClock ~> ~HalfBuilt(s)

(***************************************************************************)
(* The first half: a session whose time is up is recycled, unless it is    *)
(* given more time, a grading run that a crash cut short included.         *)
(***************************************************************************)
ExpiredIsRecycled ==
    \A s \in Sids :
        rows[s].state \in Watched /\ clock > rows[s].expires
            ~> rows[s].state \notin Watched \/ clock <= rows[s].expires
=============================================================================
